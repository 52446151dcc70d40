---------------------------- MODULE GeofinderProofs ----------------------------
(* Lemmas about Geofinder, for any admins, with what they need about recursive *)
(* functions and folds: induction is over the sets on which a statement holds. *)
EXTENDS Geofinder, FiniteSetTheorems, WellFoundedInduction, TLAPS

-------------------------------------------------------------------------------
\* Among some numbers there is a least one.
LEMMA LeastNat ==
    ASSUME NEW T \in SUBSET Nat, T # {}
    PROVE  \E m \in T : \A k \in T : m <= k
<1>1. PICK m \in T : \A k \in T : <<k, m>> \notin OpToRel(<, Nat)
  BY NatLessThanWellFounded, WFMin, Zenon
<1>2. ASSUME NEW k \in T, ~ (m <= k) PROVE FALSE
  <2>1. <<k, m>> \in Nat \X Nat /\ <<k, m>>[1] < <<k, m>>[2]
    BY <1>2
  <2>2. <<k, m>> \in OpToRel(<, Nat)
    BY <2>1 DEF OpToRel
  <2> QED
    BY <1>1, <2>2
<1> QED
  BY <1>2

\* Induction on the numbers up to some n.
LEMMA UpTo ==
    ASSUME NEW n \in Nat, NEW S, 0 \in S, \A i \in 0..n : i < n /\ i \in S => i + 1 \in S
    PROVE  \A i \in 0..n : i \in S
<1> DEFINE T == {i \in 0..n : i \notin S}
<1> SUFFICES ASSUME T # {} PROVE FALSE
  OBVIOUS
<1>1. PICK m \in T : \A k \in T : m <= k
  <2>1. T \in SUBSET Nat
    OBVIOUS
  <2> HIDE DEF T
  <2> QED
    BY <2>1, LeastNat
<1>2. m \in Nat /\ m # 0 /\ m - 1 \in 0..n /\ m - 1 < n
  OBVIOUS
<1>3. m - 1 \notin T
  BY <1>1, <1>2
<1>4. m - 1 + 1 = m /\ m \notin S
  BY <1>2
<1> QED
  BY <1>2, <1>3, <1>4

\* Of some parts of a finite set, one holds no other.
LEMMA Least ==
    ASSUME NEW D, IsFiniteSet(D), NEW T \in SUBSET (SUBSET D), T # {}
    PROVE  \E W \in T : \A X \in T : X \subseteq W => X = W
<1>1. FiniteSubsetsOf(D) = SUBSET D
  BY FS_FiniteSubsetsOfFinite, Zenon
<1>2. IsWellFoundedOn(StrictSubsetOrdering(D), SUBSET D)
  BY <1>1, FS_StrictSubsetOrderingWellFounded, Zenon
<1>3. T \subseteq SUBSET D
  OBVIOUS
<1>4. \E W \in T : \A X \in T : ~ <<X, W>> \in StrictSubsetOrdering(D)
  BY <1>2, <1>3, WFMin, Zenon
<1> QED
  BY <1>3, <1>4 DEF StrictSubsetOrdering

\* A finite set can be listed so that a relation only goes forwards, when each part
\* of it has an element that the relation leads nowhere from.
LEMMA Sortable ==
    ASSUME NEW D, IsFiniteSet(D), NEW R,
           \A X \in SUBSET D : X # {} => \E m \in X : \A x \in X : <<m, x>> \notin R
    PROVE  \E s \in SetToSeqs(D) : \A i, j \in 1..Cardinality(D) : <<s[i], s[j]>> \in R => i < j
<1> DEFINE Forwards(W, s) == \A i, j \in 1..Cardinality(W) : <<s[i], s[j]>> \in R => i < j
           T == {W \in SUBSET D : \A s \in SetToSeqs(W) : ~ Forwards(W, s)}
<1> SUFFICES ASSUME T # {} PROVE FALSE
  OBVIOUS
<1>1. PICK W \in T : \A X \in T : X \subseteq W => X = W
  <2>1. T \in SUBSET (SUBSET D)
    OBVIOUS
  <2> HIDE DEF T
  <2> QED
    BY <2>1, Least
<1>2. W # {}
  <2>1. Cardinality({}) = 0 /\ 1..0 = {}
    BY FS_EmptySet
  <2>2. [k \in {} |-> 0] \in SetToSeqs({}) /\ Forwards({}, [k \in {} |-> 0])
    BY <2>1 DEF SetToSeqs
  <2> QED
    BY <2>2
<1>3. PICK m \in W : \A x \in W : <<m, x>> \notin R
  BY <1>2
<1> DEFINE V == W \ {m}
           n == Cardinality(V)
<1>4. IsFiniteSet(V) /\ n \in Nat /\ Cardinality(W) = n + 1
  <2>1. IsFiniteSet(W)
    BY FS_Subset
  <2>2. Cardinality(W) \in Nat /\ IsFiniteSet(V) /\ Cardinality(V) = Cardinality(W) - 1 /\ Cardinality(V) \in Nat
    BY <1>3, <2>1, FS_RemoveElement, FS_CardinalityType
  <2> QED
    BY <2>2
<1>5. PICK s \in SetToSeqs(V) : Forwards(V, s)
  <2>1. V \notin T
    BY <1>1
  <2> QED
    BY <2>1
<1> DEFINE t == [k \in 1..(n + 1) |-> IF k = n + 1 THEN m ELSE s[k]]
<1>6. s \in [1..n -> V] /\ \A i, j \in 1..n : i # j => s[i] # s[j]
  BY <1>5 DEF SetToSeqs
<1>7. \A i, j \in 1..n : <<s[i], s[j]>> \in R => i < j
  BY <1>5
<1> HIDE DEF n
<1>8. \A k \in 1..(n + 1) : k \in 1..n \/ k = n + 1
  BY <1>4
<1>9. t \in SetToSeqs(W)
  <2>1. t \in [1..(n + 1) -> W]
    BY <1>6, <1>8
  <2>2. \A i, j \in 1..(n + 1) : i # j => t[i] # t[j]
    BY <1>6, <1>8
  <2> QED
    BY <1>4, <2>1, <2>2 DEF SetToSeqs
<1>10. Forwards(W, t)
  <2>1. ASSUME NEW i \in 1..(n + 1), NEW j \in 1..(n + 1), <<t[i], t[j]>> \in R PROVE i < j
    <3>1. i # n + 1
      BY <1>3, <1>6, <1>8, <2>1
    <3>2. i \in 1..n
      BY <1>8, <3>1
    <3>3. CASE j = n + 1
      BY <1>4, <3>2, <3>3
    <3>4. CASE j # n + 1
      <4>1. j \in 1..n
        BY <1>8, <3>4
      <4> QED
        BY <1>4, <1>7, <2>1, <3>1, <3>2, <3>4, <4>1
    <3> QED
      BY <3>3, <3>4
  <2> QED
    BY <1>4, <2>1
<1> QED
  BY <1>9, <1>10

\* The recursive definition over D of g[d] from g[prev[d]], or from start[d] out of
\* P: every set of elements has one whose predecessor is not in the set.
Recursive(D, P, prev, V, start, F) ==
    /\ IsFiniteSet(D) /\ P \subseteq D /\ \A d \in P : prev[d] \in D
    /\ \A X \in SUBSET D : X # {} => \E d \in X : d \in P => prev[d] \notin X
    /\ start \in [D -> V] /\ F \in [D \X V -> V]

Solution(D, P, prev, start, F, g) ==
    \A d \in D : g[d] = IF d \in P THEN F[d, g[prev[d]]] ELSE start[d]

\* It has a solution.
LEMMA Recursion ==
    ASSUME NEW D, NEW P, NEW prev, NEW V, NEW start, NEW F, Recursive(D, P, prev, V, start, F)
    PROVE  \E g \in [D -> V] : Solution(D, P, prev, start, F, g)
<1> DEFINE Solves(g, U) ==
               \A d \in U : g[d] = IF d \in P THEN F[d, g[prev[d]]] ELSE start[d]
           Closed(U) == \A d \in U : d \in P => prev[d] \in U
           Todo == {W \in SUBSET D : Closed(D \ W) /\ \E g \in [D \ W -> V] : Solves(g, D \ W)}
<1>0. /\ IsFiniteSet(D) /\ P \subseteq D /\ \A d \in P : prev[d] \in D
      /\ \A X \in SUBSET D : X # {} => \E d \in X : d \in P => prev[d] \notin X
      /\ start \in [D -> V] /\ F \in [D \X V -> V]
  BY DEF Recursive
<1>1. D \in Todo
  <2>1. D \ D = {}
    OBVIOUS
  <2>2. [d \in {} |-> start[d]] \in [{} -> V] /\ Solves([d \in {} |-> start[d]], {})
    OBVIOUS
  <2> QED
    BY <2>1, <2>2
<1>2. PICK W \in Todo : \A X \in Todo : X \subseteq W => X = W
  <2>1. Todo \in SUBSET (SUBSET D) /\ Todo # {}
    BY <1>1
  <2> HIDE DEF Todo
  <2> QED
    BY <1>0, <2>1, Least
<1>3. PICK g \in [D \ W -> V] : Solves(g, D \ W)
  OBVIOUS
<1>4. W \in SUBSET D /\ Closed(D \ W)
  OBVIOUS
<1>5. CASE W = {}
  <2>1. D \ W = D
    BY <1>5
  <2> QED
    BY <1>3, <2>1 DEF Solution
<1>6. CASE W # {}
  <2>1. PICK d \in W : d \in P => prev[d] \notin W
    BY <1>0, <1>4, <1>6
  <2> DEFINE value == IF d \in P THEN F[d, g[prev[d]]] ELSE start[d]
             X == W \ {d}
             h == [e \in D \ X |-> IF e = d THEN value ELSE g[e]]
  <2>2. D \ X = (D \ W) \cup {d} /\ d \in D /\ d \notin D \ W
    BY <1>4
  <2>3. d \in P => prev[d] \in D \ W
    BY <1>0, <2>1
  <2>4. value \in V
    BY <1>0, <2>2, <2>3
  <2> HIDE DEF value
  <2>5. h \in [D \ X -> V]
    BY <2>2, <2>4
  <2>6. Closed(D \ X)
    BY <1>4, <2>2, <2>3
  <2>7. h[d] = value /\ \A e \in D \ W : h[e] = g[e]
    BY <2>2
  <2>8. Solves(h, D \ X)
    <3>1. h[d] = IF d \in P THEN F[d, h[prev[d]]] ELSE start[d]
      BY <2>3, <2>7 DEF value
    <3>2. ASSUME NEW e \in D \ W PROVE h[e] = IF e \in P THEN F[e, h[prev[e]]] ELSE start[e]
      <4>1. e \in P => prev[e] \in D \ W
        BY <1>4
      <4> QED
        BY <4>1, <2>7, <1>3
    <3> QED
      BY <3>1, <3>2, <2>2
  <2>9. X \in Todo
    BY <1>4, <2>5, <2>6, <2>8
  <2>10. X \subseteq W /\ X # W
    OBVIOUS
  <2> QED
    BY <1>2, <2>9, <2>10
<1> QED
  BY <1>5, <1>6 DEF Solution
-------------------------------------------------------------------------------
\* What the inputs say of the admins of a geofinder.
Hierarchical(admins) ==
    /\ IsFiniteSet(admins)
    /\ \A a \in admins : a.zone_type \in Nat
    /\ \A a, b \in admins : a.id = b.id => a = b
    /\ \A a, b \in admins : b.id \in a.parent_id => a.zone_type < b.zone_type

\* Among some admins, one has a type that none exceeds.
LEMMA Highest ==
    ASSUME NEW admins, Hierarchical(admins), NEW X \in SUBSET admins, X # {}
    PROVE  \E a \in X : \A b \in X : b.zone_type <= a.zone_type
<1> DEFINE Above(a) == {b \in X : a.zone_type < b.zone_type}
           T == {Above(a) : a \in X}
<1>1. T \in SUBSET (SUBSET X) /\ T # {} /\ IsFiniteSet(X)
  <2>1. IsFiniteSet(X)
    BY FS_Subset DEF Hierarchical
  <2> QED
    BY <2>1
<1>2. PICK W \in T : \A Y \in T : Y \subseteq W => Y = W
  <2> HIDE DEF T
  <2> QED
    BY <1>1, Least
<1>3. PICK a \in X : W = Above(a)
  OBVIOUS
<1>4. ASSUME NEW b \in X, ~ (b.zone_type <= a.zone_type) PROVE FALSE
  <2>1. \A c \in X : c.zone_type \in Nat
    BY DEF Hierarchical
  <2>2. b \in Above(a) /\ b \notin Above(b) /\ Above(b) \subseteq Above(a)
    BY <1>4, <2>1
  <2> QED
    BY <1>2, <1>3, <2>2
<1> QED
  BY <1>4

\* A hierarchy starts with an admin, and goes on with that of its parent.
LEMMA Upwards ==
    ASSUME NEW admins, Hierarchical(admins), NEW a \in admins
    PROVE  hierarchy(admins, a) =
               IF parent(admins, a) = {} THEN <<a>>
               ELSE <<a>> \o hierarchy(admins, CHOOSE p \in parent(admins, a) : TRUE)
<1> DEFINE P == {b \in admins : parent(admins, b) # {}}
           prev == [b \in P |-> CHOOSE p \in parent(admins, b) : TRUE]
           V == Seq(admins)
           start == [b \in admins |-> <<b>>]
           F == [x \in admins \X V |-> <<x[1]>> \o x[2]]
           Solves(g) == g = [b \in admins |->
                                IF parent(admins, b) = {} THEN <<b>>
                                ELSE <<b>> \o g[CHOOSE p \in parent(admins, b) : TRUE]]
           up == CHOOSE g : Solves(g)
<1>1. \A b \in P : prev[b] \in parent(admins, b)
  OBVIOUS
<1>2. \A b \in P : prev[b] \in admins /\ b.zone_type < prev[b].zone_type
  BY <1>1 DEF parent, Hierarchical
<1>3. \A X \in SUBSET admins : X # {} => \E d \in X : d \in P => prev[d] \notin X
  <2>1. ASSUME NEW X \in SUBSET admins, X # {} PROVE \E d \in X : d \in P => prev[d] \notin X
    <3>1. PICK d \in X : \A b \in X : b.zone_type <= d.zone_type
      BY <2>1, Highest
    <3>2. d.zone_type \in Nat /\ \A b \in X : b.zone_type \in Nat
      BY DEF Hierarchical
    <3>3. ASSUME d \in P, prev[d] \in X PROVE FALSE
      <4>1. d.zone_type < prev[d].zone_type /\ prev[d].zone_type <= d.zone_type
        BY <1>2, <3>1, <3>3
      <4>2. prev[d].zone_type \in Nat
        BY <3>2, <3>3
      <4> QED
        BY <3>2, <4>1, <4>2
    <3> QED
      BY <3>1, <3>3
  <2> HIDE DEF P, prev
  <2> QED
    BY <2>1
<1>4. start \in [admins -> V] /\ F \in [admins \X V -> V] /\ P \in SUBSET admins
  OBVIOUS
<1>5. IsFiniteSet(admins)
  BY DEF Hierarchical
<1>6. PICK g \in [admins -> V] : Solution(admins, P, prev, start, F, g)
  <2>1. Recursive(admins, P, prev, V, start, F)
    BY <1>2, <1>3, <1>4, <1>5 DEF Recursive
  <2> HIDE DEF P, prev, V, start, F
  <2> QED
    BY <2>1, Recursion
<1>7. Solves(g)
  <2>1. ASSUME NEW d \in admins
        PROVE  g[d] = IF parent(admins, d) = {} THEN <<d>>
                      ELSE <<d>> \o g[CHOOSE p \in parent(admins, d) : TRUE]
    <3>1. CASE d \in P
      <4>1. prev[d] \in admins /\ g[prev[d]] \in V
        BY <1>2, <1>6, <3>1
      <4>2. F[d, g[prev[d]]] = <<d>> \o g[prev[d]]
        <5>1. \A b \in admins, v \in V : F[b, v] = <<b>> \o v
          OBVIOUS
        <5> QED
          BY <5>1, <4>1
      <4>3. prev[d] = CHOOSE p \in parent(admins, d) : TRUE
        BY <3>1
      <4> QED
        BY <1>6, <3>1, <4>2, <4>3 DEF Solution
    <3>2. CASE d \notin P
      BY <1>6, <3>2 DEF Solution
    <3> QED
      BY <3>1, <3>2
  <2> QED
    BY <2>1, <1>6
<1>8. Solves(up)
  <2> HIDE DEF Solves
  <2> QED
    BY <1>7
<1>9. \A b \in admins : hierarchy(admins, b) = up[b]
  BY DEF hierarchy
<1>10. parent(admins, a) # {} => (CHOOSE p \in parent(admins, a) : TRUE) \in admins
  BY DEF parent
<1> QED
  BY <1>8, <1>9, <1>10

\* Its members are admins.
LEMMA HierarchyType ==
    ASSUME NEW admins, Hierarchical(admins)
    PROVE  \A a \in admins : hierarchy(admins, a) \in Seq(admins)
<1> DEFINE X == {a \in admins : hierarchy(admins, a) \notin Seq(admins)}
<1> SUFFICES ASSUME X # {} PROVE FALSE
  OBVIOUS
<1>1. PICK a \in X : \A b \in X : b.zone_type <= a.zone_type
  <2>1. X \in SUBSET admins
    OBVIOUS
  <2> HIDE DEF X
  <2> QED
    BY <2>1, Highest
<1>2. CASE parent(admins, a) = {}
  <2>1. hierarchy(admins, a) = <<a>>
    BY <1>2, Upwards
  <2>2. <<a>> \in Seq(admins)
    OBVIOUS
  <2> QED
    BY <2>1, <2>2
<1>3. CASE parent(admins, a) # {}
  <2>1. PICK p \in parent(admins, a) : hierarchy(admins, a) = <<a>> \o hierarchy(admins, p)
    BY <1>3, Upwards
  <2>2. p \in admins /\ a.zone_type < p.zone_type /\ a.zone_type \in Nat /\ p.zone_type \in Nat
    BY DEF parent, Hierarchical
  <2>3. p \notin X
    BY <1>1, <2>2
  <2>4. hierarchy(admins, p) \in Seq(admins)
    BY <2>2, <2>3
  <2>5. <<a>> \o hierarchy(admins, p) \in Seq(admins)
    BY <2>4
  <2> QED
    BY <2>1, <2>5
<1> QED
  BY <1>2, <1>3

\* An admin, then its parents, which are those of its parent.
LEMMA Hierarchy ==
    ASSUME NEW admins, Hierarchical(admins), NEW a \in admins
    PROVE  /\ hierarchy(admins, a) \in Seq(admins) /\ Len(hierarchy(admins, a)) > 0
           /\ hierarchy(admins, a)[1] = a
           /\ ToSet(hierarchy(admins, a)) = {a} \cup parents(admins, a)
           /\ \/ parents(admins, a) = {} /\ parent(admins, a) = {}
              \/ \E p \in parent(admins, a) : parents(admins, a) = {p} \cup parents(admins, p)
<1>1. \A b \in admins : hierarchy(admins, b) \in Seq(admins)
  BY HierarchyType
<1>2. ASSUME NEW b \in admins
      PROVE  /\ Len(hierarchy(admins, b)) > 0 /\ hierarchy(admins, b)[1] = b
             /\ \/ parent(admins, b) = {} /\ Tail(hierarchy(admins, b)) = <<>>
                \/ \E p \in parent(admins, b) : Tail(hierarchy(admins, b)) = hierarchy(admins, p)
  <2>1. CASE parent(admins, b) = {}
    <3>1. hierarchy(admins, b) = <<b>>
      BY <2>1, Upwards
    <3>2. Len(<<b>>) = 1 /\ <<b>>[1] = b /\ Tail(<<b>>) = <<>>
      OBVIOUS
    <3> QED
      BY <2>1, <3>1, <3>2
  <2>2. CASE parent(admins, b) # {}
    <3>1. PICK p \in parent(admins, b) : hierarchy(admins, b) = <<b>> \o hierarchy(admins, p)
      BY <2>2, Upwards
    <3>2. hierarchy(admins, p) \in Seq(admins)
      BY <1>1 DEF parent
    <3>3. /\ Len(<<b>> \o hierarchy(admins, p)) > 0 /\ (<<b>> \o hierarchy(admins, p))[1] = b
          /\ Tail(<<b>> \o hierarchy(admins, p)) = hierarchy(admins, p)
      BY <3>2
    <3> QED
      BY <3>1, <3>3
  <2> QED
    BY <2>1, <2>2
<1>3. ASSUME NEW b \in admins PROVE ToSet(hierarchy(admins, b)) = {b} \cup ToSet(Tail(hierarchy(admins, b)))
  <2> DEFINE s == hierarchy(admins, b)
  <2>1. s \in Seq(admins) /\ Len(s) > 0 /\ s[1] = b
    BY <1>1, <1>2
  <2> HIDE DEF s
  <2>2. \A i \in DOMAIN s : i = 1 \/ (i - 1 \in DOMAIN Tail(s) /\ Tail(s)[i - 1] = s[i])
    BY <2>1
  <2>3. \A i \in DOMAIN Tail(s) : i + 1 \in DOMAIN s /\ Tail(s)[i] = s[i + 1]
    BY <2>1
  <2>4. ToSet(s) = {b} \cup ToSet(Tail(s))
    <3>1. ToSet(s) \subseteq {b} \cup ToSet(Tail(s))
      BY <2>1, <2>2 DEF ToSet
    <3>2. 1 \in DOMAIN s
      BY <2>1
    <3>3. ToSet(Tail(s)) \subseteq ToSet(s)
      BY <2>3 DEF ToSet
    <3> QED
      BY <2>1, <3>1, <3>2, <3>3 DEF ToSet
  <2> QED
    BY <2>4 DEF s
<1>4. CASE parent(admins, a) = {} /\ Tail(hierarchy(admins, a)) = <<>>
  <2>1. parents(admins, a) = {}
    BY <1>4 DEF parents, ToSet
  <2> QED
    BY <1>1, <1>2, <1>3, <1>4, <2>1 DEF parents
<1>5. ASSUME NEW p \in parent(admins, a), Tail(hierarchy(admins, a)) = hierarchy(admins, p)
      PROVE  parents(admins, a) = {p} \cup parents(admins, p)
  <2>1. p \in admins
    BY DEF parent
  <2> QED
    BY <1>3, <1>5, <2>1 DEF parents
<1> QED
  BY <1>1, <1>2, <1>3, <1>4, <1>5 DEF parents

\* Parents are of a greater type, and have their parents among the same.
LEMMA Ancestors ==
    ASSUME NEW admins, Hierarchical(admins)
    PROVE  \A a \in admins : \A b \in parents(admins, a) :
               b \in admins /\ a.zone_type < b.zone_type /\ parents(admins, b) \subseteq parents(admins, a)
<1> DEFINE Good(a) == \A b \in parents(admins, a) :
               b \in admins /\ a.zone_type < b.zone_type /\ parents(admins, b) \subseteq parents(admins, a)
           X == {a \in admins : ~ Good(a)}
<1> SUFFICES ASSUME X # {} PROVE FALSE
  OBVIOUS
<1>1. PICK a \in X : \A b \in X : b.zone_type <= a.zone_type
  <2>1. X \in SUBSET admins
    OBVIOUS
  <2> HIDE DEF X
  <2> QED
    BY <2>1, Highest
<1>2. PICK p \in parent(admins, a) : parents(admins, a) = {p} \cup parents(admins, p)
  <2>1. parents(admins, a) # {}
    OBVIOUS
  <2> QED
    BY <2>1, Hierarchy
<1>3. p \in admins /\ a.zone_type < p.zone_type /\ a.zone_type \in Nat /\ p.zone_type \in Nat
  BY DEF parent, Hierarchical
<1>4. Good(p)
  BY <1>1, <1>3
<1>5. ASSUME NEW b \in parents(admins, a)
      PROVE  b \in admins /\ a.zone_type < b.zone_type /\ parents(admins, b) \subseteq parents(admins, a)
  <2>1. CASE b = p
    BY <1>2, <1>3, <2>1
  <2>2. CASE b \in parents(admins, p)
    <3>1. b \in admins /\ p.zone_type < b.zone_type /\ parents(admins, b) \subseteq parents(admins, p)
      BY <1>4, <2>2
    <3>2. b.zone_type \in Nat
      BY <3>1 DEF Hierarchical
    <3> QED
      BY <1>2, <1>3, <3>1, <3>2
  <2> QED
    BY <1>2, <2>1, <2>2
<1> QED
  BY <1>5
-------------------------------------------------------------------------------

\* A branch goes on to a parent as long as there is one.
LEMMA Chain ==
    ASSUME NEW admins, Hierarchical(admins)
    PROVE  \A a \in admins :
               /\ \A k \in 1..(Len(hierarchy(admins, a)) - 1) :
                     hierarchy(admins, a)[k + 1] \in parent(admins, hierarchy(admins, a)[k])
               /\ parent(admins, hierarchy(admins, a)[Len(hierarchy(admins, a))]) = {}
<1> DEFINE Good(s) == /\ \A k \in 1..(Len(s) - 1) : s[k + 1] \in parent(admins, s[k])
                      /\ parent(admins, s[Len(s)]) = {}
           X == {a \in admins : ~ Good(hierarchy(admins, a))}
<1> SUFFICES ASSUME X # {} PROVE FALSE
  OBVIOUS
<1>1. PICK a \in X : \A b \in X : b.zone_type <= a.zone_type
  <2>1. X \in SUBSET admins
    OBVIOUS
  <2> HIDE DEF X
  <2> QED
    BY <2>1, Highest
<1>2. parent(admins, a) # {}
  <2>1. SUFFICES ASSUME parent(admins, a) = {} PROVE FALSE
    OBVIOUS
  <2>2. hierarchy(admins, a) = <<a>>
    BY <2>1, Upwards
  <2>3. Good(<<a>>)
    BY <2>1
  <2> QED
    BY <2>2, <2>3
<1>3. PICK p \in parent(admins, a) : hierarchy(admins, a) = <<a>> \o hierarchy(admins, p)
  BY <1>2, Upwards
<1> DEFINE h == hierarchy(admins, p)
<1>4. p \in admins /\ ~ (p.zone_type <= a.zone_type)
  BY DEF parent, Hierarchical
<1>5. Good(h)
  BY <1>1, <1>4
<1>6. h \in Seq(admins) /\ Len(h) > 0 /\ h[1] = p
  BY <1>4, Hierarchy
<1> HIDE DEF h
<1>7. Good(<<a>> \o h)
  <2> DEFINE g == <<a>> \o h
  <2>1. Len(g) = Len(h) + 1 /\ g[1] = a /\ Len(h) \in Nat /\ \A k \in 1..Len(h) : g[k + 1] = h[k]
    BY <1>6
  <2>2. g[Len(g)] = h[Len(h)]
    BY <1>6, <2>1
  <2> HIDE DEF g
  <2>3. ASSUME NEW k \in 1..(Len(g) - 1) PROVE g[k + 1] \in parent(admins, g[k])
    <3>1. CASE k = 1
      <4>1. 1 \in 1..Len(h)
        BY <1>6, <2>1
      <4>2. g[k + 1] = p /\ g[k] = a
        BY <1>6, <2>1, <3>1, <4>1
      <4> QED
        BY <4>2
    <3>2. CASE k # 1
      <4>1. k - 1 \in 1..(Len(h) - 1) /\ k \in 1..Len(h) /\ k - 1 \in 1..Len(h) /\ (k - 1) + 1 = k
        BY <2>1, <3>2
      <4>2. h[(k - 1) + 1] \in parent(admins, h[k - 1])
        BY <1>5, <4>1
      <4>3. g[k + 1] = h[k] /\ g[(k - 1) + 1] = h[k - 1]
        BY <2>1, <4>1
      <4> QED
        BY <4>1, <4>2, <4>3
    <3> QED
      BY <3>1, <3>2
  <2> QED
    BY <1>5, <2>2, <2>3 DEF g
<1> QED
  BY <1>3, <1>7 DEF h

\* A fold takes the elements of a sequence one after another.
LEMMA Prefixed ==
    ASSUME NEW i \in Nat
    PROVE  Max(1..(i + 1)) = i + 1 /\ (1..(i + 1)) \ {i + 1} = 1..i
<1>1. i + 1 \in 1..(i + 1) /\ \A y \in 1..(i + 1) : i + 1 >= y
  OBVIOUS
<1>2. Max(1..(i + 1)) \in 1..(i + 1) /\ Max(1..(i + 1)) >= i + 1
  BY <1>1 DEF Max
<1> QED
  BY <1>2

LEMMA MaxIn ==
    ASSUME NEW S, NEW seq \in Seq(S), NEW s \in SUBSET (DOMAIN seq), s # {}
    PROVE  Max(s) \in s
<1>1. s \subseteq 1..Len(seq) /\ Len(seq) \in Nat /\ \A i \in s : i \in Nat /\ i <= Len(seq)
  OBVIOUS
<1>2. IsFiniteSet(s)
  <2>1. IsFiniteSet(1..Len(seq))
    BY <1>1, FS_Interval
  <2> QED
    BY <1>1, <2>1, FS_Subset
<1> DEFINE Above(i) == {j \in s : i < j}
           T == {Above(i) : i \in s}
<1>3. T \in SUBSET (SUBSET s) /\ T # {}
  OBVIOUS
<1>4. PICK W \in T : \A Y \in T : Y \subseteq W => Y = W
  <2> HIDE DEF T
  <2> QED
    BY <1>2, <1>3, Least
<1>5. PICK i \in s : W = Above(i)
  OBVIOUS
<1>6. ASSUME NEW j \in s, ~ (i >= j) PROVE FALSE
  <2>1. j \in Above(i) /\ j \notin Above(j) /\ Above(j) \subseteq Above(i)
    BY <1>1, <1>6
  <2> QED
    BY <1>4, <1>5, <2>1
<1> QED
  BY <1>6 DEF Max

Folded(seq, base, G, g) ==
    \A s \in SUBSET (DOMAIN seq) : g[s] = IF s = {} THEN base ELSE G[g[s \ {Max(s)}], seq[Max(s)]]

LEMMA Foldable ==
    ASSUME NEW S, NEW seq \in Seq(S), NEW V, NEW base \in V, NEW G \in [V \X S -> V]
    PROVE  \E g \in [SUBSET (DOMAIN seq) -> V] : Folded(seq, base, G, g)
<1> DEFINE D == SUBSET (DOMAIN seq)
           P == D \ {{}}
           prev == [s \in P |-> s \ {Max(s)}]
           start == [s \in D |-> base]
           F == [x \in D \X V |-> IF x[1] = {} THEN base ELSE G[x[2], seq[Max(x[1])]]]
<1>1. IsFiniteSet(DOMAIN seq) /\ \A s \in P : Max(s) \in s
  <2>1. DOMAIN seq = 1..Len(seq) /\ Len(seq) \in Nat
    OBVIOUS
  <2>2. IsFiniteSet(DOMAIN seq)
    BY <2>1, FS_Interval
  <2>3. ASSUME NEW s \in P PROVE Max(s) \in s
    BY MaxIn
  <2> QED
    BY <2>2, <2>3
<1>2. \A s \in P : prev[s] \in D /\ prev[s] \subseteq s /\ prev[s] # s
  BY <1>1
<1>3. \A X \in SUBSET D : X # {} => \E s \in X : s \in P => prev[s] \notin X
  <2>1. ASSUME NEW X \in SUBSET D, X # {} PROVE \E s \in X : s \in P => prev[s] \notin X
    <3>1. PICK s \in X : \A Y \in X : Y \subseteq s => Y = s
      BY <1>1, <2>1, Least
    <3> HIDE DEF prev
    <3> QED
      BY <1>2, <3>1
  <2> QED
    BY <2>1
<1>4. start \in [D -> V] /\ F \in [D \X V -> V]
  <2>1. ASSUME NEW s \in D, NEW v \in V PROVE (IF s = {} THEN base ELSE G[v, seq[Max(s)]]) \in V
    <3>1. s # {} => seq[Max(s)] \in S
      BY <1>1
    <3> QED
      BY <3>1
  <2> QED
    BY <2>1
<1>5. IsFiniteSet(D) /\ P \subseteq D
  BY <1>1, FS_SUBSET
<1>6. PICK g \in [D -> V] : Solution(D, P, prev, start, F, g)
  <2>1. Recursive(D, P, prev, V, start, F)
    BY <1>2, <1>3, <1>4, <1>5 DEF Recursive
  <2> HIDE DEF P, prev, start, F, D
  <2> QED
    BY <2>1, Recursion
<1>7. ASSUME NEW s \in D PROVE g[s] = IF s = {} THEN base ELSE G[g[s \ {Max(s)}], seq[Max(s)]]
  <2>1. CASE s = {}
    BY <1>6, <2>1 DEF Solution
  <2>2. CASE s # {}
    <3>1. s \in P /\ prev[s] = s \ {Max(s)} /\ prev[s] \in D /\ g[prev[s]] \in V
      BY <1>2, <2>2
    <3>2. \A v \in V : F[s, v] = G[v, seq[Max(s)]]
      BY <2>2
    <3>3. g[s] = F[s, g[prev[s]]]
      BY <1>6, <3>1 DEF Solution
    <3> QED
      BY <2>2, <3>1, <3>2, <3>3
  <2> QED
    BY <2>1, <2>2
<1> QED
  BY <1>7 DEF Folded

\* What get_admins_if keeps, and a step of it.
Ids(admins) == {a.id : a \in admins}
Visiting(admins) == [visited_ids : SUBSET Ids(admins), res : Seq(Seq(admins))]
Visit(admins, p, acc, a) ==
    IF a.id \notin acc.visited_ids /\ a.at[p] \in {"edge", "inside"}
    THEN [visited_ids |-> acc.visited_ids \cup {b.id : b \in parents(admins, a)},
          res         |-> Append(acc.res, hierarchy(admins, a))]
    ELSE acc

LEMMA Visits ==
    ASSUME NEW admins, Hierarchical(admins), NEW p, NEW order \in Seq(admins)
    PROVE  \E acc \in [0..Len(order) -> Visiting(admins)] :
               /\ acc[0] = [visited_ids |-> {}, res |-> <<>>]
               /\ \A i \in 1..Len(order) : acc[i] = Visit(admins, p, acc[i - 1], order[i])
               /\ get_admins_if(admins, p, order) = acc[Len(order)].res
<1> DEFINE V == Visiting(admins)
           base == [visited_ids |-> {}, res |-> <<>>]
           G == [x \in V \X admins |-> Visit(admins, p, x[1], x[2])]
           D == SUBSET (DOMAIN order)
           Solves(g) == g = [s \in D |->
               IF s = {} THEN base ELSE Visit(admins, p, g[s \ {Max(s)}], order[Max(s)])]
           iter == CHOOSE g : Solves(g)
<1>1. base \in V
  BY DEF Visiting
<1>2. ASSUME NEW acc \in V, NEW a \in admins PROVE Visit(admins, p, acc, a) \in V
  <2>1. hierarchy(admins, a) \in Seq(admins)
    BY HierarchyType
  <2>2. {b.id : b \in parents(admins, a)} \in SUBSET Ids(admins)
    BY Ancestors DEF Ids
  <2> QED
    BY <2>1, <2>2 DEF Visiting, Visit
<1>3. get_admins_if(admins, p, order) = iter[DOMAIN order].res
  BY DEF get_admins_if, FoldLeft, MapThenFoldSet, Visit
<1>4. Solves(iter)
  <2>1. G \in [V \X admins -> V]
    BY <1>2
  <2>2. PICK g \in [SUBSET (DOMAIN order) -> V] : Folded(order, base, G, g)
    <3> HIDE DEF V, base, G
    <3> QED
      BY <1>1, <2>1, Foldable
  <2>3. ASSUME NEW s \in D
        PROVE  g[s] = IF s = {} THEN base ELSE Visit(admins, p, g[s \ {Max(s)}], order[Max(s)])
    <3>1. CASE s # {}
      <4>1. Max(s) \in s
        BY <3>1, MaxIn
      <4>2. order[Max(s)] \in admins /\ g[s \ {Max(s)}] \in V
        BY <4>1
      <4>3. \A v \in V, a \in admins : G[v, a] = Visit(admins, p, v, a)
        OBVIOUS
      <4>4. G[g[s \ {Max(s)}], order[Max(s)]] = Visit(admins, p, g[s \ {Max(s)}], order[Max(s)])
        BY <4>2, <4>3
      <4> QED
        BY <2>2, <3>1, <4>4 DEF Folded
    <3> QED
      BY <2>2, <3>1 DEF Folded
  <2>4. Solves(g)
    BY <2>2, <2>3
  <2> HIDE DEF Solves
  <2> QED
    BY <2>4
<1>5. iter[{}] = base
  BY <1>4
<1>6. ASSUME NEW i \in 1..Len(order) PROVE iter[1..i] = Visit(admins, p, iter[1..(i - 1)], order[i])
  <2>1. i - 1 \in Nat /\ (i - 1) + 1 = i
    OBVIOUS
  <2>2. Max(1..i) = i /\ (1..i) \ {i} = 1..(i - 1)
    BY <2>1, Prefixed
  <2>3. 1..i \in D /\ 1..i # {}
    <3>1. i \in 1..i /\ 1..i \subseteq 1..Len(order) /\ DOMAIN order = 1..Len(order)
      OBVIOUS
    <3> QED
      BY <3>1
  <2>4. iter[1..i] = Visit(admins, p, iter[(1..i) \ {Max(1..i)}], order[Max(1..i)])
    BY <1>4, <2>3
  <2> QED
    BY <2>2, <2>4
<1> HIDE DEF iter
<1> DEFINE Done == {i \in 0..Len(order) : iter[1..i] \in V}
<1>7. \A i \in 0..Len(order) : i \in Done
  <2>1. 0 \in Done
    <3>1. 1..0 = {}
      OBVIOUS
    <3> QED
      BY <1>1, <1>5, <3>1
  <2>2. ASSUME NEW i \in 0..Len(order), i < Len(order), i \in Done PROVE i + 1 \in Done
    <3>1. i + 1 \in 1..Len(order) /\ (i + 1) - 1 = i /\ order[i + 1] \in admins
      BY <2>2
    <3> QED
      BY <1>2, <1>6, <2>2, <3>1
  <2>3. Len(order) \in Nat
    OBVIOUS
  <2> HIDE DEF Done
  <2> QED
    BY <2>1, <2>2, <2>3, UpTo
<1> DEFINE acc == [i \in 0..Len(order) |-> iter[1..i]]
<1>8. acc \in [0..Len(order) -> V] /\ acc[0] = base
  <2>1. 1..0 = {} /\ 0 \in 0..Len(order)
    OBVIOUS
  <2> QED
    BY <1>5, <1>7, <2>1
<1>9. ASSUME NEW i \in 1..Len(order) PROVE acc[i] = Visit(admins, p, acc[i - 1], order[i])
  BY <1>6
<1>10. get_admins_if(admins, p, order) = acc[Len(order)].res
  <2>1. DOMAIN order = 1..Len(order) /\ Len(order) \in 0..Len(order)
    OBVIOUS
  <2> QED
    BY <1>3, <2>1
<1> QED
  BY <1>8, <1>9, <1>10
-------------------------------------------------------------------------------
\* The orders in which a lookup may meet some admins: it meets each, and none
\* before one of a lesser type.
LEMMA Orders ==
    ASSUME NEW admins, Hierarchical(admins), NEW S \in SUBSET admins, NEW order \in sort_by_zone_type(S)
    PROVE  /\ order \in Seq(admins) /\ ToSet(order) = S
           /\ \A i, j \in 1..Len(order) : i <= j => order[i].zone_type <= order[j].zone_type
<1> DEFINE n == Cardinality(S)
<1>1. IsFiniteSet(S) /\ n \in Nat
  <2>1. IsFiniteSet(S)
    BY FS_Subset DEF Hierarchical
  <2> QED
    BY <2>1, FS_CardinalityType
<1>2. /\ order \in [1..n -> S] /\ \A i, j \in 1..n : i # j => order[i] # order[j]
      /\ \A i \in 1..(Len(order) - 1) : order[i].zone_type <= order[i + 1].zone_type
  BY DEF sort_by_zone_type, SetToSeqs
<1>3. order \in Seq(S) /\ Len(order) = n /\ DOMAIN order = 1..n
  BY <1>1, <1>2
<1>4. order \in Seq(admins)
  BY <1>1, <1>2
<1>5. ToSet(order) = S
  <2>1. order \in Injection(1..n, S)
    BY <1>2 DEF Injection, IsInjective
  <2>2. Cardinality(1..n) = n
    BY <1>1, FS_Interval
  <2>3. order \in Surjection(1..n, S)
    BY <2>1, <2>2, <1>1, FS_Injection
  <2> QED
    BY <2>3, <1>2, <1>3 DEF Surjection, ToSet
<1>6. ASSUME NEW i \in 1..n, NEW j \in 1..n, i <= j PROVE order[i].zone_type <= order[j].zone_type
  <2> DEFINE Good == {k \in 0..(n - i) : order[i].zone_type <= order[i + k].zone_type}
  <2>1. n - i \in Nat
    BY <1>1
  <2>2. \A k \in 1..n : order[k].zone_type \in Nat
    BY <1>2 DEF Hierarchical
  <2>3. 0 \in Good
    BY <2>1, <2>2
  <2>4. ASSUME NEW k \in 0..(n - i), k < n - i, k \in Good PROVE k + 1 \in Good
    <3>1. i + k \in 1..n /\ i + (k + 1) \in 1..n /\ i + k \in 1..(Len(order) - 1) /\ (i + k) + 1 = i + (k + 1)
      BY <1>1, <1>3, <2>4
    <3>2. order[i + k].zone_type <= order[i + (k + 1)].zone_type
      BY <1>2, <3>1
    <3>3. order[i].zone_type <= order[i + k].zone_type
      BY <2>4
    <3>4. k + 1 \in 0..(n - i)
      BY <2>1, <2>4
    <3> QED
      BY <2>2, <3>1, <3>2, <3>3, <3>4
  <2>5. \A k \in 0..(n - i) : k \in Good
    <3> HIDE DEF Good, n
    <3> QED
      BY <2>1, <2>3, <2>4, UpTo
  <2>6. j - i \in 0..(n - i) /\ i + (j - i) = j
    BY <1>1, <1>6
  <2>7. j - i \in Good
    BY <2>5, <2>6
  <2> QED
    BY <2>6, <2>7
<1> QED
  BY <1>3, <1>4, <1>5, <1>6

\* A lookup may meet admins in some order.
LEMMA SomeOrder ==
    ASSUME NEW admins, Hierarchical(admins), NEW S \in SUBSET admins
    PROVE  sort_by_zone_type(S) # {}
<1> DEFINE R == {x \in S \X S : x[1].zone_type < x[2].zone_type}
<1>1. IsFiniteSet(S)
  BY FS_Subset DEF Hierarchical
<1>2. \A a \in S : a.zone_type \in Nat
  BY DEF Hierarchical
<1>3. ASSUME NEW X \in SUBSET S, X # {} PROVE \E m \in X : \A x \in X : <<m, x>> \notin R
  <2>1. PICK m \in X : \A x \in X : x.zone_type <= m.zone_type
    BY <1>3, Highest
  <2> QED
    BY <1>2, <2>1
<1>4. PICK s \in SetToSeqs(S) : \A i, j \in 1..Cardinality(S) : <<s[i], s[j]>> \in R => i < j
  <2> HIDE DEF R
  <2> QED
    BY <1>1, <1>3, Sortable
<1>5. Cardinality(S) \in Nat /\ s \in [1..Cardinality(S) -> S]
  BY <1>1, <1>4, FS_CardinalityType DEF SetToSeqs
<1>6. ASSUME NEW i \in 1..(Len(s) - 1) PROVE s[i].zone_type <= s[i + 1].zone_type
  <2>1. Len(s) = Cardinality(S)
    BY <1>5
  <2>2. i \in 1..Cardinality(S) /\ i + 1 \in 1..Cardinality(S) /\ ~ (i + 1 < i)
    BY <1>5, <2>1
  <2>3. s[i] \in S /\ s[i + 1] \in S /\ <<s[i + 1], s[i]>> \notin R
    BY <1>4, <1>5, <2>2
  <2> QED
    BY <1>2, <2>3
<1> QED
  BY <1>4, <1>6 DEF sort_by_zone_type

LEMMA Appended ==
    ASSUME NEW S, NEW seq \in Seq(S), NEW e \in S
    PROVE  ToSet(Append(seq, e)) = ToSet(seq) \cup {e}
<1>1. DOMAIN Append(seq, e) = DOMAIN seq \cup {Len(seq) + 1}
  OBVIOUS
<1>2. Append(seq, e)[Len(seq) + 1] = e /\ \A i \in DOMAIN seq : Append(seq, e)[i] = seq[i]
  OBVIOUS
<1> QED
  BY <1>1, <1>2 DEF ToSet

\* The admins of a set that no other one is below, and their branches.
Above(admins, S) == UNION {parents(admins, a) : a \in S}
Branches(admins, S) == {hierarchy(admins, a) : a \in S \ Above(admins, S)}

\* A lookup has the branches of those met so far, and has marked what is above them.
Met(p, order, i) == {order[j] : j \in {k \in 1..i : order[k].at[p] \in {"edge", "inside"}}}
VisitedSoFar(admins, p, order, acc, i) ==
    /\ acc[i].visited_ids = {b.id : b \in Above(admins, Met(p, order, i))}
    /\ ToSet(acc[i].res) = Branches(admins, Met(p, order, i))

LEMMA Visited ==
    ASSUME NEW admins, Hierarchical(admins), NEW p, NEW order \in Seq(admins),
           \A i, j \in 1..Len(order) : i <= j => order[i].zone_type <= order[j].zone_type,
           NEW acc \in [0..Len(order) -> Visiting(admins)],
           NEW i \in 1..Len(order), VisitedSoFar(admins, p, order, acc, i - 1),
           acc[i] = Visit(admins, p, acc[i - 1], order[i])
    PROVE  VisitedSoFar(admins, p, order, acc, i)
<1> DEFINE a == order[i]
           S == Met(p, order, i - 1)
           T == Met(p, order, i)
           old == acc[i - 1]
<1>1. a \in admins /\ i - 1 \in 0..Len(order) /\ old \in Visiting(admins)
  OBVIOUS
<1>2. S \in SUBSET admins /\ \A c \in S : c.zone_type <= a.zone_type
  <2>1. ASSUME NEW j \in 1..(i - 1) PROVE order[j] \in admins /\ order[j].zone_type <= a.zone_type
    <3>1. j \in 1..Len(order) /\ j <= i
      OBVIOUS
    <3> QED
      BY <3>1
  <2> QED
    BY <2>1 DEF Met
<1>3. T = IF a.at[p] \in {"edge", "inside"} THEN S \cup {a} ELSE S
  <2>1. 1..i = 1..(i - 1) \cup {i}
    OBVIOUS
  <2> QED
    BY <2>1 DEF Met
<1>4. /\ old.visited_ids = {b.id : b \in Above(admins, S)} /\ ToSet(old.res) = Branches(admins, S)
      /\ acc[i] = Visit(admins, p, old, a)
  BY DEF VisitedSoFar
<1> HIDE DEF a, S, T, old
<1>5. Above(admins, S) \in SUBSET admins /\ parents(admins, a) \in SUBSET admins
  BY <1>1, <1>2, Ancestors DEF Above
<1>6. parents(admins, a) \cap S = {} /\ a \notin parents(admins, a)
  <2>1. ASSUME NEW b \in parents(admins, a) PROVE b \notin S /\ b # a
    <3>1. a.zone_type < b.zone_type /\ b \in admins
      BY <1>1, Ancestors
    <3>2. a.zone_type \in Nat /\ b.zone_type \in Nat
      BY <1>1, <3>1 DEF Hierarchical
    <3>3. b \in S => b.zone_type <= a.zone_type
      BY <1>2
    <3> QED
      BY <3>1, <3>2, <3>3
  <2> QED
    BY <2>1
<1>7. a.id \in old.visited_ids <=> a \in Above(admins, S)
  BY <1>1, <1>4, <1>5 DEF Hierarchical
<1>8. CASE a.at[p] \notin {"edge", "inside"}
  <2>1. T = S /\ acc[i] = old
    BY <1>3, <1>4, <1>8 DEF Visit
  <2> QED
    BY <1>4, <2>1 DEF VisitedSoFar, T
<1>9. CASE a.at[p] \in {"edge", "inside"} /\ a \in Above(admins, S)
  <2>1. T = S \cup {a} /\ acc[i] = old
    BY <1>3, <1>4, <1>7, <1>9 DEF Visit
  <2>2. parents(admins, a) \subseteq Above(admins, S)
    <3>1. PICK c \in S : a \in parents(admins, c)
      BY <1>9 DEF Above
    <3>2. parents(admins, a) \subseteq parents(admins, c)
      BY <1>2, <3>1, Ancestors
    <3> QED
      BY <3>2 DEF Above
  <2>3. Above(admins, T) = Above(admins, S)
    BY <2>1, <2>2 DEF Above
  <2>4. T \ Above(admins, T) = S \ Above(admins, S)
    BY <1>9, <2>1, <2>3
  <2>5. Branches(admins, T) = Branches(admins, S)
    BY <2>4 DEF Branches
  <2> QED
    BY <1>4, <2>1, <2>3, <2>5 DEF VisitedSoFar, T
<1>10. CASE a.at[p] \in {"edge", "inside"} /\ a \notin Above(admins, S)
  <2>1. /\ T = S \cup {a}
        /\ acc[i].visited_ids = old.visited_ids \cup {b.id : b \in parents(admins, a)}
        /\ acc[i].res = Append(old.res, hierarchy(admins, a))
    <3>1. T = S \cup {a}
      BY <1>3, <1>10
    <3>2. a.id \notin old.visited_ids
      BY <1>7, <1>10
    <3>3. acc[i] = [visited_ids |-> old.visited_ids \cup {b.id : b \in parents(admins, a)},
                    res         |-> Append(old.res, hierarchy(admins, a))]
      BY <1>4, <1>10, <3>2 DEF Visit
    <3> QED
      BY <3>1, <3>3
  <2>2. Above(admins, T) = Above(admins, S) \cup parents(admins, a)
    BY <2>1 DEF Above
  <2>3. acc[i].visited_ids = {b.id : b \in Above(admins, T)}
    BY <1>4, <2>1, <2>2
  <2>4. T \ Above(admins, T) = (S \ Above(admins, S)) \cup {a}
    BY <1>6, <1>10, <2>1, <2>2
  <2>5. Branches(admins, T) = Branches(admins, S) \cup {hierarchy(admins, a)}
    BY <2>4 DEF Branches
  <2>6. old.res \in Seq(Seq(admins)) /\ hierarchy(admins, a) \in Seq(admins)
    BY <1>1, HierarchyType DEF Visiting
  <2>7. ToSet(Append(old.res, hierarchy(admins, a))) = ToSet(old.res) \cup {hierarchy(admins, a)}
    BY <2>6, Appended
  <2> QED
    BY <1>4, <2>1, <2>3, <2>5, <2>7 DEF VisitedSoFar, T
<1> QED
  BY <1>8, <1>9, <1>10

\* What overlaps a point, as streets see it.
Overlap(admins, p) == {a \in admins : at_most_city(a) /\ a.at[p] \in {"edge", "inside"}}

\* In whatever order admins are met, there is a branch for each that overlaps the
\* point and has none below it that does.
LEMMA Leaves ==
    ASSUME NEW admins, Hierarchical(admins), NEW p, NEW branches \in AdminsIf(admins, p)
    PROVE  branches \in Seq(Seq(admins)) /\ ToSet(branches) = Branches(admins, Overlap(admins, p))
<1> DEFINE C == {a \in candidates(admins, p) : at_most_city(a)}
<1>1. PICK order \in sort_by_zone_type(C) : branches = get_admins_if(admins, p, order)
  BY DEF AdminsIf
<1>2. C \in SUBSET admins
  BY DEF candidates
<1>3. /\ order \in Seq(admins) /\ ToSet(order) = C
      /\ \A i, j \in 1..Len(order) : i <= j => order[i].zone_type <= order[j].zone_type
  <2> HIDE DEF C
  <2> QED
    BY <1>2, Orders
<1>4. PICK acc \in [0..Len(order) -> Visiting(admins)] :
          /\ acc[0] = [visited_ids |-> {}, res |-> <<>>]
          /\ \A i \in 1..Len(order) : acc[i] = Visit(admins, p, acc[i - 1], order[i])
          /\ get_admins_if(admins, p, order) = acc[Len(order)].res
  BY <1>3, Visits
<1> HIDE DEF C
<1> DEFINE Done == {i \in 0..Len(order) : VisitedSoFar(admins, p, order, acc, i)}
<1>5. Len(order) \in Nat /\ DOMAIN order = 1..Len(order)
  BY <1>3
<1>6. 0 \in Done
  <2>1. Met(p, order, 0) = {} /\ Above(admins, {}) = {} /\ Branches(admins, {}) = {}
    BY DEF Met, Above, Branches
  <2>2. acc[0].visited_ids = {} /\ acc[0].res = <<>> /\ ToSet(<<>>) = {}
    BY <1>4 DEF ToSet
  <2>3. VisitedSoFar(admins, p, order, acc, 0)
    BY <2>1, <2>2, Zenon DEF VisitedSoFar
  <2> QED
    BY <1>5, <2>3
<1>7. ASSUME NEW i \in 0..Len(order), i < Len(order), i \in Done PROVE i + 1 \in Done
  <2>1. i + 1 \in 1..Len(order) /\ (i + 1) - 1 = i
    BY <1>5, <1>7
  <2>2. VisitedSoFar(admins, p, order, acc, i)
    BY <1>7
  <2>3. VisitedSoFar(admins, p, order, acc, i + 1)
    BY <1>3, <1>4, <2>1, <2>2, Visited
  <2> QED
    BY <2>1, <2>3
<1>8. VisitedSoFar(admins, p, order, acc, Len(order))
  <2>1. \A i \in 0..Len(order) : i \in Done
    <3> HIDE DEF Done
    <3> QED
      BY <1>5, <1>6, <1>7, UpTo
  <2> QED
    BY <1>5, <2>1
<1>9. Met(p, order, Len(order)) = Overlap(admins, p)
  <2>1. Met(p, order, Len(order)) = {a \in C : a.at[p] \in {"edge", "inside"}}
    BY <1>3, <1>5 DEF Met, ToSet
  <2> QED
    BY <2>1 DEF C, Overlap, candidates
<1>10. branches \in Seq(Seq(admins))
  BY <1>1, <1>4, <1>5 DEF Visiting
<1> QED
  BY <1>1, <1>4, <1>8, <1>9, <1>10 DEF VisitedSoFar
-------------------------------------------------------------------------------
\* What get keeps, and a step of it.
Testing(admins) == [tested_hierarchy : SUBSET Ids(admins), added_zone_types : SUBSET Nat, res : SUBSET admins]
Test(admins, p, acc, a) ==
    IF a.id \in acc.tested_hierarchy THEN [acc EXCEPT !.res = @ \cup {a}]
    ELSE IF a.zone_type # 0 /\ a.zone_type \in acc.added_zone_types THEN acc
    ELSE IF a.at[p] = "inside"
    THEN [tested_hierarchy |-> acc.tested_hierarchy \cup {b.id : b \in parents(admins, a)},
          added_zone_types |-> acc.added_zone_types \cup {b.zone_type : b \in parents(admins, a) \cup {a}},
          res              |-> acc.res \cup {a}]
    ELSE acc

LEMMA Tests ==
    ASSUME NEW admins, Hierarchical(admins), NEW p, NEW order \in Seq(admins)
    PROVE  \E acc \in [0..Len(order) -> Testing(admins)] :
               /\ acc[0] = [tested_hierarchy |-> {}, added_zone_types |-> {}, res |-> {}]
               /\ \A i \in 1..Len(order) : acc[i] = Test(admins, p, acc[i - 1], order[i])
               /\ get(admins, p, order) = acc[Len(order)].res
<1> DEFINE V == Testing(admins)
           base == [tested_hierarchy |-> {}, added_zone_types |-> {}, res |-> {}]
           G == [x \in V \X admins |-> Test(admins, p, x[1], x[2])]
           D == SUBSET (DOMAIN order)
           Solves(g) == g = [s \in D |->
               IF s = {} THEN base ELSE Test(admins, p, g[s \ {Max(s)}], order[Max(s)])]
           iter == CHOOSE g : Solves(g)
<1>1. base \in V
  BY DEF Testing
<1>2. ASSUME NEW acc \in V, NEW a \in admins PROVE Test(admins, p, acc, a) \in V
  <2>1. parents(admins, a) \in SUBSET admins
    BY Ancestors
  <2>2. {b.id : b \in parents(admins, a)} \subseteq Ids(admins) /\ {b.zone_type : b \in parents(admins, a) \cup {a}} \subseteq Nat
    BY <2>1 DEF Hierarchical, Ids
  <2> QED
    BY <2>2 DEF Testing, Test
<1>3. get(admins, p, order) = iter[DOMAIN order].res
  BY DEF get, FoldLeft, MapThenFoldSet, Test
<1>4. Solves(iter)
  <2>1. G \in [V \X admins -> V]
    BY <1>2
  <2>2. PICK g \in [SUBSET (DOMAIN order) -> V] : Folded(order, base, G, g)
    <3> HIDE DEF V, base, G
    <3> QED
      BY <1>1, <2>1, Foldable
  <2>3. ASSUME NEW s \in D
        PROVE  g[s] = IF s = {} THEN base ELSE Test(admins, p, g[s \ {Max(s)}], order[Max(s)])
    <3>1. CASE s # {}
      <4>1. Max(s) \in s
        BY <3>1, MaxIn
      <4>2. order[Max(s)] \in admins /\ g[s \ {Max(s)}] \in V
        BY <4>1
      <4>3. \A v \in V, a \in admins : G[v, a] = Test(admins, p, v, a)
        OBVIOUS
      <4>4. G[g[s \ {Max(s)}], order[Max(s)]] = Test(admins, p, g[s \ {Max(s)}], order[Max(s)])
        BY <4>2, <4>3
      <4> QED
        BY <2>2, <3>1, <4>4 DEF Folded
    <3> QED
      BY <2>2, <3>1 DEF Folded
  <2>4. Solves(g)
    BY <2>2, <2>3
  <2> HIDE DEF Solves
  <2> QED
    BY <2>4
<1>5. iter[{}] = base
  BY <1>4
<1>6. ASSUME NEW i \in 1..Len(order) PROVE iter[1..i] = Test(admins, p, iter[1..(i - 1)], order[i])
  <2>1. i - 1 \in Nat /\ (i - 1) + 1 = i
    OBVIOUS
  <2>2. Max(1..i) = i /\ (1..i) \ {i} = 1..(i - 1)
    BY <2>1, Prefixed
  <2>3. 1..i \in D /\ 1..i # {}
    <3>1. i \in 1..i /\ 1..i \subseteq 1..Len(order) /\ DOMAIN order = 1..Len(order)
      OBVIOUS
    <3> QED
      BY <3>1
  <2>4. iter[1..i] = Test(admins, p, iter[(1..i) \ {Max(1..i)}], order[Max(1..i)])
    BY <1>4, <2>3
  <2> QED
    BY <2>2, <2>4
<1> HIDE DEF iter
<1> DEFINE Done == {i \in 0..Len(order) : iter[1..i] \in V}
<1>7. \A i \in 0..Len(order) : i \in Done
  <2>1. 0 \in Done
    <3>1. 1..0 = {}
      OBVIOUS
    <3> QED
      BY <1>1, <1>5, <3>1
  <2>2. ASSUME NEW i \in 0..Len(order), i < Len(order), i \in Done PROVE i + 1 \in Done
    <3>1. i + 1 \in 1..Len(order) /\ (i + 1) - 1 = i /\ order[i + 1] \in admins
      BY <2>2
    <3> QED
      BY <1>2, <1>6, <2>2, <3>1
  <2>3. Len(order) \in Nat
    OBVIOUS
  <2> HIDE DEF Done
  <2> QED
    BY <2>1, <2>2, <2>3, UpTo
<1> DEFINE acc == [i \in 0..Len(order) |-> iter[1..i]]
<1>8. acc \in [0..Len(order) -> V] /\ acc[0] = base
  <2>1. 1..0 = {} /\ 0 \in 0..Len(order)
    OBVIOUS
  <2> QED
    BY <1>5, <1>7, <2>1
<1>9. ASSUME NEW i \in 1..Len(order) PROVE acc[i] = Test(admins, p, acc[i - 1], order[i])
  BY <1>6
<1>10. get(admins, p, order) = acc[Len(order)].res
  <2>1. DOMAIN order = 1..Len(order) /\ Len(order) \in 0..Len(order)
    OBVIOUS
  <2> QED
    BY <1>3, <2>1
<1> QED
  BY <1>8, <1>9, <1>10

\* A lookup has some admins L that contain the point, and those of the others it met
\* that are above them; the rest does not contain it, or is of a type it has.
Tried(order, i) == {order[j] : j \in 1..i}
TestedWith(admins, p, order, acc, i, L) ==
    /\ \A a \in L : a.at[p] = "inside"
    /\ acc.tested_hierarchy = {b.id : b \in Above(admins, L)}
    /\ acc.added_zone_types = {b.zone_type : b \in Above(admins, L) \cup L}
    /\ acc.res = L \cup (Tried(order, i) \cap Above(admins, L))
    /\ \A a \in Tried(order, i) \ acc.res :
          a.at[p] = "inside" => a.zone_type # 0 /\ a.zone_type \in acc.added_zone_types
TestedSoFar(admins, p, order, acc, i) ==
    \E L \in SUBSET Tried(order, i) : TestedWith(admins, p, order, acc[i], i, L)

LEMMA Tested ==
    ASSUME NEW admins, Hierarchical(admins), NEW p, NEW order \in Seq(admins),
           \A i, j \in 1..Len(order) : i <= j => order[i].zone_type <= order[j].zone_type,
           NEW acc \in [0..Len(order) -> Testing(admins)],
           NEW i \in 1..Len(order), TestedSoFar(admins, p, order, acc, i - 1),
           acc[i] = Test(admins, p, acc[i - 1], order[i])
    PROVE  TestedSoFar(admins, p, order, acc, i)
<1> DEFINE a == order[i]
           S == Tried(order, i - 1)
           T == Tried(order, i)
           old == acc[i - 1]
           new == acc[i]
<1>1. a \in admins /\ i - 1 \in 0..Len(order) /\ old \in Testing(admins)
  OBVIOUS
<1>2. S \in SUBSET admins /\ \A c \in S : c.zone_type <= a.zone_type
  <2>1. ASSUME NEW j \in 1..(i - 1) PROVE order[j] \in admins /\ order[j].zone_type <= a.zone_type
    <3>1. j \in 1..Len(order) /\ j <= i
      OBVIOUS
    <3> QED
      BY <3>1
  <2> QED
    BY <2>1 DEF Tried
<1>3. T = S \cup {a}
  <2>1. 1..i = 1..(i - 1) \cup {i}
    OBVIOUS
  <2> QED
    BY <2>1 DEF Tried
<1>4. PICK L \in SUBSET S : TestedWith(admins, p, order, old, i - 1, L)
  BY DEF TestedSoFar
<1>5. /\ \A c \in L : c.at[p] = "inside"
      /\ old.tested_hierarchy = {b.id : b \in Above(admins, L)}
      /\ old.added_zone_types = {b.zone_type : b \in Above(admins, L) \cup L}
      /\ old.res = L \cup (S \cap Above(admins, L))
      /\ \A c \in S \ old.res : c.at[p] = "inside" => c.zone_type # 0 /\ c.zone_type \in old.added_zone_types
  BY <1>4 DEF TestedWith
<1>6. new = Test(admins, p, old, a)
  OBVIOUS
<1>7. \A M \in SUBSET T : TestedWith(admins, p, order, new, i, M) => TestedSoFar(admins, p, order, acc, i)
  BY DEF TestedSoFar
<1>8. \A M :
        /\ \A c \in M : c.at[p] = "inside"
        /\ new.tested_hierarchy = {b.id : b \in Above(admins, M)}
        /\ new.added_zone_types = {b.zone_type : b \in Above(admins, M) \cup M}
        /\ new.res = M \cup (T \cap Above(admins, M))
        /\ \A c \in T \ new.res : c.at[p] = "inside" => c.zone_type # 0 /\ c.zone_type \in new.added_zone_types
        => TestedWith(admins, p, order, new, i, M)
  BY DEF TestedWith
<1> HIDE DEF a, S, T, old, new
<1>9. Above(admins, L) \in SUBSET admins /\ parents(admins, a) \in SUBSET admins
  BY <1>1, <1>2, Ancestors DEF Above
<1>10. parents(admins, a) \cap S = {} /\ a \notin parents(admins, a)
  <2>1. ASSUME NEW b \in parents(admins, a) PROVE b \notin S /\ b # a
    <3>1. a.zone_type < b.zone_type /\ b \in admins
      BY <1>1, Ancestors
    <3>2. a.zone_type \in Nat /\ b.zone_type \in Nat
      BY <1>1, <3>1 DEF Hierarchical
    <3>3. b \in S => b.zone_type <= a.zone_type
      BY <1>2
    <3> QED
      BY <3>1, <3>2, <3>3
  <2> QED
    BY <2>1
<1>11. a.id \in old.tested_hierarchy <=> a \in Above(admins, L)
  BY <1>1, <1>5, <1>9 DEF Hierarchical
<1>12. CASE a \in Above(admins, L)
  <2>1. new = [old EXCEPT !.res = @ \cup {a}]
    BY <1>6, <1>11, <1>12 DEF Test
  <2>2. /\ new.tested_hierarchy = old.tested_hierarchy /\ new.added_zone_types = old.added_zone_types
        /\ new.res = old.res \cup {a}
    BY <1>1, <2>1 DEF Testing
  <2>3. new.res = L \cup (T \cap Above(admins, L))
    BY <1>3, <1>5, <1>12, <2>2
  <2>4. \A c \in T \ new.res : c \in S \ old.res
    BY <1>3, <2>2
  <2>5. TestedWith(admins, p, order, new, i, L)
    BY <1>5, <1>8, <2>2, <2>3, <2>4
  <2> QED
    BY <1>3, <1>7, <2>5
<1>13. ASSUME a \notin Above(admins, L), new = old,
              a.at[p] = "inside" => a.zone_type # 0 /\ a.zone_type \in old.added_zone_types
       PROVE  TestedSoFar(admins, p, order, acc, i)
  <2>1. new.res = L \cup (T \cap Above(admins, L))
    BY <1>3, <1>5, <1>13
  <2>2. \A c \in T \ new.res : c.at[p] = "inside" => c.zone_type # 0 /\ c.zone_type \in new.added_zone_types
    BY <1>3, <1>5, <1>13
  <2>3. TestedWith(admins, p, order, new, i, L)
    BY <1>5, <1>8, <1>13, <2>1, <2>2
  <2> QED
    BY <1>3, <1>7, <2>3
<1>14. CASE a \notin Above(admins, L) /\ a.zone_type # 0 /\ a.zone_type \in old.added_zone_types
  <2>1. new = old
    BY <1>6, <1>11, <1>14 DEF Test
  <2> QED
    BY <1>13, <1>14, <2>1
<1>15. CASE a \notin Above(admins, L) /\ ~ (a.zone_type # 0 /\ a.zone_type \in old.added_zone_types)
  <2>1. CASE a.at[p] # "inside"
    <3>1. new = old
      BY <1>6, <1>11, <1>15, <2>1 DEF Test
    <3> QED
      BY <1>13, <1>15, <2>1, <3>1
  <2>2. CASE a.at[p] = "inside"
    <3> DEFINE M == L \cup {a}
    <3>1. new = [tested_hierarchy |-> old.tested_hierarchy \cup {b.id : b \in parents(admins, a)},
                 added_zone_types |-> old.added_zone_types \cup {b.zone_type : b \in parents(admins, a) \cup {a}},
                 res              |-> old.res \cup {a}]
      BY <1>6, <1>11, <1>15, <2>2 DEF Test
    <3>2. /\ new.tested_hierarchy = old.tested_hierarchy \cup {b.id : b \in parents(admins, a)}
          /\ new.added_zone_types = old.added_zone_types \cup {b.zone_type : b \in parents(admins, a) \cup {a}}
          /\ new.res = old.res \cup {a}
      BY <3>1
    <3>3. Above(admins, M) = Above(admins, L) \cup parents(admins, a)
      BY DEF Above
    <3>4. new.tested_hierarchy = {b.id : b \in Above(admins, M)}
      BY <1>5, <3>2, <3>3
    <3>5. new.added_zone_types = {b.zone_type : b \in Above(admins, M) \cup M}
      BY <1>5, <3>2, <3>3
    <3>6. new.res = M \cup (T \cap Above(admins, M))
      BY <1>3, <1>5, <1>10, <1>15, <3>2, <3>3
    <3>7. \A c \in T \ new.res : c.at[p] = "inside" => c.zone_type # 0 /\ c.zone_type \in new.added_zone_types
      BY <1>3, <1>5, <3>2
    <3>8. \A c \in M : c.at[p] = "inside"
      BY <1>5, <2>2
    <3>9. TestedWith(admins, p, order, new, i, M)
      BY <1>8, <3>4, <3>5, <3>6, <3>7, <3>8
    <3> QED
      BY <1>3, <1>7, <3>9
  <2> QED
    BY <2>1, <2>2
<1> QED
  BY <1>12, <1>14, <1>15

\* What parents have from their children, all above have.
LEMMA Inherited ==
    ASSUME NEW admins, Hierarchical(admins), NEW S \in SUBSET admins,
           \A a \in S, b \in admins : b.id \in a.parent_id => b \in S
    PROVE  \A a \in S : parents(admins, a) \subseteq S
<1> DEFINE X == {a \in S : ~ (parents(admins, a) \subseteq S)}
<1> SUFFICES ASSUME X # {} PROVE FALSE
  OBVIOUS
<1>1. PICK a \in X : \A b \in X : b.zone_type <= a.zone_type
  <2>1. X \in SUBSET admins
    OBVIOUS
  <2> HIDE DEF X
  <2> QED
    BY <2>1, Highest
<1>2. PICK q \in parent(admins, a) : parents(admins, a) = {q} \cup parents(admins, q)
  <2>1. parents(admins, a) # {} /\ a \in admins
    OBVIOUS
  <2> QED
    BY <2>1, Hierarchy
<1>3. q \in admins /\ q.id \in a.parent_id /\ a.zone_type < q.zone_type /\ a.zone_type \in Nat /\ q.zone_type \in Nat
  BY DEF parent, Hierarchical
<1>4. q \in S
  BY <1>3
<1>5. parents(admins, q) \subseteq S
  BY <1>1, <1>3, <1>4
<1> QED
  BY <1>2, <1>4, <1>5

\* A point in the envelope of an admin is in those of its parents.
Enclosed(admins, p) ==
    \A a, b \in admins : b.id \in a.parent_id /\ a.at[p] # "outside" => b.at[p] # "outside"

LEMMA EnclosedAbove ==
    ASSUME NEW admins, Hierarchical(admins), NEW p, Enclosed(admins, p)
    PROVE  \A a \in admins : a.at[p] # "outside" => \A b \in parents(admins, a) : b.at[p] # "outside"
<1> DEFINE S == {a \in admins : a.at[p] # "outside"}
<1>1. S \in SUBSET admins /\ \A a \in S, b \in admins : b.id \in a.parent_id => b \in S
  BY DEF Enclosed
<1>2. \A a \in S : parents(admins, a) \subseteq S
  <2> HIDE DEF S
  <2> QED
    BY <1>1, Inherited
<1> QED
  BY <1>2

\* In whatever order admins are met, a point is given some that contain it and all
\* that are above them, and nothing that contains it is missing but for its type.
LEMMA AtPoint ==
    ASSUME NEW admins, Hierarchical(admins), NEW p, Enclosed(admins, p), NEW res \in AdminsAt(admins, p)
    PROVE  /\ res \in SUBSET admins
           /\ \A a \in res : \E b \in res : b.at[p] = "inside" /\ a \in {b} \cup parents(admins, b)
           /\ \A a \in res : parents(admins, a) \subseteq res
           /\ \A a \in admins \ res : a.at[p] = "inside" =>
                 \E b \in res : a.zone_type # 0 /\ b.zone_type = a.zone_type
<1> DEFINE C == candidates(admins, p)
<1>1. PICK order \in sort_by_zone_type(C) : res = get(admins, p, order)
  BY DEF AdminsAt
<1>2. C \in SUBSET admins
  BY DEF candidates
<1>3. /\ order \in Seq(admins) /\ ToSet(order) = C
      /\ \A i, j \in 1..Len(order) : i <= j => order[i].zone_type <= order[j].zone_type
  <2> HIDE DEF C
  <2> QED
    BY <1>2, Orders
<1>4. PICK acc \in [0..Len(order) -> Testing(admins)] :
          /\ acc[0] = [tested_hierarchy |-> {}, added_zone_types |-> {}, res |-> {}]
          /\ \A i \in 1..Len(order) : acc[i] = Test(admins, p, acc[i - 1], order[i])
          /\ get(admins, p, order) = acc[Len(order)].res
  BY <1>3, Tests
<1> HIDE DEF C
<1> DEFINE Done == {i \in 0..Len(order) : TestedSoFar(admins, p, order, acc, i)}
<1>5. Len(order) \in Nat /\ DOMAIN order = 1..Len(order)
  BY <1>3
<1>6. 0 \in Done
  <2>1. Tried(order, 0) = {} /\ Above(admins, {}) = {}
    BY DEF Tried, Above
  <2>2. TestedWith(admins, p, order, acc[0], 0, {})
    BY <1>4, <2>1 DEF TestedWith
  <2>3. TestedSoFar(admins, p, order, acc, 0)
    BY <2>1, <2>2 DEF TestedSoFar
  <2> QED
    BY <1>5, <2>3
<1>7. ASSUME NEW i \in 0..Len(order), i < Len(order), i \in Done PROVE i + 1 \in Done
  <2>1. i + 1 \in 1..Len(order) /\ (i + 1) - 1 = i
    BY <1>5, <1>7
  <2>2. TestedSoFar(admins, p, order, acc, i)
    BY <1>7
  <2>3. TestedSoFar(admins, p, order, acc, i + 1)
    BY <1>3, <1>4, <2>1, <2>2, Tested
  <2> QED
    BY <2>1, <2>3
<1>8. TestedSoFar(admins, p, order, acc, Len(order))
  <2>1. \A i \in 0..Len(order) : i \in Done
    <3> HIDE DEF Done
    <3> QED
      BY <1>5, <1>6, <1>7, UpTo
  <2> QED
    BY <1>5, <2>1
<1>9. Tried(order, Len(order)) = C
  BY <1>3, <1>5 DEF Tried, ToSet
<1>10. PICK L \in SUBSET C :
           /\ \A a \in L : a.at[p] = "inside"
           /\ acc[Len(order)].added_zone_types = {b.zone_type : b \in Above(admins, L) \cup L}
           /\ res = L \cup (C \cap Above(admins, L))
           /\ \A a \in C \ res : a.at[p] = "inside" =>
                 a.zone_type # 0 /\ a.zone_type \in acc[Len(order)].added_zone_types
  BY <1>1, <1>4, <1>8, <1>9 DEF TestedSoFar, TestedWith
<1>11. Above(admins, L) \subseteq C
  <2>1. ASSUME NEW a \in L, NEW b \in parents(admins, a) PROVE b \in C
    <3>1. a \in admins /\ a.at[p] # "outside"
      BY <1>2, <1>10
    <3>2. b \in admins /\ b.at[p] # "outside"
      BY <3>1, Ancestors, EnclosedAbove
    <3> QED
      BY <3>2 DEF C, candidates
  <2> QED
    BY <2>1 DEF Above
<1>12. res = L \cup Above(admins, L)
  BY <1>10, <1>11
<1>13. \A a \in res : \E b \in L : a \in {b} \cup parents(admins, b)
  BY <1>12 DEF Above
<1>14. ASSUME NEW a \in res PROVE parents(admins, a) \subseteq res
  <2>1. PICK b \in L : a \in {b} \cup parents(admins, b)
    BY <1>13
  <2>2. parents(admins, a) \subseteq parents(admins, b)
    BY <1>2, <2>1, Ancestors
  <2> QED
    BY <1>12, <2>2 DEF Above
<1>15. ASSUME NEW a \in admins \ res, a.at[p] = "inside"
       PROVE  \E b \in res : a.zone_type # 0 /\ b.zone_type = a.zone_type
  <2>1. a \in C
    BY <1>15 DEF C, candidates
  <2>2. a.zone_type # 0 /\ a.zone_type \in {b.zone_type : b \in Above(admins, L) \cup L}
    BY <1>10, <1>15, <2>1
  <2> QED
    BY <1>12, <2>2
<1> QED
  BY <1>2, <1>10, <1>11, <1>12, <1>13, <1>14, <1>15
===============================================================================
