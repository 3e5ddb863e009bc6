---------------------------- MODULE PreprocProofs ---------------------------
(***************************************************************************)
(* Preprocessing, for every mesh of every size: the inductive invariant    *)
(* PreprocInv, with one lemma per step, and what the runs check of it: the *)
(* lists (PreprocListsExact), the paths (PreprocGrowsAPath), the cover     *)
(* that tunneling starts from (PreprocCoverReady) and the strips that      *)
(* cannot be joined without tunneling (PreprocEndsApart).                  *)
(***************************************************************************)
EXTENDS PreprocInv, TriLemmas

-----------------------------------------------------------------------------
(***************************************************************************)
(* The lists.                                                              *)
(***************************************************************************)
(* A new head is one more element.                                         *)
LEMMA ElementPrepended ==
  ASSUME NEW list \in Seq(Tris), IsInjectiveList(list), NEW t \in Tris, t \notin ElementsOf(list)
  PROVE  /\ PrependToList(t, list) \in Seq(Tris)
         /\ IsInjectiveList(PrependToList(t, list))
         /\ ElementsOf(PrependToList(t, list)) = ElementsOf(list) \cup {t}
<1> DEFINE l == PrependToList(t, list)
<1>1. /\ l \in Seq(Tris) /\ Len(l) = Len(list) + 1 /\ Len(list) \in Nat
      /\ l[1] = t /\ \A i \in 1 .. Len(list) : l[i + 1] = list[i]
  BY DEF PrependToList
<1>2. DOMAIN l = 1 .. Len(list) + 1 /\ DOMAIN list = 1 .. Len(list)
  BY <1>1
<1>3. \A i \in DOMAIN l : i = 1 \/ (i - 1 \in DOMAIN list /\ l[i] = list[i - 1])
  BY <1>1, <1>2
<1> HIDE DEF l
<1>4. IsInjectiveList(l)
  BY <1>1, <1>2, <1>3 DEF IsInjectiveList, ElementsOf
<1>5. \A i \in DOMAIN list : i + 1 \in DOMAIN l /\ l[i + 1] = list[i]
  BY <1>1, <1>2
<1>6. 1 \in DOMAIN l
  BY <1>1, <1>2
<1>7. ElementsOf(l) = ElementsOf(list) \cup {t}
  BY <1>1, <1>3, <1>5, <1>6, SMTT(20) DEF ElementsOf
<1> QED
  BY <1>1, <1>4, <1>7 DEF l

(* The descending list of a set of triangles has each of them once.        *)
LEMMA DescendingList ==
  ASSUME NEW S \in SUBSET Tris
  PROVE  /\ Descending(S) \in Seq(Tris)
         /\ IsInjectiveList(Descending(S))
         /\ ElementsOf(Descending(S)) = S
<1> DEFINE n == Cardinality(S)
           Above(t) == {u \in S : u > t}
           rank == [t \in S |-> Cardinality(Above(t))]
           R == {rank[t] : t \in S}
<1>1. IsFiniteSet(S) /\ n \in Nat /\ S \subseteq Int
  <2>1. IsFiniteSet(Tris) /\ Tris \subseteq Int
    BY FS_Interval, MaxTrisAssumption DEF Tris
  <2> QED
    BY <2>1, FS_Subset, FS_CardinalityType
<1>2. \A t \in S : IsFiniteSet(Above(t)) /\ rank[t] \in Nat
  BY <1>1, FS_Subset, FS_CardinalityType
<1>3. ASSUME NEW t \in S PROVE rank[t] \in 0 .. n - 1
  <2>1. Above(t) \subseteq S \ {t}
    BY <1>1
  <2>2. IsFiniteSet(S \ {t}) /\ Cardinality(S \ {t}) = n - 1
    BY <1>1, FS_RemoveElement
  <2>3. Cardinality(Above(t)) <= n - 1
    BY <2>1, <2>2, FS_Subset
  <2> QED
    BY <1>1, <1>2, <2>3
<1>4. ASSUME NEW t \in S, NEW u \in S, t < u PROVE rank[u] < rank[t]
  <2>1. Above(u) \subseteq Above(t) /\ u \in Above(t) /\ u \notin Above(u)
    <3>1. \A v \in S : v > u => v > t
      BY <1>1, <1>4
    <3>2. u \in Int /\ t \in Int /\ u > t /\ ~(u > u)
      BY <1>1, <1>4
    <3> QED
      BY <3>1, <3>2
  <2>2. Cardinality(Above(u)) <= Cardinality(Above(t))
        /\ (Cardinality(Above(u)) = Cardinality(Above(t)) => Above(u) = Above(t))
    BY <1>2, <2>1, FS_Subset
  <2> HIDE DEF Above
  <2> QED
    BY <1>2, <2>1, <2>2
<1>5. \A t, u \in S : rank[t] = rank[u] => t = u
  <2> SUFFICES ASSUME NEW t \in S, NEW u \in S, rank[t] = rank[u] PROVE t = u
    OBVIOUS
  <2>1. ~(t < u) /\ ~(u < t)
    BY <1>2, <1>4
  <2> QED
    BY <1>1, <2>1
<1>6. R = 0 .. n - 1
  <2>1. rank \in Bijection(S, R)
    <3>1. rank \in [S -> R]
      OBVIOUS
    <3>2. rank \in Injection(S, R)
      BY <3>1, <1>5 DEF Injection, IsInjective
    <3>3. rank \in Surjection(S, R)
      BY <3>1 DEF Surjection
    <3> QED
      BY <3>2, <3>3 DEF Bijection
  <2>2. IsFiniteSet(R) /\ Cardinality(R) = n
    BY <1>1, <2>1, FS_Bijection DEF ExistsBijection
  <2>3. IsFiniteSet(0 .. n - 1) /\ Cardinality(0 .. n - 1) = n
    BY <1>1, FS_Interval
  <2>4. R \subseteq 0 .. n - 1
    BY <1>3
  <2> HIDE DEF R
  <2> QED
    BY <2>2, <2>3, <2>4, FS_Subset
<1> DEFINE l == Descending(S)
<1>7. ASSUME NEW i \in 1 .. n PROVE l[i] \in S /\ rank[l[i]] = i - 1
  <2>1. i - 1 \in R
    BY <1>1, <1>6
  <2>2. \E t \in S : Cardinality(Above(t)) = i - 1
    BY <2>1
  <2>3. l[i] = CHOOSE t \in S : Cardinality(Above(t)) = i - 1
    BY DEF Descending
  <2> QED
    BY <2>2, <2>3
<1>8. ASSUME NEW t \in S PROVE rank[t] + 1 \in 1 .. n /\ l[rank[t] + 1] = t
  <2>1. rank[t] + 1 \in 1 .. n /\ rank[t] \in Nat
    BY <1>1, <1>2, <1>3
  <2> HIDE DEF rank, l
  <2>2. l[rank[t] + 1] \in S /\ rank[l[rank[t] + 1]] = rank[t]
    BY <1>7, <2>1
  <2> QED
    BY <1>5, <2>1, <2>2
<1>9. DOMAIN l = 1 .. n
  BY DEF Descending
<1>10. l \in Seq(Tris)
  <2> DEFINE f(i) == CHOOSE t \in S : Cardinality({u \in S : u > t}) = i - 1
  <2>0. l = [i \in 1 .. n |-> f(i)]
    BY DEF Descending
  <2> HIDE DEF f
  <2>1. l = [i \in 1 .. n |-> l[i]]
    BY <2>0
  <2>2. \A i \in 1 .. n : l[i] \in Tris
    BY <1>7
  <2> HIDE DEF l
  <2>3. l \in [1 .. n -> Tris]
    BY <2>1, <2>2
  <2> QED
    BY <1>1, <2>3
<1>11. IsInjectiveList(l)
  <2> SUFFICES ASSUME NEW i \in 1 .. n, NEW j \in 1 .. n, l[i] = l[j] PROVE i = j
    BY <1>9 DEF IsInjectiveList
  <2>1. i - 1 = j - 1
    BY <1>7
  <2> QED
    BY <1>1, <2>1
<1>12. ElementsOf(l) = S
  <2> HIDE DEF l, rank
  <2> QED
    BY <1>7, <1>8, <1>9 DEF ElementsOf
<1> QED
  BY <1>10, <1>11, <1>12

(* A triangle leaves the list that its counter names.                      *)
LEMMA Removed ==
  ASSUME NEW S \in SUBSET Tris, NEW counts \in [Tris -> 0 .. 3], NEW ls, Sorted(counts, ls, S),
         NEW t \in S
  PROVE  Sorted(counts, [ls EXCEPT ![counts[t]] = RemoveFromList(t, @)], S \ {t})
<1> DEFINE c == counts[t]
           l == RemoveFromList(t, ls[c])
           after == [ls EXCEPT ![c] = l]
<1>1. /\ c \in 0 .. 3 /\ ls[c] \in Seq(Tris) /\ IsInjectiveList(ls[c])
      /\ t \in ElementsOf(ls[c]) /\ ElementsOf(ls[c]) = {u \in S : counts[u] = c}
      /\ ls \in [0 .. 3 -> Seq(Tris)]
  BY DEF Sorted
<1>2. l \in Seq(Tris) /\ IsInjectiveList(l) /\ ElementsOf(l) = ElementsOf(ls[c]) \ {t}
  BY <1>1, ElementRemoved
<1> HIDE DEF l
<1>3. after \in [0 .. 3 -> Seq(Tris)]
  BY <1>1, <1>2
<1>4. ASSUME NEW b \in 0 .. 3
      PROVE  IsInjectiveList(after[b]) /\ ElementsOf(after[b]) = {u \in S \ {t} : counts[u] = b}
  <2>1. CASE b = c
    BY <1>1, <1>2, <2>1
  <2>2. CASE b # c
    <3>1. after[b] = ls[b]
      BY <1>1, <2>2
    <3>2. IsInjectiveList(ls[b]) /\ ElementsOf(ls[b]) = {u \in S : counts[u] = b}
      BY DEF Sorted
    <3> QED
      BY <2>2, <3>1, <3>2
  <2> QED
    BY <2>1, <2>2
<1>5. after = [ls EXCEPT ![counts[t]] = RemoveFromList(t, @)]
  BY DEF l
<1> HIDE DEF after
<1> QED
  BY <1>3, <1>4, <1>5 DEF Sorted

(* A triangle with one neighbour less moves to the list below.             *)
LEMMA Demoted ==
  ASSUME NEW S \in SUBSET Tris, NEW a, a.counts \in [Tris -> 0 .. 3],
         Sorted(a.counts, a.lists, S), NEW t \in S, a.counts[t] # 0
  PROVE  /\ Demote(t, a).counts = [a.counts EXCEPT ![t] = a.counts[t] - 1]
         /\ Demote(t, a).counts \in [Tris -> 0 .. 3]
         /\ Sorted(Demote(t, a).counts, Demote(t, a).lists, S)
<1> DEFINE c == a.counts[t]
           counts == [a.counts EXCEPT ![t] = c - 1]
           out == [a.lists EXCEPT ![c] = RemoveFromList(t, @)]
           in == [out EXCEPT ![c - 1] = PrependToList(t, @)]
<1>1. c \in 0 .. 3 /\ c - 1 \in 0 .. 3 /\ counts \in [Tris -> 0 .. 3] /\ t \in Tris
      /\ counts[t] = c - 1 /\ \A u \in Tris : u # t => counts[u] = a.counts[u]
  OBVIOUS
<1>2. Sorted(a.counts, out, S \ {t})
  BY Removed
<1>3. Demote(t, a).counts = counts /\ Demote(t, a).lists = in
  <2>1. a.lists \in [0 .. 3 -> Seq(Tris)] /\ c - 1 # c
    BY <1>1 DEF Sorted
  <2> QED
    BY <1>1, <2>1 DEF Demote
<1> HIDE DEF out, counts, c
<1>4. /\ out \in [0 .. 3 -> Seq(Tris)]
      /\ \A b \in 0 .. 3 : /\ IsInjectiveList(out[b])
                           /\ ElementsOf(out[b]) = {u \in S \ {t} : a.counts[u] = b}
  BY <1>2 DEF Sorted
<1>5. /\ PrependToList(t, out[c - 1]) \in Seq(Tris)
      /\ IsInjectiveList(PrependToList(t, out[c - 1]))
      /\ ElementsOf(PrependToList(t, out[c - 1])) = ElementsOf(out[c - 1]) \cup {t}
  <2>1. out[c - 1] \in Seq(Tris) /\ IsInjectiveList(out[c - 1]) /\ t \notin ElementsOf(out[c - 1])
    BY <1>1, <1>4
  <2> QED
    BY <1>1, <2>1, ElementPrepended
<1>6. in \in [0 .. 3 -> Seq(Tris)]
  BY <1>1, <1>4, <1>5
<1>7. ASSUME NEW b \in 0 .. 3
      PROVE  IsInjectiveList(in[b]) /\ ElementsOf(in[b]) = {u \in S : counts[u] = b}
  <2>1. ElementsOf(out[b]) = {u \in S \ {t} : counts[u] = b} /\ IsInjectiveList(out[b])
    BY <1>1, <1>4
  <2>2. CASE b = c - 1
    <3>1. in[b] = PrependToList(t, out[b])
      BY <1>1, <1>4, <2>2
    <3> QED
      BY <1>1, <1>5, <2>1, <2>2, <3>1
  <2>3. CASE b # c - 1
    <3>1. in[b] = out[b]
      BY <1>1, <1>4, <2>3
    <3> QED
      BY <1>1, <2>1, <2>3, <3>1
  <2> QED
    BY <2>2, <2>3
<1>8. Sorted(counts, in, S)
  BY <1>6, <1>7 DEF Sorted
<1> QED
  BY <1>1, <1>3, <1>8 DEF counts, c

-----------------------------------------------------------------------------
(***************************************************************************)
(* The counters.                                                           *)
(***************************************************************************)
\* The positions of u that t is stripped behind later, when it has told its
\* neighbours at the positions D that it is in a strip now.
Pending(t, u, D) ==
  {e \in Dir : /\ neighbours[u][e] # Null /\ neighbours[u][e] \notin stripped
               /\ neighbours[u][e] = t => indices[u][e] \notin D}

\* The lists and counters on the way.
Counted(t, D, a) ==
  LET S == InUse \ (stripped \cup {t})
  IN  /\ a.counts \in [Tris -> 0 .. 3]
      /\ Sorted(a.counts, a.lists, S)
      /\ \A u \in S : a.counts[u] = Cardinality(Pending(t, u, D))

(* The neighbour at one more position is told.                             *)
LEMMA Visited ==
  ASSUME MeshOK, stripped \subseteq InUse, NEW t \in InUse \ stripped, NEW D \in SUBSET Dir,
         NEW d \in Dir \ D, NEW a, Counted(t, D, a)
  PROVE  Counted(t, D \cup {d}, Visit(t, d, a))
<1> DEFINE S == InUse \ (stripped \cup {t})
           v == neighbours[t][d]
           e0 == indices[t][d]
<1>1. InUse \subseteq Tris /\ S \in SUBSET Tris
  BY MaxTrisAssumption DEF MeshOK, IsMesh, InUse, Tris
<1>2. /\ a.counts \in [Tris -> 0 .. 3] /\ Sorted(a.counts, a.lists, S)
      /\ \A u \in S : a.counts[u] = Cardinality(Pending(t, u, D))
  BY DEF Counted
<1>3. ASSUME NEW u \in S, NEW e \in Dir, neighbours[u][e] = t, indices[u][e] = d
      PROVE  v = u /\ e0 = e /\ v # Null
  <2>1. neighbours[u][e] # Null /\ u \in Tris
    BY <1>1, <1>3, MaxTrisAssumption DEF Null, Tris
  <2>2. neighbours[neighbours[u][e]][indices[u][e]] = u /\ indices[neighbours[u][e]][indices[u][e]] = e
    BY <2>1, EdgeFacts
  <2> QED
    BY <1>3, <2>1, <2>2 DEF Null, Tris
<1>4. ASSUME NEW u \in S, u # v PROVE Pending(t, u, D \cup {d}) = Pending(t, u, D)
  BY <1>3, <1>4 DEF Pending
<1>5. CASE d \notin Open(t)
  <2>1. ASSUME NEW u \in S PROVE Pending(t, u, D \cup {d}) = Pending(t, u, D)
    <3>1. u # v
      BY <1>5, <1>1, MaxTrisAssumption DEF Open, Tris, Null
    <3> QED
      BY <1>4, <3>1
  <2>2. Visit(t, d, a) = a
    BY <1>5 DEF Visit
  <2> QED
    BY <1>2, <2>1, <2>2 DEF Counted
<1>6. CASE d \in Open(t)
  <2>1. /\ v \in S /\ v # t /\ e0 \in Dir /\ neighbours[v][e0] = t /\ indices[v][e0] = d
    BY <1>1, <1>6, EdgeFacts DEF Open
  <2>2. t # Null /\ t \notin stripped
    BY <1>1, MaxTrisAssumption DEF Tris, Null
  <2>3. e0 \in Pending(t, v, D) /\ Pending(t, v, D) \in SUBSET Dir
    BY <2>1, <2>2 DEF Pending
  <2>4. Pending(t, v, D \cup {d}) = Pending(t, v, D) \ {e0}
    BY <1>3, <2>1, <2>2 DEF Pending
  <2>5. IsFiniteSet(Pending(t, v, D)) /\ Cardinality(Pending(t, v, D)) \in Nat
    BY <2>3, LinkSet
  <2>6. Cardinality(Pending(t, v, D \cup {d})) = Cardinality(Pending(t, v, D)) - 1
    <3> DEFINE P == Pending(t, v, D)
               x == e0
    <3>1. IsFiniteSet(P) /\ x \in P /\ Pending(t, v, D \cup {d}) = P \ {x}
      BY <2>3, <2>4, <2>5
    <3> HIDE DEF P, x
    <3>2. Cardinality(P \ {x}) = Cardinality(P) - 1
      BY <3>1, FS_RemoveElement
    <3> QED
      BY <3>1, <3>2 DEF P
  <2>7. a.counts[v] = Cardinality(Pending(t, v, D)) /\ a.counts[v] # 0
    BY <1>2, <2>1, <2>3, <2>5, FS_EmptySet
  <2>8. /\ Demote(v, a).counts = [a.counts EXCEPT ![v] = a.counts[v] - 1]
        /\ Demote(v, a).counts \in [Tris -> 0 .. 3]
        /\ Sorted(Demote(v, a).counts, Demote(v, a).lists, S)
    BY <1>1, <1>2, <2>1, <2>7, Demoted
  <2>9. Visit(t, d, a) = Demote(v, a)
    BY <1>6 DEF Visit
  <2>10. \A u \in S : Demote(v, a).counts[u] = Cardinality(Pending(t, u, D \cup {d}))
    BY <1>1, <1>2, <1>4, <2>1, <2>6, <2>7, <2>8
  <2> QED
    BY <2>8, <2>9, <2>10 DEF Counted
<1> QED
  BY <1>5, <1>6

(* Once they are ordered, the lists have the triangles of no strip.        *)
LEMMA SortedNow ==
  ASSUME ListsOK, pc # "Order", preproc # "isolated"
  PROVE  AllSorted
BY DEF ListsOK, AllSorted

(* A triangle that joins a strip leaves the lists and the counts exact.    *)
LEMMA Propagation ==
  ASSUME ArraysOK, AllSorted, NEW t \in InUse \ stripped,
         SetStrippedAndPropagate(t), UNCHANGED mesh
  PROVE  /\ unstripped' \in [Tris -> 0 .. 3] /\ stripped' = stripped \cup {t}
         /\ stripped' \subseteq InUse'
         /\ Sorted(unstripped', lists', InUse' \ stripped')
         /\ \A u \in InUse' \ stripped' : unstripped'[u] = Cardinality(Open(u)')
<1> DEFINE S == InUse \ (stripped \cup {t})
<1>1. MeshOK /\ stripped \subseteq InUse /\ unstripped \in [Tris -> 0 .. 3]
  BY DEF ArraysOK
<1>2. InUse \subseteq Tris
  BY <1>1, MaxTrisAssumption DEF MeshOK, IsMesh, InUse, Tris
<1>3. Counted(t, {}, Without(t))
  <2>1. Sorted(unstripped, lists, InUse \ stripped) /\ t \in InUse \ stripped
    BY DEF AllSorted, CountsOK
  <2>2. InUse \ stripped \in SUBSET Tris /\ (InUse \ stripped) \ {t} = S
    BY <1>2
  <2>3. Sorted(unstripped, Without(t).lists, S)
    BY <1>1, <2>1, <2>2, Removed DEF Without
  <2>4. \A u \in S : Pending(t, u, {}) = Open(u)
    BY DEF Pending, Open
  <2>5. \A u \in S : unstripped[u] = Cardinality(Open(u))
    BY DEF AllSorted, CountsOK
  <2>6. Without(t).counts = unstripped
    BY DEF Without
  <2> QED
    BY <1>1, <2>3, <2>4, <2>5, <2>6 DEF Counted
<1> DEFINE a0 == Visit(t, 0, Without(t))
           a1 == Visit(t, 1, a0)
           a2 == Visit(t, 2, a1)
<1>4. Counted(t, {} \cup {0}, a0)
  BY <1>1, <1>3, Visited DEF Dir
<1> HIDE DEF a0
<1>5. Counted(t, ({} \cup {0}) \cup {1}, a1)
  <2>1. {} \cup {0} \in SUBSET Dir /\ 1 \in Dir \ ({} \cup {0})
    BY DEF Dir
  <2> QED
    BY <1>1, <1>4, <2>1, Visited
<1> HIDE DEF a1
<1>6. Counted(t, (({} \cup {0}) \cup {1}) \cup {2}, a2)
  <2>1. ({} \cup {0}) \cup {1} \in SUBSET Dir /\ 2 \in Dir \ (({} \cup {0}) \cup {1})
    BY DEF Dir
  <2> QED
    BY <1>1, <1>5, <2>1, Visited
<1>7. (({} \cup {0}) \cup {1}) \cup {2} = Dir
  BY DEF Dir
<1>8. Propagated(t) = a2
  BY DEF Propagated, a0, a1
<1> HIDE DEF a2
<1>9. Counted(t, Dir, Propagated(t))
  BY <1>6, <1>7, <1>8
<1>10. /\ stripped' = stripped \cup {t} /\ unstripped' = Propagated(t).counts
       /\ lists' = Propagated(t).lists
  BY DEF SetStrippedAndPropagate
<1>11. InUse' = InUse /\ neighbours' = neighbours
  BY DEF mesh, InUse
<1>12. ASSUME NEW u \in S PROVE Pending(t, u, Dir) = Open(u)'
  <2>1. u \in Tris
    BY <1>2
  <2>2. \A e \in Dir : neighbours[u][e] # Null => indices[u][e] \in Dir
    BY <1>1, <2>1, EdgeFacts
  <2> QED
    BY <1>10, <1>11, <2>2 DEF Pending, Open
<1>13. \A u \in S : Propagated(t).counts[u] = Cardinality(Open(u)')
  BY <1>9, <1>12 DEF Counted
<1>14. Propagated(t).counts \in [Tris -> 0 .. 3] /\ Sorted(Propagated(t).counts, Propagated(t).lists, S)
  BY <1>9 DEF Counted
<1>15. InUse' \ stripped' = S
  BY <1>10, <1>11
<1> QED
  BY <1>1, <1>10, <1>11, <1>13, <1>14, <1>15

(* The sides of the triangles in use, and the triangles in strips, are     *)
(* finitely many.                                                          *)
LEMMA SidesAreFinite ==
  ASSUME MeshOK
  PROVE  IsFiniteSet({side \in InUse \X Dir : side[2] \in Links(side[1])})
<1>1. IsFiniteSet(InUse) /\ IsFiniteSet(Dir)
  <2>1. trisCount \in Int /\ 1 \in Int
    BY MaxTrisAssumption DEF MeshOK, IsMesh, Tris
  <2>2. IsFiniteSet(1 .. trisCount)
    BY <2>1, FS_Interval
  <2>3. IsFiniteSet(0 .. 2)
    BY 0 \in Int, 2 \in Int, FS_Interval
  <2> QED
    BY <2>2, <2>3 DEF InUse, Dir
<1>2. IsFiniteSet(InUse \X Dir)
  BY <1>1, FS_Product
<1>3. {side \in InUse \X Dir : side[2] \in Links(side[1])} \subseteq InUse \X Dir
  OBVIOUS
<1> QED
  BY <1>2, <1>3, FS_Subset

(* The triangles in strips are no more than the triangles in use.          *)
LEMMA StrippedAreFinite ==
  ASSUME MeshOK, stripped \subseteq InUse
  PROVE  IsFiniteSet(stripped) /\ Cardinality(stripped) <= trisCount /\ Cardinality(InUse) = trisCount
<1>1. IsFiniteSet(InUse) /\ Cardinality(InUse) = trisCount
  BY FS_Interval, MaxTrisAssumption DEF MeshOK, IsMesh, InUse, Tris
<1> QED
  BY <1>1, FS_Subset

-----------------------------------------------------------------------------
(***************************************************************************)
(* One more triangle in a strip: the one across the edge d of its end t.   *)
(***************************************************************************)
Grows(t, d) ==
  /\ ArraysOK /\ LinksOK /\ pc # "Start" /\ pc' # "Start"
  /\ t \in stripped /\ AtMostOne(Links(t)) /\ d \in Open(t)
  /\ linkState' = LinkedAcross(t, d)
  /\ stripped' = stripped \cup {neighbours[t][d]}
  /\ UNCHANGED <<mesh, stripsCount>>

(* The new link: it is one, on both sides.                                 *)
LEMMA NewLink ==
  ASSUME NEW t, NEW d, NEW next, NEW back, Grows(t, d),
         next = neighbours[t][d], back = indices[t][d]
  PROVE  /\ t \in InUse /\ t \in Tris /\ d \in Dir /\ back \in Dir /\ InUse \subseteq Tris
         /\ next \in InUse \ stripped /\ next \in Tris /\ next # t
         /\ neighbours[next][back] = t /\ indices[next][back] = d
         /\ d \notin Links(t) /\ Links(next) = {}
         /\ Links(t)' = Links(t) \cup {d} /\ Links(next)' = {back}
         /\ \A u \in Tris \ {t, next} : Links(u)' = Links(u)
         /\ linkState' \in [Tris -> SUBSET Dir]
         /\ \A u \in Tris : Links(u) \subseteq Links(u)'
<1>1. MeshOK /\ stripped \subseteq InUse /\ linkState \in [Tris -> SUBSET Dir]
  BY DEF Grows, ArraysOK
<1>2. InUse \subseteq Tris
  BY <1>1, MaxTrisAssumption DEF MeshOK, IsMesh, InUse, Tris
<1>3. t \in InUse /\ t \in Tris /\ d \in Dir /\ next # Null /\ next \notin stripped
  BY <1>1, <1>2 DEF Grows, Open
<1>4. /\ next \in InUse /\ next \in Tris /\ next # t /\ back \in Dir
      /\ neighbours[next][back] = t /\ indices[next][back] = d
  BY <1>1, <1>3, EdgeFacts
<1>5. Links(next) = {}
  BY <1>3, <1>4 DEF Grows, LinksOK
<1>6. d \notin Links(t)
  BY <1>3, <1>5 DEF Grows, LinksOK, Agree
<1>7. \A u \in Tris : Links(u) = linkState[u] /\ linkState[u] \subseteq Dir
  BY <1>1 DEF Links, LinksOf
<1>8. linkState' = [linkState EXCEPT ![t] = @ \cup {d}, ![next] = @ \cup {back}]
  BY DEF Grows, LinkedAcross
<1>9. /\ linkState' \in [Tris -> SUBSET Dir]
      /\ linkState'[t] = linkState[t] \cup {d} /\ linkState'[next] = linkState[next] \cup {back}
      /\ \A u \in Tris \ {t, next} : linkState'[u] = linkState[u]
  BY <1>1, <1>3, <1>4, <1>8
<1>10. \A u \in Tris : Links(u)' = linkState'[u]
  BY <1>9 DEF Links, LinksOf
<1>11. /\ Links(t)' = Links(t) \cup {d} /\ Links(next)' = {back}
       /\ \A u \in Tris \ {t, next} : Links(u)' = Links(u)
  BY <1>3, <1>4, <1>5, <1>7, <1>9, <1>10
<1>12. \A u \in Tris : Links(u) \subseteq Links(u)'
  BY <1>5, <1>11
<1> QED
  BY <1>1, <1>2, <1>3, <1>4, <1>5, <1>6, <1>9, <1>11, <1>12

(* The strips stay paths, and their count stays right.                     *)
LEMMA GrowsLinks ==
  ASSUME NEW t, NEW d, NEW next, NEW back, Grows(t, d),
         next = neighbours[t][d], back = indices[t][d]
  PROVE  LinksOK'
<1>1. /\ t \in InUse /\ t \in Tris /\ d \in Dir /\ back \in Dir /\ InUse \subseteq Tris
      /\ next \in InUse \ stripped /\ next \in Tris /\ next # t
      /\ neighbours[next][back] = t /\ indices[next][back] = d
      /\ d \notin Links(t) /\ Links(next) = {}
      /\ Links(t)' = Links(t) \cup {d} /\ Links(next)' = {back}
      /\ \A u \in Tris \ {t, next} : Links(u)' = Links(u)
      /\ \A u \in Tris : Links(u) \subseteq Links(u)'
  BY NewLink
<1>2. /\ neighbours' = neighbours /\ indices' = indices /\ InUse' = InUse
      /\ trisCount' = trisCount /\ stripsCount' = stripsCount
      /\ stripped' = stripped \cup {next} /\ Taken = stripped /\ Taken' = stripped'
  BY DEF Grows, mesh, InUse, Taken
<1>3. MeshOK /\ Agree(Links) /\ Circles(Links) = {} /\ stripped \subseteq InUse
      /\ \A u \in Tris : Links(u) # {} => u \in stripped
  BY DEF Grows, ArraysOK, LinksOK
<1>4. Agree(Links)'
  <2>1. ASSUME NEW u \in Tris, NEW e \in Links(u)'
        PROVE  /\ neighbours[u][e] # Null
               /\ \A v : v = neighbours[u][e] => indices[u][e] \in Links(v)'
    <3>1. CASE e \in Links(u)
      <4>1. neighbours[u][e] # Null /\ indices[u][e] \in Links(neighbours[u][e]) /\ e \in Dir
        BY <1>3, <3>1, LinksArePositions DEF Agree
      <4>2. neighbours[u][e] \in Tris
        BY <1>3, <4>1, EdgeFacts
      <4> QED
        BY <1>1, <4>1, <4>2
    <3>2. CASE e \notin Links(u)
      <4>1. (u = t /\ e = d) \/ (u = next /\ e = back)
        BY <1>1, <2>1, <3>2
      <4>2. next # Null /\ t # Null
        BY <1>1 DEF Tris, Null
      <4>3. back \in Links(next)' /\ d \in Links(t)'
        BY <1>1
      <4> QED
        BY <1>1, <4>1, <4>2, <4>3
    <3> QED
      BY <3>1, <3>2
  <2>2. ASSUME NEW u \in Tris PROVE \E e \in Dir : e \notin Links(u)'
    <3>1. CASE u = t
      <4>1. AtMostOne(Links(t))
        BY DEF Grows
      <4>2. \A e, f \in Links(t) : e = f
        BY <4>1 DEF AtMostOne
      <4>3. PICK x \in Dir, y \in Dir : x # y /\ x # d /\ y # d
        BY <1>1 DEF Dir
      <4>4. x \notin Links(t) \/ y \notin Links(t)
        BY <4>2, <4>3
      <4>5. x \notin Links(t)' \/ y \notin Links(t)'
        BY <1>1, <4>3, <4>4
      <4> QED
        BY <3>1, <4>3, <4>5
    <3>2. CASE u = next
      <4>1. 0 \in Dir /\ 1 \in Dir
        BY DEF Dir
      <4> QED
        BY <1>1, <3>2, <4>1
    <3>3. CASE u # t /\ u # next
      <4>1. Links(u)' = Links(u)
        BY <1>1, <3>3
      <4>2. \E e \in Dir : e \notin Links(u)
        BY <1>3 DEF Agree
      <4> QED
        BY <4>1, <4>2
    <3> QED
      BY <3>1, <3>2, <3>3
  <2>3. \A u \in Tris : \A e \in Links(u)' : neighbours'[u][e] # Null /\ indices'[u][e] \in Links(neighbours[u][e])'
    BY <1>2, <2>1
  <2> QED
    BY <2>2, <2>3 DEF Agree
<1>5. \A u \in Tris : Links(u)' # {} => u \in stripped'
  BY <1>1, <1>2, <1>3 DEF Grows
<1>6. Circles(Links)' = {}
  <2> SUFFICES ASSUME NEW S \in Circles(Links)' PROVE FALSE
    OBVIOUS
  <2>1. /\ S \in SUBSET InUse /\ S # {}
        /\ \A u \in S : ~AtMostOne({e \in Links(u)' : neighbours[u][e] \in S})
    BY <1>2 DEF Circles, AtMostOne
  <2>2. next \notin S
    <3>1. AtMostOne({e \in Links(next)' : neighbours[next][e] \in S})
      BY <1>1 DEF AtMostOne
    <3> QED
      BY <2>1, <3>1
  <2>3. ASSUME NEW u \in S
        PROVE  {e \in Links(u)' : neighbours[u][e] \in S} = {e \in Links(u) : neighbours[u][e] \in S}
    <3>1. u \in Tris /\ u # next
      BY <1>1, <2>1, <2>2
    <3>2. CASE u = t
      BY <1>1, <2>2, <3>2
    <3> QED
      BY <1>1, <3>1, <3>2
  <2>4. S \in Circles(Links)
    BY <2>1, <2>3 DEF Circles
  <2> QED
    BY <1>3, <2>4
<1>7. LinksCount' = LinksCount + 2
  <2> DEFINE L == {side \in InUse \X Dir : side[2] \in Links(side[1])}
             M == {side \in InUse \X Dir : side[2] \in Links(side[1])'}
             a == <<t, d>>
             b == <<next, back>>
  <2>1. IsFiniteSet(L)
    BY <1>3, SidesAreFinite
  <2>2. M = (L \cup {a}) \cup {b}
    <3>1. ASSUME NEW u \in InUse, NEW e \in Dir
          PROVE  e \in Links(u)' <=> e \in Links(u) \/ (u = t /\ e = d) \/ (u = next /\ e = back)
      BY <1>1
    <3> QED
      BY <1>1, <3>1
  <2>3. a \notin L /\ b \notin L \cup {a}
    BY <1>1
  <2> HIDE DEF L, M, a, b
  <2>4. IsFiniteSet(L \cup {a}) /\ Cardinality(L \cup {a}) = Cardinality(L) + 1
    BY <2>1, <2>3, FS_AddElement
  <2>5. Cardinality((L \cup {a}) \cup {b}) = Cardinality(L \cup {a}) + 1
    BY <2>3, <2>4, FS_AddElement
  <2>6. Cardinality(L) \in Nat
    BY <2>1, FS_CardinalityType
  <2>7. Cardinality(M) = Cardinality(L) + 2
    BY <2>2, <2>4, <2>5, <2>6
  <2> QED
    BY <1>2, <2>7 DEF LinksCount, L, M
<1>8. /\ Cardinality(stripped') = Cardinality(stripped) + 1 /\ Cardinality(stripped) \in Nat
      /\ LinksCount \in Nat
  <2>1. IsFiniteSet(stripped)
    BY <1>3, StrippedAreFinite
  <2>2. Cardinality(stripped \cup {next}) = Cardinality(stripped) + 1
    BY <1>1, <2>1, FS_AddElement
  <2>3. IsFiniteSet({side \in InUse \X Dir : side[2] \in Links(side[1])})
    BY <1>3, SidesAreFinite
  <2> QED
    BY <1>2, <2>1, <2>2, <2>3, FS_CardinalityType DEF LinksCount
<1>9. 2 * stripsCount + LinksCount = 2 * Cardinality(stripped) /\ stripsCount \in Nat
  BY <1>2 DEF Grows, LinksOK, ArraysOK
<1>10. 2 * stripsCount' + LinksCount' = 2 * Cardinality(Taken')
  BY <1>2, <1>7, <1>8, <1>9
<1> QED
  BY <1>4, <1>5, <1>6, <1>10 DEF LinksOK

(* Its strip gets longer by it, the other strips stay.                     *)
LEMMA GrowsStrip ==
  ASSUME NEW t, NEW d, NEW next, NEW back, Grows(t, d),
         next = neighbours[t][d], back = indices[t][d]
  PROVE  /\ \A u \in StripOf(t) \cup {next} : StripOf(u)' = StripOf(t) \cup {next}
         /\ \A u \in InUse \ (StripOf(t) \cup {next}) : StripOf(u)' = StripOf(u)
         /\ next \notin StripOf(t) /\ StripOf(t) \subseteq stripped
<1> DEFINE C == StripOf(t) \cup {next}
<1>1. /\ t \in InUse /\ t \in Tris /\ d \in Dir /\ back \in Dir /\ InUse \subseteq Tris
      /\ next \in InUse \ stripped /\ next \in Tris /\ next # t
      /\ neighbours[next][back] = t
      /\ Links(next) = {}
      /\ Links(t)' = Links(t) \cup {d} /\ Links(next)' = {back}
      /\ \A u \in Tris \ {t, next} : Links(u)' = Links(u)
      /\ \A u \in Tris : Links(u) \subseteq Links(u)'
  BY NewLink
<1>2. neighbours' = neighbours /\ indices' = indices /\ InUse' = InUse /\ trisCount' = trisCount
  BY DEF Grows, mesh, InUse
<1>3. MeshOK /\ Agree(Links) /\ t \in stripped /\ stripped \subseteq InUse
      /\ \A u \in Tris : Links(u) # {} => u \in stripped
  BY DEF Grows, ArraysOK, LinksOK
<1>4. MeshOK' /\ Agree(Links)'
  BY <1>2, <1>3, GrowsLinks, ZenonT(40) DEF MeshOK, IsMesh, Stitched, LinksOK
<1>5. \A S \in SUBSET InUse : S \in Enclosed' <=> \A u \in S : \A e \in Links(u)' : neighbours[u][e] \in S
  BY <1>2 DEF Enclosed
<1>6. Enclosed' \subseteq Enclosed
  BY <1>1, <1>2, <1>5 DEF Enclosed
<1>7. /\ t \in StripOf(t) /\ StripOf(t) \in Enclosed /\ StripOf(t) \subseteq InUse
      /\ \A S \in Enclosed : t \in S => StripOf(t) \subseteq S
  BY <1>1, <1>3, StripIsEnclosed DEF Enclosed
<1>8. StripOf(t) \subseteq stripped
  <2>1. stripped \in Enclosed
    <3>1. ASSUME NEW u \in stripped, NEW e \in Links(u) PROVE neighbours[u][e] \in stripped
      <4>1. u \in Tris /\ e \in Dir
        BY <1>1, <1>3, LinksArePositions
      <4>2. neighbours[u][e] # Null /\ indices[u][e] \in Links(neighbours[u][e])
        BY <1>3, <4>1 DEF Agree
      <4>3. neighbours[u][e] \in Tris
        BY <1>3, <4>1, <4>2, EdgeFacts
      <4> QED
        BY <1>3, <4>2, <4>3
    <3> QED
      BY <1>3, <3>1 DEF Enclosed
  <2> QED
    BY <1>3, <1>7, <2>1
<1>9. C \in Enclosed'
  <2>1. ASSUME NEW u \in C, NEW e \in Links(u)' PROVE neighbours[u][e] \in C
    <3>1. u \in Tris
      BY <1>1, <1>7
    <3>2. CASE u = next
      BY <1>1, <1>7, <2>1, <3>2
    <3>3. CASE u # next /\ e \in Links(u)
      BY <1>7, <2>1, <3>3 DEF Enclosed
    <3>4. CASE u # next /\ e \notin Links(u)
      <4>1. u = t /\ e = d
        BY <1>1, <2>1, <3>1, <3>4
      <4> QED
        BY <4>1
    <3> QED
      BY <3>2, <3>3, <3>4
  <2>2. C \in SUBSET InUse
    BY <1>1, <1>7
  <2> QED
    BY <1>5, <2>1, <2>2
<1>10. \A u \in InUse : /\ StripOf(u)' \in Enclosed' /\ u \in StripOf(u)'
                        /\ \A S \in Enclosed' : u \in S => StripOf(u)' \subseteq S
  <2>1. (MeshOK /\ Agree(Links) =>
           \A u \in InUse : /\ u \in StripOf(u) /\ StripOf(u) \in Enclosed
                            /\ \A S \in Enclosed : u \in S => StripOf(u) \subseteq S)'
    BY StripsAreEnclosed, PTL
  <2> QED
    BY <1>2, <1>4, <2>1
<1>11. \A u \in InUse : \A v \in StripOf(u)' : StripOf(v)' = StripOf(u)'
  <2>1. (MeshOK /\ Agree(Links) =>
           \A u \in InUse : \A v \in StripOf(u) : StripOf(v) = StripOf(u))'
    BY StripsAreDisjoint, PTL
  <2> QED
    BY <1>2, <1>4, <2>1
<1>12. StripOf(t)' = C
  <2>1. StripOf(t)' \subseteq C
    BY <1>1, <1>7, <1>9, <1>10
  <2>2. StripOf(t) \subseteq StripOf(t)'
    BY <1>1, <1>6, <1>7, <1>10
  <2>3. next \in StripOf(t)'
    <3>1. t \in StripOf(t)' /\ d \in Links(t)' /\ StripOf(t)' \in Enclosed'
      BY <1>1, <1>10
    <3> QED
      BY <1>2, <3>1 DEF Enclosed
  <2> QED
    BY <2>1, <2>2, <2>3
<1>13. \A u \in C : StripOf(u)' = C
  BY <1>1, <1>11, <1>12
<1>14. ASSUME NEW u \in InUse \ C PROVE StripOf(u)' = StripOf(u)
  <2>1. /\ u \in StripOf(u) /\ StripOf(u) \in Enclosed /\ StripOf(u) \subseteq InUse
        /\ \A S \in Enclosed : u \in S => StripOf(u) \subseteq S
    BY <1>3, StripIsEnclosed DEF Enclosed
  <2>2. t \notin StripOf(u)
    <3>1. t \in StripOf(u) => StripOf(t) = StripOf(u)
      BY <1>3, SameStrip
    <3> QED
      BY <2>1, <3>1
  <2>3. next \notin StripOf(u)
    <3>1. InUse \ {next} \in Enclosed
      <4>1. ASSUME NEW v \in InUse \ {next}, NEW e \in Links(v) PROVE neighbours[v][e] \in InUse \ {next}
        <5>1. v \in Tris /\ e \in Dir
          BY <1>1, LinksArePositions
        <5>2. neighbours[v][e] # Null /\ indices[v][e] \in Links(neighbours[v][e])
          BY <1>3, <5>1 DEF Agree
        <5>3. neighbours[v][e] \in InUse
          BY <1>3, <5>1, <5>2, EdgeFacts
        <5> QED
          BY <1>1, <5>2, <5>3
      <4> QED
        BY <4>1 DEF Enclosed
    <3> QED
      BY <2>1, <3>1
  <2>4. StripOf(u) \in Enclosed'
    <3>1. ASSUME NEW v \in StripOf(u) PROVE Links(v)' = Links(v)
      BY <1>1, <2>1, <2>2, <2>3
    <3>2. \A v \in StripOf(u) : \A e \in Links(v)' : neighbours[v][e] \in StripOf(u)
      BY <2>1, <3>1 DEF Enclosed
    <3>3. PICK S \in SUBSET InUse : S = StripOf(u)
      BY <2>1
    <3>4. S \in Enclosed'
      BY <1>5, <3>2, <3>3
    <3> QED
      BY <3>3, <3>4
  <2>5. StripOf(u)' \subseteq StripOf(u)
    BY <1>10, <2>1, <2>4
  <2>6. StripOf(u) \subseteq StripOf(u)'
    BY <1>6, <1>10, <2>1
  <2> QED
    BY <2>5, <2>6
<1> QED
  BY <1>1, <1>8, <1>13, <1>14

(* Which triangles have at most one link: the new one, and t if it had     *)
(* none.                                                                   *)
LEMMA GrowsEnds ==
  ASSUME NEW t, NEW d, NEW next, NEW back, Grows(t, d),
         next = neighbours[t][d], back = indices[t][d]
  PROVE  /\ \A u \in InUse : u \in Taken' /\ AtMostOne(Links(u)') <=>
              \/ u = next
              \/ u \in Taken /\ AtMostOne(Links(u)) /\ (u = t => Links(t) = {})
         /\ Taken' = stripped'
<1>1. /\ t \in InUse /\ t \in Tris /\ d \in Dir /\ InUse \subseteq Tris
      /\ next \in InUse \ stripped /\ next \in Tris /\ next # t
      /\ d \notin Links(t) /\ Links(next) = {}
      /\ Links(t)' = Links(t) \cup {d} /\ Links(next)' = {back}
      /\ \A u \in Tris \ {t, next} : Links(u)' = Links(u)
  BY NewLink
<1>2. Taken = stripped /\ Taken' = stripped \cup {next} /\ Taken' = stripped'
  BY DEF Grows, Taken
<1>3. AtMostOne(Links(next)')
  BY <1>1 DEF AtMostOne
<1>4. AtMostOne(Links(t)') <=> Links(t) = {}
  BY <1>1 DEF AtMostOne
<1>5. t \in Taken /\ AtMostOne(Links(t))
  BY <1>2 DEF Grows
<1>6. ASSUME NEW u \in InUse, u # t, u # next PROVE Links(u)' = Links(u)
  BY <1>1, <1>6
<1>7. ASSUME NEW u \in InUse
      PROVE  u \in Taken' /\ AtMostOne(Links(u)') <=>
              \/ u = next
              \/ u \in Taken /\ AtMostOne(Links(u)) /\ (u = t => Links(t) = {})
  <2>1. CASE u = t
    BY <1>1, <1>2, <1>4, <1>5, <2>1
  <2>2. CASE u = next
    BY <1>1, <1>2, <1>3, <2>2
  <2>3. CASE u # t /\ u # next
    <3>1. Links(u)' = Links(u)
      BY <1>6, <2>3
    <3> QED
      BY <1>2, <2>3, <3>1
  <2> QED
    BY <2>1, <2>2, <2>3
<1> QED
  BY <1>2, <1>7

(* The strips that are finished stay apart from the one that grows ...     *)
LEMMA ApartGrows ==
  ASSUME NEW t, NEW d, NEW next, NEW back, Grows(t, d),
         next = neighbours[t][d], back = indices[t][d],
         ApartOK, Current = StripOf(t), Current' = Current \cup {next},
         endpoint \subseteq InUse, endpoint' = endpoint, preproc' = preproc
  PROVE  ApartOK'
<1>1. /\ \A u \in InUse \ (StripOf(t) \cup {next}) : StripOf(u)' = StripOf(u)
      /\ next \notin StripOf(t) /\ next \notin stripped
  BY GrowsStrip, NewLink
<1>2. neighbours' = neighbours /\ stripped' = stripped \cup {next}
  BY DEF Grows, mesh
<1>3. ASSUME preproc # "isolated", NEW a \in endpoint \ Current', ~IsPair(a)'
      PROVE  /\ Shut(a)'
             /\ \A e \in Dir :
                  LET b == neighbours[a][e]
                  IN  b \in endpoint \ (Current' \cup StripOf(a)') => IsPair(b)'
  <2>1. a \in endpoint \ Current /\ StripOf(a)' = StripOf(a)
    BY <1>1
  <2>2. ~IsPair(a)
    BY <1>3, <2>1 DEF IsPair
  <2>3. /\ Shut(a)
        /\ \A e \in Dir :
             neighbours[a][e] \in endpoint \ (Current \cup StripOf(a)) => IsPair(neighbours[a][e])
    BY <1>3, <2>1, <2>2 DEF ApartOK
  <2>4. \A e \in Dir : neighbours'[a][e] # Null => neighbours'[a][e] \in stripped' \ Current'
    BY <1>1, <1>2, <2>3 DEF Shut
  <2>5. ASSUME NEW e \in Dir, NEW b, b = neighbours[a][e], b \in endpoint \ (Current' \cup StripOf(a)')
        PROVE  IsPair(b)'
    <3>1. StripOf(b)' = StripOf(b)
      BY <1>1, <2>5
    <3>2. IsPair(b)
      BY <2>1, <2>3, <2>5
    <3> QED
      BY <3>1, <3>2 DEF IsPair
  <2>6. \A e \in Dir : neighbours'[a][e] \in endpoint \ (Current' \cup StripOf(a)') => IsPair(neighbours[a][e])'
    <3>1. ASSUME NEW e \in Dir, neighbours'[a][e] \in endpoint \ (Current' \cup StripOf(a)')
          PROVE  IsPair(neighbours[a][e])'
      <4>1. PICK b : b = neighbours[a][e]
        OBVIOUS
      <4>2. IsPair(b)' /\ b = neighbours'[a][e]
        BY <1>2, <2>5, <3>1, <4>1
      <4> QED
        BY <4>2 DEF IsPair
    <3> QED
      BY <3>1
  <2>7. Shut(a)'
    BY <2>4 DEF Shut
  <2> QED
    BY <1>2, <2>6, <2>7
<1> QED
  BY <1>2, <1>3 DEF ApartOK

(* ... and from one that is started ...                                    *)
LEMMA ApartStarts ==
  ASSUME ApartOK, NEW first, first \notin stripped, Current = {}, Current' = {first},
         UNCHANGED <<mesh, linkState, preproc>>, stripped' = stripped \cup {first},
         endpoint' = endpoint \/ endpoint' = endpoint \cup {first}
  PROVE  ApartOK'
<1>1. /\ neighbours' = neighbours /\ trisCount' = trisCount /\ linkState' = linkState
      /\ preproc' = preproc
  BY DEF mesh
<1>2. \A u : StripOf(u)' = StripOf(u)
  BY <1>1 DEF StripOf, Enclosed, InUse, Links
<1>3. ASSUME preproc # "isolated", NEW a \in endpoint' \ Current', ~IsPair(a)'
      PROVE  /\ Shut(a)'
             /\ \A e \in Dir : neighbours'[a][e] \in endpoint' \ (Current' \cup StripOf(a)')
                  => IsPair(neighbours[a][e])'
  <2>1. a \in endpoint \ Current /\ ~IsPair(a)
    BY <1>2, <1>3 DEF IsPair
  <2>2. /\ \A e \in Dir : neighbours[a][e] # Null => neighbours[a][e] \in stripped \ Current
        /\ \A e \in Dir :
             neighbours[a][e] \in endpoint \ (Current \cup StripOf(a)) => IsPair(neighbours[a][e])
    BY <1>3, <2>1 DEF ApartOK, Shut
  <2>3. \A e \in Dir : neighbours'[a][e] # Null => neighbours'[a][e] \in stripped' \ Current'
    BY <1>1, <2>2
  <2>4. \A u : IsPair(u)' <=> IsPair(u)
    BY <1>2 DEF IsPair
  <2>5. ASSUME NEW e \in Dir, neighbours'[a][e] \in endpoint' \ (Current' \cup StripOf(a)')
        PROVE  IsPair(neighbours[a][e])'
    <3>1. neighbours[a][e] \in endpoint \ (Current \cup StripOf(a))
      BY <1>1, <1>2, <2>5
    <3>2. PICK b : b = neighbours[a][e]
      OBVIOUS
    <3>3. IsPair(b)' /\ b = neighbours'[a][e]
      BY <1>1, <2>2, <2>4, <3>1, <3>2
    <3> QED
      BY <3>3 DEF IsPair
  <2>6. Shut(a)'
    BY <2>3 DEF Shut
  <2> QED
    BY <2>5, <2>6
<1> QED
  BY <1>1, <1>3 DEF ApartOK

(* ... and so is the one that is finished, unless it is a pair.            *)
LEMMA ApartFinishes ==
  ASSUME ArraysOK, Agree(Links), ApartOK, Current \subseteq InUse, Current' = {},
         UNCHANGED <<mesh, linkState, preproc, stripped>>,
         endpoint \subseteq endpoint', endpoint' \subseteq endpoint \cup Current,
         \A a \in Current : StripOf(a) = Current,
         \A a \in endpoint' \cap Current : IsPair(a) \/ Open(a) = {}
  PROVE  ApartOK'
<1>1. /\ neighbours' = neighbours /\ trisCount' = trisCount /\ linkState' = linkState
      /\ preproc' = preproc /\ stripped' = stripped
  BY DEF mesh
<1>2. \A u : StripOf(u)' = StripOf(u)
  BY <1>1 DEF StripOf, Enclosed, InUse, Links
<1>3. \A u : IsPair(u)' <=> IsPair(u)
  BY <1>2 DEF IsPair
<1>4. MeshOK /\ InUse \subseteq Tris /\ endpoint \subseteq InUse
  BY MaxTrisAssumption DEF ArraysOK, MeshOK, IsMesh, InUse, Tris
<1>5. ASSUME preproc # "isolated", NEW a \in endpoint', ~IsPair(a)
      PROVE  /\ \A e \in Dir : neighbours[a][e] # Null => neighbours[a][e] \in stripped
             /\ \A e \in Dir : neighbours[a][e] \in endpoint' \ StripOf(a)
                  => IsPair(neighbours[a][e])
  <2>1. CASE a \in Current
    <3>1. Open(a) = {} /\ StripOf(a) = Current
      BY <1>5, <2>1
    <3>2. ASSUME NEW e \in Dir, NEW b, b = neighbours[a][e], b \in endpoint' \ StripOf(a), ~IsPair(b)
          PROVE  FALSE
      <4>1. b \in endpoint \ Current /\ b \in Tris /\ a \in Tris
        BY <1>4, <2>1, <3>1, <3>2
      <4>2. neighbours[a][e] # Null
        BY <3>2, <4>1 DEF Tris, Null
      <4>3. neighbours[b][indices[a][e]] = a /\ indices[a][e] \in Dir
        BY <1>4, <3>2, <4>1, <4>2, EdgeFacts
      <4>4. \A f \in Dir : neighbours[b][f] # Null => neighbours[b][f] \notin Current
        BY <1>5, <3>2, <4>1 DEF ApartOK, Shut
      <4>5. a # Null
        BY <4>1 DEF Tris, Null
      <4> QED
        BY <2>1, <4>3, <4>4, <4>5
    <3> QED
      BY <3>1, <3>2 DEF Open
  <2>2. CASE a \notin Current
    <3>1. a \in endpoint \ Current
      BY <2>2
    <3>2. /\ \A e \in Dir : neighbours[a][e] # Null => neighbours[a][e] \in stripped \ Current
          /\ \A e \in Dir :
               neighbours[a][e] \in endpoint \ (Current \cup StripOf(a)) => IsPair(neighbours[a][e])
      BY <1>5, <3>1 DEF ApartOK, Shut
    <3>3. \A u \in Tris : u # Null
      BY DEF Tris, Null
    <3>4. ASSUME NEW e \in Dir, neighbours[a][e] \in endpoint' \ StripOf(a)
          PROVE  IsPair(neighbours[a][e])
      <4>1. neighbours[a][e] # Null
        BY <1>4, <3>3, <3>4
      <4>2. neighbours[a][e] \in endpoint \ Current
        BY <3>2, <3>4, <4>1
      <4> QED
        BY <3>2, <3>4, <4>2
    <3> QED
      BY <3>2, <3>4
  <2> QED
    BY <2>1, <2>2
<1>6. ASSUME preproc # "isolated", NEW a \in endpoint', ~IsPair(a)'
      PROVE  /\ Shut(a)'
             /\ \A e \in Dir : neighbours'[a][e] \in endpoint' \ (Current' \cup StripOf(a)')
                  => IsPair(neighbours[a][e])'
  <2>1. ~IsPair(a)
    BY <1>3, <1>6
  <2>2. \A e \in Dir : neighbours'[a][e] # Null => neighbours'[a][e] \in stripped' \ Current'
    BY <1>1, <1>5, <1>6, <2>1
  <2>3. ASSUME NEW e \in Dir, neighbours'[a][e] \in endpoint' \ (Current' \cup StripOf(a)')
        PROVE  IsPair(neighbours[a][e])'
    <3>1. PICK b : b = neighbours[a][e]
      OBVIOUS
    <3>2. IsPair(b)' /\ b = neighbours'[a][e]
      BY <1>1, <1>2, <1>3, <1>5, <1>6, <2>1, <2>3, <3>1
    <3> QED
      BY <3>2 DEF IsPair
  <2>4. Shut(a)'
    BY <2>2 DEF Shut
  <2> QED
    BY <2>3, <2>4
<1> QED
  BY <1>1, <1>6 DEF ApartOK

(* Two triangles are two.                                                  *)
LEMMA SizeOfTwo ==
  ASSUME NEW x, NEW y, x # y
  PROVE  Cardinality({x, y}) = 2
<1> DEFINE S == {x}
<1>1. IsFiniteSet(S) /\ Cardinality(S) = 1 /\ y \notin S /\ {x, y} = S \cup {y}
  BY FS_Singleton
<1> HIDE DEF S
<1>2. Cardinality(S \cup {y}) = 1 + 1
  BY <1>1, FS_AddElement
<1> QED
  BY <1>1, <1>2

(* A pair is as short as it is.                                            *)
LEMMA ApartPairs ==
  ASSUME NEW t, NEW d, NEW next, NEW back, Grows(t, d),
         next = neighbours[t][d], back = indices[t][d],
         ApartOK, Current = {t}, StripOf(t) = {t}, Current' = {}, t \in endpoint,
         endpoint \subseteq InUse, endpoint' = endpoint \cup {next}, preproc' = preproc
  PROVE  ApartOK'
<1>1. /\ \A u \in InUse \ {t, next} : StripOf(u)' = StripOf(u)
      /\ StripOf(t)' = {t, next} /\ StripOf(next)' = {t, next}
      /\ next \notin stripped /\ next \in InUse /\ next # t
  <2>1. StripOf(t) \cup {next} = {t, next}
    OBVIOUS
  <2> QED
    BY <2>1, GrowsStrip, NewLink
<1>2. neighbours' = neighbours /\ stripped' = stripped \cup {next}
  BY DEF Grows, mesh
<1>3. Cardinality({t, next}) = 2
  BY <1>1, SizeOfTwo
<1>4. IsPair(t)' /\ IsPair(next)'
  BY <1>1, <1>3 DEF IsPair
<1>5. ASSUME preproc # "isolated", NEW a \in endpoint', ~IsPair(a)'
      PROVE  /\ Shut(a)'
             /\ \A e \in Dir : neighbours'[a][e] \in endpoint' \ (Current' \cup StripOf(a)')
                  => IsPair(neighbours[a][e])'
  <2>1. a \in endpoint \ Current /\ a \in InUse \ {t, next} /\ StripOf(a)' = StripOf(a)
    BY <1>1, <1>3, <1>5 DEF IsPair
  <2>2. ~IsPair(a)
    BY <1>5, <2>1 DEF IsPair
  <2>3. /\ \A e \in Dir : neighbours[a][e] # Null => neighbours[a][e] \in stripped \ Current
        /\ \A e \in Dir :
             neighbours[a][e] \in endpoint \ (Current \cup StripOf(a)) => IsPair(neighbours[a][e])
    BY <1>5, <2>1, <2>2 DEF ApartOK, Shut
  <2>4. \A e \in Dir : neighbours'[a][e] # Null => neighbours'[a][e] \in stripped' \ Current'
    BY <1>2, <2>3
  <2>5. ASSUME NEW e \in Dir, neighbours'[a][e] \in endpoint' \ (Current' \cup StripOf(a)')
        PROVE  IsPair(neighbours[a][e])'
    <3>1. PICK b : b = neighbours[a][e]
      OBVIOUS
    <3>2. b = neighbours'[a][e] /\ b \in endpoint' \ StripOf(a)
      BY <1>2, <2>1, <2>5, <3>1
    <3>3. IsPair(b)'
      <4>1. CASE b \in {t, next}
        BY <1>1, <1>3, <4>1 DEF IsPair
      <4>2. CASE b \notin {t, next}
        <5>1. b \in endpoint \ (Current \cup StripOf(a)) /\ StripOf(b)' = StripOf(b)
          BY <1>1, <3>2, <4>2
        <5>2. IsPair(b)
          BY <2>3, <3>1, <5>1
        <5> QED
          BY <5>1, <5>2 DEF IsPair
      <4> QED
        BY <4>1, <4>2
    <3> QED
      BY <3>2, <3>3 DEF IsPair
  <2>6. Shut(a)'
    BY <2>4 DEF Shut
  <2> QED
    BY <2>5, <2>6
<1>6. preproc' # "isolated" => preproc # "isolated"
  OBVIOUS
<1> QED
  BY <1>2, <1>5, <1>6 DEF ApartOK

-----------------------------------------------------------------------------
(***************************************************************************)
(* Where a strip goes on to.                                               *)
(***************************************************************************)
(* A link leads to a triangle that is in a strip.                          *)
LEMMA LinkedIsNotOpen ==
  ASSUME ArraysOK, LinksOK, NEW t \in InUse, NEW d \in Links(t)
  PROVE  d \notin Open(t)
<1>1. t \in Tris /\ d \in Dir /\ MeshOK
  BY MaxTrisAssumption, LinksArePositions DEF ArraysOK, MeshOK, IsMesh, InUse, Tris
<1>2. neighbours[t][d] # Null /\ indices[t][d] \in Links(neighbours[t][d])
  BY <1>1 DEF LinksOK, Agree
<1>3. neighbours[t][d] \in Tris
  BY <1>1, <1>2, EdgeFacts
<1> QED
  BY <1>2, <1>3 DEF LinksOK, Open

(* An end goes on as long as it can.                                       *)
LEMMA GrowDirFound ==
  ASSUME ArraysOK, LinksOK, NEW t \in InUse, NEW i \in Dir, Links(t) = {i}, NEW v
  PROVE  /\ GrowDir(t, i, v) # NotFound => GrowDir(t, i, v) \in Open(t)
         /\ GrowDir(t, i, v) = NotFound => Open(t) = {}
<1> DEFINE d == RemainingIndex(i, 0)
           e == RemainingIndex(i, 1)
<1>1. d \in Dir /\ e \in Dir /\ \A f \in Dir : f # i => f \in {d, e}
  BY Remaining
<1>2. i \notin Open(t)
  BY LinkedIsNotOpen
<1>3. Open(t) \subseteq Dir
  BY DEF Open
<1>4. NotFound \notin Dir
  BY DEF NotFound, Dir
<1> HIDE DEF d, e
<1>5. Open(t) \cap {d, e} = {} => Open(t) = {}
  BY <1>1, <1>2, <1>3
<1> USE DEF d, e
<1>6. CASE Open(t) \cap {d, e} = {}
  BY <1>5, <1>6 DEF GrowDir
<1>7. CASE Open(t) \cap {d, e} # {}
  <2>1. GrowDir(t, i, v) \in Open(t) \cap {d, e}
    BY <1>7 DEF GrowDir
  <2> QED
    BY <1>3, <1>4, <2>1
<1> QED
  BY <1>6, <1>7

(* There is a next core triangle if there is a neighbour in no strip.      *)
LEMMA NextCoreFound ==
  ASSUME ArraysOK, LastCore \in InUse
  PROVE  /\ NextCoreDir # NotFound => NextCoreDir \in Open(LastCore)
         /\ NextCoreDir = NotFound => Open(LastCore) = {}
<1> DEFINE t == LastCore
           IsBest(d) == \A e \in Open(t) \ {d} : \/ CountAt(t, d) < CountAt(t, e)
                                                 \/ CountAt(t, d) = CountAt(t, e) /\ d < e
<1>1. Open(t) \subseteq Dir /\ NotFound \notin Dir
  BY DEF Open, NotFound, Dir
<1>2. CASE Open(t) = {}
  BY <1>2 DEF NextCoreDir
<1>3. CASE Open(t) # {}
  <2>1. \A d \in Open(t) : CountAt(t, d) \in Nat
    <3>1. MeshOK /\ t \in Tris /\ unstripped \in [Tris -> 0 .. 3]
      BY MaxTrisAssumption DEF ArraysOK, MeshOK, IsMesh, InUse, Tris
    <3>2. \A d \in Open(t) : neighbours[t][d] \in Tris
      BY <1>1, <3>1, EdgeFacts DEF Open
    <3> QED
      BY <3>1, <3>2 DEF CountAt
  <2> DEFINE c(d) == CountAt(t, d)
             P == Open(t)
  <2>2. \E d \in P : \A e \in P \ {d} : c(d) < c(e) \/ (c(d) = c(e) /\ d < e)
    <3>1. \A d \in P : c(d) \in Nat
      BY <2>1
    <3>2. P \subseteq {0, 1, 2} /\ P # {}
      BY <1>1, <1>3 DEF Dir
    <3> HIDE DEF c, P
    <3>3. CASE 0 \in P /\ (1 \in P => c(0) <= c(1)) /\ (2 \in P => c(0) <= c(2))
      BY <3>1, <3>2, <3>3
    <3>4. CASE 1 \in P /\ (0 \in P => c(1) < c(0)) /\ (2 \in P => c(1) <= c(2))
      BY <3>1, <3>2, <3>4
    <3>5. CASE 2 \in P /\ (0 \in P => c(2) < c(0)) /\ (1 \in P => c(2) < c(1))
      BY <3>1, <3>2, <3>5
    <3>6. /\ 0 \in P => c(0) \in Nat
          /\ 1 \in P => c(1) \in Nat
          /\ 2 \in P => c(2) \in Nat
          /\ 0 \in P \/ 1 \in P \/ 2 \in P
      BY <3>1, <3>2
    <3>7. \/ 0 \in P /\ (1 \in P => c(0) <= c(1)) /\ (2 \in P => c(0) <= c(2))
          \/ 1 \in P /\ (0 \in P => c(1) < c(0)) /\ (2 \in P => c(1) <= c(2))
          \/ 2 \in P /\ (0 \in P => c(2) < c(0)) /\ (1 \in P => c(2) < c(1))
      BY <3>6
    <3> QED
      BY <3>3, <3>4, <3>5, <3>7
  <2>3. \E d \in Open(t) : IsBest(d)
    BY <2>2
  <2>4. NextCoreDir = CHOOSE d \in Open(t) : IsBest(d)
    BY <1>3 DEF NextCoreDir
  <2>5. NextCoreDir \in Open(t)
    BY <2>3, <2>4
  <2> QED
    BY <1>1, <1>3, <2>5
<1> QED
  BY <1>2, <1>3

-----------------------------------------------------------------------------
(***************************************************************************)
(* The list of the endpoints.                                              *)
(***************************************************************************)
(* The ends of a strip are flagged and listed.                             *)
LEMMA Marked ==
  ASSUME NEW list \in Seq(Tris), IsInjectiveList(list), MarkEndpoints(list),
         endpoints \in Seq(Tris), IsInjectiveList(endpoints), ElementsOf(endpoints) = endpoint,
         \A t \in ElementsOf(list) : t \notin endpoint
  PROVE  /\ endpoints' \in Seq(Tris) /\ IsInjectiveList(endpoints')
         /\ ElementsOf(endpoints') = endpoint'
         /\ endpoint' = endpoint \cup ElementsOf(list)
<1> DEFINE n == Len(list)
           rev == [i \in DOMAIN list |-> list[n + 1 - i]]
           old == endpoints
           all == rev \o old
<1>1. n \in Nat /\ DOMAIN list = 1 .. n /\ \A i \in 1 .. n : list[i] \in Tris
  OBVIOUS
<1>2. rev \in Seq(Tris) /\ Len(rev) = n /\ \A i \in 1 .. n : rev[i] = list[n + 1 - i]
  <2>1. rev \in [1 .. n -> Tris]
    BY <1>1
  <2> QED
    BY <1>1, <2>1
<1>3. endpoint' = endpoint \cup ElementsOf(list) /\ endpoints' = all
  BY DEF MarkEndpoints, ElementsOf
<1> HIDE DEF rev, n
<1>4. /\ all \in Seq(Tris) /\ Len(all) = n + Len(old) /\ Len(old) \in Nat
      /\ \A i \in 1 .. n : all[i] = rev[i]
      /\ \A i \in 1 .. Len(old) : all[n + i] = old[i]
  <2>1. old \in Seq(Tris) /\ Len(old) \in Nat
    OBVIOUS
  <2> HIDE DEF old
  <2>2. all \in Seq(Tris) /\ Len(all) = n + Len(old)
    BY <1>1, <1>2, <2>1, ConcatProperties
  <2>3. \A i \in 1 .. n + Len(old) : all[i] = IF i <= n THEN rev[i] ELSE old[i - n]
    BY <1>1, <1>2, <2>1, ConcatProperties
  <2> HIDE DEF all
  <2>4. \A i \in 1 .. n : all[i] = rev[i]
    BY <1>1, <2>1, <2>3
  <2>5. ASSUME NEW i \in 1 .. Len(old) PROVE all[n + i] = old[i]
    <3>1. PICK j \in 1 .. n + Len(old) : j = n + i /\ ~(j <= n) /\ j - n = i
      BY <1>1, <2>1
    <3>2. all[j] = old[j - n]
      BY <2>3, <3>1
    <3> QED
      BY <3>1, <3>2
  <2> QED
    BY <2>1, <2>2, <2>4, <2>5
<1>5. ASSUME NEW i \in DOMAIN all
      PROVE  \/ i \in 1 .. n /\ all[i] = list[n + 1 - i] /\ n + 1 - i \in DOMAIN list
             \/ i - n \in DOMAIN old /\ all[i] = old[i - n]
  <2>1. i \in 1 .. n + Len(old)
    BY <1>4
  <2>2. CASE i <= n
    BY <1>1, <1>2, <1>4, <2>1, <2>2
  <2>3. CASE i > n
    <3>1. i - n \in 1 .. Len(old) /\ i = n + (i - n)
      BY <1>1, <1>4, <2>1, <2>3
    <3> QED
      BY <1>4, <3>1
  <2> QED
    BY <1>1, <2>1, <2>2, <2>3
<1>6. /\ \A i \in DOMAIN list : n + 1 - i \in DOMAIN all /\ all[n + 1 - i] = list[i]
      /\ \A i \in DOMAIN old : n + i \in DOMAIN all /\ all[n + i] = old[i]
  <2>1. ASSUME NEW i \in DOMAIN list PROVE n + 1 - i \in DOMAIN all /\ all[n + 1 - i] = list[i]
    <3>1. n + 1 - i \in 1 .. n /\ n + 1 - (n + 1 - i) = i
      BY <1>1
    <3> QED
      BY <1>1, <1>2, <1>4, <3>1
  <2>2. ASSUME NEW i \in DOMAIN old PROVE n + i \in DOMAIN all /\ all[n + i] = old[i]
    BY <1>1, <1>4
  <2> QED
    BY <2>1, <2>2
<1> HIDE DEF all
<1>7. ElementsOf(all) = endpoint \cup ElementsOf(list)
  BY <1>5, <1>6 DEF ElementsOf
<1>8. IsInjectiveList(all)
  <2> SUFFICES ASSUME NEW i \in DOMAIN all, NEW j \in DOMAIN all, all[i] = all[j] PROVE i = j
    BY DEF IsInjectiveList
  <2>0. i \in Int /\ j \in Int
    BY <1>4
  <2>1. \A p \in DOMAIN list : list[p] \notin endpoint
    BY DEF ElementsOf
  <2>2. \A p \in DOMAIN old : old[p] \in endpoint
    BY DEF ElementsOf
  <2>3. CASE i \in 1 .. n /\ all[i] = list[n + 1 - i] /\ n + 1 - i \in DOMAIN list
    <3>1. all[j] \notin endpoint
      BY <2>1, <2>3
    <3>2. all[j] = list[n + 1 - j] /\ n + 1 - j \in DOMAIN list
      BY <1>5, <2>2, <3>1
    <3>3. n + 1 - i = n + 1 - j
      BY <2>3, <3>2 DEF IsInjectiveList
    <3> QED
      BY <1>1, <2>0, <3>3
  <2>4. CASE i - n \in DOMAIN old /\ all[i] = old[i - n]
    <3>1. all[j] \in endpoint
      BY <2>2, <2>4
    <3>2. j - n \in DOMAIN old /\ all[j] = old[j - n]
      BY <1>5, <2>1, <3>1
    <3>3. i - n = j - n
      BY <2>4, <3>2 DEF IsInjectiveList
    <3> QED
      BY <1>1, <2>0, <3>3
  <2> QED
    BY <1>5, <2>3, <2>4
<1> QED
  BY <1>3, <1>4, <1>7, <1>8

-----------------------------------------------------------------------------
(***************************************************************************)
(* The steps.                                                              *)
(***************************************************************************)
(* As long as no link changes, the strips are the same.                    *)
LEMMA SameLinks ==
  ASSUME UNCHANGED <<mesh, linkState>>
  PROVE  /\ \A u : Links(u)' = Links(u) /\ StripOf(u)' = StripOf(u)
         /\ \A u : IsPair(u)' <=> IsPair(u)
         /\ MeshOK' <=> MeshOK
         /\ Agree(Links)' <=> Agree(Links)
         /\ Circles(Links)' = Circles(Links)
         /\ LinksCount' = LinksCount
         /\ InUse' = InUse /\ neighbours' = neighbours /\ indices' = indices
         /\ trisCount' = trisCount
<1>1. /\ neighbours' = neighbours /\ trisCount' = trisCount /\ linkState' = linkState
      /\ indices' = indices
  BY DEF mesh
<1>2. \A u : Links(u)' = Links(u)
  BY <1>1 DEF Links
<1>3. \A u : StripOf(u)' = StripOf(u)
  BY <1>1 DEF StripOf, Enclosed, InUse, Links
<1>4. \A u : IsPair(u)' <=> IsPair(u)
  BY <1>3 DEF IsPair
<1>5. /\ MeshOK' <=> MeshOK
      /\ InUse' = InUse
      /\ LinksCount' = LinksCount
  BY <1>1 DEF MeshOK, InUse, LinksCount, Links
<1>6. Agree(Links)' <=> Agree(Links)
  BY <1>1 DEF Agree, Links
<1>7. Circles(Links)' = Circles(Links)
  BY <1>1 DEF Circles, Links, InUse
<1> QED
  BY <1>1, <1>2, <1>3, <1>4, <1>5, <1>6, <1>7

(* With no links there is no circle.                                       *)
LEMMA NoLinksNoCircles ==
  ASSUME \A t \in Tris : Links(t) = {}, MeshOK
  PROVE  Agree(Links) /\ Circles(Links) = {} /\ LinksCount = 0
<1>1. InUse \subseteq Tris
  BY MaxTrisAssumption DEF MeshOK, IsMesh, InUse, Tris
<1>2. Agree(Links)
  <2>1. 0 \in Dir
    BY DEF Dir
  <2> QED
    BY <2>1 DEF Agree
<1>3. Circles(Links) = {}
  BY <1>1 DEF Circles, AtMostOne
<1>4. {side \in InUse \X Dir : side[2] \in Links(side[1])} = {}
  BY <1>1
<1> QED
  BY <1>2, <1>3, <1>4, FS_EmptySet DEF LinksCount

(* The byte counts the neighbours of a triangle.                           *)
LEMMA NeighboursCounted ==
  ASSUME NEW S \in SUBSET Dir
  PROVE  Cardinality(S) \in 0 .. 3
<1>1. IsFiniteSet(0 .. 2) /\ Cardinality(0 .. 2) = 3
  <2>1. IsFiniteSet(0 .. 2) /\ Cardinality(0 .. 2) = IF 0 > 2 THEN 0 ELSE 2 - 0 + 1
    BY FS_Interval, 0 \in Int, 2 \in Int
  <2> QED
    BY <2>1
<1>2. Cardinality(S) <= 3 /\ Cardinality(S) \in Nat
  BY <1>1, FS_Subset, FS_CardinalityType DEF Dir
<1> QED
  BY <1>2

(* What is apart stays apart as long as no strip changes.                  *)
LEMMA ApartStays ==
  ASSUME ApartOK, UNCHANGED <<mesh, linkState, stripped, endpoint, preproc>>, Current' = Current
  PROVE  ApartOK'
<1>1. /\ \A u : StripOf(u)' = StripOf(u)
      /\ \A u : IsPair(u)' <=> IsPair(u)
      /\ neighbours' = neighbours /\ stripped' = stripped /\ endpoint' = endpoint
      /\ preproc' = preproc
  BY SameLinks
<1>2. ASSUME preproc # "isolated", NEW a \in endpoint \ Current, ~IsPair(a)
      PROVE  /\ Shut(a)'
             /\ \A d \in Dir : neighbours'[a][d] \in endpoint' \ (Current' \cup StripOf(a)')
                  => IsPair(neighbours[a][d])'
  <2>1. /\ Shut(a)
        /\ \A d \in Dir : neighbours[a][d] \in endpoint \ (Current \cup StripOf(a))
             => IsPair(neighbours[a][d])
    BY <1>2 DEF ApartOK
  <2>2. Shut(a)'
    BY <1>1, <2>1 DEF Shut
  <2>3. ASSUME NEW d \in Dir, neighbours'[a][d] \in endpoint' \ (Current' \cup StripOf(a)')
        PROVE  IsPair(neighbours[a][d])'
    <3>1. PICK b : b = neighbours[a][d]
      OBVIOUS
    <3>2. IsPair(b)' /\ b = neighbours'[a][d]
      BY <1>1, <2>1, <2>3, <3>1
    <3> QED
      BY <3>2 DEF IsPair
  <2> QED
    BY <2>2, <2>3
<1> QED
  BY <1>1, <1>2 DEF ApartOK

(* The invariant holds before anything is delineated: no triangle is in a  *)
(* What build_tris leaves, before any triangle is in a strip.              *)
LEMMA NothingStripped ==
  ASSUME MeshOK, unstripped = [t \in Tris |-> NeighboursCount(t)],
         linkState = [t \in Tris |-> {}], endpoint = {}, stripped = {},
         core = <<>>, coreDirs = <<>>, stripsCount = 0
  PROVE  ArraysOK /\ CountsOK
<1>1. InUse \subseteq Tris
  BY MaxTrisAssumption DEF MeshOK, IsMesh, InUse, Tris
<1>2. unstripped \in [Tris -> 0 .. 3]
  <2>1. \A t : NeighboursCount(t) \in 0 .. 3
    BY NeighboursCounted DEF NeighboursCount
  <2> QED
    BY <2>1
<1>3. linkState \in [Tris -> SUBSET Dir] /\ core \in Seq(Tris) /\ coreDirs \in Seq(Dir)
  OBVIOUS
<1>4. CountsOK
  BY <1>1 DEF CountsOK, NeighboursCount, Open
<1> QED
  BY <1>2, <1>3, <1>4 DEF ArraysOK

(* strip or in a list.                                                     *)
LEMMA FreshInv == Fresh => PreprocInv
<1> SUFFICES ASSUME Fresh PROVE PreprocInv
  OBVIOUS
<1>1. MeshOK
  BY DEF Fresh
<1>2. InUse \subseteq Tris
  BY <1>1, MaxTrisAssumption DEF MeshOK, IsMesh, InUse, Tris
<1>3. \A t \in Tris : Links(t) = {}
  BY DEF Fresh, Links, LinksOf
<1>4. ArraysOK /\ CountsOK
  BY NothingStripped DEF Fresh
<1>5. PhaseOK
  BY DEF PhaseOK, Fresh
<1>6. ListsOK
  <2>1. CountsOK
    BY <1>4
  <2>2. Sorted(unstripped, lists, {})
    <3>1. lists \in [0 .. 3 -> Seq(Tris)]
      BY DEF Fresh
    <3>2. \A c \in 0 .. 3 : lists[c] = <<>>
      BY DEF Fresh
    <3>3. IsInjectiveList(<<>>) /\ ElementsOf(<<>>) = {}
      BY DEF IsInjectiveList, ElementsOf
    <3> QED
      BY <3>1, <3>2, <3>3 DEF Sorted
  <2>3. pc = "Order"
    BY DEF Fresh
  <2> QED
    BY <2>1, <2>2, <2>3 DEF ListsOK
<1>7. LinksOK
  <2>1. Taken = {} /\ stripsCount = 0
    BY DEF Fresh, Taken
  <2>2. Agree(Links) /\ Circles(Links) = {} /\ LinksCount = 0
    BY <1>1, <1>3, NoLinksNoCircles
  <2>3. Cardinality(Taken) = 0
    BY <2>1, FS_EmptySet
  <2> QED
    BY <1>3, <2>1, <2>2, <2>3 DEF LinksOK
<1>8. EndpointsOK
  <2>1. Taken = {} /\ endpoints = <<>> /\ endpoint = {}
    BY DEF Fresh, Taken
  <2>2. endpoints \in Seq(Tris) /\ IsInjectiveList(endpoints) /\ ElementsOf(endpoints) = {}
    BY <2>1 DEF IsInjectiveList, ElementsOf
  <2> QED
    BY <2>1, <2>2 DEF EndpointsOK
<1>9. CoreOK /\ GrowOK
  BY DEF Fresh, CoreOK, GrowOK
<1>10. ApartOK
  BY DEF Fresh, ApartOK
<1> QED
  BY <1>4, <1>5, <1>6, <1>7, <1>8, <1>9, <1>10 DEF PreprocInv

(* ... and the initial states are such.                                    *)
LEMMA InitInv == Init => PreprocInv
<1>1. Init => MeshOK
  BY MeshesAssumption DEF Init, MeshOK
<1> QED
  BY <1>1, FreshInv DEF Init, Fresh

(* ... after every triangle has been made a strip of its own: they are all *)
(* ends, and listed backwards,                                             *)
LEMMA IsolateInv == PreprocInv /\ Isolate => PreprocInv'
<1> SUFFICES ASSUME PreprocInv, Isolate PROVE PreprocInv'
  OBVIOUS
<1> USE DEF PreprocInv
<1>1. /\ pc = "Order" /\ preproc = "isolated" /\ pc' = "Start" /\ preproc' = preproc
      /\ stripped = {} /\ stripped' = stripped /\ stripsCount' = trisCount
      /\ linkState' = linkState /\ lists' = lists /\ unstripped' = unstripped
      /\ core' = core /\ coreDirs' = coreDirs
      /\ grow' = grow /\ growNext' = growNext /\ firstEnd' = firstEnd
      /\ endpoint' = InUse
  BY DEF Isolate, adjVars, coreVars, growVars, PhaseOK, InUse
<1>2. /\ \A u : Links(u)' = Links(u) /\ StripOf(u)' = StripOf(u)
      /\ MeshOK' /\ MeshOK
      /\ Agree(Links)' /\ Circles(Links)' = {} /\ LinksCount' = LinksCount
      /\ InUse' = InUse /\ neighbours' = neighbours /\ trisCount' = trisCount
  BY SameLinks DEF Isolate, LinksOK, ArraysOK
<1>3. InUse \subseteq Tris /\ trisCount \in Nat
  BY <1>2, MaxTrisAssumption DEF MeshOK, IsMesh, InUse, Tris
<1>4. \A t \in Tris : Links(t) = {}
  BY <1>1 DEF LinksOK
<1>5. LinksCount = 0
  BY <1>2, <1>4, NoLinksNoCircles
<1>6. ArraysOK'
  BY <1>1, <1>2, <1>3 DEF ArraysOK
<1>7. PhaseOK'
  BY <1>1 DEF PhaseOK
<1>8. ListsOK'
  <2>1. \A u : Open(u)' = Open(u)
    BY <1>1, <1>2 DEF Open
  <2>2. \A t \in InUse' \ stripped' : unstripped'[t] = Cardinality(Open(t)')
    BY <1>1, <1>2, <2>1 DEF ListsOK, CountsOK
  <2>3. Sorted(unstripped', lists', {})
    BY <1>1 DEF ListsOK, CountsOK
  <2> QED
    BY <1>1, <2>2, <2>3 DEF ListsOK, CountsOK
<1>9. LinksOK'
  <2>1. Taken' = InUse
    BY <1>1, <1>2 DEF Taken
  <2>2. Cardinality(InUse) = trisCount
    BY <1>1, <1>2, StrippedAreFinite
  <2>3. \A t \in Tris : Links(t)' # {} => t \in stripped'
    BY <1>2, <1>4
  <2>4. 2 * stripsCount' + LinksCount' = 2 * Cardinality(Taken')
    BY <1>1, <1>2, <1>3, <1>5, <2>1, <2>2
  <2> QED
    BY <1>2, <2>3, <2>4 DEF LinksOK
<1>10. EndpointsOK'
  <2> DEFINE l == [i \in 1 .. trisCount |-> trisCount + 1 - i]
  <2>1. endpoints' = l
    BY DEF Isolate
  <2>2. \A i \in 1 .. trisCount : l[i] = trisCount + 1 - i /\ l[i] \in InUse
    BY <1>3 DEF InUse
  <2>3. l \in Seq(Tris)
    <3>1. l \in [1 .. trisCount -> Tris]
      BY <1>3, <2>2
    <3> QED
      BY <1>3, <3>1
  <2>4. DOMAIN l = 1 .. trisCount
    OBVIOUS
  <2> HIDE DEF l
  <2>5. IsInjectiveList(l)
    <3> SUFFICES ASSUME NEW i \in 1 .. trisCount, NEW j \in 1 .. trisCount, l[i] = l[j]
                 PROVE i = j
      BY <2>4 DEF IsInjectiveList
    <3> QED
      BY <1>3, <2>2
  <2>6. ElementsOf(l) = InUse
    <3>1. ASSUME NEW t \in InUse PROVE \E i \in DOMAIN l : l[i] = t
      <4>1. trisCount + 1 - t \in 1 .. trisCount /\ trisCount + 1 - (trisCount + 1 - t) = t
        BY <1>3 DEF InUse
      <4> QED
        BY <2>2, <2>4, <4>1
    <3> QED
      BY <2>2, <2>4, <3>1 DEF ElementsOf
  <2>7. endpoint' = {t \in Taken' : AtMostOne(Links(t)')} \ Growing'
    <3>1. \A t \in InUse : Links(t)' = {}
      BY <1>2, <1>3, <1>4
    <3>2. \A t \in InUse : AtMostOne(Links(t)')
      BY <3>1 DEF AtMostOne
    <3>3. Taken' = InUse /\ Growing' = {}
      BY <1>1, <1>2 DEF Taken, Growing
    <3> QED
      BY <1>1, <3>2, <3>3
  <2> QED
    BY <1>1, <2>1, <2>3, <2>5, <2>6, <2>7 DEF EndpointsOK
<1>11. CoreOK' /\ GrowOK'
  BY <1>1 DEF CoreOK, GrowOK
<1>12. ApartOK'
  BY <1>1 DEF ApartOK
<1> QED
  BY <1>6, <1>7, <1>8, <1>9, <1>10, <1>11, <1>12

(* The ordered lists have every triangle in use.                           *)
LEMMA OrderedAreSorted ==
  ASSUME MeshOK
  PROVE  Sorted(unstripped, OrderedLists, InUse)
<1> DEFINE S(c) == {t \in InUse : unstripped[t] = c}
<1>1. \A c : S(c) \in SUBSET Tris
  BY MaxTrisAssumption DEF MeshOK, IsMesh, InUse, Tris
<1>2. OrderedLists = [c \in 0 .. 3 |-> Descending(S(c))]
  BY DEF OrderedLists
<1> HIDE DEF S
<1>3. \A c \in 0 .. 3 : /\ OrderedLists[c] \in Seq(Tris) /\ IsInjectiveList(OrderedLists[c])
                        /\ ElementsOf(OrderedLists[c]) = S(c)
  BY <1>1, <1>2, DescendingList
<1>4. OrderedLists \in [0 .. 3 -> Seq(Tris)]
  BY <1>2, <1>3
<1> QED
  BY <1>3, <1>4 DEF Sorted, S

(* ... after the triangles have been put into the adjacency lists,         *)
LEMMA OrderTrisInv == PreprocInv /\ OrderTris => PreprocInv'
<1> SUFFICES ASSUME PreprocInv, OrderTris PROVE PreprocInv'
  OBVIOUS
<1> USE DEF PreprocInv
<1>1. /\ pc = "Order" /\ preproc # "isolated" /\ pc' = "Core" /\ preproc' = preproc
      /\ stripped = {} /\ stripped' = stripped /\ stripsCount' = stripsCount
      /\ unstripped' = unstripped /\ core' = core /\ coreDirs' = coreDirs
      /\ grow' = grow /\ growNext' = growNext /\ firstEnd' = firstEnd
      /\ linkState' = linkState /\ endpoint' = endpoint /\ endpoints' = endpoints
      /\ lists' = OrderedLists
  BY DEF OrderTris, stripVars, coreVars, growVars, PhaseOK
<1>2. /\ \A u : Links(u)' = Links(u)
      /\ MeshOK' /\ MeshOK
      /\ Agree(Links)' /\ Circles(Links)' = {} /\ LinksCount' = LinksCount
      /\ InUse' = InUse /\ neighbours' = neighbours /\ trisCount' = trisCount
  BY <1>1, SameLinks DEF OrderTris, LinksOK, ArraysOK
<1>3. InUse \subseteq Tris
  BY <1>2, MaxTrisAssumption DEF MeshOK, IsMesh, InUse, Tris
<1>4. Taken = stripped /\ Taken' = stripped /\ Growing = {} /\ Growing' = {}
  BY <1>1 DEF Taken, Growing
<1>5. ArraysOK'
  BY <1>1, <1>2 DEF ArraysOK
<1>6. PhaseOK'
  BY <1>1 DEF PhaseOK
<1>7. ListsOK'
  <2>1. \A u : Open(u)' = Open(u)
    BY <1>1, <1>2 DEF Open
  <2>2. \A t \in InUse' \ stripped' : unstripped'[t] = Cardinality(Open(t)')
    BY <1>1, <1>2, <2>1 DEF ListsOK, CountsOK
  <2>3. Sorted(unstripped', lists', InUse' \ stripped')
    BY <1>1, <1>2, OrderedAreSorted
  <2> QED
    BY <1>1, <2>2, <2>3 DEF ListsOK, CountsOK
<1>8. LinksOK'
  BY <1>1, <1>2, <1>4 DEF LinksOK
<1>9. EndpointsOK'
  BY <1>1, <1>2, <1>4 DEF EndpointsOK
<1>10. CoreOK' /\ GrowOK'
  BY <1>1 DEF CoreOK, GrowOK
<1>11. ApartOK'
  <2>1. endpoint = {}
    BY <1>1, <1>4 DEF EndpointsOK
  <2> QED
    BY <1>1, <2>1 DEF ApartOK
<1> QED
  BY <1>5, <1>6, <1>7, <1>8, <1>9, <1>10, <1>11

(* Without a head in any list every triangle is in a strip.                *)
LEMMA AllStripped ==
  ASSUME ArraysOK, AllSorted, ~HasCore
  PROVE  stripped = InUse
<1> SUFFICES ASSUME NEW t \in InUse \ stripped PROVE FALSE
  BY DEF ArraysOK
<1>1. t \in Tris /\ unstripped[t] \in 0 .. 3
  BY MaxTrisAssumption DEF ArraysOK, MeshOK, IsMesh, InUse, Tris
<1>2. t \in ElementsOf(lists[unstripped[t]])
  BY <1>1 DEF AllSorted, Sorted
<1>3. lists[unstripped[t]] = <<>>
  BY <1>1 DEF HasCore
<1>4. ElementsOf(<<>>) = {}
  BY DEF ElementsOf
<1> QED
  BY <1>2, <1>3, <1>4

(* ... when the lists are empty, since then all the triangles are in strips, *)
LEMMA NoCoreLeftInv == PreprocInv /\ NoCoreLeft => PreprocInv'
<1> SUFFICES ASSUME PreprocInv, NoCoreLeft PROVE PreprocInv'
  OBVIOUS
<1> USE DEF PreprocInv
<1>1. /\ pc = "Core" /\ preproc # "isolated" /\ pc' = "Start" /\ preproc' = preproc
      /\ stripped' = stripped /\ stripsCount' = stripsCount
      /\ unstripped' = unstripped /\ core' = core /\ coreDirs' = coreDirs
      /\ grow' = grow /\ growNext' = growNext /\ firstEnd' = firstEnd
      /\ linkState' = linkState /\ endpoint' = endpoint /\ endpoints' = endpoints
      /\ lists' = lists
  BY DEF NoCoreLeft, stripVars, adjVars, coreVars, growVars, PhaseOK
<1>2. /\ \A u : Links(u)' = Links(u) /\ StripOf(u)' = StripOf(u)
      /\ \A u : IsPair(u)' <=> IsPair(u)
      /\ MeshOK' /\ MeshOK
      /\ Agree(Links)' /\ Circles(Links)' = {} /\ LinksCount' = LinksCount
      /\ InUse' = InUse /\ neighbours' = neighbours /\ trisCount' = trisCount
  BY <1>1, SameLinks DEF NoCoreLeft, LinksOK, ArraysOK
<1>3. stripped = InUse
  BY <1>1, AllStripped, SortedNow DEF NoCoreLeft
<1>4. Taken = stripped /\ Taken' = stripped /\ Growing = {} /\ Growing' = {}
      /\ Current = {} /\ Current' = {}
  BY <1>1, <1>2, <1>3 DEF Taken, Growing, Current
<1>5. ArraysOK'
  BY <1>1, <1>2 DEF ArraysOK
<1>6. PhaseOK'
  BY <1>1, <1>2, <1>3 DEF PhaseOK
<1>7. ListsOK'
  <2>1. \A u : Open(u)' = Open(u)
    BY <1>1, <1>2 DEF Open
  <2>2. \A t \in InUse' \ stripped' : unstripped'[t] = Cardinality(Open(t)')
    BY <1>1, <1>2, <2>1 DEF ListsOK, CountsOK
  <2>3. Sorted(unstripped', lists', InUse' \ stripped')
    BY <1>1, <1>2 DEF ListsOK, CountsOK
  <2> QED
    BY <1>1, <2>2, <2>3 DEF ListsOK, CountsOK
<1>8. LinksOK'
  BY <1>1, <1>2, <1>4 DEF LinksOK
<1>9. EndpointsOK'
  BY <1>1, <1>2, <1>4 DEF EndpointsOK
<1>10. CoreOK' /\ GrowOK'
  BY <1>1 DEF CoreOK, GrowOK
<1>11. ApartOK'
  <2>1. UNCHANGED <<mesh, linkState, stripped, endpoint, preproc>>
    BY <1>1 DEF NoCoreLeft
  <2> QED
    BY <1>4, <2>1, ApartStays
<1> QED
  BY <1>5, <1>6, <1>7, <1>8, <1>9, <1>10, <1>11

(* The first core triangle is in no strip yet.                             *)
LEMMA FirstCoreFound ==
  ASSUME ArraysOK, AllSorted, HasCore
  PROVE  FirstCore \in InUse \ stripped
<1> DEFINE IsFirst(c) == lists[c] # <<>> /\ \A b \in 0 .. c - 1 : lists[b] = <<>>
           f == CHOOSE c \in 0 .. 3 : IsFirst(c)
<1>1. \E c \in 0 .. 3 : IsFirst(c)
  <2> DEFINE e(c) == lists[c] # <<>>
  <2>1. e(0) \/ e(1) \/ e(2) \/ e(3)
    BY DEF HasCore
  <2>2. \E c \in 0 .. 3 : e(c) /\ \A b \in 0 .. c - 1 : ~e(b)
    <3> HIDE DEF e
    <3>1. CASE e(0)
      BY <3>1
    <3>2. CASE ~e(0) /\ e(1)
      BY <3>2
    <3>3. CASE ~e(0) /\ ~e(1) /\ e(2)
      <4>1. \A b \in 0 .. 2 - 1 : b = 0 \/ b = 1
        OBVIOUS
      <4> QED
        BY <3>3, <4>1
    <3>4. CASE ~e(0) /\ ~e(1) /\ ~e(2) /\ e(3)
      <4>1. \A b \in 0 .. 3 - 1 : b = 0 \/ b = 1 \/ b = 2
        OBVIOUS
      <4> QED
        BY <3>4, <4>1
    <3> QED
      BY <2>1, <3>1, <3>2, <3>3, <3>4
  <2> QED
    BY <2>2
<1>2. f \in 0 .. 3 /\ lists[f] # <<>>
  BY <1>1
<1>3. FirstCore = Head(lists[f])
  BY DEF FirstCore
<1> HIDE DEF f
<1>4. lists[f] \in Seq(Tris) /\ ElementsOf(lists[f]) \subseteq InUse \ stripped
  BY <1>2 DEF AllSorted, Sorted
<1>5. Head(lists[f]) \in ElementsOf(lists[f])
  <2>1. 1 \in DOMAIN lists[f] /\ Head(lists[f]) = lists[f][1]
    BY <1>2, <1>4
  <2> QED
    BY <2>1 DEF ElementsOf
<1> QED
  BY <1>3, <1>4, <1>5

(* A triangle without links is a strip of its own.                         *)
LEMMA LoneStrip ==
  ASSUME MeshOK, Agree(Links), NEW t \in InUse, Links(t) = {}
  PROVE  StripOf(t) = {t}
<1>1. t \in StripOf(t) /\ \A S \in Enclosed : t \in S => StripOf(t) \subseteq S
  BY StripIsEnclosed
<1>2. {t} \in Enclosed
  BY DEF Enclosed
<1> QED
  BY <1>1, <1>2

(* ... when a strip is started from a triangle that is in none,            *)
LEMMA DelineateFirstInv == PreprocInv /\ DelineateFirst => PreprocInv'
<1> SUFFICES ASSUME PreprocInv, DelineateFirst PROVE PreprocInv'
  OBVIOUS
<1> USE DEF PreprocInv
<1>1. PICK t : t = FirstCore
  OBVIOUS
<1>2. /\ pc = "Core" /\ preproc # "isolated" /\ pc' = "Second" /\ preproc' = preproc
      /\ stripsCount' = stripsCount + 1
      /\ core' = <<t>> /\ coreDirs' = <<>> /\ SetStrippedAndPropagate(t)
      /\ grow' = grow /\ growNext' = growNext /\ firstEnd' = firstEnd
      /\ linkState' = linkState /\ UNCHANGED mesh
      /\ IF preproc = "pairs" THEN MarkEndpoints(<<t>>) ELSE UNCHANGED <<endpoint, endpoints>>
  BY <1>1 DEF DelineateFirst, StripFirst, growVars, PhaseOK
<1>3. /\ \A u : Links(u)' = Links(u) /\ StripOf(u)' = StripOf(u)
      /\ \A u : IsPair(u)' <=> IsPair(u)
      /\ MeshOK' /\ MeshOK /\ Agree(Links)
      /\ Agree(Links)' /\ Circles(Links)' = {} /\ LinksCount' = LinksCount
      /\ InUse' = InUse /\ neighbours' = neighbours /\ trisCount' = trisCount
  BY <1>2, SameLinks DEF LinksOK, ArraysOK
<1>4. InUse \subseteq Tris
  BY <1>3, MaxTrisAssumption DEF MeshOK, IsMesh, InUse, Tris
<1>5. t \in InUse \ stripped /\ t \in Tris
  BY <1>1, <1>2, <1>4, FirstCoreFound, SortedNow DEF DelineateFirst
<1>6. /\ unstripped' \in [Tris -> 0 .. 3] /\ stripped' = stripped \cup {t}
      /\ Sorted(unstripped', lists', InUse' \ stripped')
      /\ \A u \in InUse' \ stripped' : unstripped'[u] = Cardinality(Open(u)')
  BY <1>2, <1>5, Propagation, SortedNow
<1>7. Links(t) = {} /\ StripOf(t) = {t}
  BY <1>3, <1>5, LoneStrip DEF LinksOK
<1>8. Taken = stripped /\ Taken' = stripped \cup {t} /\ Growing = {} /\ Current = {}
  BY <1>2, <1>6 DEF Taken, Growing, Current
<1>9. /\ core' \in Seq(Tris) /\ Len(core') = 1 /\ core'[1] = t /\ ElementsOf(core') = {t}
      /\ IsInjectiveList(core')
  <2>1. <<t>> \in Seq(Tris) /\ Len(<<t>>) = 1 /\ <<t>>[1] = t /\ DOMAIN <<t>> = {1}
    BY <1>5
  <2> QED
    BY <1>2, <2>1 DEF ElementsOf, IsInjectiveList
<1>10. Current' = {t} /\ Growing' = IF preproc = "stripify" THEN {t} ELSE {}
  <2>1. Current' = StripOf(core[1])'
    BY <1>2 DEF Current
  <2>2. StripOf(core[1])' = StripOf(t)'
    BY <1>9 DEF StripOf
  <2>3. Growing' = IF preproc = "stripify" THEN {t} ELSE {}
    BY <1>2, <1>9 DEF Growing
  <2> QED
    BY <1>3, <1>7, <2>1, <2>2, <2>3
<1>11. /\ endpoints' \in Seq(Tris) /\ IsInjectiveList(endpoints')
       /\ ElementsOf(endpoints') = endpoint'
       /\ endpoint' = IF preproc = "pairs" THEN endpoint \cup {t} ELSE endpoint
  <2>1. endpoints \in Seq(Tris) /\ IsInjectiveList(endpoints) /\ ElementsOf(endpoints) = endpoint
        /\ endpoint \subseteq stripped
    BY <1>8 DEF EndpointsOK
  <2>2. CASE preproc = "pairs"
    <3>1. MarkEndpoints(core')
      BY <1>2, <2>2
    <3>2. \A u \in ElementsOf(core') : u \notin endpoint
      BY <1>5, <1>9, <2>1
    <3>3. PICK list : list = core'
      OBVIOUS
    <3>4. /\ list \in Seq(Tris) /\ IsInjectiveList(list) /\ MarkEndpoints(list)
          /\ ElementsOf(list) = {t} /\ \A u \in ElementsOf(list) : u \notin endpoint
      <4>1. list = <<t>>
        BY <1>2, <3>3
      <4> QED
        BY <1>2, <1>9, <2>2, <3>2, <3>3, <4>1
    <3> QED
      BY <2>1, <2>2, <3>4, Marked
  <2>3. CASE preproc # "pairs"
    BY <1>2, <2>1, <2>3
  <2> QED
    BY <2>2, <2>3
<1>12. ArraysOK'
  <2>1. stripsCount' \in Nat /\ coreDirs' \in Seq(Dir)
    BY <1>2 DEF ArraysOK
  <2> QED
    BY <1>2, <1>3, <1>5, <1>6, <1>9, <1>11, <2>1 DEF ArraysOK
<1>13. PhaseOK'
  BY <1>2 DEF PhaseOK
<1>14. ListsOK'
  BY <1>2, <1>6 DEF ListsOK, CountsOK
<1>15. LinksOK'
  <2>1. \A u \in Tris : Links(u)' # {} => u \in stripped'
    BY <1>3, <1>6 DEF LinksOK
  <2>2. Cardinality(stripped \cup {t}) = Cardinality(stripped) + 1 /\ Cardinality(stripped) \in Nat
    BY <1>3, <1>5, StrippedAreFinite, FS_AddElement, FS_CardinalityType DEF ArraysOK
  <2>3. LinksCount \in Nat
    BY <1>3, SidesAreFinite, FS_CardinalityType DEF LinksCount
  <2>4. 2 * stripsCount + LinksCount = 2 * Cardinality(stripped) /\ stripsCount \in Nat
    BY <1>8 DEF LinksOK, ArraysOK
  <2>5. 2 * stripsCount' + LinksCount' = 2 * Cardinality(Taken')
    BY <1>2, <1>3, <1>8, <2>2, <2>3, <2>4
  <2> QED
    BY <1>3, <2>1, <2>5 DEF LinksOK
<1>16. EndpointsOK'
  <2>1. AtMostOne(Links(t))
    BY <1>7 DEF AtMostOne
  <2>2. endpoint = {u \in stripped : AtMostOne(Links(u))}
    BY <1>8 DEF EndpointsOK
  <2>3. endpoint' = {u \in stripped \cup {t} : AtMostOne(Links(u))} \ Growing'
    BY <1>2, <1>5, <1>10, <1>11, <2>1, <2>2 DEF PhaseOK, Algorithms
  <2>4. endpoint' = {u \in Taken' : AtMostOne(Links(u)')} \ Growing'
    BY <1>3, <1>8, <2>3
  <2> QED
    BY <1>2, <1>5, <1>8, <1>10, <1>11, <2>2, <2>4 DEF EndpointsOK
<1>17. CoreOK'
  <2>1. Links(core[1])' = {}
    <3>1. Links(core[1])' = Links(t)'
      BY <1>9 DEF Links
    <3> QED
      BY <1>3, <1>7, <3>1
  <2> QED
    BY <1>2, <1>6, <1>9, <2>1 DEF CoreOK
<1>18. GrowOK'
  BY <1>2 DEF GrowOK
<1>19. ApartOK'
  <2>1. endpoint' = endpoint \/ endpoint' = endpoint \cup {t}
    BY <1>11
  <2> QED
    BY <1>2, <1>5, <1>6, <1>8, <1>10, <2>1, ApartStarts
<1> QED
  BY <1>12, <1>13, <1>14, <1>15, <1>16, <1>17, <1>18, <1>19

(* The second core triangle ends a pair, or it is an end that can go on.   *)
LEMMA SecondGrows ==
  ASSUME PreprocInv, DelineateSecond
  PROVE  /\ Grows(core[1], NextCoreDir)
         /\ LastCore = core[1] /\ NextCore = neighbours[core[1]][NextCoreDir]
         /\ core[1] \in Tris /\ NextCoreDir \in Dir
         /\ core' = Append(core, NextCore) /\ coreDirs' = <<NextCoreDir>>
         /\ SetStrippedAndPropagate(NextCore)
         /\ Links(core[1]) = {}
<1> USE DEF PreprocInv
<1>1. /\ pc = "Second" /\ Len(core) = 1 /\ coreDirs = <<>> /\ core[1] \in stripped
      /\ Links(core[1]) = {}
  BY DEF DelineateSecond, CoreOK
<1>2. LastCore = core[1]
  BY <1>1 DEF LastCore
<1>3. NextCoreDir # NotFound /\ SetStrippedAndPropagate(NextCore)
      /\ core' = Append(core, NextCore) /\ coreDirs' = Append(coreDirs, NextCoreDir)
  BY DEF DelineateSecond, StripNext
<1>4. stripped \subseteq InUse /\ InUse \subseteq Tris
  BY MaxTrisAssumption DEF ArraysOK, MeshOK, IsMesh, InUse, Tris
<1>5. NextCoreDir \in Open(core[1])
  BY <1>1, <1>2, <1>3, <1>4, NextCoreFound
<1>6. NextCore = neighbours[core[1]][NextCoreDir]
  BY <1>2 DEF NextCore
<1>7. Append(coreDirs, NextCoreDir) = <<NextCoreDir>>
  BY <1>1
<1>8. AtMostOne(Links(core[1]))
  BY <1>1 DEF AtMostOne
<1>9. /\ stripped' = stripped \cup {NextCore}
      /\ linkState' = LinkedAcross(core[1], NextCoreDir)
      /\ UNCHANGED <<mesh, stripsCount>> /\ pc' # "Start"
  BY <1>2, <1>3 DEF DelineateSecond, SetStrippedAndPropagate
<1>10. Grows(core[1], NextCoreDir)
  BY <1>1, <1>5, <1>6, <1>8, <1>9 DEF Grows
<1> QED
  BY <1>1, <1>2, <1>3, <1>4, <1>5, <1>6, <1>7, <1>10 DEF Open

(* One more triangle in a list.                                            *)
LEMMA OneMore ==
  ASSUME NEW list \in Seq(Tris), NEW t \in Tris
  PROVE  /\ Append(list, t) \in Seq(Tris) /\ Len(Append(list, t)) = Len(list) + 1
         /\ Append(list, t)[Len(list) + 1] = t
         /\ \A i \in 1 .. Len(list) : Append(list, t)[i] = list[i]
  OBVIOUS

(* Two triangles in a list.                                                *)
LEMMA ListOfTwo ==
  ASSUME NEW t \in Tris, NEW next \in Tris, t # next, NEW list \in Seq(Tris), Len(list) = 2,
         list[1] = t, list[2] = next
  PROVE  ElementsOf(list) = {t, next} /\ IsInjectiveList(list)
<1>1. DOMAIN list = {1, 2}
  OBVIOUS
<1> QED
  BY <1>1 DEF ElementsOf, IsInjectiveList

(* ... when the second core triangle is linked to the first, in a pair that *)
(* is finished by it or in a strip that goes on,                           *)
LEMMA DelineateSecondInv == PreprocInv /\ DelineateSecond => PreprocInv'
<1> SUFFICES ASSUME PreprocInv, DelineateSecond PROVE PreprocInv'
  OBVIOUS
<1> USE DEF PreprocInv
<1>1. PICK t, d, next, back :
        t = core[1] /\ d = NextCoreDir /\ next = neighbours[t][d] /\ back = indices[t][d]
  OBVIOUS
<1>2. /\ pc = "Second" /\ preproc' = preproc /\ stripsCount' = stripsCount
      /\ grow' = grow /\ growNext' = growNext /\ firstEnd' = firstEnd
      /\ UNCHANGED mesh
      /\ IF preproc = "pairs" THEN pc' = "Core" /\ MarkEndpoints(<<next>>)
                              ELSE pc' = "Third" /\ UNCHANGED <<endpoint, endpoints>>
  BY <1>1, SecondGrows DEF DelineateSecond, growVars
<1>3. /\ Grows(t, d) /\ SetStrippedAndPropagate(next) /\ t \in stripped
      /\ core' = Append(core, next) /\ coreDirs' = <<d>> /\ Links(t) = {}
      /\ Len(core) = 1 /\ core \in Seq(Tris)
  BY <1>1, <1>2, SecondGrows DEF Grows, ArraysOK, CoreOK
<1>4. /\ t \in InUse /\ t \in Tris /\ d \in Dir /\ back \in Dir /\ InUse \subseteq Tris
      /\ next \in InUse \ stripped /\ next \in Tris /\ next # t
      /\ neighbours[next][back] = t /\ indices[next][back] = d
      /\ Links(t)' = {d} /\ Links(next)' = {back}
      /\ linkState' \in [Tris -> SUBSET Dir]
  BY <1>1, <1>3, NewLink
<1>5. MeshOK /\ MeshOK' /\ Agree(Links) /\ InUse' = InUse /\ neighbours' = neighbours
      /\ indices' = indices
  BY <1>2 DEF ArraysOK, LinksOK, mesh, MeshOK, InUse
<1>6. preproc # "isolated" /\ pc # "Order"
  BY <1>2 DEF PhaseOK
<1>7. /\ unstripped' \in [Tris -> 0 .. 3] /\ stripped' = stripped \cup {next}
      /\ Sorted(unstripped', lists', InUse' \ stripped')
      /\ \A u \in InUse' \ stripped' : unstripped'[u] = Cardinality(Open(u)')
  BY <1>2, <1>3, <1>4, <1>6, Propagation, SortedNow
<1>8. LinksOK'
  BY <1>1, <1>3, GrowsLinks
<1>9. StripOf(t) = {t}
  BY <1>3, <1>4, <1>5, LoneStrip
<1>10. /\ StripOf(t)' = {t, next} /\ StripOf(next)' = {t, next}
  <2>1. StripOf(t) \cup {next} = {t, next}
    BY <1>9
  <2> QED
    BY <1>1, <1>3, <1>9, <2>1, GrowsStrip
<1>11. /\ core' \in Seq(Tris) /\ Len(core') = 2 /\ core'[1] = t /\ core'[2] = next
       /\ Len(coreDirs') = 1 /\ coreDirs'[1] = d /\ coreDirs' \in Seq(Dir)
       /\ ElementsOf(core') = {t, next}
  <2>1. /\ core' \in Seq(Tris) /\ Len(core') = 2 /\ core'[1] = t /\ core'[2] = next
    <3>1. PICK list \in Seq(Tris) : list = core
      BY <1>3
    <3>2. Len(list) = 1 /\ list[1] = t /\ core' = Append(list, next)
      BY <1>1, <1>3, <3>1
    <3>3. PICK longer : longer = Append(list, next)
      OBVIOUS
    <3>4. /\ longer \in Seq(Tris) /\ Len(longer) = Len(list) + 1 /\ longer[Len(list) + 1] = next
          /\ \A n \in 1 .. Len(list) : longer[n] = list[n]
      BY <1>4, <3>3, OneMore
    <3>5. longer \in Seq(Tris) /\ Len(longer) = 2 /\ longer[1] = t /\ longer[2] = next
      BY <3>2, <3>4
    <3> QED
      BY <3>2, <3>3, <3>5
  <2>2. Len(coreDirs') = 1 /\ coreDirs'[1] = d /\ coreDirs' \in Seq(Dir)
    BY <1>3, <1>4
  <2>3. PICK list : list = core'
    OBVIOUS
  <2>4. ElementsOf(list) = {t, next}
    BY <1>4, <2>1, <2>3, ListOfTwo
  <2> QED
    BY <2>1, <2>2, <2>3, <2>4
<1>12. /\ Current = {t} /\ Growing = IF preproc = "stripify" THEN {t} ELSE {}
       /\ Taken = stripped /\ Taken' = stripped'
  <2>1. Current = {t}
    BY <1>1, <1>2, <1>9 DEF Current
  <2>2. ElementsOf(core) = {t}
    <3>1. DOMAIN core = {1}
      BY <1>3
    <3> QED
      BY <1>1, <3>1 DEF ElementsOf
  <2> QED
    BY <1>2, <2>1, <2>2 DEF Growing, Taken
<1>13. /\ \A u \in InUse : u \in Taken' /\ AtMostOne(Links(u)') <=>
               u = next \/ (u \in Taken /\ AtMostOne(Links(u)))
  BY <1>1, <1>3, GrowsEnds
<1>14. Taken \subseteq InUse /\ Taken' \subseteq InUse /\ AtMostOne(Links(t))
  BY <1>3, <1>4, <1>7, <1>12 DEF ArraysOK, AtMostOne
<1>15. /\ endpoints \in Seq(Tris) /\ IsInjectiveList(endpoints) /\ ElementsOf(endpoints) = endpoint
       /\ endpoint = {u \in Taken : AtMostOne(Links(u))} \ Growing
  BY DEF EndpointsOK
<1>16. CASE preproc = "pairs"
  <2>1. pc' = "Core" /\ MarkEndpoints(<<next>>)
    BY <1>2, <1>16
  <2>2. /\ endpoints' \in Seq(Tris) /\ IsInjectiveList(endpoints')
        /\ ElementsOf(endpoints') = endpoint' /\ endpoint' = endpoint \cup {next}
    <3>1. PICK list : list = <<next>>
      OBVIOUS
    <3>2. list \in Seq(Tris) /\ IsInjectiveList(list) /\ ElementsOf(list) = {next}
      <4>1. DOMAIN list = {1} /\ list[1] = next
        BY <3>1
      <4> QED
        BY <1>4, <3>1, <4>1 DEF IsInjectiveList, ElementsOf
    <3>3. MarkEndpoints(list) /\ \A u \in ElementsOf(list) : u \notin endpoint
      BY <1>4, <1>12, <1>15, <2>1, <3>1, <3>2
    <3> QED
      BY <1>15, <3>2, <3>3, Marked
  <2>3. Current' = {} /\ Growing' = {} /\ Growing = {}
    BY <1>12, <1>16, <2>1 DEF Current, Growing
  <2>4. ArraysOK'
    BY <1>2, <1>3, <1>4, <1>5, <1>7, <1>11, <1>14, <1>15, <2>2 DEF ArraysOK
  <2>5. PhaseOK'
    BY <1>2, <1>6, <2>1 DEF PhaseOK
  <2>6. ListsOK'
    BY <1>2, <1>6, <1>7, <2>1 DEF ListsOK, CountsOK
  <2>7. EndpointsOK'
    <3>1. endpoint' = {u \in Taken' : AtMostOne(Links(u)')} \ Growing'
      BY <1>4, <1>13, <1>14, <1>15, <2>2, <2>3
    <3> QED
      BY <1>2, <1>16, <2>2, <3>1 DEF EndpointsOK
  <2>8. CoreOK' /\ GrowOK'
    BY <1>2, <2>1 DEF CoreOK, GrowOK
  <2>9. ApartOK'
    <3>1. t \in endpoint /\ endpoint \subseteq InUse
      BY <1>3, <1>12, <1>14, <1>15, <2>3
    <3> QED
      BY <1>1, <1>2, <1>3, <1>9, <1>12, <2>2, <2>3, <3>1, ApartPairs
  <2> QED
    BY <1>8, <2>4, <2>5, <2>6, <2>7, <2>8, <2>9
<1>17. CASE preproc # "pairs"
  <2>1. pc' = "Third" /\ endpoint' = endpoint /\ endpoints' = endpoints /\ preproc = "stripify"
    BY <1>2, <1>6, <1>17 DEF PhaseOK, Algorithms
  <2>2. Current' = {t, next} /\ Growing' = {t, next} /\ Growing = {t}
    <3>1. Current' = StripOf(core[1])'
      BY <2>1 DEF Current
    <3>2. StripOf(core[1])' = StripOf(t)'
      BY <1>11 DEF StripOf
    <3> QED
      BY <1>2, <1>10, <1>11, <1>12, <2>1, <3>1, <3>2 DEF Growing
  <2>3. ArraysOK'
    BY <1>2, <1>3, <1>4, <1>5, <1>7, <1>11, <1>14, <1>15, <2>1 DEF ArraysOK
  <2>4. PhaseOK'
    BY <1>2, <1>6, <2>1 DEF PhaseOK
  <2>5. ListsOK'
    BY <1>2, <1>6, <1>7, <2>1 DEF ListsOK, CountsOK
  <2>6. EndpointsOK'
    <3>1. endpoint' = {u \in Taken' : AtMostOne(Links(u)')} \ Growing'
      BY <1>4, <1>12, <1>13, <1>14, <1>15, <2>1, <2>2
    <3> QED
      BY <1>2, <1>4, <1>12, <1>15, <2>1, <2>2, <3>1 DEF EndpointsOK
  <2>7. CoreOK'
    <3>1. /\ Links(core[1])' = {d} /\ Links(core[2])' = {back} /\ StripOf(core[1])' = {t, next}
      <4>1. /\ Links(core[1])' = Links(t)' /\ Links(core[2])' = Links(next)'
            /\ StripOf(core[1])' = StripOf(t)'
        BY <1>11 DEF Links, StripOf
      <4> QED
        BY <1>4, <1>10, <4>1
    <3> QED
      BY <1>1, <1>5, <1>11, <2>1, <3>1 DEF CoreOK
  <2>8. GrowOK'
    BY <1>2, <2>1 DEF GrowOK
  <2>9. ApartOK'
    <3>1. Current' = Current \cup {next} /\ Current = StripOf(t)
      BY <1>9, <1>12, <2>2
    <3> QED
      BY <1>1, <1>2, <1>3, <1>14, <1>15, <2>1, <3>1, ApartGrows
  <2> QED
    BY <1>8, <2>3, <2>4, <2>5, <2>6, <2>7, <2>8, <2>9
<1> QED
  BY <1>16, <1>17

(* The third core triangle is an end that can go on.                       *)
LEMMA ThirdGrows ==
  ASSUME PreprocInv, DelineateThird
  PROVE  /\ Grows(core[2], NextCoreDir) /\ preproc = "stripify"
         /\ NextCore = neighbours[core[2]][NextCoreDir]
         /\ LastCore = core[2] /\ Len(core) = 2 /\ Len(coreDirs) = 1
         /\ core[1] \in InUse /\ core[2] \in InUse /\ coreDirs[1] \in Dir
         /\ core' = Append(core, NextCore) /\ coreDirs' = Append(coreDirs, NextCoreDir)
         /\ SetStrippedAndPropagate(NextCore)
         /\ Links(core[1]) = {coreDirs[1]} /\ Links(core[2]) = {indices[core[1]][coreDirs[1]]}
         /\ core[2] \in StripOf(core[1]) /\ core[1] # core[2]
         /\ neighbours[core[1]][coreDirs[1]] = core[2]
<1> USE DEF PreprocInv
<1>1. /\ pc = "Third" /\ Len(core) = 2 /\ Len(coreDirs) = 1
      /\ core[2] = neighbours[core[1]][coreDirs[1]]
      /\ Links(core[1]) = {coreDirs[1]}
      /\ Links(core[2]) = {indices[core[1]][coreDirs[1]]}
      /\ core[2] \in StripOf(core[1]) /\ preproc = "stripify"
  BY DEF DelineateThird, CoreOK, PhaseOK
<1>2. LastCore = core[2]
  BY <1>1 DEF LastCore
<1>3. NextCoreDir # NotFound /\ SetStrippedAndPropagate(NextCore)
      /\ core' = Append(core, NextCore) /\ coreDirs' = Append(coreDirs, NextCoreDir)
  BY DEF DelineateThird, StripNext
<1>4. stripped \subseteq InUse /\ InUse \subseteq Tris
  BY MaxTrisAssumption DEF ArraysOK, MeshOK, IsMesh, InUse, Tris
<1>5. core[1] \in Tris /\ core[2] \in Tris /\ coreDirs[1] \in Dir
  <2>1. core \in Seq(Tris) /\ coreDirs \in Seq(Dir)
    BY DEF ArraysOK
  <2>2. 1 \in DOMAIN core /\ 2 \in DOMAIN core /\ 1 \in DOMAIN coreDirs
    BY <1>1, <2>1
  <2> QED
    BY <2>1, <2>2
<1>6. core[1] \in stripped /\ core[2] \in stripped
  BY <1>1, <1>5 DEF LinksOK
<1>7. core[1] # core[2]
  <2>1. neighbours[core[1]][coreDirs[1]] # Null
    BY <1>1, <1>5 DEF Tris, Null
  <2> QED
    BY <1>1, <1>5, <2>1, EdgeFacts DEF ArraysOK
<1>8. NextCoreDir \in Open(core[2])
  BY <1>2, <1>3, <1>4, <1>6, NextCoreFound
<1>9. NextCore = neighbours[core[2]][NextCoreDir]
  BY <1>2 DEF NextCore
<1>10. AtMostOne(Links(core[2]))
  BY <1>1 DEF AtMostOne
<1>11. /\ stripped' = stripped \cup {NextCore}
       /\ linkState' = LinkedAcross(core[2], NextCoreDir)
       /\ UNCHANGED <<mesh, stripsCount>> /\ pc' # "Start"
  BY <1>2, <1>3 DEF DelineateThird, SetStrippedAndPropagate
<1>12. Grows(core[2], NextCoreDir)
  BY <1>1, <1>6, <1>8, <1>9, <1>10, <1>11 DEF Grows
<1> QED
  BY <1>1, <1>2, <1>3, <1>4, <1>5, <1>6, <1>7, <1>9, <1>12

(* ... when the third core triangle makes two ends to grow from,           *)
LEMMA DelineateThirdInv == PreprocInv /\ DelineateThird => PreprocInv'
<1> SUFFICES ASSUME PreprocInv, DelineateThird PROVE PreprocInv'
  OBVIOUS
<1> USE DEF PreprocInv
<1>1. PICK t, d, next, back, f, i :
        /\ t = core[2] /\ d = NextCoreDir /\ next = neighbours[t][d] /\ back = indices[t][d]
        /\ f = core[1] /\ i = coreDirs[1]
  OBVIOUS
<1>2. /\ pc = "Third" /\ preproc = "stripify" /\ preproc' = preproc /\ stripsCount' = stripsCount
      /\ pc' = "Grow" /\ firstEnd' = firstEnd /\ endpoint' = endpoint /\ endpoints' = endpoints
      /\ UNCHANGED mesh
  BY SecondGrows, ThirdGrows DEF DelineateThird
<1>3. /\ Grows(t, d) /\ SetStrippedAndPropagate(next) /\ LastCore = t /\ NextCore = next
      /\ core' = Append(core, next) /\ coreDirs' = Append(coreDirs, d)
      /\ f \in InUse /\ f # t /\ i \in Dir
      /\ Links(f) = {i} /\ Links(t) = {indices[f][i]} /\ t \in StripOf(f)
      /\ Len(core) = 2
  BY <1>1, ThirdGrows
<1>4. /\ t \in InUse /\ t \in Tris /\ d \in Dir /\ back \in Dir /\ InUse \subseteq Tris
      /\ next \in InUse \ stripped /\ next \in Tris /\ next # t
      /\ neighbours[next][back] = t /\ indices[next][back] = d
      /\ Links(next)' = {back} /\ Links(next) = {}
      /\ \A u \in Tris \ {t, next} : Links(u)' = Links(u)
      /\ linkState' \in [Tris -> SUBSET Dir]
  <2>1. Grows(t, d) /\ next = neighbours[t][d] /\ back = indices[t][d]
    BY <1>1, <1>3
  <2> QED
    BY <2>1, NewLink
<1>5. MeshOK /\ MeshOK' /\ Agree(Links) /\ InUse' = InUse /\ neighbours' = neighbours
      /\ indices' = indices
  BY <1>2 DEF ArraysOK, LinksOK, mesh, MeshOK, InUse
<1>6. f \in Tris /\ f # next /\ f \in stripped
  <2>1. f \in Tris /\ Links(f) # {}
    BY <1>3, <1>4
  <2> QED
    BY <1>4, <2>1 DEF LinksOK
<1>7. /\ unstripped' \in [Tris -> 0 .. 3] /\ stripped' = stripped \cup {next}
      /\ Sorted(unstripped', lists', InUse' \ stripped')
      /\ \A u \in InUse' \ stripped' : unstripped'[u] = Cardinality(Open(u)')
  BY <1>2, <1>3, <1>4, Propagation, SortedNow
<1>8. LinksOK'
  BY <1>1, <1>3, GrowsLinks
<1>9. /\ StripOf(f) = StripOf(t) /\ f \in StripOf(t) /\ t \in StripOf(t)
  BY <1>3, <1>4, <1>5, SameStrip, StripIsEnclosed
<1>10. \A u \in StripOf(t) \cup {next} : StripOf(u)' = StripOf(t) \cup {next}
  BY <1>1, <1>3, GrowsStrip
<1>11. /\ grow' = [tri |-> f, indexToPrev |-> i, entrance |-> grow'.entrance]
       /\ growNext' = [tri |-> next, indexToPrev |-> back, entrance |-> growNext'.entrance]
  <2>1. PICK x, y : /\ grow' = EndOf(core[1], coreDirs[1], x)
                    /\ growNext' = EndOf(NextCore, indices[LastCore][NextCoreDir], y)
    BY DEF DelineateThird
  <2>2. grow' = EndOf(f, i, x) /\ growNext' = EndOf(next, back, y)
    BY <1>1, <1>3, <2>1
  <2> QED
    BY <2>2 DEF EndOf
<1>12. /\ grow'.tri = f /\ grow'.indexToPrev = i
       /\ growNext'.tri = next /\ growNext'.indexToPrev = back /\ growNext' # NoEnd
  <2>1. next # Null
    BY <1>4 DEF Tris, Null
  <2>2. NoEnd.tri = Null
    BY DEF NoEnd, EndOf
  <2> QED
    BY <1>11, <2>1, <2>2
<1>13. Current = StripOf(t) /\ Current' = StripOf(t) \cup {next}
  <2>1. Current = StripOf(f)
    BY <1>1, <1>2 DEF Current
  <2>2. Current' = StripOf(grow.tri)'
    BY <1>2 DEF Current
  <2>3. StripOf(grow.tri)' = StripOf(f)'
    BY <1>12 DEF StripOf
  <2> QED
    BY <1>9, <1>10, <2>1, <2>2, <2>3
<1>14. Growing = {f, t} /\ Growing' = {f, next} /\ Taken = stripped /\ Taken' = stripped'
  <2>1. Growing = ElementsOf(core)
    BY <1>2 DEF Growing
  <2>2. PICK list : list = core
    OBVIOUS
  <2>3. list \in Seq(Tris) /\ Len(list) = 2 /\ list[1] = f /\ list[2] = t
    BY <1>1, <1>3, <2>2 DEF ArraysOK
  <2>4. ElementsOf(list) = {f, t}
    BY <1>3, <1>4, <1>6, <2>3, ListOfTwo
  <2>5. Growing' = {f, next}
    BY <1>2, <1>12 DEF Growing
  <2> QED
    BY <1>2, <2>1, <2>2, <2>4, <2>5 DEF Taken
<1>15. \A u \in InUse : u \in Taken' /\ AtMostOne(Links(u)') <=>
         u = next \/ (u \in Taken /\ AtMostOne(Links(u)) /\ u # t)
  BY <1>1, <1>3, GrowsEnds, ZenonT(40)
<1>16. Taken \subseteq InUse /\ Taken' \subseteq InUse
  BY <1>4, <1>7, <1>14 DEF ArraysOK
<1>17. /\ endpoints \in Seq(Tris) /\ IsInjectiveList(endpoints) /\ ElementsOf(endpoints) = endpoint
       /\ endpoint = {u \in Taken : AtMostOne(Links(u))} \ Growing
  BY DEF EndpointsOK
<1>18. ArraysOK'
  <2>1. core' \in Seq(Tris) /\ coreDirs' \in Seq(Dir)
    BY <1>3, <1>4 DEF ArraysOK
  <2> QED
    BY <1>2, <1>4, <1>5, <1>7, <1>16, <1>17, <2>1 DEF ArraysOK
<1>19. PhaseOK'
  BY <1>2 DEF PhaseOK, Algorithms
<1>20. ListsOK'
  BY <1>2, <1>7 DEF ListsOK, CountsOK
<1>21. EndpointsOK'
  <2>1. endpoint' = {u \in Taken' : AtMostOne(Links(u)')} \ Growing'
    BY <1>2, <1>4, <1>14, <1>15, <1>16, <1>17
  <2> QED
    BY <1>2, <1>4, <1>13, <1>14, <1>17, <2>1 DEF EndpointsOK
<1>22. CoreOK'
  BY <1>2 DEF CoreOK
<1>23. GrowOK'
  <2>1. IsEnd(grow)'
    <3>1. Links(grow.tri)' = Links(f)' /\ Links(f)' = {i}
      BY <1>3, <1>4, <1>6, <1>12 DEF Links
    <3> QED
      BY <1>3, <1>6, <1>11, <1>12, <3>1 DEF IsEnd, EndOf
  <2>2. IsEnd(growNext)'
    <3>1. Links(growNext.tri)' = Links(next)'
      BY <1>12 DEF Links
    <3> QED
      BY <1>4, <1>11, <1>12, <3>1 DEF IsEnd, EndOf
  <2>3. growNext'.tri # grow'.tri /\ growNext'.tri \in StripOf(grow.tri)' /\ firstEnd' = Null
    <3>1. StripOf(grow.tri)' = Current'
      BY <1>2 DEF Current
    <3> QED
      BY <1>2, <1>6, <1>12, <1>13, <3>1 DEF GrowOK
  <2> QED
    BY <1>2, <1>12, <2>1, <2>2, <2>3 DEF GrowOK
<1>24. ApartOK'
  BY <1>1, <1>2, <1>3, <1>13, <1>16, <1>17, ApartGrows
<1> QED
  BY <1>8, <1>18, <1>19, <1>20, <1>21, <1>22, <1>23, <1>24

(* ... when the end of a strip goes on to the next triangle,               *)
LEMMA GrowStripInv == PreprocInv /\ GrowStrip => PreprocInv'
<1> SUFFICES ASSUME PreprocInv, GrowStrip PROVE PreprocInv'
  OBVIOUS
<1> USE DEF PreprocInv
<1>1. PICK t, d, next, back :
        t = grow.tri /\ d = GrowTo /\ next = neighbours[t][d] /\ back = indices[t][d]
  OBVIOUS
<1>2. /\ pc = "Grow" /\ preproc' = preproc /\ stripsCount' = stripsCount
      /\ pc' = "Grow" /\ firstEnd' = firstEnd /\ endpoint' = endpoint /\ endpoints' = endpoints
      /\ growNext' = growNext /\ core' = core /\ coreDirs' = coreDirs
      /\ UNCHANGED mesh /\ SetStrippedAndPropagate(next)
      /\ linkState' = LinkedAcross(t, d) /\ d # NotFound /\ preproc = "stripify"
  BY <1>1 DEF GrowStrip, coreVars, PhaseOK
<1>3. IsEnd(grow) /\ Links(t) = {grow.indexToPrev} /\ t \in Tris /\ grow.indexToPrev \in Dir
  BY <1>1, <1>2 DEF GrowOK, IsEnd
<1>4. t \in stripped /\ stripped \subseteq InUse /\ InUse \subseteq Tris
  <2>1. t \in stripped
    BY <1>3 DEF LinksOK
  <2> QED
    BY <2>1, MaxTrisAssumption DEF ArraysOK, MeshOK, IsMesh, InUse, Tris
<1>5. d \in Open(t)
  BY <1>1, <1>2, <1>3, <1>4, GrowDirFound DEF GrowTo
<1>6. Grows(t, d)
  <2>1. AtMostOne(Links(t))
    BY <1>3 DEF AtMostOne
  <2>2. stripped' = stripped \cup {neighbours[t][d]}
    BY <1>1, <1>2 DEF SetStrippedAndPropagate
  <2> QED
    BY <1>2, <1>4, <1>5, <2>1, <2>2 DEF Grows
<1>7. /\ t \in InUse /\ t \in Tris /\ d \in Dir /\ back \in Dir
      /\ next \in InUse \ stripped /\ next \in Tris /\ next # t
      /\ Links(next)' = {back} /\ Links(next) = {}
      /\ \A u \in Tris \ {t, next} : Links(u)' = Links(u)
      /\ linkState' \in [Tris -> SUBSET Dir]
  <2>1. Grows(t, d) /\ next = neighbours[t][d] /\ back = indices[t][d]
    BY <1>1, <1>6
  <2> QED
    BY <2>1, NewLink
<1>8. MeshOK /\ MeshOK' /\ Agree(Links) /\ InUse' = InUse /\ neighbours' = neighbours
      /\ indices' = indices
  BY <1>2 DEF ArraysOK, LinksOK, mesh, MeshOK, InUse
<1>9. /\ unstripped' \in [Tris -> 0 .. 3] /\ stripped' = stripped \cup {next}
      /\ Sorted(unstripped', lists', InUse' \ stripped')
      /\ \A u \in InUse' \ stripped' : unstripped'[u] = Cardinality(Open(u)')
  BY <1>2, <1>7, Propagation, SortedNow
<1>10. LinksOK'
  BY <1>1, <1>6, GrowsLinks
<1>11. /\ \A u \in StripOf(t) \cup {next} : StripOf(u)' = StripOf(t) \cup {next}
       /\ StripOf(t) \subseteq stripped
  BY <1>1, <1>6, GrowsStrip
<1>12. /\ grow' = [tri |-> next, indexToPrev |-> back, entrance |-> grow'.entrance]
       /\ grow'.tri = next /\ grow'.indexToPrev = back
  <2>1. grow' = EndOf(next, back, Opposite(t, grow.indexToPrev))
    BY <1>1 DEF GrowStrip
  <2> QED
    BY <2>1 DEF EndOf
<1>13. Current = StripOf(t) /\ Current' = StripOf(t) \cup {next}
  <2>1. Current = StripOf(t)
    BY <1>1, <1>2 DEF Current
  <2>2. Current' = StripOf(grow.tri)'
    BY <1>2 DEF Current
  <2>3. StripOf(grow.tri)' = StripOf(next)'
    BY <1>12 DEF StripOf
  <2> QED
    BY <1>11, <2>1, <2>2, <2>3
<1>o. PICK o : o = IF growNext = NoEnd THEN firstEnd ELSE growNext.tri
  OBVIOUS
<1>14. o \in StripOf(t) /\ o # t /\ o # next /\ o \in Tris /\ Links(o)' = Links(o)
  <2>1. o \in StripOf(t) /\ o # t
    BY <1>1, <1>2, <1>o DEF GrowOK
  <2>2. o \in stripped
    BY <1>11, <2>1
  <2> QED
    BY <1>4, <1>7, <2>1, <2>2
<1>15. Growing = {t, o} /\ Growing' = {next, o} /\ Taken = stripped /\ Taken' = stripped'
  BY <1>1, <1>2, <1>12, <1>o DEF Growing, Taken
<1>16. \A u \in InUse : u \in Taken' /\ AtMostOne(Links(u)') <=>
         u = next \/ (u \in Taken /\ AtMostOne(Links(u)) /\ u # t)
  BY <1>1, <1>3, <1>6, GrowsEnds
<1>17. Taken \subseteq InUse /\ Taken' \subseteq InUse
  BY <1>4, <1>7, <1>9, <1>15
<1>18. /\ endpoints \in Seq(Tris) /\ IsInjectiveList(endpoints) /\ ElementsOf(endpoints) = endpoint
       /\ endpoint = {u \in Taken : AtMostOne(Links(u))} \ Growing
  BY DEF EndpointsOK
<1>19. ArraysOK'
  BY <1>2, <1>7, <1>8, <1>9, <1>17, <1>18 DEF ArraysOK
<1>20. PhaseOK'
  BY <1>2 DEF PhaseOK, Algorithms
<1>21. ListsOK'
  BY <1>2, <1>9 DEF ListsOK, CountsOK
<1>22. EndpointsOK'
  <2>1. endpoint' = {u \in Taken' : AtMostOne(Links(u)')} \ Growing'
    BY <1>2, <1>7, <1>14, <1>15, <1>16, <1>17, <1>18
  <2> QED
    BY <1>2, <1>7, <1>13, <1>15, <1>18, <2>1 DEF EndpointsOK
<1>23. CoreOK'
  BY <1>2 DEF CoreOK
<1>24. GrowOK'
  <2>1. IsEnd(grow)'
    <3>1. Links(grow.tri)' = Links(next)'
      BY <1>12 DEF Links
    <3> QED
      BY <1>7, <1>12, <3>1 DEF IsEnd, EndOf
  <2>2. Current' = StripOf(grow.tri)' /\ o \in Current'
    BY <1>2, <1>13, <1>14 DEF Current
  <2>3. CASE growNext # NoEnd
    <3>1. IsEnd(growNext) /\ firstEnd = Null /\ o = growNext.tri
      BY <1>2, <1>o, <2>3 DEF GrowOK
    <3>2. PICK e, u : e = growNext /\ u = growNext.tri
      OBVIOUS
    <3>3. /\ e = EndOf(u, e.indexToPrev, e.entrance) /\ e.indexToPrev \in Dir
          /\ Links(u) = {e.indexToPrev} /\ u = o /\ e.tri = u
      BY <3>1, <3>2 DEF IsEnd
    <3>4. Links(growNext.tri)' = Links(u)'
      BY <1>2, <3>2 DEF Links
    <3>5. IsEnd(growNext)'
      BY <1>2, <1>14, <3>2, <3>3, <3>4 DEF IsEnd, EndOf
    <3>6. growNext'.tri = o /\ growNext'.tri # grow'.tri
      BY <1>2, <1>12, <1>14, <3>1
    <3> QED
      BY <1>2, <2>1, <2>2, <2>3, <3>1, <3>5, <3>6 DEF GrowOK
  <2>4. CASE growNext = NoEnd
    <3>1. /\ Cardinality(Links(firstEnd)) = 1 /\ o = firstEnd /\ Open(firstEnd) = {}
      BY <1>2, <1>o, <2>4 DEF GrowOK
    <3>3. Links(firstEnd)' = Links(firstEnd)
      <4>1. Links(firstEnd)' = Links(o)'
        BY <1>2, <3>1 DEF Links
      <4> QED
        BY <1>14, <3>1, <4>1
    <3>4. Open(firstEnd)' = {}
      BY <1>2, <1>8, <1>9, <3>1 DEF Open
    <3>5. firstEnd' # grow'.tri /\ firstEnd' \in Tris /\ firstEnd' = o
      BY <1>2, <1>12, <1>14, <3>1
    <3> QED
      BY <1>2, <2>1, <2>2, <2>4, <3>1, <3>3, <3>4, <3>5 DEF GrowOK
  <2> QED
    BY <2>3, <2>4
<1>25. ApartOK'
  BY <1>1, <1>2, <1>6, <1>13, <1>17, <1>18, ApartGrows
<1> QED
  BY <1>10, <1>19, <1>20, <1>21, <1>22, <1>23, <1>24, <1>25

(* ... when the first end has come to its end and the other one is taken up, *)
LEMMA TurnAroundInv == PreprocInv /\ TurnAround => PreprocInv'
<1> SUFFICES ASSUME PreprocInv, TurnAround PROVE PreprocInv'
  OBVIOUS
<1> USE DEF PreprocInv
<1>1. PICK t, o : t = grow.tri /\ o = growNext.tri
  OBVIOUS
<1>2. /\ pc = "Grow" /\ preproc' = preproc /\ stripsCount' = stripsCount
      /\ pc' = "Grow" /\ firstEnd' = t /\ endpoint' = endpoint /\ endpoints' = endpoints
      /\ growNext # NoEnd /\ growNext' = NoEnd /\ grow' = growNext
      /\ core' = core /\ coreDirs' = coreDirs
      /\ UNCHANGED <<mesh, linkState, stripped>> /\ preproc = "stripify"
      /\ unstripped' = unstripped /\ lists' = lists /\ linkState' = linkState
      /\ stripped' = stripped /\ GrowTo = NotFound
  BY <1>1 DEF TurnAround, coreVars, adjVars, stripVars, PhaseOK
<1>3. /\ IsEnd(grow) /\ IsEnd(growNext)
      /\ Links(t) = {grow.indexToPrev} /\ t \in Tris /\ grow.indexToPrev \in Dir
      /\ o \in Tris /\ o # t /\ o \in StripOf(t)
  BY <1>1, <1>2 DEF GrowOK, IsEnd
<1>4. /\ \A u : Links(u)' = Links(u) /\ StripOf(u)' = StripOf(u)
      /\ MeshOK' /\ MeshOK /\ Agree(Links)
      /\ Agree(Links)' /\ Circles(Links)' = {} /\ LinksCount' = LinksCount
      /\ InUse' = InUse /\ neighbours' = neighbours /\ trisCount' = trisCount
  BY <1>2, SameLinks DEF LinksOK, ArraysOK
<1>5. t \in InUse
  <2>1. t \in stripped
    BY <1>3 DEF LinksOK
  <2> QED
    BY <2>1 DEF ArraysOK
<1>6. StripOf(o) = StripOf(t) /\ t \in StripOf(t)
  BY <1>3, <1>4, <1>5, SameStrip, StripIsEnclosed
<1>7. Open(t) = {}
  BY <1>1, <1>2, <1>3, <1>5, GrowDirFound DEF GrowTo
<1>8. /\ Growing = {t, o} /\ Growing' = {o, t} /\ Taken = stripped /\ Taken' = stripped
  BY <1>1, <1>2 DEF Growing, Taken
<1>9. Current = StripOf(t) /\ Current' = StripOf(t)
  <2>1. Current = StripOf(t)
    BY <1>1, <1>2 DEF Current
  <2>2. Current' = StripOf(grow.tri)'
    BY <1>2 DEF Current
  <2>3. StripOf(grow.tri)' = StripOf(o)'
    BY <1>1, <1>2 DEF StripOf
  <2> QED
    BY <1>4, <1>6, <2>1, <2>2, <2>3
<1>10. ArraysOK'
  BY <1>2, <1>4 DEF ArraysOK
<1>11. PhaseOK'
  BY <1>2 DEF PhaseOK, Algorithms
<1>12. ListsOK'
  <2>1. \A u : Open(u)' = Open(u)
    BY <1>2, <1>4 DEF Open
  <2> QED
    BY <1>2, <1>4, <2>1 DEF ListsOK, CountsOK
<1>13. LinksOK'
  BY <1>2, <1>4, <1>8 DEF LinksOK
<1>14. EndpointsOK'
  <2>1. Growing' = Growing
    BY <1>8
  <2> QED
    BY <1>2, <1>4, <1>8, <1>9, <2>1 DEF EndpointsOK
<1>15. CoreOK'
  BY <1>2 DEF CoreOK
<1>16. GrowOK'
  <2>1. IsEnd(grow)'
    <3>1. Links(grow.tri)' = Links(growNext.tri)
      <4>1. Links(grow.tri)' = Links(o)'
        BY <1>1, <1>2 DEF Links
      <4> QED
        BY <1>1, <1>4, <4>1
    <3> QED
      BY <1>2, <1>3, <3>1 DEF IsEnd, EndOf
  <2>2. Links(firstEnd)' = {grow.indexToPrev}
    <3>1. Links(firstEnd)' = Links(t)'
      BY <1>2 DEF Links
    <3> QED
      BY <1>3, <1>4, <3>1
  <2>3. Cardinality(Links(firstEnd)') = 1
    BY <2>2, FS_Singleton
  <2>4. Open(firstEnd)' = {}
    <3>1. Open(firstEnd)' = Open(t)
      BY <1>2, <1>4 DEF Open
    <3> QED
      BY <1>7, <3>1
  <2>5. StripOf(grow.tri)' = Current'
    BY <1>2 DEF Current
  <2>6. firstEnd' \in Tris /\ firstEnd' # grow'.tri /\ firstEnd' \in StripOf(grow.tri)'
    BY <1>1, <1>2, <1>3, <1>6, <1>9, <2>5
  <2> QED
    BY <1>2, <2>1, <2>3, <2>4, <2>6 DEF GrowOK
<1>17. ApartOK'
  <2>1. UNCHANGED <<mesh, linkState, stripped, endpoint, preproc>>
    BY <1>2
  <2> QED
    BY <1>9, <2>1, ApartStays
<1> QED
  BY <1>10, <1>11, <1>12, <1>13, <1>14, <1>15, <1>16, <1>17

(* ... when both have, so that the strip borders on no triangle in no strip, *)
LEMMA FinishStripInv == PreprocInv /\ FinishStrip => PreprocInv'
<1> SUFFICES ASSUME PreprocInv, FinishStrip PROVE PreprocInv'
  OBVIOUS
<1> USE DEF PreprocInv
<1>1. PICK t, o : t = grow.tri /\ o = firstEnd
  OBVIOUS
<1>2. /\ pc = "Grow" /\ preproc' = preproc /\ stripsCount' = stripsCount
      /\ pc' = "Core" /\ firstEnd' = Null /\ growNext = NoEnd /\ growNext' = NoEnd /\ grow' = NoEnd
      /\ core' = core /\ coreDirs' = coreDirs
      /\ UNCHANGED <<mesh, linkState, stripped>> /\ preproc = "stripify"
      /\ unstripped' = unstripped /\ lists' = lists /\ linkState' = linkState
      /\ stripped' = stripped /\ GrowTo = NotFound
      /\ MarkEndpoints(<<o, t>>)
  BY <1>1 DEF FinishStrip, coreVars, adjVars, PhaseOK
<1>3. /\ Links(t) = {grow.indexToPrev} /\ t \in Tris /\ grow.indexToPrev \in Dir
      /\ o \in Tris /\ o # t /\ o \in StripOf(t) /\ Cardinality(Links(o)) = 1
      /\ Open(o) = {}
  BY <1>1, <1>2 DEF GrowOK, IsEnd
<1>4. /\ \A u : Links(u)' = Links(u) /\ StripOf(u)' = StripOf(u)
      /\ MeshOK' /\ MeshOK /\ Agree(Links)
      /\ Agree(Links)' /\ Circles(Links)' = {} /\ LinksCount' = LinksCount
      /\ InUse' = InUse /\ neighbours' = neighbours /\ trisCount' = trisCount
  BY <1>2, SameLinks DEF LinksOK, ArraysOK
<1>5. t \in stripped /\ o \in stripped /\ stripped \subseteq InUse
  <2>1. Links(o) # {}
    BY <1>3, FS_EmptySet
  <2> QED
    BY <1>3, <2>1 DEF LinksOK, ArraysOK
<1>6. Open(t) = {}
  BY <1>1, <1>2, <1>3, <1>5, GrowDirFound DEF GrowTo
<1>7. /\ Growing = {t, o} /\ Growing' = {} /\ Taken = stripped /\ Taken' = stripped
  BY <1>1, <1>2 DEF Growing, Taken
<1>8. /\ Current = StripOf(t) /\ Current' = {}
      /\ \A a \in Current : StripOf(a) = Current
  BY <1>1, <1>2, <1>4, <1>5, SameStrip DEF Current
<1>9. AtMostOne(Links(t)) /\ AtMostOne(Links(o))
  <2>1. AtMostOne(Links(t))
    BY <1>3 DEF AtMostOne
  <2>2. Links(o) \in SUBSET Dir
    BY LinksArePositions
  <2> QED
    BY <1>3, <2>1, <2>2, AtMostOneLink
<1>10. /\ endpoints \in Seq(Tris) /\ IsInjectiveList(endpoints) /\ ElementsOf(endpoints) = endpoint
       /\ endpoint = {u \in Taken : AtMostOne(Links(u))} \ Growing
  BY DEF EndpointsOK
<1>11. /\ endpoints' \in Seq(Tris) /\ IsInjectiveList(endpoints')
       /\ ElementsOf(endpoints') = endpoint' /\ endpoint' = endpoint \cup {o, t}
  <2>1. PICK list : list = <<o, t>>
    OBVIOUS
  <2>2. list \in Seq(Tris) /\ Len(list) = 2 /\ list[1] = o /\ list[2] = t
    BY <1>3, <2>1
  <2>3. IsInjectiveList(list) /\ ElementsOf(list) = {o, t}
    BY <1>3, <2>2, ListOfTwo
  <2>4. MarkEndpoints(list) /\ \A u \in ElementsOf(list) : u \notin endpoint
    BY <1>2, <1>7, <1>10, <2>1, <2>3
  <2> QED
    BY <1>10, <2>2, <2>3, <2>4, Marked
<1>12. ArraysOK'
  BY <1>2, <1>4, <1>5, <1>11 DEF ArraysOK
<1>13. PhaseOK'
  BY <1>2 DEF PhaseOK, Algorithms
<1>14. ListsOK'
  <2>1. \A u : Open(u)' = Open(u)
    BY <1>2, <1>4 DEF Open
  <2> QED
    BY <1>2, <1>4, <2>1 DEF ListsOK, CountsOK
<1>15. LinksOK'
  BY <1>2, <1>4, <1>7 DEF LinksOK
<1>16. EndpointsOK'
  <2>1. endpoint' = {u \in stripped : AtMostOne(Links(u))}
    BY <1>5, <1>7, <1>9, <1>10, <1>11
  <2>2. endpoint' = {u \in Taken' : AtMostOne(Links(u)')} \ Growing'
    BY <1>4, <1>7, <2>1
  <2> QED
    BY <1>8, <1>11, <2>2 DEF EndpointsOK
<1>17. CoreOK' /\ GrowOK'
  BY <1>2 DEF CoreOK, GrowOK
<1>18. ApartOK'
  <2>1. Current \subseteq InUse
    BY <1>8 DEF StripOf
  <2>2. \A a \in endpoint' \cap Current : Open(a) = {}
    <3>1. endpoint \cap Current = {}
      BY <1>2 DEF EndpointsOK
    <3> QED
      BY <1>3, <1>6, <1>11, <3>1
  <2>3. endpoint \subseteq endpoint' /\ endpoint' \subseteq endpoint \cup Current
    <3>1. o \in Current /\ t \in Current
      BY <1>3, <1>4, <1>5, <1>8, StripIsEnclosed
    <3> QED
      BY <1>11, <3>1
  <2> QED
    BY <1>2, <1>4, <1>8, <2>1, <2>2, <2>3, ApartFinishes
<1> QED
  BY <1>12, <1>13, <1>14, <1>15, <1>16, <1>17, <1>18

(* A core that is not full has a dead end, or it is a pair.                *)
LEMMA ShortCore ==
  ASSUME PreprocInv, FinishShortStrip
  PROVE  \/ /\ pc = "Second" /\ ElementsOf(core) = {core[1]} /\ Current = {core[1]}
            /\ core[1] \in stripped /\ Open(core[1]) = {} /\ Links(core[1]) = {}
            /\ IsInjectiveList(core)
         \/ /\ pc = "Third" /\ ElementsOf(core) = {core[1], core[2]}
            /\ Current = {core[1], core[2]} /\ core[1] # core[2]
            /\ Links(core[1]) # {} /\ AtMostOne(Links(core[1]))
            /\ Links(core[2]) # {} /\ AtMostOne(Links(core[2]))
            /\ core[1] \in stripped /\ core[2] \in stripped
            /\ IsInjectiveList(core)
<1> USE DEF PreprocInv
<1>1. MeshOK /\ Agree(Links) /\ stripped \subseteq InUse /\ core \in Seq(Tris)
      /\ coreDirs \in Seq(Dir) /\ InUse \subseteq Tris
  BY MaxTrisAssumption DEF ArraysOK, LinksOK, MeshOK, IsMesh, InUse, Tris
<1>2. CASE pc = "Second"
  <2>1. Len(core) = 1 /\ core[1] \in stripped /\ Links(core[1]) = {}
    BY <1>2 DEF CoreOK
  <2>2. LastCore = core[1]
    BY <2>1 DEF LastCore
  <2>3. Open(core[1]) = {}
    BY <1>1, <2>1, <2>2, NextCoreFound DEF FinishShortStrip
  <2>4. Current = {core[1]}
    BY <1>1, <1>2, <2>1, LoneStrip DEF Current
  <2>5. ElementsOf(core) = {core[1]} /\ IsInjectiveList(core)
    <3>1. DOMAIN core = {1}
      BY <1>1, <2>1
    <3> QED
      BY <3>1 DEF ElementsOf, IsInjectiveList
  <2> QED
    BY <1>2, <2>1, <2>3, <2>4, <2>5
<1>3. CASE pc = "Third"
  <2>1. PICK f, t, i : f = core[1] /\ t = core[2] /\ i = coreDirs[1]
    OBVIOUS
  <2>2. /\ Len(core) = 2 /\ Len(coreDirs) = 1 /\ t = neighbours[f][i]
        /\ Links(f) = {i} /\ Links(t) = {indices[f][i]} /\ t \in StripOf(f)
    BY <1>3, <2>1 DEF CoreOK
  <2>3. f \in Tris /\ t \in Tris /\ i \in Dir
    <3>1. 1 \in DOMAIN core /\ 2 \in DOMAIN core /\ 1 \in DOMAIN coreDirs
      BY <1>1, <2>2
    <3> QED
      BY <1>1, <2>1, <3>1
  <2>4. f \in stripped /\ t \in stripped
    BY <2>2, <2>3 DEF LinksOK
  <2>5. f # t /\ neighbours[t][indices[f][i]] = f
    <3>1. neighbours[f][i] # Null
      BY <2>2, <2>3 DEF Tris, Null
    <3> QED
      BY <1>1, <2>2, <2>3, <3>1, EdgeFacts
  <2>6. ElementsOf(core) = {f, t} /\ IsInjectiveList(core)
    <3>1. PICK list : list = core
      OBVIOUS
    <3> QED
      BY <1>1, <2>1, <2>2, <2>3, <2>5, <3>1, ListOfTwo
  <2>7. {f, t} \in Enclosed
    BY <1>1, <2>2, <2>4, <2>5 DEF Enclosed
  <2>8. StripOf(f) = {f, t}
    BY <1>1, <2>2, <2>4, <2>7, StripIsEnclosed
  <2>9. Current = {f, t}
    BY <1>3, <2>1, <2>8 DEF Current
  <2>10. AtMostOne(Links(f)) /\ AtMostOne(Links(t))
    BY <2>2 DEF AtMostOne
  <2> QED
    BY <1>3, <2>1, <2>2, <2>4, <2>5, <2>6, <2>9, <2>10
<1> QED
  BY <1>2, <1>3 DEF FinishShortStrip

(* ... and when a strip is over before its core is full.                   *)
LEMMA FinishShortStripInv == PreprocInv /\ FinishShortStrip => PreprocInv'
<1> SUFFICES ASSUME PreprocInv, FinishShortStrip PROVE PreprocInv'
  OBVIOUS
<1> USE DEF PreprocInv
<1>1. /\ pc \in {"Second", "Third"} /\ preproc' = preproc /\ stripsCount' = stripsCount
      /\ pc' = "Core" /\ grow' = grow /\ growNext' = growNext /\ firstEnd' = firstEnd
      /\ core' = core /\ coreDirs' = coreDirs /\ preproc # "isolated"
      /\ UNCHANGED <<mesh, linkState, stripped>>
      /\ unstripped' = unstripped /\ lists' = lists /\ linkState' = linkState
      /\ stripped' = stripped
      /\ IF preproc = "pairs" THEN UNCHANGED <<endpoint, endpoints>> ELSE MarkEndpoints(core)
  BY DEF FinishShortStrip, growVars, coreVars, adjVars, PhaseOK
<1>2. /\ \A u : Links(u)' = Links(u) /\ StripOf(u)' = StripOf(u)
      /\ MeshOK' /\ MeshOK /\ Agree(Links)
      /\ Agree(Links)' /\ Circles(Links)' = {} /\ LinksCount' = LinksCount
      /\ InUse' = InUse /\ neighbours' = neighbours /\ trisCount' = trisCount
  BY <1>1, SameLinks DEF LinksOK, ArraysOK
<1> DEFINE C == ElementsOf(core)
<1>3. /\ C = Current /\ C \subseteq stripped /\ IsInjectiveList(core)
      /\ \A u \in C : AtMostOne(Links(u))
      /\ \A u \in C : Open(u) = {} \/ IsPair(u)
      /\ preproc = "pairs" => pc = "Second"
  <2>1. CASE pc = "Second"
    BY <1>1, <2>1, ShortCore DEF AtMostOne
  <2>2. CASE pc = "Third"
    <3>1. PICK f, t : f = core[1] /\ t = core[2]
      OBVIOUS
    <3>2. /\ C = {f, t} /\ Current = {f, t} /\ f # t /\ AtMostOne(Links(f)) /\ AtMostOne(Links(t))
          /\ f \in stripped /\ t \in stripped /\ IsInjectiveList(core)
      BY <2>2, <3>1, ShortCore
    <3>3. StripOf(f) = {f, t}
      BY <2>2, <3>1, <3>2 DEF Current
    <3>4. StripOf(t) = {f, t}
      <4>1. f \in InUse /\ t \in StripOf(f)
        BY <3>2, <3>3 DEF ArraysOK
      <4> QED
        BY <1>2, <3>3, <4>1, SameStrip
    <3>5. IsPair(f) /\ IsPair(t)
      BY <3>2, <3>3, <3>4, SizeOfTwo DEF IsPair
    <3>6. preproc # "pairs"
      BY <2>2 DEF PhaseOK
    <3> QED
      BY <3>2, <3>5, <3>6
  <2> QED
    BY <1>1, <2>1, <2>2
<1>4. /\ Growing = IF preproc = "stripify" THEN C ELSE {}
      /\ Growing' = {} /\ Taken = stripped /\ Taken' = stripped /\ Current' = {}
  BY <1>1 DEF Growing, Taken, Current
<1>5. /\ endpoints \in Seq(Tris) /\ IsInjectiveList(endpoints) /\ ElementsOf(endpoints) = endpoint
      /\ endpoint = {u \in Taken : AtMostOne(Links(u))} \ Growing
      /\ preproc = "stripify" => endpoint \cap Current = {}
  BY DEF EndpointsOK
<1>6. /\ endpoints' \in Seq(Tris) /\ IsInjectiveList(endpoints')
      /\ ElementsOf(endpoints') = endpoint' /\ endpoint' = endpoint \cup C
  <2>1. CASE preproc = "pairs"
    <3>1. C \subseteq endpoint
      BY <1>3, <1>4, <1>5, <2>1
    <3> QED
      BY <1>1, <1>5, <2>1, <3>1
  <2>2. CASE preproc # "pairs"
    <3>1. preproc = "stripify" /\ MarkEndpoints(core)
      BY <1>1, <2>2 DEF PhaseOK, Algorithms
    <3>2. PICK list : list = core
      OBVIOUS
    <3>3. list \in Seq(Tris) /\ IsInjectiveList(list) /\ ElementsOf(list) = C
      BY <1>3, <3>2 DEF ArraysOK
    <3>4. MarkEndpoints(list) /\ \A u \in ElementsOf(list) : u \notin endpoint
      BY <1>4, <1>5, <3>1, <3>2, <3>3
    <3> QED
      BY <1>5, <3>3, <3>4, Marked
  <2> QED
    BY <2>1, <2>2
<1>7. ArraysOK'
  BY <1>1, <1>2, <1>3, <1>6 DEF ArraysOK
<1>8. PhaseOK'
  BY <1>1 DEF PhaseOK, Algorithms
<1>9. ListsOK'
  <2>1. \A u : Open(u)' = Open(u)
    BY <1>1, <1>2 DEF Open
  <2> QED
    BY <1>1, <1>2, <2>1 DEF ListsOK, CountsOK
<1>10. LinksOK'
  BY <1>1, <1>2, <1>4 DEF LinksOK
<1>11. EndpointsOK'
  <2>1. endpoint' = {u \in stripped : AtMostOne(Links(u))}
    <3> HIDE DEF C
    <3> QED
      BY <1>3, <1>4, <1>5, <1>6
  <2>2. endpoint' = {u \in Taken' : AtMostOne(Links(u)')} \ Growing'
    BY <1>2, <1>4, <2>1
  <2> QED
    BY <1>4, <1>6, <2>2 DEF EndpointsOK
<1>12. CoreOK' /\ GrowOK'
  BY <1>1 DEF CoreOK, GrowOK
<1>13. ApartOK'
  <2>1. Current \subseteq InUse
    BY <1>3 DEF ArraysOK
  <2>2. \A a \in Current : StripOf(a) = Current
    <3>1. CASE pc = "Second"
      <4>1. Current = {core[1]}
        BY <3>1, ShortCore
      <4>2. Current = StripOf(core[1])
        BY <3>1 DEF Current
      <4> QED
        BY <4>1, <4>2
    <3>2. CASE pc = "Third"
      <4>1. Current = StripOf(core[1]) /\ core[1] \in stripped
        BY <3>2, ShortCore DEF Current
      <4> QED
        BY <1>2, <4>1, SameStrip DEF ArraysOK
    <3> QED
      BY <1>1, <3>1, <3>2
  <2>3. \A a \in endpoint' \cap Current : IsPair(a) \/ Open(a) = {}
    BY <1>3
  <2>4. endpoint \subseteq endpoint' /\ endpoint' \subseteq endpoint \cup Current
    BY <1>3, <1>6
  <2> QED
    BY <1>1, <1>2, <1>4, <2>1, <2>2, <2>3, <2>4, ApartFinishes
<1> QED
  BY <1>7, <1>8, <1>9, <1>10, <1>11, <1>12, <1>13

(* A step that changes nothing.                                            *)
LEMMA StutterInv == PreprocInv /\ UNCHANGED vars => PreprocInv'
<1> SUFFICES ASSUME PreprocInv, UNCHANGED vars PROVE PreprocInv'
  OBVIOUS
<1> USE DEF PreprocInv
<1>1. /\ UNCHANGED <<mesh, linkState>> /\ endpoint' = endpoint /\ stripped' = stripped
      /\ unstripped' = unstripped /\ lists' = lists /\ core' = core /\ coreDirs' = coreDirs
      /\ preproc' = preproc /\ endpoints' = endpoints /\ stripsCount' = stripsCount
      /\ pc' = pc /\ grow' = grow /\ growNext' = growNext /\ firstEnd' = firstEnd
      /\ linkState' = linkState
  BY DEF vars, stripVars, adjVars, coreVars, growVars
<1>2. /\ \A u : Links(u)' = Links(u) /\ StripOf(u)' = StripOf(u)
      /\ MeshOK' /\ MeshOK /\ Agree(Links)
      /\ Agree(Links)' /\ Circles(Links)' = {} /\ LinksCount' = LinksCount
      /\ InUse' = InUse /\ neighbours' = neighbours /\ trisCount' = trisCount
      /\ indices' = indices
  BY <1>1, SameLinks DEF LinksOK, ArraysOK
<1>3. Taken' = Taken /\ Growing' = Growing
  BY <1>1, <1>2 DEF Taken, Growing
<1>4. Current' = Current
  <2>1. StripOf(grow.tri)' = StripOf(grow.tri) /\ StripOf(core[1])' = StripOf(core[1])
    BY <1>1, <1>2 DEF StripOf, Enclosed, Links
  <2> QED
    BY <1>1, <2>1 DEF Current
<1>5. ArraysOK'
  BY <1>1, <1>2 DEF ArraysOK
<1>6. PhaseOK'
  BY <1>1, <1>2 DEF PhaseOK
<1>7. ListsOK'
  <2>1. \A u : Open(u)' = Open(u)
    BY <1>1, <1>2 DEF Open
  <2> QED
    BY <1>1, <1>2, <2>1 DEF ListsOK, CountsOK
<1>8. LinksOK'
  BY <1>1, <1>2, <1>3 DEF LinksOK
<1>9. EndpointsOK'
  BY <1>1, <1>2, <1>3, <1>4 DEF EndpointsOK
<1>10. CoreOK'
  BY <1>1, <1>2 DEF CoreOK, Links, StripOf, Enclosed
<1>11. GrowOK'
  BY <1>1, <1>2 DEF GrowOK, IsEnd, Links, StripOf, Enclosed, Open
<1>12. ApartOK'
  BY <1>1, <1>4, ApartStays
<1> QED
  BY <1>5, <1>6, <1>7, <1>8, <1>9, <1>10, <1>11, <1>12

(* Every step keeps the invariant.                                         *)
LEMMA NextInv == PreprocInv /\ [Next]_vars => PreprocInv'
BY IsolateInv, OrderTrisInv, NoCoreLeftInv, DelineateFirstInv, DelineateSecondInv,
   DelineateThirdInv, FinishShortStripInv, GrowStripInv, TurnAroundInv, FinishStripInv,
   StutterInv DEF Next, Step, Finished

(* The inductive invariant holds.                                          *)
THEOREM PreprocInvHolds == Spec => []PreprocInv
BY InitInv, NextInv, PTL DEF Spec

-----------------------------------------------------------------------------
(***************************************************************************)
(* What the invariant implies.                                             *)
(***************************************************************************)
LEMMA TypesFollow == PreprocInv => TypeOK
<1> SUFFICES ASSUME PreprocInv PROVE TypeOK
  OBVIOUS
<1> USE DEF PreprocInv
<1>1. MeshOK /\ InUse \subseteq Tris /\ trisCount \in Nat /\ trisCount <= MaxTris
  BY MaxTrisAssumption DEF ArraysOK, MeshOK, IsMesh, InUse, Tris
<1>2. StripTypeOK
  <2>1. Dir \subseteq 0 .. 7
    BY DEF Dir
  <2> QED
    BY <1>1, <2>1 DEF ArraysOK, StripTypeOK
<1>3. AdjTypeOK
  <2>1. lists \in [0 .. 3 -> Seq(Tris)]
    BY DEF ListsOK, CountsOK, Sorted
  <2>2. unstripped \in [Tris -> 0 .. 255]
    BY DEF ArraysOK
  <2> QED
    BY <1>1, <2>1, <2>2 DEF ArraysOK, AdjTypeOK
<1>4. stripsCount \in 0 .. MaxTris
  <2>1. IsFiniteSet(Taken) /\ Cardinality(Taken) \in Nat /\ Cardinality(Taken) <= trisCount
    <3>1. IsFiniteSet(InUse) /\ Cardinality(InUse) = trisCount
      BY <1>1, FS_Interval DEF InUse
    <3>2. Taken \subseteq InUse
      BY DEF Taken, ArraysOK
    <3> QED
      BY <3>1, <3>2, FS_Subset, FS_CardinalityType
  <2>2. LinksCount \in Nat
    BY <1>1, SidesAreFinite, FS_CardinalityType DEF LinksCount
  <2>3. 2 * stripsCount + LinksCount = 2 * Cardinality(Taken) /\ stripsCount \in Nat
    BY DEF LinksOK, ArraysOK
  <2> QED
    BY <1>1, <2>1, <2>2, <2>3, MaxTrisAssumption
<1>5. ASSUME NEW e \in {grow, growNext}
      PROVE  /\ DOMAIN e = {"tri", "indexToPrev", "entrance"}
             /\ e.tri \in Tris \cup {Null} /\ e.indexToPrev \in Dir
  <2>1. e = NoEnd \/ IsEnd(e)
    BY DEF GrowOK
  <2>2. CASE e = NoEnd
    BY <2>2 DEF NoEnd, EndOf, Dir
  <2>3. CASE IsEnd(e)
    BY <2>3 DEF IsEnd, EndOf
  <2> QED
    BY <2>1, <2>2, <2>3
<1>6. firstEnd \in Tris \cup {Null}
  BY DEF GrowOK
<1>7. endpoints \in Seq(Tris)
  BY DEF EndpointsOK
<1> QED
  BY <1>1, <1>2, <1>3, <1>4, <1>5, <1>6, <1>7 DEF TypeOK, PhaseOK

(* The lists hold the triangles that are in no strip, by their counters,   *)
(* and no endpoint: a triangle is in one of the two kinds of list.         *)
THEOREM PreprocListsExact == Spec => []ListsExact
<1>1. ASSUME PreprocInv, preproc # "isolated" PROVE ElementsOf(endpoints) \subseteq stripped
  BY <1>1 DEF PreprocInv, EndpointsOK, Taken, PhaseOK
<1>2. ASSUME PreprocInv, preproc # "isolated", pc # "Order" PROVE AdjListsExact
  <2> USE <1>2 DEF PreprocInv
  <2>1. Sorted(unstripped, lists, InUse \ stripped)
    BY DEF ListsOK, CountsOK
  <2>2. ASSUME NEW c \in 0 .. 3, NEW i \in DOMAIN lists[c]
        PROVE  /\ \A j \in DOMAIN lists[c] : i # j => lists[c][i] # lists[c][j]
               /\ unstripped[lists[c][i]] = c
               /\ lists[c][i] \notin stripped
    <3>1. IsInjectiveList(lists[c]) /\ lists[c][i] \in ElementsOf(lists[c])
          /\ ElementsOf(lists[c]) = {t \in InUse \ stripped : unstripped[t] = c}
      BY <2>1 DEF Sorted, ElementsOf
    <3> QED
      BY <3>1 DEF IsInjectiveList
  <2>3. ASSUME NEW t \in InUse, t \notin stripped
        PROVE  /\ unstripped[t] = Cardinality(Open(t))
               /\ \E i \in DOMAIN lists[unstripped[t]] : lists[unstripped[t]][i] = t
    <3>1. unstripped[t] \in 0 .. 3
      BY MaxTrisAssumption DEF ArraysOK, MeshOK, IsMesh, InUse, Tris
    <3>2. t \in ElementsOf(lists[unstripped[t]])
      BY <2>1, <2>3, <3>1 DEF Sorted
    <3>3. unstripped[t] = Cardinality(Open(t))
      BY <2>3 DEF ListsOK, CountsOK
    <3> QED
      BY <3>2, <3>3 DEF ElementsOf
  <2> QED
    BY <2>2, <2>3 DEF AdjListsExact, InUse
<1>3. PreprocInv => ListsExact
  BY <1>1, <1>2, TypesFollow DEF ListsExact
<1> QED
  BY <1>3, PreprocInvHolds, PTL

(* A strip grows as a path of which the two ends are known.                *)
THEOREM PreprocGrowsAPath == Spec => []GrowsAPath
<1>1. PreprocInv => GrowsAPath
  <2> SUFFICES ASSUME PreprocInv PROVE GrowsAPath
    OBVIOUS
  <2> USE DEF PreprocInv
  <2>1. InUse \subseteq Tris
    BY MaxTrisAssumption DEF ArraysOK, MeshOK, IsMesh, InUse, Tris
  <2>2. ASSUME NEW t \in InUse, NEW d \in Links(t)
        PROVE  /\ neighbours[t][d] # Null
               /\ indices[t][d] \in Links(neighbours[t][d])
               /\ t \in stripped
    BY <2>1 DEF LinksOK, Agree
  <2>3. ASSUME pc = "Grow", NEW e \in {grow, growNext} \ {NoEnd}
        PROVE  Links(e.tri) = {e.indexToPrev} /\ e.tri \notin endpoint
    <3>1. IsEnd(e)
      BY <2>3 DEF GrowOK
    <3>2. e.tri \in Growing
      BY <2>3 DEF Growing
    <3> QED
      BY <3>1, <3>2 DEF IsEnd, EndpointsOK
  <2> QED
    BY <2>2, <2>3 DEF GrowsAPath
<1> QED
  BY <1>1, PreprocInvHolds, PTL

(* The cover speaks of the same sizes.                                     *)
LEMMA CoverCardinality == \A S : Cover!Cardinality(S) = Cardinality(S)
BY DEF Cover!Cardinality, Cardinality, Cover!IsFiniteSet, IsFiniteSet

(* The links cover the triangles by paths.                                 *)
LEMMA LinksAreCover ==
  ASSUME PreprocInv
  PROVE  Cover!IsCover
<1> DEFINE L == [t \in Tris |-> Links(t)]
<1>1. MeshOK /\ Agree(Links) /\ Circles(Links) = {}
  BY DEF PreprocInv, ArraysOK, LinksOK
<1>2. InUse \subseteq Tris /\ Cover!InUse = InUse
  BY <1>1, MaxTrisAssumption DEF MeshOK, IsMesh, InUse, Tris, Cover!InUse
<1>3. \A t \in InUse : L[t] = Links(t) /\ L[t] \in SUBSET Dir
  BY <1>2, LinksArePositions
<1>4. Cover!Mutual
  <2> SUFFICES ASSUME NEW t \in InUse, NEW d \in L[t]
               PROVE  /\ neighbours[t][d] \in InUse \ {t}
                      /\ indices[t][d] \in L[neighbours[t][d]]
    BY <1>2 DEF Cover!Mutual
  <2>1. t \in Tris /\ d \in Dir /\ d \in Links(t)
    BY <1>2, <1>3
  <2>2. neighbours[t][d] # Null /\ indices[t][d] \in Links(neighbours[t][d])
    BY <1>1, <2>1 DEF Agree
  <2>3. neighbours[t][d] \in InUse /\ neighbours[t][d] # t
    BY <1>1, <2>1, <2>2, EdgeFacts
  <2> QED
    BY <1>3, <2>2, <2>3
<1>5. Cover!NoCircle
  <2> SUFFICES ASSUME NEW S \in (SUBSET InUse) \ {{}}
               PROVE  \E t \in S : Cardinality(Cover!LinksInto(t, S)) <= 1
    BY <1>2, CoverCardinality DEF Cover!NoCircle
  <2>1. PICK t \in S : AtMostOne({d \in Links(t) : neighbours[t][d] \in S})
    BY <1>1 DEF Circles
  <2>2. Cover!LinksInto(t, S) = {d \in Links(t) : neighbours[t][d] \in S}
    BY <1>3 DEF Cover!LinksInto
  <2>3. {d \in Links(t) : neighbours[t][d] \in S} \in SUBSET Dir
    BY LinksArePositions
  <2> QED
    BY <2>1, <2>2, <2>3, AtMostOneLink
<1>6. \A t \in Cover!InUse : Cover!Degree(t) <= 2
  <2> SUFFICES ASSUME NEW t \in InUse PROVE Cardinality(L[t]) <= 2
    BY <1>2, CoverCardinality DEF Cover!Degree
  <2>1. \E d \in Dir : d \notin Links(t)
    BY <1>1, <1>2 DEF Agree
  <2> QED
    BY <1>3, <2>1, TwoLinks
<1> QED
  BY <1>2, <1>4, <1>5, <1>6 DEF Cover!IsCover

(* The strips that are done have two places for links left, each.          *)
LEMMA StartPlaces ==
  ASSUME PreprocInv, pc = "Start"
  PROVE  Cardinality(Places(LinksNow, InUse)) = 2 * stripsCount
<1>1. MeshOK /\ Agree(Links) /\ stripsCount \in Nat
  BY DEF PreprocInv, ArraysOK, LinksOK
<1>2. InUse \subseteq Tris /\ trisCount \in Nat
  BY <1>1, MaxTrisAssumption DEF MeshOK, IsMesh, InUse, Tris
<1>3. IsFiniteSet(InUse)
  BY <1>2, FS_Interval DEF InUse
<1>4. PICK L : L = LinksNow
  OBVIOUS
<1>5. \A t \in InUse : L[t] = Links(t)
  BY <1>2, <1>4 DEF LinksNow
<1>6. \A t \in InUse : L[t] \in SUBSET Dir /\ \E d \in Dir : d \notin L[t]
  BY <1>1, <1>2, <1>5, LinksArePositions DEF Agree
<1>7. /\ IsFiniteSet(Places(L, InUse)) /\ IsFiniteSet(SidesOf(L, InUse))
      /\ Cardinality(Places(L, InUse)) + Cardinality(SidesOf(L, InUse)) = 2 * Cardinality(InUse)
  BY <1>3, <1>6, PlacesAndSides
<1>8. 2 * stripsCount + LinksCount = 2 * Cardinality(InUse)
  BY DEF PreprocInv, LinksOK, Taken
<1>9. LinksCount = Cardinality(SidesOf(L, InUse))
  <2>1. {side \in InUse \X Dir : side[2] \in Links(side[1])} = SidesOf(L, InUse)
    BY <1>5 DEF SidesOf
  <2> QED
    BY <2>1, Zenon DEF LinksCount
<1>10. Cardinality(Places(L, InUse)) \in Nat /\ Cardinality(SidesOf(L, InUse)) \in Nat
  BY <1>7, FS_CardinalityType
<1>11. Cardinality(Places(L, InUse)) = 2 * stripsCount
  BY <1>1, <1>7, <1>8, <1>9, <1>10
<1> QED
  BY <1>4, <1>11, Zenon

(* When preprocessing is done, the strips are counted: paths that cover    *)
(* the triangles, whose ends are the flagged triangles and the list.       *)
THEOREM PreprocCoverReady == Spec => []CoverReady
<1>1. PreprocInv => CoverReady
  <2> SUFFICES ASSUME PreprocInv, pc = "Start"
               PROVE  /\ Cover!Init
                      /\ endpoint = {t \in InUse : Cardinality(Links(t)) <= 1}
                      /\ ElementsOf(endpoints) = endpoint
                      /\ \A i, j \in DOMAIN endpoints : i # j => endpoints[i] # endpoints[j]
    BY DEF CoverReady
  <2>1. MeshOK /\ InUse \subseteq Tris /\ Cover!InUse = InUse
    BY MaxTrisAssumption DEF PreprocInv, ArraysOK, MeshOK, IsMesh, InUse, Tris, Cover!InUse
  <2>2. Taken = InUse /\ Growing = {}
    BY DEF Taken, Growing
  <2>3. Cover!IsCover
    BY LinksAreCover
  <2>4. Cover!CountsStrips
    <3>1. 2 * stripsCount + LinksCount = 2 * Cardinality(InUse) /\ Cardinality(InUse) = trisCount
      BY <2>1, <2>2, StrippedAreFinite DEF PreprocInv, LinksOK, ArraysOK
    <3>2. {side \in Cover!InUse \X (0 .. 2) : side[2] \in [t \in Tris |-> Links(t)][side[1]]}
            = {side \in InUse \X Dir : side[2] \in Links(side[1])}
      BY <2>1 DEF Dir
    <3>3. Cover!LinksCount = LinksCount
      BY <3>2, CoverCardinality DEF Cover!LinksCount, LinksCount
    <3> QED
      BY <3>1, <3>3 DEF Cover!CountsStrips
  <2>5. endpoint = {t \in InUse : Cardinality(Links(t)) <= 1}
    <3>1. \A t : AtMostOne(Links(t)) <=> Cardinality(Links(t)) <= 1
      BY LinksArePositions, AtMostOneLink
    <3> QED
      BY <2>2, <3>1 DEF PreprocInv, EndpointsOK
  <2>6. ElementsOf(endpoints) = endpoint /\ IsInjectiveList(endpoints)
    BY DEF PreprocInv, EndpointsOK
  <2> QED
    BY <2>3, <2>4, <2>5, <2>6 DEF Cover!Init, IsInjectiveList
<1> QED
  BY <1>1, PreprocInvHolds, PTL

(* No strip could have grown into another one, except for a pair.          *)
THEOREM PreprocEndsApart == Spec => []EndsApart
<1>1. PreprocInv => EndsApart
  <2> SUFFICES ASSUME PreprocInv, pc = "Start", preproc # "isolated", NEW a \in endpoint,
                      NEW d \in Dir, neighbours[a][d] \in endpoint \ StripOf(a)
               PROVE  2 \in {Cardinality(StripOf(a)), Cardinality(StripOf(neighbours[a][d]))}
    BY DEF EndsApart
  <2>1. Current = {}
    BY DEF Current
  <2>2. IsPair(a) \/ IsPair(neighbours[a][d])
    BY <2>1 DEF PreprocInv, ApartOK
  <2> QED
    BY <2>2 DEF IsPair
<1> QED
  BY <1>1, PreprocInvHolds, PTL

===============================================================================
