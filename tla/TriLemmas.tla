------------------------------ MODULE TriLemmas -----------------------------
(***************************************************************************)
(* What the operators of the array of triangles compute: the saved link    *)
(* states, sets of positions, and the lists of triangles.                  *)
(***************************************************************************)
EXTENDS TriArray, SequenceTheorems, FiniteSetTheorems, WellFoundedInduction, TLAPS

-----------------------------------------------------------------------------
(***************************************************************************)
(* The link byte.                                                          *)
(***************************************************************************)
(* Saving keeps the links, and restoring once returns to them.             *)
LEMMA SavedLinks ==
  ASSUME NEW s \in SUBSET (0 .. 7)
  PROVE  /\ SaveLinkState(s) \in SUBSET (0 .. 7)
         /\ LinksOf(SaveLinkState(s)) = LinksOf(s)
         /\ LinksOf(RestoreLinkState(SaveLinkState(s), 1)) = LinksOf(s)
<1>1. SaveLinkState(s) \in SUBSET (0 .. 7)
  BY DEF SaveLinkState, LinksOf, Dir
<1>2. LinksOf(SaveLinkState(s)) = LinksOf(s)
  BY DEF SaveLinkState, LinksOf, Dir
<1>3. RestoreLinkState(SaveLinkState(s), 1) = s \cap (0 .. 4)
  <2> DEFINE saved == SaveLinkState(s)
  <2>1. \A b : b \in saved <=> (\E c \in s \cap (0 .. 4) : b = c + 3) \/ b \in s \cap (0 .. 2)
    BY DEF SaveLinkState, LinksOf, Dir
  <2>2. \A x : x \in RestoreLinkState(saved, 1) <=> \E b \in saved : b >= 3 /\ x = b - 3
    BY DEF RestoreLinkState
  <2> HIDE DEF saved
  <2>3. ASSUME NEW x PROVE x \in RestoreLinkState(saved, 1) <=> x \in s \cap (0 .. 4)
    <3>1. ASSUME x \in RestoreLinkState(saved, 1) PROVE x \in s \cap (0 .. 4)
      BY <2>1, <2>2, <3>1
    <3>2. ASSUME x \in s \cap (0 .. 4) PROVE x \in RestoreLinkState(saved, 1)
      <4>1. x + 3 \in saved /\ x + 3 >= 3 /\ x = (x + 3) - 3
        BY <2>1, <3>2
      <4> QED
        BY <2>2, <4>1
    <3> QED
      BY <3>1, <3>2
  <2>4. RestoreLinkState(saved, 1) = s \cap (0 .. 4)
    BY <2>3
  <2> QED
    BY <2>4 DEF saved
<1> QED
  BY <1>1, <1>2, <1>3 DEF LinksOf, Dir

(* Linking or unlinking leaves what was saved alone.                       *)
LEMMA FlippedBit ==
  ASSUME NEW s \in SUBSET (0 .. 7), NEW b \in Dir
  PROVE  /\ s \cup {b} \in SUBSET (0 .. 7)
         /\ s \ {b} \in SUBSET (0 .. 7)
         /\ LinksOf(s \cup {b}) = LinksOf(s) \cup {b}
         /\ LinksOf(s \ {b}) = LinksOf(s) \ {b}
         /\ RestoreLinkState(s \cup {b}, 1) = RestoreLinkState(s, 1)
         /\ RestoreLinkState(s \ {b}, 1) = RestoreLinkState(s, 1)
<1>1. b \in 0 .. 2
  BY DEF Dir
<1>2. /\ RestoreLinkState(s \cup {b}, 1) = RestoreLinkState(s, 1)
      /\ RestoreLinkState(s \ {b}, 1) = RestoreLinkState(s, 1)
  BY <1>1 DEF RestoreLinkState
<1> QED
  BY <1>1, <1>2 DEF LinksOf, Dir

(* Restoring stays inside the byte; a triangle that is not in the tunnel   *)
(* is not restored at all.                                                 *)
LEMMA RestoredLinks ==
  ASSUME NEW s \in SUBSET (0 .. 7), NEW n \in Nat
  PROVE  /\ RestoreLinkState(s, n) \in SUBSET (0 .. 7)
         /\ RestoreLinkState(s, 0) = s
<1>1. \A x : x \in RestoreLinkState(s, n) <=> \E b \in s : b >= 3 * n /\ x = b - 3 * n
  BY DEF RestoreLinkState
<1>2. \A b \in s : b >= 3 * 0 /\ b - 3 * 0 = b
  OBVIOUS
<1>3. RestoreLinkState(s, 0) = s
  BY <1>2 DEF RestoreLinkState
<1>4. RestoreLinkState(s, n) \in SUBSET (0 .. 7)
  BY <1>1
<1> QED
  BY <1>3, <1>4

(* The two remaining positions are the ones other than d.                  *)
LEMMA Remaining ==
  ASSUME NEW d \in Dir
  PROVE  /\ RemainingIndex(d, 0) \in Dir /\ RemainingIndex(d, 1) \in Dir
         /\ \A e \in Dir : e # d => e \in {RemainingIndex(d, 0), RemainingIndex(d, 1)}
         /\ RemainingIndex(d, 0) # d /\ RemainingIndex(d, 1) # d
  BY DEF Dir, RemainingIndex

(* A set of natural numbers has a least one.  This is how a proof goes by  *)
(* induction over data: whatever is not so for all numbers has a least one *)
(* for which it is not, and none below.                                    *)
LEMMA LeastNumber ==
  ASSUME NEW S \in SUBSET Nat, S # {}
  PROVE  \E n \in S : \A m \in S : n <= m
<1> DEFINE Begin(n) == 0 .. n
           T == {Begin(n) : n \in S}
<1>1. T \subseteq FiniteSubsetsOf(Nat) /\ T # {}
  <2>1. \A n \in Nat : 0 .. n \in SUBSET Nat /\ IsFiniteSet(0 .. n)
    BY FS_Interval
  <2> QED BY <2>1 DEF FiniteSubsetsOf
<1>2. \E x \in T : \A y \in T : ~(<<y, x>> \in StrictSubsetOrdering(Nat))
  <2> HIDE DEF T
  <2> QED BY <1>1, FS_StrictSubsetOrderingWellFounded, WFMin, Zenon
<1>3. PICK n \in S : \A m \in S : ~(<<0 .. m, 0 .. n>> \in StrictSubsetOrdering(Nat))
  BY <1>2
<1>4. ASSUME NEW m \in S, m < n PROVE FALSE
  <2>1. 0 .. m \in SUBSET Nat /\ 0 .. n \in SUBSET Nat /\ 0 .. m \subseteq 0 .. n
    BY <1>4
  <2>2. n \in 0 .. n /\ n \notin 0 .. m
    BY <1>4
  <2>3. 0 .. m # 0 .. n
    BY <2>2
  <2> QED BY <1>3, <2>1, <2>3 DEF StrictSubsetOrdering
<1> QED BY <1>4

(* A set of links has a size.                                              *)
LEMMA LinkSet ==
  ASSUME NEW S \in SUBSET Dir
  PROVE  IsFiniteSet(S) /\ Cardinality(S) \in Nat
<1>1. IsFiniteSet(Dir)
  BY FS_Interval, 0 \in Int, 2 \in Int DEF Dir
<1> QED
  BY <1>1, FS_Subset, FS_CardinalityType

(* A set of triangle positions has one element at most if its cardinality  *)
(* says so.                                                                *)
LEMMA AtMostOneLink ==
  ASSUME NEW S \in SUBSET Dir
  PROVE  Cardinality(S) <= 1 <=> AtMostOne(S)
<1>1. IsFiniteSet(S) /\ Cardinality(S) \in Nat
  BY LinkSet
<1>2. CASE S = {}
  BY <1>2, FS_EmptySet DEF AtMostOne
<1>3. CASE S # {}
  <2>1. PICK d : d \in S
    BY <1>3
  <2>2. IsFiniteSet(S \ {d}) /\ Cardinality(S \ {d}) = Cardinality(S) - 1
        /\ Cardinality(S \ {d}) \in Nat
    BY <1>1, <2>1, FS_RemoveElement, FS_CardinalityType
  <2>3. Cardinality(S \ {d}) = 0 <=> S \ {d} = {}
    BY <2>2, FS_EmptySet
  <2> QED
    BY <1>1, <2>1, <2>2, <2>3 DEF AtMostOne
<1> QED
  BY <1>2, <1>3

(* Two links of three positions.                                           *)
LEMMA TwoLinks ==
  ASSUME NEW L \in SUBSET Dir, \E d \in Dir : d \notin L
  PROVE  /\ Cardinality(L) <= 2
         /\ ~AtMostOne(L) => Cardinality(L) = 2
         /\ \A D \in SUBSET L : AtMostOne(D) \/ D = L
         /\ \A d, e \in L : d # e => L = {d, e}
<1>1. PICK x \in Dir : x \notin L
  OBVIOUS
<1>2. IsFiniteSet(Dir) /\ Cardinality(Dir) = 3
  <2>1. IsFiniteSet(0 .. 2) /\ Cardinality(0 .. 2) = IF 0 > 2 THEN 0 ELSE 2 - 0 + 1
    BY FS_Interval, 0 \in Int, 2 \in Int
  <2> QED
    BY <2>1 DEF Dir
<1>3. IsFiniteSet(Dir \ {x}) /\ Cardinality(Dir \ {x}) = 2
  BY <1>1, <1>2, FS_RemoveElement
<1>4. L \in SUBSET (Dir \ {x})
  BY <1>1
<1>5. Cardinality(L) <= 2
  BY <1>3, <1>4, FS_Subset
<1>6. PICK y \in Dir, z \in Dir : x # y /\ x # z /\ y # z /\ \A w \in Dir : w = x \/ w = y \/ w = z
  BY DEF Dir
<1>7. \A w \in L : w = y \/ w = z
  BY <1>1, <1>6
<1>8. ASSUME ~AtMostOne(L) PROVE L = Dir \ {x}
  BY <1>4, <1>6, <1>7, <1>8 DEF AtMostOne
<1>9. ASSUME NEW D \in SUBSET L, ~AtMostOne(D) PROVE D = L
  <2>1. y \in D /\ z \in D
    BY <1>7, <1>9 DEF AtMostOne
  <2> QED
    BY <1>7, <2>1
<1>10. ASSUME NEW d \in L, NEW e \in L, d # e PROVE L = {d, e}
  BY <1>7, <1>10
<1> QED
  BY <1>3, <1>5, <1>8, <1>9, <1>10

(* The shared edges, as stitched.                                          *)
LEMMA EdgeFacts ==
  ASSUME MeshOK, NEW t \in Tris, NEW d \in Dir, neighbours[t][d] # Null
  PROVE  /\ neighbours[t][d] \in InUse /\ neighbours[t][d] \in Tris /\ neighbours[t][d] # t
         /\ indices[t][d] \in Dir
         /\ neighbours[neighbours[t][d]][indices[t][d]] = t
         /\ indices[neighbours[t][d]][indices[t][d]] = d
<1>1. InUse \subseteq Tris
  BY MaxTrisAssumption DEF MeshOK, IsMesh, InUse, Tris
<1> QED
  BY <1>1 DEF MeshOK, IsMesh, Stitched, InUse

-----------------------------------------------------------------------------
(***************************************************************************)
(* Strips.                                                                 *)
(***************************************************************************)
(* The links of a triangle are positions.                                  *)
LEMMA LinksArePositions == \A t : Links(t) \in SUBSET Dir
BY DEF Links, LinksOf

(* A strip is the least set of triangles that no link leads out of.        *)
LEMMA StripIsEnclosed ==
  ASSUME MeshOK, Agree(Links), NEW t \in InUse
  PROVE  /\ t \in StripOf(t) /\ StripOf(t) \in Enclosed
         /\ \A S \in Enclosed : t \in S => StripOf(t) \subseteq S
<1>1. t \in StripOf(t) /\ \A S \in Enclosed : t \in S => StripOf(t) \subseteq S
  BY DEF StripOf
<1>2. InUse \subseteq Tris
  BY MaxTrisAssumption DEF MeshOK, IsMesh, InUse, Tris
<1>3. ASSUME NEW u \in StripOf(t), NEW d \in Links(u) PROVE neighbours[u][d] \in StripOf(t)
  <2>1. u \in InUse /\ u \in Tris /\ d \in Dir
    BY <1>2, LinksArePositions DEF StripOf
  <2>2. neighbours[u][d] \in InUse
    BY <2>1, EdgeFacts DEF Agree
  <2>3. ASSUME NEW S \in Enclosed, t \in S PROVE neighbours[u][d] \in S
    <3>1. u \in S
      BY <2>3 DEF StripOf
    <3> QED
      BY <3>1 DEF Enclosed
  <2> QED
    BY <2>2, <2>3 DEF StripOf
<1>4. StripOf(t) \subseteq InUse
  BY DEF StripOf
<1>5. StripOf(t) \in Enclosed
  BY <1>3, <1>4 DEF Enclosed
<1> QED
  BY <1>1, <1>5

(* Strips are disjoint.                                                    *)
LEMMA SameStrip ==
  ASSUME MeshOK, Agree(Links), NEW t \in InUse, NEW u \in StripOf(t)
  PROVE  StripOf(u) = StripOf(t)
<1>1. u \in InUse
  BY DEF StripOf
<1>2. InUse \subseteq Tris
  BY MaxTrisAssumption DEF MeshOK, IsMesh, InUse, Tris
<1>3. ASSUME NEW S \in Enclosed PROVE InUse \ S \in Enclosed
  <2>1. ASSUME NEW v \in InUse \ S, NEW d \in Links(v), neighbours[v][d] \in S PROVE FALSE
    <3>1. v \in Tris /\ d \in Dir
      BY <1>2, LinksArePositions
    <3>2. neighbours[v][d] # Null /\ indices[v][d] \in Links(neighbours[v][d])
      BY <3>1 DEF Agree
    <3>3. neighbours[neighbours[v][d]][indices[v][d]] = v
      BY <3>1, <3>2, EdgeFacts
    <3> QED
      BY <2>1, <3>2, <3>3 DEF Enclosed
  <2>2. ASSUME NEW v \in InUse \ S, NEW d \in Links(v) PROVE neighbours[v][d] \in InUse
    <3>1. v \in Tris /\ d \in Dir
      BY <1>2, LinksArePositions
    <3> QED
      BY <3>1, EdgeFacts DEF Agree
  <2>3. \A v \in InUse \ S : \A d \in Links(v) : neighbours[v][d] \in InUse \ S
    BY <2>1, <2>2
  <2> QED
    BY <2>3 DEF Enclosed
<1>4. ASSUME NEW S \in Enclosed PROVE t \in S <=> u \in S
  <2>1. t \in S => u \in S
    BY DEF StripOf
  <2>2. t \in InUse \ S => u \in InUse \ S
    BY <1>3 DEF StripOf
  <2> QED
    BY <1>1, <2>1, <2>2
<1> QED
  BY <1>4 DEF StripOf

(* The same of all the strips.                                             *)
LEMMA StripsAreEnclosed ==
  MeshOK /\ Agree(Links) =>
    \A u \in InUse : /\ u \in StripOf(u) /\ StripOf(u) \in Enclosed
                     /\ \A S \in Enclosed : u \in S => StripOf(u) \subseteq S
BY StripIsEnclosed

(* Two strips have no triangle in common.                                 *)
LEMMA StripsAreDisjoint ==
  MeshOK /\ Agree(Links) =>
    \A u \in InUse : \A v \in StripOf(u) : StripOf(v) = StripOf(u)
BY SameStrip

-----------------------------------------------------------------------------
(***************************************************************************)
(* The places for links.                                                   *)
(***************************************************************************)
(* Every triangle has two places, a free one or the side of an edge each.  *)
LEMMA PlacesAndSides ==
  ASSUME NEW S, IsFiniteSet(S), NEW links,
         \A t \in S : links[t] \in SUBSET Dir /\ \E d \in Dir : d \notin links[t]
  PROVE  /\ IsFiniteSet(Places(links, S)) /\ IsFiniteSet(SidesOf(links, S))
         /\ Cardinality(Places(links, S)) + Cardinality(SidesOf(links, S)) = 2 * Cardinality(S)
<1> DEFINE All == S \X {1, 2}
           Free == Places(links, S)
           Taken == {place \in All : place[2] <= Cardinality(links[place[1]])}
           Sides == SidesOf(links, S)
           number(t, d) == IF \E e \in links[t] : e < d THEN 2 ELSE 1
           f == [side \in Sides |-> <<side[1], number(side[1], side[2])>>]
<1>1. IsFiniteSet(All) /\ Cardinality(All) = 2 * Cardinality(S) /\ Cardinality(S) \in Nat
  <2>1. IsFiniteSet({1, 2}) /\ Cardinality({1, 2}) = 2
    <3>1. IsFiniteSet(1 .. 2) /\ Cardinality(1 .. 2) = IF 1 > 2 THEN 0 ELSE 2 - 1 + 1
      BY FS_Interval, 1 \in Int, 2 \in Int
    <3>2. 1 .. 2 = {1, 2}
      OBVIOUS
    <3> QED
      BY <3>1, <3>2
  <2>2. IsFiniteSet(All) /\ Cardinality(All) = Cardinality(S) * Cardinality({1, 2})
    BY <2>1, FS_Product
  <2>3. Cardinality(S) \in Nat
    BY FS_CardinalityType
  <2> QED
    BY <2>1, <2>2, <2>3
<1>2. \A t \in S : Cardinality(links[t]) \in Nat /\ Cardinality(links[t]) <= 2
  BY LinkSet, TwoLinks
<1>3. Free \cup Taken = All /\ Free \cap Taken = {} /\ Free \subseteq All /\ Taken \subseteq All
  <2>1. \A place \in All : place[1] \in S /\ place[2] \in Nat
    OBVIOUS
  <2>2. \A place \in All : place \in Free <=> place \notin Taken
    BY <1>2, <2>1 DEF Places
  <2>3. Free \subseteq All /\ Taken \subseteq All
    BY DEF Places
  <2> HIDE DEF All, Free, Taken
  <2> QED
    BY <2>2, <2>3
<1>4. ASSUME NEW t \in S, NEW d \in links[t]
      PROVE  number(t, d) \in {1, 2} /\ number(t, d) <= Cardinality(links[t])
  <2>1. links[t] \in SUBSET Dir /\ Cardinality(links[t]) \in Nat /\ Cardinality(links[t]) # 0
    BY <1>2, LinkSet, FS_EmptySet
  <2>2. CASE \E e \in links[t] : e < d
    <3>1. PICK e \in links[t] : e < d
      BY <2>2
    <3>2. e # d
      BY <2>1, <3>1 DEF Dir
    <3>3. Cardinality(links[t]) = 2
      BY <3>1, <3>2, TwoLinks DEF AtMostOne
    <3> QED
      BY <3>3
  <2>3. CASE ~ \E e \in links[t] : e < d
    BY <2>1, <2>3
  <2> QED
    BY <2>2, <2>3
<1>5. ASSUME NEW t \in S, NEW d \in links[t], NEW e \in links[t], number(t, d) = number(t, e)
      PROVE  d = e
  <2>1. d \in Dir /\ e \in Dir /\ links[t] \in SUBSET Dir
    OBVIOUS
  <2>2. ASSUME d # e PROVE FALSE
    <3>1. links[t] = {d, e}
      BY <2>2, TwoLinks
    <3>2. d < e \/ e < d
      BY <2>1, <2>2 DEF Dir
    <3>3. CASE d < e
      <4>1. number(t, e) = 2 /\ ~(e < d)
        BY <3>3, <2>1 DEF Dir
      <4>2. ~(d < d)
        BY <2>1 DEF Dir
      <4>3. number(t, d) = 1
        BY <3>1, <4>1, <4>2
      <4> QED
        BY <1>5, <4>1, <4>3
    <3>4. CASE e < d
      <4>1. number(t, d) = 2 /\ ~(d < e)
        BY <3>4, <2>1 DEF Dir
      <4>2. ~(e < e)
        BY <2>1 DEF Dir
      <4>3. number(t, e) = 1
        BY <3>1, <4>1, <4>2
      <4> QED
        BY <1>5, <4>1, <4>3
    <3> QED
      BY <3>2, <3>3, <3>4
  <2> QED
    BY <2>2
<1>6. ASSUME NEW t \in S, NEW k \in {1, 2}, k <= Cardinality(links[t])
      PROVE  \E d \in links[t] : number(t, d) = k
  <2>1. links[t] \in SUBSET Dir /\ Cardinality(links[t]) \in Nat /\ links[t] # {}
    BY <1>2, <1>6, LinkSet, FS_EmptySet
  <2>2. CASE k = 1
    <3>1. \E d \in links[t] : \A e \in links[t] : ~(e < d)
      BY <2>1 DEF Dir
    <3> QED
      BY <2>2, <3>1
  <2>3. CASE k = 2
    <3>1. ~AtMostOne(links[t])
      BY <1>6, <2>1, <2>3, AtMostOneLink
    <3>2. \E d, e \in links[t] : e < d
      BY <2>1, <3>1 DEF AtMostOne, Dir
    <3> QED
      BY <2>3, <3>2
  <2> QED
    BY <2>2, <2>3
<1>7. IsFiniteSet(Sides)
  <2>1. IsFiniteSet(Dir)
    BY LinkSet
  <2>2. IsFiniteSet(S \X Dir)
    BY <2>1, FS_Product
  <2>3. Sides \subseteq S \X Dir
    BY DEF SidesOf
  <2> QED
    BY <2>2, <2>3, FS_Subset
<1>8. \A side \in Sides : side[1] \in S /\ side[2] \in links[side[1]] /\ side = <<side[1], side[2]>>
  BY DEF SidesOf
<1>9. \A t \in S : \A d \in links[t] : <<t, d>> \in Sides
  BY DEF SidesOf
<1>10. \A place \in Taken : /\ place[1] \in S /\ place[2] \in {1, 2}
                            /\ place[2] <= Cardinality(links[place[1]])
                            /\ place = <<place[1], place[2]>>
  OBVIOUS
<1>11. \A t \in S, k \in {1, 2} : k <= Cardinality(links[t]) => <<t, k>> \in Taken
  OBVIOUS
<1>12. f \in Bijection(Sides, Taken)
  <2> HIDE DEF number, Taken, Sides
  <2>1. f \in [Sides -> Taken]
    <3>1. \A side \in Sides : <<side[1], number(side[1], side[2])>> \in Taken
      <4> SUFFICES ASSUME NEW side \in Sides
                   PROVE  <<side[1], number(side[1], side[2])>> \in Taken
        OBVIOUS
      <4>1. side[1] \in S /\ side[2] \in links[side[1]]
        BY <1>8
      <4>2. number(side[1], side[2]) \in {1, 2} /\ number(side[1], side[2]) <= Cardinality(links[side[1]])
        BY <1>4, <4>1
      <4> HIDE DEF f
      <4> QED
        BY <1>11, <4>1, <4>2
    <3> QED
      BY <3>1
  <2>2. \A a, b \in Sides : f[a] = f[b] => a = b
    <3> SUFFICES ASSUME NEW a \in Sides, NEW b \in Sides, f[a] = f[b] PROVE a = b
      OBVIOUS
    <3>1. a[1] = b[1] /\ number(a[1], a[2]) = number(b[1], b[2])
      OBVIOUS
    <3>2. a[2] = b[2]
      BY <1>5, <1>8, <3>1
    <3> QED
      BY <1>8, <3>1, <3>2
  <2>3. \A place \in Taken : \E side \in Sides : f[side] = place
    <3> SUFFICES ASSUME NEW place \in Taken PROVE \E side \in Sides : f[side] = place
      OBVIOUS
    <3>1. PICK d \in links[place[1]] : number(place[1], d) = place[2]
      BY <1>6, <1>10
    <3>2. <<place[1], d>> \in Sides
      BY <1>9, <1>10
    <3> QED
      BY <1>10, <3>1, <3>2
  <2> HIDE DEF f
  <2> QED
    BY <2>1, <2>2, <2>3 DEF Bijection, Injection, IsInjective, Surjection
<1>13. IsFiniteSet(Taken) /\ Cardinality(Taken) = Cardinality(Sides)
  <2> HIDE DEF f, Sides, Taken
  <2> QED
    BY <1>7, <1>12, FS_Bijection DEF ExistsBijection
<1>14. IsFiniteSet(Free)
  <2> HIDE DEF All, Free, Taken
  <2> QED
    BY <1>1, <1>3, FS_Subset
<1> HIDE DEF All, Free, Taken, Sides, f
<1>15. Cardinality(All) = Cardinality(Free) + Cardinality(Taken)
  <2>1. Cardinality(Free \cup Taken) = Cardinality(Free) + Cardinality(Taken) - Cardinality(Free \cap Taken)
    BY <1>13, <1>14, FS_Union
  <2>2. Cardinality(Free \cap Taken) = 0
    BY <1>3, FS_EmptySet
  <2>3. Cardinality(Free) \in Nat /\ Cardinality(Taken) \in Nat
    BY <1>13, <1>14, FS_CardinalityType
  <2>4. Cardinality(Free \cup Taken) = Cardinality(All)
    BY <1>3, Zenon
  <2> QED
    BY <2>1, <2>2, <2>3, <2>4
<1>16. Cardinality(Free) + Cardinality(Sides) = 2 * Cardinality(S)
  BY <1>1, <1>13, <1>15
<1> QED
  BY <1>7, <1>14, <1>16 DEF Free, Sides

(* A strip more or less are two free places more or less.                  *)
LEMMA TwoLess ==
  ASSUME NEW P, IsFiniteSet(P), NEW p \in P, NEW q \in P, p # q
  PROVE  IsFiniteSet(P \ {p, q}) /\ Cardinality(P \ {p, q}) = Cardinality(P) - 2
<1>1. IsFiniteSet(P \ {p}) /\ Cardinality(P \ {p}) = Cardinality(P) - 1
  BY FS_RemoveElement
<1>2. q \in P \ {p}
  OBVIOUS
<1>3. /\ IsFiniteSet((P \ {p}) \ {q})
      /\ Cardinality((P \ {p}) \ {q}) = Cardinality(P \ {p}) - 1
  BY <1>1, <1>2, FS_RemoveElement
<1>4. (P \ {p}) \ {q} = P \ {p, q}
  OBVIOUS
<1>5. Cardinality(P) \in Nat
  BY FS_CardinalityType
<1>6. IsFiniteSet(P \ {p, q}) /\ Cardinality(P \ {p, q}) = Cardinality(P \ {p}) - 1
  BY <1>3, <1>4, Zenon
<1> QED
  BY <1>1, <1>5, <1>6

-----------------------------------------------------------------------------
(***************************************************************************)
(* Lists without duplicates.                                               *)
(***************************************************************************)
(* An element has one place.                                               *)
LEMMA PlaceOfElement ==
  ASSUME NEW list \in Seq(Tris), IsInjectiveList(list), NEW i \in DOMAIN list
  PROVE  PlaceIn(list[i], list) = i
  BY DEF PlaceIn, IsInjectiveList

(* The successor is another element of the list, or there is none.         *)
LEMMA NextElement ==
  ASSUME NEW list \in Seq(Tris), IsInjectiveList(list), NEW t \in ElementsOf(list)
  PROVE  /\ NextInList(t, list) \in ElementsOf(list) \cup {Null}
         /\ NextInList(t, list) # t
         /\ NextInList(t, list) # Null =>
              PlaceIn(NextInList(t, list), list) = PlaceIn(t, list) + 1
<1>1. PICK i \in DOMAIN list : t = list[i]
  BY DEF ElementsOf
<1>2. PlaceIn(t, list) = i
  BY <1>1, PlaceOfElement
<1>3. i \in 1 .. Len(list) /\ Len(list) \in Nat /\ t \in Tris
  BY <1>1
<1>4. t # Null
  BY <1>3 DEF Tris, Null
<1>5. CASE i = Len(list)
  BY <1>2, <1>4, <1>5 DEF NextInList
<1>6. CASE i # Len(list)
  <2>1. NextInList(t, list) = list[i + 1] /\ i + 1 \in DOMAIN list
    BY <1>2, <1>3, <1>6 DEF NextInList
  <2>2. PlaceIn(list[i + 1], list) = i + 1
    BY <2>1, PlaceOfElement
  <2>3. list[i + 1] # t
    BY <1>1, <1>3, <2>1 DEF IsInjectiveList
  <2> QED
    BY <1>2, <2>1, <2>2, <2>3 DEF ElementsOf
<1> QED
  BY <1>5, <1>6

(* Removing an element leaves the others in their order.                   *)
LEMMA RestInOrder ==
  ASSUME NEW list \in Seq(Tris), IsInjectiveList(list), NEW i \in DOMAIN list
  PROVE  LET r == RemoveFromList(list[i], list)
         IN  /\ r \in Seq(Tris) /\ Len(r) = Len(list) - 1
             /\ \A j \in 1 .. Len(list) - 1 : r[j] = IF j < i THEN list[j] ELSE list[j + 1]
<1> DEFINE n == Len(list)
           a == SubSeq(list, 1, i - 1)
           b == SubSeq(list, i + 1, n)
           r == RemoveFromList(list[i], list)
<1>1. r = a \o b
  BY PlaceOfElement DEF RemoveFromList
<1>2. n \in Nat /\ i \in 1 .. n /\ DOMAIN list = 1 .. n
  OBVIOUS
<1>3. a \in Seq(Tris) /\ Len(a) = i - 1 /\ \A j \in 1 .. i - 1 : a[j] = list[j]
  BY <1>2
<1>4. b \in Seq(Tris) /\ Len(b) = n - i /\ \A j \in 1 .. n - i : b[j] = list[i + j]
  BY <1>2
<1> HIDE DEF a, b, r, n
<1>5. /\ r \in Seq(Tris) /\ Len(r) = n - 1
      /\ \A j \in 1 .. n - 1 : r[j] = IF j < i THEN list[j] ELSE list[j + 1]
  <2>1. /\ a \o b \in Seq(Tris)
        /\ Len(a \o b) = Len(a) + Len(b)
        /\ \A j \in 1 .. Len(a) + Len(b) :
             (a \o b)[j] = IF j <= Len(a) THEN a[j] ELSE b[j - Len(a)]
    BY <1>3, <1>4, ConcatProperties
  <2>2. Len(a) + Len(b) = n - 1
    BY <1>2, <1>3, <1>4
  <2>3. ASSUME NEW j \in 1 .. n - 1
        PROVE  r[j] = IF j < i THEN list[j] ELSE list[j + 1]
    <3>1. CASE j < i
      BY <1>1, <1>2, <1>3, <2>1, <2>2, <3>1
    <3>2. CASE ~(j < i)
      <4>1. j - (i - 1) \in 1 .. n - i /\ i + (j - (i - 1)) = j + 1
        BY <1>2, <3>2
      <4>2. r[j] = b[j - (i - 1)]
        BY <1>1, <1>2, <1>3, <2>1, <2>2, <3>2
      <4>3. b[j - (i - 1)] = list[j + 1]
        BY <1>4, <4>1
      <4> QED
        BY <3>2, <4>2, <4>3
    <3> QED
      BY <3>1, <3>2
  <2> QED
    BY <1>1, <2>1, <2>2, <2>3
<1> QED
  BY <1>5 DEF r, n

(* Removing an element removes it and nothing else.                        *)
LEMMA ElementRemoved ==
  ASSUME NEW list \in Seq(Tris), IsInjectiveList(list), NEW t \in ElementsOf(list)
  PROVE  /\ RemoveFromList(t, list) \in Seq(Tris)
         /\ IsInjectiveList(RemoveFromList(t, list))
         /\ ElementsOf(RemoveFromList(t, list)) = ElementsOf(list) \ {t}
<1>1. PICK i \in DOMAIN list : t = list[i]
  BY DEF ElementsOf
<1> DEFINE n == Len(list)
           r == RemoveFromList(t, list)
<1>2. n \in Nat /\ i \in 1 .. n /\ DOMAIN list = 1 .. n
  OBVIOUS
<1>3. /\ r \in Seq(Tris) /\ Len(r) = n - 1
      /\ \A j \in 1 .. n - 1 : r[j] = IF j < i THEN list[j] ELSE list[j + 1]
  BY <1>1, RestInOrder
<1> HIDE DEF r, n
<1>4. DOMAIN r = 1 .. n - 1
  BY <1>3, LenProperties
<1> DEFINE from(x) == IF x < i THEN x ELSE x + 1
<1>5. /\ \A j \in 1 .. n - 1 : from(j) \in 1 .. n /\ from(j) # i /\ r[j] = list[from(j)]
      /\ \A j, k \in 1 .. n - 1 : from(j) = from(k) => j = k
  BY <1>2, <1>3
<1> HIDE DEF from
<1>6. IsInjectiveList(r)
  BY <1>2, <1>4, <1>5 DEF IsInjectiveList
<1>7. ElementsOf(r) = ElementsOf(list) \ {t}
  <2>1. ASSUME NEW j \in DOMAIN r
        PROVE  r[j] \in ElementsOf(list) \ {t}
    BY <1>1, <1>2, <1>4, <1>5 DEF ElementsOf, IsInjectiveList
  <2>2. ASSUME NEW j \in DOMAIN list, list[j] # t
        PROVE  list[j] \in ElementsOf(r)
    <3>1. CASE j < i
      <4>1. j \in DOMAIN r /\ r[j] = list[j]
        BY <1>2, <1>3, <1>4, <3>1
      <4> QED
        BY <4>1 DEF ElementsOf
    <3>2. CASE j > i
      <4>1. j - 1 \in DOMAIN r /\ r[j - 1] = list[j]
        BY <1>2, <1>3, <1>4, <3>2
      <4> QED
        BY <4>1 DEF ElementsOf
    <3> QED
      BY <1>1, <1>2, <2>2, <3>1, <3>2
  <2> QED
    BY <2>1, <2>2 DEF ElementsOf
<1> QED
  BY <1>3, <1>6, <1>7 DEF r

=============================================================================
