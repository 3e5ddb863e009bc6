--------------------------- MODULE VerifierProofs ----------------------------
(***************************************************************************)
(* For every list and every sets of strips, of any length: the verdict of  *)
(* the verifier is exact.                                                  *)
(***************************************************************************)
EXTENDS VerifierInv, FiniteSetTheorems, TLAPS

Triangles == [1 .. 3 -> Nat]

\* make_key sorts: the key of a proper triangle has its corners, ascending.
LEMMA KeyIsSorted ==
  ASSUME NEW t \in Triangles, IsProper(t)
  PROVE  /\ KeyOf(t) \in Triangles
         /\ KeyOf(t)[1] < KeyOf(t)[2] /\ KeyOf(t)[2] < KeyOf(t)[3]
         /\ Corners(KeyOf(t)) = Corners(t)
<1>. DEFINE a == t[1]  b == t[2]  c == t[3]
<1>1. /\ a \in Nat /\ b \in Nat /\ c \in Nat /\ a # b /\ b # c /\ c # a
  BY DEF IsProper, IsDegenerated, Triangles
<1>2. KeyOf(t) = MakeKey(a, b, c)
  BY DEF KeyOf
<1>. HIDE DEF a, b, c
<1>3. \E x, y, z \in Nat : /\ MakeKey(a, b, c) = <<x, y, z>>
                           /\ x < y /\ y < z /\ {x, y, z} = {a, b, c}
  <2>1. CASE a < b /\ a < c /\ b < c
    <3>1. MakeKey(a, b, c) = <<a, b, c>> BY <1>1, <2>1 DEF MakeKey
    <3>. QED BY <3>1, <1>1, <2>1
  <2>2. CASE a < b /\ a < c /\ c < b
    <3>1. MakeKey(a, b, c) = <<a, c, b>> BY <1>1, <2>2 DEF MakeKey
    <3>. QED BY <3>1, <1>1, <2>2
  <2>3. CASE a < b /\ c < a
    <3>1. MakeKey(a, b, c) = <<c, a, b>> BY <1>1, <2>3 DEF MakeKey
    <3>. QED BY <3>1, <1>1, <2>3
  <2>4. CASE b < a /\ b < c /\ a < c
    <3>1. MakeKey(a, b, c) = <<b, a, c>> BY <1>1, <2>4 DEF MakeKey
    <3>. QED BY <3>1, <1>1, <2>4
  <2>5. CASE b < a /\ b < c /\ c < a
    <3>1. MakeKey(a, b, c) = <<b, c, a>> BY <1>1, <2>5 DEF MakeKey
    <3>. QED BY <3>1, <1>1, <2>5
  <2>6. CASE b < a /\ c < b
    <3>1. MakeKey(a, b, c) = <<c, b, a>> BY <1>1, <2>6 DEF MakeKey
    <3>. QED BY <3>1, <1>1, <2>6
  <2>7. \/ a < b /\ a < c /\ b < c
        \/ a < b /\ a < c /\ c < b
        \/ a < b /\ c < a
        \/ b < a /\ b < c /\ a < c
        \/ b < a /\ b < c /\ c < a
        \/ b < a /\ c < b
    BY <1>1
  <2>. QED BY <2>1, <2>2, <2>3, <2>4, <2>5, <2>6, <2>7
<1>4. PICK x \in Nat, y \in Nat, z \in Nat :
        /\ MakeKey(a, b, c) = <<x, y, z>>
        /\ x < y /\ y < z /\ {x, y, z} = {a, b, c}
  BY <1>3
<1>5. KeyOf(t) = <<x, y, z>>
  BY <1>2, <1>4
<1>6. KeyOf(t) \in Triangles
  BY <1>5 DEF Triangles
<1>7. Corners(t) = {a, b, c}
  BY DEF Corners, a, b, c
<1>8. Corners(KeyOf(t)) = {x, y, z}
  BY <1>5 DEF Corners
<1>. QED BY <1>4, <1>5, <1>6, <1>7, <1>8

\* A sorted triple is determined by its corners.
LEMMA SortedIsUnique ==
  ASSUME NEW k \in Triangles, NEW l \in Triangles,
         k[1] < k[2], k[2] < k[3], l[1] < l[2], l[2] < l[3],
         Corners(k) = Corners(l)
  PROVE  k = l
<1>1. /\ k[1] \in Nat /\ k[2] \in Nat /\ k[3] \in Nat
      /\ l[1] \in Nat /\ l[2] \in Nat /\ l[3] \in Nat
  BY DEF Triangles
<1>2. /\ k[1] \in {l[1], l[2], l[3]} /\ k[2] \in {l[1], l[2], l[3]}
      /\ k[3] \in {l[1], l[2], l[3]}
  BY DEF Corners
<1>3. k[1] = l[1] /\ k[2] = l[2] /\ k[3] = l[3]
  BY <1>1, <1>2
<1>. QED BY <1>3 DEF Triangles

\* Two proper triangles have the same key if and only if they have the same
\* corners.
LEMMA KeyOfCorners ==
  ASSUME NEW t \in Triangles, NEW u \in Triangles, IsProper(t), IsProper(u)
  PROVE  KeyOf(t) = KeyOf(u) <=> Corners(t) = Corners(u)
BY KeyIsSorted, SortedIsUnique

-----------------------------------------------------------------------------
\* Counting: what CountTri and its like do to what has been read of the list.

\* The list consists of triangles.
LEMMA ListTriangles ==
  ASSUME TypeOK PROVE \A i \in DOMAIN list : list[i] \in Triangles
BY DEF TypeOK, Triangles

\* Nothing has been read.
LEMMA NothingListed ==
  (/\ next = 1 /\ occurrences = <<>> /\ validTris = 0 /\ distinctTris = 0
   /\ list \in Seq(Triangles) /\ stage \in {"None", "Count"})
    => ListCounted
<1>. SUFFICES ASSUME next = 1, occurrences = <<>>, validTris = 0, distinctTris = 0,
                     list \in Seq(Triangles), stage \in {"None", "Count"}
              PROVE  ListCounted
  OBVIOUS
<1>1. Known = {}
  BY DEF Known
<1>2. Slots = {}
  BY <1>1 DEF Slots
<1>3. CountersDistinct
  BY <1>1 DEF CountersDistinct, Known
<1>4. next <= Len(list) + 1
  BY DEF Triangles
<1>5. {j \in 1 .. next - 1 : IsProper(list[j])} = {}
  OBVIOUS
<1>6. IsFiniteSet(Slots) /\ Cardinality(Slots) = 0
  BY <1>2, FS_EmptySet
<1>. QED BY <1>1, <1>3, <1>4, <1>5, <1>6 DEF ListCounted

\* A triangle that is read is one place more of its key.
LEMMA PlaceRead ==
  ASSUME TypeOK, ListCounted, next \in DOMAIN list, next' = next + 1, list' = list
  PROVE  /\ \A key : ListPlaces(key)' =
                IF IsProper(list[next]) /\ KeyOf(list[next]) = key
                THEN ListPlaces(key) \cup {next} ELSE ListPlaces(key)
         /\ \A key : next \notin ListPlaces(key)
         /\ next' <= Len(list)' + 1
<1>1. next \in Nat \ {0} /\ Len(list) \in Nat
  BY DEF TypeOK
<1>2. 1 .. next' - 1 = (1 .. next - 1) \cup {next} /\ next \notin 1 .. next - 1
  BY <1>1
<1>3. \A key : ListPlaces(key)' =
        {i \in 1 .. next' - 1 : IsProper(list[i]) /\ KeyOf(list[i]) = key}
  BY DEF ListPlaces, IsProper, IsDegenerated, KeyOf, MakeKey
<1>4. next' <= Len(list)' + 1
  BY <1>1 
<1>. QED BY <1>2, <1>3, <1>4 DEF ListPlaces

\* An element more, and its number.
LEMMA OneMore ==
  ASSUME NEW S, IsFiniteSet(S), NEW x, x \notin S
  PROVE  IsFiniteSet(S \cup {x}) /\ Cardinality(S \cup {x}) = Cardinality(S) + 1
BY FS_AddElement

\* A degenerated triangle of the list is not counted.
LEMMA SkipDegeneratedCounts ==
  ASSUME TypeOK, ListCounted, SkipDegenerated
  PROVE  ListCounted'
<1>. USE DEF SkipDegenerated
<1>1. /\ next \in DOMAIN list /\ ~IsProper(list[next])
      /\ next' = next + 1 /\ list' = list /\ occurrences' = occurrences
      /\ validTris' = validTris /\ distinctTris' = distinctTris
      /\ stage = "Count" /\ stage' = "Count"
  BY DEF TypeOK, IsProper
<1>2. /\ \A key : ListPlaces(key)' = ListPlaces(key)
      /\ next' <= Len(list)' + 1
  BY <1>1, PlaceRead
<1>3. next \in Nat \ {0}
  BY DEF TypeOK
<1>4. {j \in 1 .. next' - 1 : IsProper(list'[j])} = {j \in 1 .. next - 1 : IsProper(list[j])}
  BY <1>1, <1>3
<1>5. (Known = {KeyOf(list[i]) : i \in {j \in 1 .. next - 1 : IsProper(list[j])}})'
  BY <1>1, <1>4 DEF Known, ListCounted, KeyOf
<1>6. Slots' = Slots /\ Known' = Known /\ CountersDistinct'
      /\ \A key : Multiplicity(key)' = Multiplicity(key)
  BY <1>1 DEF Slots, Multiplicity, Known, CountersDistinct, ListCounted
<1>. QED BY <1>1, <1>2, <1>5, <1>6 DEF ListCounted

\* A triangle that is counted takes one slot more.
LEMMA CountTriCounts ==
  ASSUME TypeOK, ListCounted, CountTri
  PROVE  ListCounted'
<1>. DEFINE key == KeyOf(list[next])
            isKnown == key \in DOMAIN occurrences
<1>1. /\ next \in DOMAIN list /\ IsProper(list[next])
      /\ next' = next + 1 /\ list' = list
      /\ validTris' = validTris + 1
      /\ stage = "Count" /\ stage' = "Count"
      /\ distinctTris' = IF isKnown THEN distinctTris ELSE distinctTris + 1
      /\ occurrences' =
           [k \in DOMAIN occurrences \cup {key} |->
              IF k # key THEN occurrences[k]
              ELSE IF isKnown THEN Merged(occurrences[k]) ELSE NewOccurrence]
  BY DEF TypeOK, IsProper, CountTri
<1>2. /\ \A k : ListPlaces(k)' = IF k = key THEN ListPlaces(k) \cup {next} ELSE ListPlaces(k)
      /\ \A k : next \notin ListPlaces(k)
      /\ next' <= Len(list)' + 1
  BY <1>1, PlaceRead
<1>3. /\ next \in Nat \ {0} /\ distinctTris \in Nat /\ validTris \in Nat
      /\ \A k \in Known : occurrences[k] \in [multiplicity : Nat \ {0}, index : Nat]
  BY DEF TypeOK, Known
<1>4. Known' = Known \cup {key}
  BY <1>1 DEF Known
<1>5. (Known = {KeyOf(list[i]) : i \in {j \in 1 .. next - 1 : IsProper(list[j])}})'
  <2>1. {j \in 1 .. next' - 1 : IsProper(list'[j])} =
        {j \in 1 .. next - 1 : IsProper(list[j])} \cup {next}
    BY <1>1, <1>3
  <2>2. Known = {KeyOf(list[i]) : i \in {j \in 1 .. next - 1 : IsProper(list[j])}}
    BY DEF ListCounted
  <2>3. Known \cup {key} =
        {KeyOf(list[i]) : i \in {j \in 1 .. next - 1 : IsProper(list[j])} \cup {next}}
    BY <2>2
  <2>. QED BY <2>1, <2>3, <1>1, <1>4
<1>6. ~isKnown => ListPlaces(key) = {}
  BY DEF ListPlaces, ListCounted, Known
<1>7. \A k \in Known' :
        Multiplicity(k)' = IF k # key THEN Multiplicity(k)
                           ELSE IF isKnown THEN Multiplicity(k) + 1 ELSE 1
  BY <1>1, <1>3, <1>4 DEF Multiplicity, Merged, NewOccurrence, Known
<1>8. \A k \in Known' :
        /\ IsFiniteSet(ListPlaces(k)')
        /\ Multiplicity(k)' = Cardinality(ListPlaces(k)')
  <2>. SUFFICES ASSUME NEW k \in Known'
                PROVE  /\ IsFiniteSet(ListPlaces(k)')
                       /\ Multiplicity(k)' = Cardinality(ListPlaces(k)')
    OBVIOUS
  <2>1. CASE k # key
    BY <2>1, <1>2, <1>4, <1>7 DEF ListCounted
  <2>2. CASE k = key /\ isKnown
    <3>1. IsFiniteSet(ListPlaces(key)) /\ Multiplicity(key) = Cardinality(ListPlaces(key))
      BY <2>2 DEF ListCounted, Known
    <3>. QED BY <2>2, <3>1, <1>2, <1>7, OneMore
  <2>3. CASE k = key /\ ~isKnown
    <3>1. IsFiniteSet({}) /\ Cardinality({}) = 0
      BY FS_EmptySet
    <3>2. IsFiniteSet({} \cup {next}) /\ Cardinality({} \cup {next}) = 1
      BY <3>1, OneMore
    <3>. QED BY <2>3, <3>2, <1>2, <1>6, <1>7
  <2>. QED BY <2>1, <2>2, <2>3
<1>9. IsFiniteSet(Slots') /\ validTris' = Cardinality(Slots')
  <2>. DEFINE slot == <<key, IF isKnown THEN Multiplicity(key) + 1 ELSE 1>>
  <2>1. \A k \in Known : Multiplicity(k) \in Nat \ {0}
    BY <1>3 DEF Multiplicity
  <2>2. Slots' = Slots \cup {slot}
    BY <1>4, <1>7, <2>1 DEF Slots, Known
  <2>3. slot \notin Slots
    BY <2>1 DEF Slots, Known
  <2>4. IsFiniteSet(Slots) /\ validTris = Cardinality(Slots)
    BY DEF ListCounted
  <2>. HIDE DEF slot
  <2>. QED BY <1>1, <2>2, <2>3, <2>4, OneMore
<1>10. CountersDistinct'
  <2>1. CASE isKnown
    <3>1. Known' = Known /\ \A k \in Known : occurrences'[k].index = occurrences[k].index
      BY <2>1, <1>1, <1>3, <1>4 DEF Merged, Known
    <3>2. /\ {occurrences[k].index : k \in Known} = 0 .. distinctTris - 1
          /\ \A k, l \in Known : k # l => occurrences[k].index # occurrences[l].index
      BY <1>1 DEF CountersDistinct, ListCounted, Known
    <3>3. {occurrences'[k].index : k \in Known'} = {occurrences[k].index : k \in Known}
      BY <3>1
    <3>4. distinctTris' = distinctTris
      BY <2>1, <1>1
    <3>5. {occurrences'[k].index : k \in Known'} = 0 .. distinctTris' - 1
      BY <3>2, <3>3, <3>4
    <3>6. \A k, l \in Known' : k # l => occurrences'[k].index # occurrences'[l].index
      BY <3>1, <3>2
    <3>. QED BY <3>5, <3>6 DEF CountersDistinct, Known
  <2>2. CASE ~isKnown
    <3>1. /\ occurrences'[key].index = distinctTris
          /\ \A k \in Known : occurrences'[k].index = occurrences[k].index
      BY <2>2, <1>1, <1>3, <1>4 DEF NewOccurrence, Known
    <3>2. /\ {occurrences[k].index : k \in Known} = 0 .. distinctTris - 1
          /\ \A k, l \in Known : k # l => occurrences[k].index # occurrences[l].index
      BY <1>1 DEF CountersDistinct, ListCounted, Known
    <3>3. {occurrences'[k].index : k \in Known'} = {occurrences[k].index : k \in Known} \cup {distinctTris}
      BY <3>1, <1>4
    <3>4. (0 .. distinctTris - 1) \cup {distinctTris} = 0 .. distinctTris'  - 1
      BY <1>1, <1>3, <2>2
    <3>5. \A k \in Known : occurrences[k].index # distinctTris
      BY <3>2, <1>3
    <3>6. {occurrences'[k].index : k \in Known'} = 0 .. distinctTris' - 1
      BY <3>2, <3>3, <3>4
    <3>7. \A k, l \in Known' : k # l => occurrences'[k].index # occurrences'[l].index
      <4>. SUFFICES ASSUME NEW k \in Known', NEW l \in Known', k # l
                    PROVE  occurrences'[k].index # occurrences'[l].index
        OBVIOUS
      <4>1. CASE k = key
        BY <4>1, <3>1, <3>5, <1>4
      <4>2. CASE l = key
        BY <4>2, <3>1, <3>5, <1>4
      <4>3. CASE k # key /\ l # key
        BY <4>3, <3>1, <3>2, <1>4
      <4>. QED BY <4>1, <4>2, <4>3
    <3>. QED BY <3>6, <3>7 DEF CountersDistinct, Known
  <2>. QED BY <2>1, <2>2
<1>. QED BY <1>1, <1>2, <1>5, <1>8, <1>9, <1>10 DEF ListCounted

-----------------------------------------------------------------------------
\* Comparing: what KnownTriple and its like do to what has been read of the
\* strips.

\* Below the size of the integers the counters do not wrap.
LEMMA SmallMod ==
  ASSUME NEW n \in Nat, NEW m \in Nat, n < m
  PROVE  n % m = n
OBVIOUS

\* ids_count - 2 does not wrap.
LEMMA WindowsInside ==
  ASSUME TypeOK, StripsLong, NEW k \in DOMAIN strips
  PROVE  /\ WindowsCount(strips[k]) = Len(strips[k]) - 2
         /\ WindowsCount(strips[k]) \in Nat
         /\ strips[k] \in Seq(Nat)
<1>1. strips[k] \in Seq(Nat)
  BY DEF TypeOK
<1>2. Len(strips[k]) \in 2 .. Sizes - 1
  BY DEF StripsLong
<1>3. Len(strips[k]) - 2 \in Nat /\ Len(strips[k]) - 2 < Sizes /\ Sizes \in Nat
  BY <1>1, <1>2, SizesAssumption
<1>. QED BY <1>1, <1>3, SmallMod DEF WindowsCount

\* The places of the strips, by strip and window.
LEMMA PlacesAre ==
  Places = {p \in (DOMAIN strips) \X Int : p[2] \in 1 .. WindowsCount(strips[p[1]])}
BY DEF Places

\* A triple that is read is one place more.
LEMMA TripleRead ==
  ASSUME TypeOK, StripsLong, ReadsTriple,
         window' = window + 1, strip' = strip, strips' = strips
  PROVE  /\ PlacesRead' = PlacesRead \cup {<<strip, window>>}
         /\ <<strip, window>> \notin PlacesRead
         /\ TriAt(<<strip, window>>) = Triple
         /\ Triple \in Triangles
         /\ \A p : TriAt(p)' = TriAt(p)
<1>1. /\ strip \in Nat \ {0} /\ window \in Nat \ {0}
      /\ strip \in DOMAIN strips /\ window <= WindowsCount(strips[strip])
  BY DEF TypeOK, ReadsTriple
<1>2. /\ WindowsCount(strips[strip]) = Len(strips[strip]) - 2
      /\ strips[strip] \in Seq(Nat)
  BY <1>1, WindowsInside
<1>3. Places' = Places
  BY DEF Places, WindowsCount
<1>4. DOMAIN strips \subseteq Nat
  BY DEF TypeOK
<1>5. \A p \in Places : /\ p = <<p[1], p[2]>> /\ p[1] \in Nat /\ p[2] \in Int
                        /\ p[2] \in 1 .. WindowsCount(strips[p[1]])
  BY <1>4, PlacesAre
<1>6. <<strip, window>> \in Places
  BY <1>1, <1>2, PlacesAre
<1>7. PlacesRead' = {p \in Places : p[1] < strip \/ (p[1] = strip /\ p[2] < window + 1)}
  BY <1>3 DEF PlacesRead
<1>8. PlacesRead' = PlacesRead \cup {<<strip, window>>}
  BY <1>1, <1>5, <1>6, <1>7 DEF PlacesRead
<1>9. <<strip, window>> \notin PlacesRead
  BY <1>1 DEF PlacesRead
<1>10. TriAt(<<strip, window>>) = Triple
  BY DEF TriAt, TripleAt, Triple
<1>11. Triple \in Triangles
  <2>1. \A i \in 1 .. 3 : window + i - 1 \in 1 .. Len(strips[strip])
    BY <1>1, <1>2
  <2>. QED BY <2>1, <1>2 DEF Triple, Triangles
<1>12. \A p : TriAt(p)' = TriAt(p)
  BY DEF TriAt, TripleAt
<1>. QED BY <1>8, <1>9, <1>10, <1>11, <1>12

\* At the end of a strip, every place of it has been read.
LEMMA StripRead ==
  ASSUME TypeOK, StripsLong, NextStrip
  PROVE  /\ PlacesRead' = PlacesRead
         /\ \A p : TriAt(p)' = TriAt(p)
<1>1. /\ strip \in Nat \ {0} /\ window \in Nat \ {0}
      /\ strip \in DOMAIN strips /\ window > WindowsCount(strips[strip])
      /\ strip' = strip + 1 /\ window' = 1 /\ strips' = strips
  BY DEF TypeOK, NextStrip
<1>2. Places' = Places
  BY <1>1 DEF Places, WindowsCount
<1>3. DOMAIN strips \subseteq Nat
  BY DEF TypeOK
<1>4. \A k \in DOMAIN strips : WindowsCount(strips[k]) \in Nat
  BY WindowsInside
<1>5. \A p \in Places : /\ p[1] \in Nat /\ p[2] \in Int
                        /\ p[2] \in 1 .. WindowsCount(strips[p[1]])
  BY <1>3, PlacesAre
<1>6. PlacesRead' = {p \in Places : p[1] < strip + 1 \/ (p[1] = strip + 1 /\ p[2] < 1)}
  BY <1>1, <1>2 DEF PlacesRead
<1>7. \A p \in Places : (p[1] < strip + 1 \/ (p[1] = strip + 1 /\ p[2] < 1))
                          <=> (p[1] < strip \/ (p[1] = strip /\ p[2] < window))
  BY <1>1, <1>4, <1>5
<1>8. PlacesRead' = PlacesRead
  BY <1>6, <1>7 DEF PlacesRead
<1>9. \A p : TriAt(p)' = TriAt(p)
  BY <1>1 DEF TriAt, TripleAt
<1>. QED BY <1>8, <1>9

\* Reading a triple adds its place to the places of its key, and to no other.
LEMMA TriplePlaces ==
  ASSUME TypeOK, StripsLong, ReadsTriple, occurrences' = occurrences,
         window' = window + 1, strip' = strip, strips' = strips
  PROVE  /\ \A key : /\ <<strip, window>> \notin StripPlaces(key)
                     /\ StripPlaces(key)' =
                          IF IsProper(Triple) /\ KeyOf(Triple) = key
                          THEN StripPlaces(key) \cup {<<strip, window>>}
                          ELSE StripPlaces(key)
         /\ Unknown' = IF IsProper(Triple) /\ KeyOf(Triple) \notin Known
                       THEN Unknown \cup {<<strip, window>>} ELSE Unknown
<1>. DEFINE place == <<strip, window>>
<1>1. /\ PlacesRead' = PlacesRead \cup {place} /\ place \notin PlacesRead
      /\ TriAt(place) = Triple /\ \A p : TriAt(p)' = TriAt(p)
  BY TripleRead
<1>2. Known' = Known
  BY DEF Known
<1>3. \A key : StripPlaces(key)' =
        {p \in PlacesRead' : IsProper(TriAt(p)') /\ KeyOf(TriAt(p)') = key}
  BY DEF StripPlaces, IsProper, IsDegenerated, KeyOf, MakeKey
<1>4. Unknown' = {p \in PlacesRead' : IsProper(TriAt(p)') /\ KeyOf(TriAt(p)') \notin Known'}
  BY DEF Unknown, IsProper, IsDegenerated, KeyOf, MakeKey
<1>. HIDE DEF place
<1>5. \A key : StripPlaces(key)' =
        IF IsProper(Triple) /\ KeyOf(Triple) = key
        THEN StripPlaces(key) \cup {place} ELSE StripPlaces(key)
  BY <1>1, <1>3 DEF StripPlaces
<1>6. Unknown' = IF IsProper(Triple) /\ KeyOf(Triple) \notin Known
                 THEN Unknown \cup {place} ELSE Unknown
  BY <1>1, <1>2, <1>4 DEF Unknown
<1>. QED BY <1>1, <1>5, <1>6 DEF StripPlaces, place

\* What no action that compares touches.
LEMMA Compared ==
  ASSUME occurrences' = occurrences, counters' = counters
  PROVE  /\ Known' = Known /\ Slots' = Slots
         /\ MatchedSlots' = MatchedSlots /\ Superfluous' = Superfluous
         /\ \A key : Counter(key)' = Counter(key)
BY DEF Known, Slots, MatchedSlots, Superfluous, Counter, Multiplicity

\* A degenerated triple of a strip (a swap) changes no counter.
LEMMA SkipTripleCounts ==
  ASSUME TypeOK, StripsLong, StripsCounted, SkipTriple
  PROVE  StripsCounted'
<1>1. /\ ReadsTriple /\ ~IsProper(Triple) /\ stage = "Compare" /\ stage' = "Compare"
      /\ occurrences' = occurrences /\ counters' = counters
      /\ window' = window + 1 /\ strip' = strip /\ strips' = strips
      /\ distinctTris' = distinctTris /\ matchedTris' = matchedTris
      /\ hasFoundError' = hasFoundError
  BY DEF SkipTriple, ReadsTriple, IsDegeneratedTriple, IsProper, verifierVars
<1>2. /\ \A key : StripPlaces(key)' = StripPlaces(key)
      /\ Unknown' = Unknown
  BY <1>1, TriplePlaces
<1>3. /\ Known' = Known /\ MatchedSlots' = MatchedSlots /\ Superfluous' = Superfluous
      /\ \A key : Counter(key)' = Counter(key)
  BY <1>1, Compared
<1>. QED BY <1>1, <1>2, <1>3 DEF StripsCounted

\* A triangle that the list does not have is an error, and nothing else changes.
LEMMA UnknownTripleCounts ==
  ASSUME TypeOK, StripsLong, StripsCounted, UnknownTriple
  PROVE  StripsCounted'
<1>1. /\ ReadsTriple /\ IsProper(Triple) /\ stage = "Compare" /\ stage' = "Compare"
      /\ KeyOf(Triple) \notin Known
      /\ occurrences' = occurrences /\ counters' = counters
      /\ window' = window + 1 /\ strip' = strip /\ strips' = strips
      /\ distinctTris' = distinctTris /\ matchedTris' = matchedTris
      /\ hasFoundError'
  BY DEF UnknownTriple, ReadsTriple, IsDegeneratedTriple, IsProper, verifierVars, Known
<1>2. /\ \A key \in Known : StripPlaces(key)' = StripPlaces(key)
      /\ Unknown' # {}
  BY <1>1, TriplePlaces
<1>3. /\ Known' = Known /\ MatchedSlots' = MatchedSlots /\ Superfluous' = Superfluous
      /\ \A key : Counter(key)' = Counter(key)
  BY <1>1, Compared
<1>. QED BY <1>1, <1>2, <1>3 DEF StripsCounted

\* Going on to the next strip reads nothing.
LEMMA NextStripCounts ==
  ASSUME TypeOK, StripsLong, StripsCounted, NextStrip
  PROVE  StripsCounted'
<1>1. /\ stage = "Compare" /\ stage' = "Compare"
      /\ strip \in Nat \ {0} /\ strip <= Len(strips) /\ strip' = strip + 1
      /\ occurrences' = occurrences /\ counters' = counters /\ strips' = strips
      /\ distinctTris' = distinctTris /\ matchedTris' = matchedTris
      /\ hasFoundError' = hasFoundError
  BY DEF NextStrip, TypeOK, verifierVars
<1>2. Len(strips) \in Nat
  BY DEF TypeOK
<1>3. PlacesRead' = PlacesRead /\ \A p : TriAt(p)' = TriAt(p)
  BY StripRead
<1>4. /\ Known' = Known /\ MatchedSlots' = MatchedSlots /\ Superfluous' = Superfluous
      /\ \A key : Counter(key)' = Counter(key)
  BY <1>1, Compared
<1>5. \A key : StripPlaces(key)' =
        {p \in PlacesRead' : IsProper(TriAt(p)') /\ KeyOf(TriAt(p)') = key}
  BY DEF StripPlaces, IsProper, IsDegenerated, KeyOf, MakeKey
<1>6. Unknown' = {p \in PlacesRead' : IsProper(TriAt(p)') /\ KeyOf(TriAt(p)') \notin Known'}
  BY DEF Unknown, IsProper, IsDegenerated, KeyOf, MakeKey
<1>7. (\A key : StripPlaces(key)' = StripPlaces(key)) /\ Unknown' = Unknown
  BY <1>3, <1>4, <1>5, <1>6 DEF StripPlaces, Unknown
<1>. QED BY <1>1, <1>2, <1>4, <1>7 DEF StripsCounted

\* A known triple takes the next slot of its triangle, or there is none left.
LEMMA KnownTripleCounts ==
  ASSUME TypeOK, StripsLong, ListCounted, StripsCounted, KnownTriple
  PROVE  StripsCounted'
<1>. DEFINE key == KeyOf(Triple)
            place == <<strip, window>>
            index == occurrences[key].index
            count == Counter(key) + 1
            isSuperfluous == IsSuperfluous(counters'[index], occurrences[key])
<1>1. /\ ReadsTriple /\ IsProper(Triple) /\ stage = "Compare" /\ stage' = "Compare"
      /\ key \in Known
      /\ occurrences' = occurrences
      /\ counters' = [counters EXCEPT ![index] = @ + 1]
      /\ window' = window + 1 /\ strip' = strip /\ strips' = strips
      /\ distinctTris' = distinctTris
      /\ hasFoundError' = (hasFoundError \/ isSuperfluous)
      /\ matchedTris' = IF isSuperfluous THEN matchedTris ELSE matchedTris + 1
  BY DEF KnownTriple, ReadsTriple, IsDegeneratedTriple, IsProper, verifierVars, Known
<1>2. /\ Known' = Known /\ Slots' = Slots
      /\ \A k : Multiplicity(k)' = Multiplicity(k)
  BY <1>1 DEF Known, Slots, Multiplicity
<1>3. /\ DOMAIN counters = 0 .. distinctTris - 1
      /\ strip <= Len(strips) + 1
      /\ \A k \in Known :
           IsFiniteSet(StripPlaces(k)) /\ Counter(k) = Cardinality(StripPlaces(k))
      /\ IsFiniteSet(MatchedSlots) /\ matchedTris = Cardinality(MatchedSlots)
      /\ hasFoundError <=> Unknown # {} \/ Superfluous # {}
  BY <1>1 DEF StripsCounted
<1>4. /\ \A k \in Known : occurrences[k].index \in DOMAIN counters
      /\ \A k \in Known : k # key => occurrences[k].index # index
  <2>1. /\ {occurrences[k].index : k \in Known} = 0 .. distinctTris - 1
        /\ \A k, l \in Known : k # l => occurrences[k].index # occurrences[l].index
    BY <1>1 DEF ListCounted, CountersDistinct, Known
  <2>. QED BY <2>1, <1>1, <1>3
<1>5. /\ \A k \in Known : Multiplicity(k) \in Nat \ {0} /\ Counter(k) \in Nat
      /\ matchedTris \in Nat
  BY <1>4 DEF TypeOK, Multiplicity, Counter, Known
<1>6. \A k \in Known : Counter(k)' = IF k = key THEN count ELSE Counter(k)
  BY <1>1, <1>4 DEF Counter
<1>7. /\ \A k : StripPlaces(k)' = IF k = key THEN StripPlaces(k) \cup {place} ELSE StripPlaces(k)
      /\ \A k : place \notin StripPlaces(k)
      /\ Unknown' = Unknown
  BY <1>1, TriplePlaces
<1>8. \A k \in Known' : /\ IsFiniteSet(StripPlaces(k)')
                        /\ Counter(k)' = Cardinality(StripPlaces(k)')
  <2>. SUFFICES ASSUME NEW k \in Known
                PROVE  /\ IsFiniteSet(StripPlaces(k)')
                       /\ Counter(k)' = Cardinality(StripPlaces(k)')
    BY <1>2
  <2>. HIDE DEF key, place
  <2>1. IsFiniteSet(StripPlaces(k)) /\ Counter(k) = Cardinality(StripPlaces(k))
    BY <1>3
  <2>. QED BY <2>1, <1>6, <1>7, OneMore
<1>9. isSuperfluous <=> count > Multiplicity(key)
  BY <1>1, <1>4 DEF IsSuperfluous, Counter, Multiplicity
<1>10. hasFoundError' <=> Unknown' # {} \/ Superfluous' # {}
  <2>1. Superfluous' = {k \in Known : Counter(k)' > Multiplicity(k)}
    BY <1>2 DEF Superfluous
  <2>2. Superfluous' = IF isSuperfluous THEN Superfluous \cup {key} ELSE Superfluous
    BY <2>1, <1>1, <1>5, <1>6, <1>9 DEF Superfluous
  <2>. QED BY <2>2, <1>1, <1>3, <1>7
<1>11. IsFiniteSet(MatchedSlots') /\ matchedTris' = Cardinality(MatchedSlots')
  <2>1. \A s \in Slots : s[1] \in Known /\ s[2] \in Nat /\ s = <<s[1], s[2]>>
    BY DEF Slots
  <2>2. MatchedSlots' = {s \in Slots : s[2] <= Counter(s[1])'}
    BY <1>2 DEF MatchedSlots
  <2>3. <<key, count>> \in Slots <=> ~isSuperfluous
    BY <1>1, <1>5, <1>9 DEF Slots
  <2>4. <<key, count>> \notin MatchedSlots
    BY <1>1, <1>5 DEF MatchedSlots
  <2>. HIDE DEF isSuperfluous
  <2>5. MatchedSlots' = IF isSuperfluous THEN MatchedSlots ELSE MatchedSlots \cup {<<key, count>>}
    <3>1. \A s \in Slots : (s[2] <= Counter(s[1])') <=> (s[2] <= Counter(s[1]) \/ s = <<key, count>>)
      BY <2>1, <1>1, <1>5, <1>6
    <3>. QED BY <2>2, <2>3, <3>1 DEF MatchedSlots
  <2>. HIDE DEF key, count
  <2>. QED BY <2>4, <2>5, <1>1, <1>3, OneMore
<1>. QED BY <1>1, <1>3, <1>8, <1>10, <1>11 DEF StripsCounted

\* A comparison starts with counters of 0, whatever was compared before.
LEMMA StartVerifyCounts ==
  ASSUME TypeOK, ListCounted, StartVerify
  PROVE  StripsLong' /\ StripsCounted'
<1>1. /\ stage' = "Compare" /\ strips' \in StripSets
      /\ counters' = [i \in 0 .. distinctTris - 1 |-> 0]
      /\ strip' = 1 /\ window' = 1 /\ matchedTris' = 0 /\ hasFoundError' = FALSE
      /\ occurrences' = occurrences /\ distinctTris' = distinctTris
      /\ stage # "None"
  BY DEF StartVerify, NewCounters, verifierVars
<1>2. StripsLong' /\ strips' \in Seq(Seq(Nat))
  BY <1>1, StripSetsAssumption DEF StripsLong
<1>3. \A p \in Places' : p[1] \in Nat \ {0} /\ p[2] \in Nat \ {0}
  <2>1. Places' = UNION {{k} \X (1 .. WindowsCount(strips'[k])) : k \in DOMAIN strips'}
    BY DEF Places, WindowsCount
  <2>2. DOMAIN strips' \subseteq Nat \ {0}
    BY <1>2
  <2>. QED BY <2>1, <2>2
<1>4. PlacesRead' = {}
  <2>1. PlacesRead' = {p \in Places' : p[1] < 1 \/ (p[1] = 1 /\ p[2] < 1)}
    BY <1>1 DEF PlacesRead
  <2>. QED BY <2>1, <1>3
<1>5. (\A key : StripPlaces(key)' = {}) /\ Unknown' = {}
  <2>1. \A key : StripPlaces(key)' =
          {p \in PlacesRead' : IsProper(TriAt(p)') /\ KeyOf(TriAt(p)') = key}
    BY DEF StripPlaces, IsProper, IsDegenerated, KeyOf, MakeKey
  <2>2. Unknown' = {p \in PlacesRead' : IsProper(TriAt(p)') /\ KeyOf(TriAt(p)') \notin Known'}
    BY DEF Unknown, IsProper, IsDegenerated, KeyOf, MakeKey
  <2>. QED BY <2>1, <2>2, <1>4
<1>6. /\ Known' = Known /\ Slots' = Slots
      /\ \A k : Multiplicity(k)' = Multiplicity(k)
  BY <1>1 DEF Known, Slots, Multiplicity
<1>7. \A k \in Known : Counter(k)' = 0 /\ Multiplicity(k) \in Nat \ {0}
  <2>1. {occurrences[k].index : k \in Known} = 0 .. distinctTris - 1
    BY <1>1 DEF ListCounted, CountersDistinct, Known
  <2>2. \A k \in Known : Counter(k)' = 0
    BY <2>1, <1>1 DEF Counter
  <2>. QED BY <2>2 DEF TypeOK, Known, Multiplicity
<1>8. MatchedSlots' = {} /\ Superfluous' = {}
  <2>1. \A s \in Slots : s[1] \in Known /\ s[2] \in Nat \ {0}
    BY <1>7 DEF Slots
  <2>2. MatchedSlots' = {s \in Slots : s[2] <= Counter(s[1])'}
    BY <1>6 DEF MatchedSlots
  <2>3. Superfluous' = {k \in Known : Counter(k)' > Multiplicity(k)}
    BY <1>6 DEF Superfluous
  <2>. QED BY <2>1, <2>2, <2>3, <1>7
<1>9. IsFiniteSet({}) /\ Cardinality({}) = 0
  BY FS_EmptySet
<1>10. Len(strips') \in Nat
  BY <1>2
<1>11. \A k \in Known' : /\ IsFiniteSet(StripPlaces(k)')
                         /\ Counter(k)' = Cardinality(StripPlaces(k)')
  BY <1>5, <1>6, <1>7, <1>9
<1>12. IsFiniteSet(MatchedSlots') /\ matchedTris' = Cardinality(MatchedSlots')
  BY <1>1, <1>8, <1>9
<1>13. DOMAIN counters' = 0 .. distinctTris' - 1
  BY <1>1
<1>14. hasFoundError' <=> Unknown' # {} \/ Superfluous' # {}
  BY <1>1, <1>5, <1>8
<1>15. strip' <= Len(strips') + 1
  BY <1>1, <1>10
<1>. QED BY <1>2, <1>11, <1>12, <1>13, <1>14, <1>15 DEF StripsCounted

\* After the last strip the verdict is what the counters say.
LEMMA EndVerifyAnswers ==
  ASSUME TypeOK, StripsCounted, Answered, EndVerify
  PROVE  StripsCounted' /\ Answered'
<1>1. /\ stage = "Compare" /\ stage' = "Answered" /\ strip > Len(strips)
      /\ missing' = IF matchedTris < validTris THEN MissingTris ELSE {}
      /\ hasFoundError' = (hasFoundError \/ matchedTris < validTris)
      /\ verdict' = ~hasFoundError'
      /\ occurrences' = occurrences /\ counters' = counters /\ strips' = strips
      /\ strip' = strip /\ window' = window /\ validTris' = validTris
      /\ distinctTris' = distinctTris /\ matchedTris' = matchedTris
  BY DEF EndVerify, verifierVars
<1>2. /\ Known' = Known /\ MatchedSlots' = MatchedSlots /\ Superfluous' = Superfluous
      /\ \A key : Counter(key)' = Counter(key)
  BY <1>1, Compared
<1>3. /\ \A key : StripPlaces(key)' = StripPlaces(key)
      /\ Unknown' = Unknown /\ MissingTris' = MissingTris
  BY <1>1, <1>2 DEF StripPlaces, Unknown, MissingTris, PlacesRead, Places, WindowsCount,
     TriAt, TripleAt, IsProper, IsDegenerated, KeyOf, MakeKey
<1>4. hasFoundError <=> Unknown # {} \/ Superfluous # {}
  BY <1>1 DEF StripsCounted
<1>5. StripsCounted'
  BY <1>1, <1>2, <1>3 DEF StripsCounted
<1>6. verdict' <=> ~(Unknown # {} \/ Superfluous # {} \/ matchedTris < validTris)
  BY <1>1, <1>4 DEF TypeOK
<1>7. Answered'
  BY <1>1, <1>2, <1>3, <1>6 DEF Answered
<1>. QED BY <1>5, <1>7

-----------------------------------------------------------------------------
\* Once the list has been read, what is said of it holds as long as it does.
LEMMA ListKept ==
  ASSUME ListCounted, UNCHANGED verifierVars,
         stage' = stage \/ stage \notin {"None", "Count"} \/ next = Len(list) + 1,
         stage' # "None" => stage # "None"
  PROVE  ListCounted'
<1>1. /\ list' = list /\ occurrences' = occurrences /\ validTris' = validTris
      /\ distinctTris' = distinctTris /\ next' = next
  BY DEF verifierVars
<1>2. /\ Known' = Known /\ Slots' = Slots /\ \A k : Multiplicity(k)' = Multiplicity(k)
  BY <1>1 DEF Known, Slots, Multiplicity
<1>3. \A k : ListPlaces(k)' = ListPlaces(k)
  BY <1>1 DEF ListPlaces, IsProper, IsDegenerated, KeyOf, MakeKey
<1>4. CountersDistinct'
  BY <1>1 DEF CountersDistinct, ListCounted
<1>5. (Known = {KeyOf(list[i]) : i \in {j \in 1 .. next - 1 : IsProper(list[j])}})'
  <2>1. {j \in 1 .. next' - 1 : IsProper(list'[j])} = {j \in 1 .. next - 1 : IsProper(list[j])}
    BY <1>1
  <2>2. Known = {KeyOf(list[i]) : i \in {j \in 1 .. next - 1 : IsProper(list[j])}}
    BY DEF ListCounted
  <2>. QED BY <1>1, <1>2, <2>1, <2>2
<1>6. next' <= Len(list') + 1 /\ (stage' \notin {"None", "Count"} => next' = Len(list') + 1)
  BY <1>1 DEF ListCounted
<1>7. \A k \in Known' : IsFiniteSet(ListPlaces(k)') /\ Multiplicity(k)' = Cardinality(ListPlaces(k)')
  BY <1>2, <1>3 DEF ListCounted
<1>8. IsFiniteSet(Slots') /\ validTris' = Cardinality(Slots')
  BY <1>1, <1>2 DEF ListCounted
<1>. QED BY <1>4, <1>5, <1>6, <1>7, <1>8 DEF ListCounted

\* Every action keeps the types.
LEMMA TypeStep == IInv /\ [Next]_vars => TypeOK'
<1>. SUFFICES ASSUME IInv, [Next]_vars PROVE TypeOK'
  OBVIOUS
<1>0. TypeOK /\ ListCounted /\ StripsCounted /\ Answered
  BY DEF IInv
<1>. DEFINE Occurrence == [multiplicity : Nat \ {0}, index : Nat]
<1>a. /\ DOMAIN <<>> \subseteq [1 .. 3 -> Nat]
      /\ <<>> \in [DOMAIN <<>> -> Occurrence] /\ <<>> \in [DOMAIN <<>> -> Nat]
  <2>1. DOMAIN <<>> = {}
    OBVIOUS
  <2>. HIDE DEF Occurrence
  <2>2. <<>> = [x \in {} |-> 0]
    OBVIOUS
  <2>. QED BY <2>1, <2>2
<1>1. CASE InitVerifier
  <2>1. missing = {}
    BY <1>0, <1>1 DEF InitVerifier, Answered
  <2>2. list' \in Seq([1 .. 3 -> Nat])
    BY <1>1, ListsAssumption DEF InitVerifier
  <2>3. /\ DOMAIN occurrences' \subseteq [1 .. 3 -> Nat]
        /\ occurrences' \in [DOMAIN occurrences' -> Occurrence]
        /\ missing' \subseteq DOMAIN occurrences'
    BY <1>1, <1>a, <2>1 DEF InitVerifier, callVars
  <2>4. /\ stage' = "Count" /\ {validTris', distinctTris', matchedTris'} \subseteq Nat
        /\ {next', strip', window'} \subseteq Nat \ {0}
    BY <1>0, <1>1 DEF InitVerifier, callVars, TypeOK
  <2>5. /\ strips' \in Seq(Seq(Nat)) /\ counters' \in [DOMAIN counters' -> Nat]
        /\ hasFoundError' \in BOOLEAN /\ verdict' \in BOOLEAN
    BY <1>0, <1>1 DEF InitVerifier, callVars, TypeOK
  <2>. QED BY <2>2, <2>3, <2>4, <2>5 DEF TypeOK
<1>2. CASE StartVerify
  <2>1. strips' \in Seq(Seq(Nat)) /\ UNCHANGED verifierVars /\ stage' = "Compare"
    BY <1>2, StripSetsAssumption DEF StartVerify
  <2>2. counters' \in [DOMAIN counters' -> Nat]
    BY <1>2 DEF StartVerify, NewCounters
  <2>3. /\ strip' = 1 /\ window' = 1 /\ matchedTris' = 0 /\ missing' = {}
        /\ hasFoundError' = FALSE /\ verdict' = FALSE
    BY <1>2 DEF StartVerify
  <2>4. /\ {validTris', distinctTris', matchedTris'} \subseteq Nat
        /\ {next', strip', window'} \subseteq Nat \ {0}
    BY <1>0, <2>1, <2>3 DEF verifierVars, TypeOK
  <2>6. hasFoundError' \in BOOLEAN /\ verdict' \in BOOLEAN
    BY <2>3, Zenon
  <2>5. /\ DOMAIN occurrences' \subseteq [1 .. 3 -> Nat]
        /\ occurrences' \in [DOMAIN occurrences' -> Occurrence]
        /\ missing' \subseteq DOMAIN occurrences'
        /\ list' \in Seq([1 .. 3 -> Nat])
    BY <1>0, <2>1, <2>3 DEF verifierVars, TypeOK
  <2>. QED BY <2>1, <2>2, <2>4, <2>5, <2>6 DEF TypeOK
<1>3. CASE DisposeVerifier
  <2>1. /\ list' \in Seq([1 .. 3 -> Nat]) /\ strips' \in Seq(Seq(Nat))
    BY <1>3 DEF DisposeVerifier
  <2>2. /\ DOMAIN occurrences' \subseteq [1 .. 3 -> Nat]
        /\ occurrences' \in [DOMAIN occurrences' -> Occurrence]
        /\ counters' \in [DOMAIN counters' -> Nat]
        /\ missing' \subseteq DOMAIN occurrences'
    BY <1>3, <1>a DEF DisposeVerifier
  <2>a. /\ stage' = "None" /\ validTris' = 0 /\ distinctTris' = 0 /\ matchedTris' = 0
        /\ next' = 1 /\ strip' = 1 /\ window' = 1
        /\ hasFoundError' = FALSE /\ verdict' = FALSE
    BY <1>3 DEF DisposeVerifier
  <2>b. hasFoundError' \in BOOLEAN /\ verdict' \in BOOLEAN
    BY <2>a, Zenon
  <2>c. stage' \in {"None", "Count", "Ready", "Compare", "Answered"}
    BY <2>a
  <2>3. /\ {validTris', distinctTris', matchedTris'} \subseteq Nat
        /\ {next', strip', window'} \subseteq Nat \ {0}
    BY <2>a
  <2>. QED BY <2>1, <2>2, <2>3, <2>b, <2>c DEF TypeOK
<1>4. CASE SkipDegenerated
  <2>1. /\ next' = next + 1
        /\ UNCHANGED <<stage, list, occurrences, validTris, distinctTris, callVars>>
    BY <1>4 DEF SkipDegenerated
  <2>. QED BY <1>0, <2>1 DEF callVars, TypeOK
<1>5. CASE CountTri
  <2>. DEFINE key == KeyOf(list[next])
              isKnown == key \in DOMAIN occurrences
  <2>1. next \in DOMAIN list /\ IsProper(list[next])
    BY <1>0, <1>5 DEF CountTri, IsProper, TypeOK
  <2>2. key \in [1 .. 3 -> Nat]
    BY <2>1, <1>0, ListTriangles, KeyIsSorted DEF Triangles
  <2>3. /\ occurrences' =
             [k \in DOMAIN occurrences \cup {key} |->
                IF k # key THEN occurrences[k]
                ELSE IF isKnown THEN Merged(occurrences[k]) ELSE NewOccurrence]
        /\ stage = "Count" /\ UNCHANGED <<stage, list, callVars>>
        /\ validTris' = validTris + 1 /\ next' = next + 1
        /\ distinctTris' = IF isKnown THEN distinctTris ELSE distinctTris + 1
    BY <1>5 DEF CountTri
  <2>4. \A k \in DOMAIN occurrences : occurrences[k] \in Occurrence
    BY <1>0 DEF TypeOK
  <2>5. \A k \in DOMAIN occurrences : Merged(occurrences[k]) \in Occurrence
    BY <2>4 DEF Merged
  <2>6. NewOccurrence \in Occurrence
    BY <1>0 DEF NewOccurrence, TypeOK
  <2>. HIDE DEF key, Occurrence
  <2>7. occurrences' \in [DOMAIN occurrences \cup {key} -> Occurrence]
    BY <2>3, <2>4, <2>5, <2>6
  <2>8. DOMAIN occurrences' = DOMAIN occurrences \cup {key}
    BY <2>3
  <2>9. /\ DOMAIN occurrences' \subseteq [1 .. 3 -> Nat]
        /\ occurrences' \in [DOMAIN occurrences' -> Occurrence]
        /\ missing' \subseteq DOMAIN occurrences'
    BY <1>0, <2>2, <2>3, <2>7, <2>8 DEF callVars, TypeOK
  <2>. USE DEF Occurrence
  <2>10. /\ {validTris', distinctTris', matchedTris'} \subseteq Nat
         /\ {next', strip', window'} \subseteq Nat \ {0}
    <3>1. /\ validTris \in Nat /\ distinctTris \in Nat /\ matchedTris \in Nat
          /\ next \in Nat \ {0} /\ strip \in Nat \ {0} /\ window \in Nat \ {0}
      BY <1>0 DEF TypeOK
    <3>2. matchedTris' = matchedTris /\ strip' = strip /\ window' = window
      BY <2>3 DEF callVars
    <3>3. /\ validTris' = validTris + 1 /\ next' = next + 1
          /\ distinctTris' = distinctTris \/ distinctTris' = distinctTris + 1
      BY <2>3
    <3> QED
      BY ONLY <3>1, <3>2, <3>3
  <2>11. /\ list' \in Seq([1 .. 3 -> Nat]) /\ strips' \in Seq(Seq(Nat))
         /\ counters' \in [DOMAIN counters' -> Nat] /\ stage' = "Count"
         /\ hasFoundError' \in BOOLEAN /\ verdict' \in BOOLEAN
    BY <1>0, <2>3 DEF callVars, TypeOK
  <2>. QED BY <2>9, <2>10, <2>11 DEF TypeOK
<1>6. CASE EndCount
  BY <1>0, <1>6 DEF EndCount, verifierVars, callVars, TypeOK
<1>7. CASE SkipTriple
  <2>1. /\ window' = window + 1
        /\ UNCHANGED <<stage, verifierVars, strips, strip, counters, matchedTris,
                       hasFoundError, missing, verdict>>
    BY <1>7 DEF SkipTriple
  <2>. QED BY <1>0, <2>1 DEF verifierVars, TypeOK
<1>8. CASE UnknownTriple
  <2>1. /\ window' = window + 1 /\ hasFoundError' = TRUE
        /\ UNCHANGED <<stage, verifierVars, strips, strip, counters, matchedTris,
                       missing, verdict>>
    BY <1>8 DEF UnknownTriple
  <2>. QED BY <1>0, <2>1 DEF verifierVars, TypeOK
<1>9. CASE KnownTriple
  <2>. DEFINE i == occurrences[KeyOf(Triple)].index
  <2>1. counters' = [counters EXCEPT ![i] = @ + 1]
    BY <1>9 DEF KnownTriple
  <2>2. counters' \in [DOMAIN counters' -> Nat]
    <3>1. \A x \in DOMAIN counters : counters[x] \in Nat
      BY <1>0 DEF TypeOK
    <3>2. DOMAIN counters' = DOMAIN counters /\ \A x \in DOMAIN counters : counters'[x] \in Nat
      BY <2>1, <3>1
    <3>3. counters' = [x \in DOMAIN counters' |-> counters'[x]]
      BY <2>1
    <3>. QED BY <3>2, <3>3
  <2>3. matchedTris' \in Nat /\ hasFoundError' \in BOOLEAN
    BY <1>0, <1>9 DEF KnownTriple, IsSuperfluous, TypeOK
  <2>4. /\ UNCHANGED <<stage, verifierVars, strips, strip, missing, verdict>>
        /\ window' = window + 1
    BY <1>9 DEF KnownTriple
  <2>. QED BY <1>0, <2>2, <2>3, <2>4 DEF verifierVars, TypeOK
<1>10. CASE NextStrip
  BY <1>0, <1>10 DEF NextStrip, verifierVars, TypeOK
<1>11. CASE EndVerify
  BY <1>0, <1>11 DEF EndVerify, verifierVars, MissingTris, TypeOK
<1>12. CASE UNCHANGED vars
  BY <1>0, <1>12 DEF vars, verifierVars, callVars, TypeOK
<1>. QED BY <1>1, <1>2, <1>3, <1>4, <1>5, <1>6, <1>7, <1>8, <1>9, <1>10, <1>11, <1>12
     DEF Next, Counting, Comparing

\* Only the actions that compare disturb what is said of a comparison.
LEMMA InvStep == IInv /\ [Next]_vars => IInv'
<1>. SUFFICES ASSUME IInv, [Next]_vars PROVE IInv'
  OBVIOUS
<1>0. TypeOK /\ StripsLong /\ ListCounted /\ StripsCounted /\ Answered
  BY DEF IInv
<1>t. TypeOK'
  BY TypeStep
<1>. SUFFICES StripsLong' /\ ListCounted' /\ StripsCounted' /\ Answered'
  BY <1>t DEF IInv
<1>1. CASE InitVerifier
  <2>1. /\ next' = 1 /\ occurrences' = <<>> /\ validTris' = 0 /\ distinctTris' = 0
        /\ stage' = "Count" /\ stage = "None" /\ UNCHANGED callVars
    BY <1>1 DEF InitVerifier
  <2>2. list' \in Seq(Triangles)
    BY <1>1, ListsAssumption DEF InitVerifier, Triangles
  <2>n. (/\ next = 1 /\ occurrences = <<>> /\ validTris = 0 /\ distinctTris = 0
         /\ list \in Seq(Triangles) /\ stage \in {"None", "Count"})'
    BY <2>1, <2>2
  <2>3. ListCounted'
    BY <2>n, NothingListed, PTL
  <2>4. StripsLong' /\ StripsCounted' /\ Answered'
    BY <1>0, <2>1 DEF callVars, StripsLong, StripsCounted, Answered
  <2>. QED BY <2>3, <2>4
<1>2. CASE StartVerify
  <2>1. StripsLong' /\ StripsCounted'
    BY <1>0, <1>2, StartVerifyCounts
  <2>2. UNCHANGED verifierVars /\ stage \notin {"None", "Count"} /\ stage' = "Compare"
        /\ missing' = {}
    BY <1>2 DEF StartVerify
  <2>3. ListCounted' /\ Answered'
    BY <1>0, <2>2, ListKept DEF Answered
  <2>. QED BY <2>1, <2>3
<1>3. CASE DisposeVerifier
  <2>1. /\ next' = 1 /\ occurrences' = <<>> /\ validTris' = 0 /\ distinctTris' = 0
        /\ stage' = "None" /\ list' = <<>> /\ strips' = <<>> /\ missing' = {}
    BY <1>3 DEF DisposeVerifier
  <2>2. list' \in Seq(Triangles)
    BY <2>1
  <2>n. (/\ next = 1 /\ occurrences = <<>> /\ validTris = 0 /\ distinctTris = 0
         /\ list \in Seq(Triangles) /\ stage \in {"None", "Count"})'
    BY <2>1, <2>2
  <2>3. ListCounted'
    BY <2>n, NothingListed, PTL
  <2>4. StripsLong' /\ StripsCounted' /\ Answered'
    BY <2>1 DEF StripsLong, StripsCounted, Answered
  <2>. QED BY <2>3, <2>4
<1>4. CASE SkipDegenerated
  <2>1. ListCounted'
    BY <1>0, <1>4, SkipDegeneratedCounts
  <2>2. stage' = "Count" /\ stage = "Count" /\ UNCHANGED callVars
    BY <1>4 DEF SkipDegenerated
  <2>. QED BY <1>0, <2>1, <2>2 DEF callVars, StripsLong, StripsCounted, Answered
<1>5. CASE CountTri
  <2>1. ListCounted'
    BY <1>0, <1>5, CountTriCounts
  <2>2. stage' = "Count" /\ stage = "Count" /\ UNCHANGED callVars
    BY <1>5 DEF CountTri
  <2>. QED BY <1>0, <2>1, <2>2 DEF callVars, StripsLong, StripsCounted, Answered
<1>6. CASE EndCount
  <2>1. /\ stage = "Count" /\ stage' = "Ready" /\ UNCHANGED verifierVars /\ UNCHANGED callVars
        /\ next > Len(list)
    BY <1>6 DEF EndCount
  <2>2. next = Len(list) + 1
    BY <1>0, <2>1 DEF ListCounted, TypeOK
  <2>3. ListCounted'
    BY <1>0, <2>1, <2>2, ListKept
  <2>. QED BY <1>0, <2>1, <2>3 DEF callVars, StripsLong, StripsCounted, Answered
<1>7. CASE SkipTriple
  <2>1. StripsCounted'
    BY <1>0, <1>7, SkipTripleCounts
  <2>2. /\ UNCHANGED verifierVars /\ UNCHANGED <<stage, strips, missing>> /\ stage = "Compare"
    BY <1>7 DEF SkipTriple, ReadsTriple
  <2>. QED BY <1>0, <2>1, <2>2, ListKept DEF StripsLong, Answered
<1>8. CASE UnknownTriple
  <2>1. StripsCounted'
    BY <1>0, <1>8, UnknownTripleCounts
  <2>2. /\ UNCHANGED verifierVars /\ UNCHANGED <<stage, strips, missing>> /\ stage = "Compare"
    BY <1>8 DEF UnknownTriple, ReadsTriple
  <2>. QED BY <1>0, <2>1, <2>2, ListKept DEF StripsLong, Answered
<1>9. CASE KnownTriple
  <2>1. StripsCounted'
    BY <1>0, <1>9, KnownTripleCounts
  <2>2. /\ UNCHANGED verifierVars /\ UNCHANGED <<stage, strips, missing>> /\ stage = "Compare"
    BY <1>9 DEF KnownTriple, ReadsTriple
  <2>. QED BY <1>0, <2>1, <2>2, ListKept DEF StripsLong, Answered
<1>10. CASE NextStrip
  <2>1. StripsCounted'
    BY <1>0, <1>10, NextStripCounts
  <2>2. /\ UNCHANGED verifierVars /\ UNCHANGED <<stage, strips, missing>> /\ stage = "Compare"
    BY <1>10 DEF NextStrip
  <2>. QED BY <1>0, <2>1, <2>2, ListKept DEF StripsLong, Answered
<1>11. CASE EndVerify
  <2>1. StripsCounted' /\ Answered'
    BY <1>0, <1>11, EndVerifyAnswers
  <2>2. /\ UNCHANGED verifierVars /\ UNCHANGED strips /\ stage = "Compare" /\ stage' = "Answered"
    BY <1>11 DEF EndVerify
  <2>. QED BY <1>0, <2>1, <2>2, ListKept DEF StripsLong
<1>12. CASE UNCHANGED vars
  <2>1. UNCHANGED verifierVars /\ UNCHANGED callVars /\ stage' = stage
    BY <1>12 DEF vars
  <2>2. ListCounted'
    BY <1>0, <2>1, ListKept
  <2>3. /\ \A key : StripPlaces(key)' = StripPlaces(key)
        /\ Unknown' = Unknown /\ MissingTris' = MissingTris
    BY <2>1 DEF verifierVars, callVars, StripPlaces, Unknown, MissingTris, Known, PlacesRead,
       Places, WindowsCount, TriAt, TripleAt, IsProper, IsDegenerated, KeyOf, MakeKey
  <2>4. /\ Known' = Known /\ MatchedSlots' = MatchedSlots /\ Superfluous' = Superfluous
        /\ \A key : Counter(key)' = Counter(key)
    BY <2>1, Compared DEF verifierVars, callVars
  <2>5. StripsLong' /\ StripsCounted'
    BY <1>0, <2>1, <2>3, <2>4 DEF verifierVars, callVars, StripsLong, StripsCounted
  <2>6. Answered'
    BY <1>0, <2>1, <2>3, <2>4 DEF verifierVars, callVars, Answered
  <2>. QED BY <2>2, <2>5, <2>6
<1>. QED BY <1>1, <1>2, <1>3, <1>4, <1>5, <1>6, <1>7, <1>8, <1>9, <1>10, <1>11, <1>12
     DEF Next, Counting, Comparing

\* Nothing has been counted without a verifier.
LEMMA InitInv == Init => IInv
<1>. SUFFICES ASSUME Init PROVE IInv
  OBVIOUS
<1>. USE DEF Init
<1>1. ListCounted
  BY NothingListed
<1>2. DOMAIN <<>> = {} /\ <<>> = [x \in {} |-> 0]
  OBVIOUS
<1>a. /\ DOMAIN occurrences \subseteq [1 .. 3 -> Nat]
      /\ occurrences \in [DOMAIN occurrences -> [multiplicity : Nat \ {0}, index : Nat]]
      /\ counters \in [DOMAIN counters -> Nat]
      /\ missing \subseteq DOMAIN occurrences
  BY <1>2
<1>b. hasFoundError \in BOOLEAN /\ verdict \in BOOLEAN
  BY Zenon
<1>3. TypeOK
  BY <1>a, <1>b DEF TypeOK
<1>4. StripsLong /\ StripsCounted /\ Answered
  BY DEF StripsLong, StripsCounted, Answered
<1>. QED BY <1>1, <1>3, <1>4 DEF IInv

\* The hashmap and the counters say what has been read of the list and of the
\* strips.
THEOREM InvariantHolds == Spec => []IInv
<1>1. Init => IInv
  BY InitInv
<1>2. IInv /\ [Next]_vars => IInv'
  BY InvStep
<1>. QED BY <1>1, <1>2, PTL DEF Spec

-----------------------------------------------------------------------------
\* The types of the verifier's fields and of a comparison's variables hold.
THEOREM TypesHold == Spec => []TypeOK
<1>1. IInv => TypeOK
  BY DEF IInv
<1>. QED BY <1>1, InvariantHolds, PTL

\* The index that a triangle gets in rm_tristripper_init_verifier belongs to it
\* alone and is inside of the array of every later comparison.
THEOREM CountersAreDistinct == Spec => []CountersDistinct
<1>1. IInv => CountersDistinct
  BY DEF IInv, ListCounted
<1>. QED BY <1>1, InvariantHolds, PTL

\* When the answer is there, everything has been read.
LEMMA AllRead ==
  ASSUME IInv, stage = "Answered"
  PROVE  /\ PlacesRead = Places
         /\ \A i \in DOMAIN list : list[i] \in Triangles
         /\ \A p \in Places : TriAt(p) \in Triangles
         /\ 1 .. next - 1 = DOMAIN list
<1>1. TypeOK /\ StripsLong /\ ListCounted /\ strip > Len(strips)
  BY DEF IInv, Answered
<1>2. \A p \in Places : p[1] \in DOMAIN strips /\ p[2] \in 1 .. WindowsCount(strips[p[1]])
  BY PlacesAre, <1>1
<1>3. PlacesRead = Places
  BY <1>1, <1>2 DEF PlacesRead, TypeOK
<1>4. \A p \in Places : TriAt(p) \in Triangles
  <2>. SUFFICES ASSUME NEW p \in Places PROVE TriAt(p) \in Triangles
    OBVIOUS
  <2>. DEFINE ids == strips[p[1]]
  <2>1. p[2] \in 1 .. Len(ids) - 2 /\ ids \in Seq(Nat)
    BY <1>1, <1>2, WindowsInside
  <2>2. TriAt(p) = [i \in 1 .. 3 |-> ids[p[2] + i - 1]]
    BY DEF TriAt, TripleAt
  <2>. HIDE DEF ids
  <2>3. \A i \in 1 .. 3 : p[2] + i - 1 \in 1 .. Len(ids)
    BY <2>1
  <2>5. \A j \in 1 .. Len(ids) : ids[j] \in Nat
    BY <2>1
  <2>4. \A i \in 1 .. 3 : ids[p[2] + i - 1] \in Nat
    BY <2>3, <2>5, Zenon
  <2>. QED
    <3>1. [i \in 1 .. 3 |-> ids[p[2] + i - 1]] \in [1 .. 3 -> Nat]
      BY <2>4, Zenon
    <3>. QED BY <2>2, <3>1 DEF Triangles
<1>5. 1 .. next - 1 = DOMAIN list
  BY <1>1 DEF ListCounted, TypeOK
<1>. QED BY <1>1, <1>3, <1>4, <1>5, ListTriangles

\* A triangle is found in the list and in the strips by its key, and a
\* degenerated one nowhere.
LEMMA FoundByKey ==
  ASSUME IInv, stage = "Answered", NEW t \in Triangles
  PROVE  /\ IsProper(t) => /\ InList(Corners(t)) = ListPlaces(KeyOf(t))
                           /\ InStrips(Corners(t)) = StripPlaces(KeyOf(t))
         /\ ~IsProper(t) => InList(Corners(t)) = {} /\ InStrips(Corners(t)) = {}
<1>1. /\ PlacesRead = Places /\ 1 .. next - 1 = DOMAIN list
      /\ \A i \in DOMAIN list : list[i] \in Triangles
      /\ \A p \in Places : TriAt(p) \in Triangles
  BY AllRead
<1>2. InStrips(Corners(t)) =
        {p \in Places : IsProper(TriAt(p)) /\ Corners(TriAt(p)) = Corners(t)}
  BY DEF InStrips, TriAt
<1>3. CASE IsProper(t)
  <2>1. \A u \in Triangles : IsProper(u) => (Corners(u) = Corners(t) <=> KeyOf(u) = KeyOf(t))
    BY <1>3, KeyOfCorners
  <2>2. InList(Corners(t)) = ListPlaces(KeyOf(t))
    BY <1>1, <2>1 DEF InList, ListPlaces
  <2>3. InStrips(Corners(t)) = StripPlaces(KeyOf(t))
    BY <1>1, <1>2, <2>1 DEF StripPlaces
  <2>. QED BY <1>3, <2>2, <2>3
<1>4. CASE ~IsProper(t)
  <2>1. \A u \in Triangles : IsProper(u) => Corners(u) # Corners(t)
    BY <1>4 DEF IsProper, IsDegenerated, Corners
  <2>. QED BY <1>1, <1>2, <1>4, <2>1 DEF InList
<1>. QED BY <1>3, <1>4

\* The strips have finitely many triples.
LEMMA PlacesFinite ==
  ASSUME IInv, stage = "Answered", NEW key
  PROVE  IsFiniteSet(StripPlaces(key)) /\ Cardinality(StripPlaces(key)) \in Nat
<1>1. TypeOK /\ StripsLong
  BY DEF IInv
<1>2. Len(strips) \in Nat /\ DOMAIN strips = 1 .. Len(strips)
  BY <1>1 DEF TypeOK
<1>3. \A k \in DOMAIN strips : WindowsCount(strips[k]) \in Nat /\ WindowsCount(strips[k]) <= Sizes
  BY <1>1, WindowsInside, SizesAssumption DEF StripsLong
<1>4. Places \subseteq (1 .. Len(strips)) \X (1 .. Sizes)
  BY <1>2, <1>3, SizesAssumption DEF Places
<1>5. IsFiniteSet(1 .. Len(strips)) /\ IsFiniteSet(1 .. Sizes)
  BY <1>2, SizesAssumption, FS_Interval
<1>6. IsFiniteSet((1 .. Len(strips)) \X (1 .. Sizes))
  BY <1>5, FS_Product
<1>7. StripPlaces(key) \subseteq (1 .. Len(strips)) \X (1 .. Sizes)
  BY <1>4 DEF StripPlaces, PlacesRead
<1>. QED BY <1>6, <1>7, FS_Subset, FS_CardinalityType

\* For a triangle of the list, the hashmap and the counters have the numbers.
LEMMA KnownCounted ==
  ASSUME IInv, stage = "Answered", NEW key \in Known
  PROVE  /\ Corners(key) \in AllCorners
         /\ Cardinality(InList(Corners(key))) = Multiplicity(key)
         /\ Cardinality(InStrips(Corners(key))) = Counter(key)
         /\ Multiplicity(key) \in Nat \ {0} /\ Counter(key) \in Nat
<1>1. TypeOK /\ ListCounted /\ StripsCounted
  BY DEF IInv
<1>2. PICK i \in DOMAIN list : IsProper(list[i]) /\ KeyOf(list[i]) = key
  BY <1>1, AllRead DEF ListCounted
<1>3. list[i] \in Triangles
  BY AllRead
<1>4. Corners(key) = Corners(list[i])
  BY <1>2, <1>3, KeyIsSorted
<1>5. /\ InList(Corners(key)) = ListPlaces(key)
      /\ InStrips(Corners(key)) = StripPlaces(key)
  BY <1>2, <1>3, <1>4, FoundByKey
<1>6. /\ Multiplicity(key) = Cardinality(ListPlaces(key))
      /\ Counter(key) = Cardinality(StripPlaces(key))
  BY <1>1 DEF ListCounted, StripsCounted
<1>7. Corners(key) \in AllCorners
  BY <1>4 DEF AllCorners
<1>8. Multiplicity(key) \in Nat \ {0}
  BY <1>1 DEF TypeOK, Multiplicity, Known
<1>. QED BY <1>5, <1>6, <1>7, <1>8, PlacesFinite

\* The sum of the matches is too low if and only if a counter is.
LEMMA SumTellsMissing ==
  ASSUME IInv, stage = "Answered"
  PROVE  matchedTris < validTris <=> \E key \in Known : Counter(key) < Multiplicity(key)
<1>1. /\ IsFiniteSet(Slots) /\ validTris = Cardinality(Slots)
      /\ IsFiniteSet(MatchedSlots) /\ matchedTris = Cardinality(MatchedSlots)
  BY DEF IInv, ListCounted, StripsCounted
<1>2. MatchedSlots \subseteq Slots
  BY DEF MatchedSlots
<1>3. validTris \in Nat /\ matchedTris \in Nat
  BY <1>1, FS_CardinalityType
<1>4. matchedTris <= validTris /\ (matchedTris = validTris => MatchedSlots = Slots)
  BY <1>1, <1>2, FS_Subset
<1>5. \A key \in Known : Multiplicity(key) \in Nat \ {0} /\ Counter(key) \in Nat
  BY KnownCounted
<1>6. \A s \in Slots : s[1] \in Known /\ s[2] \in 1 .. Multiplicity(s[1])
  BY DEF Slots
<1>7. ASSUME NEW key \in Known, Counter(key) < Multiplicity(key)
      PROVE  MatchedSlots # Slots
  <2>. DEFINE s == <<key, Multiplicity(key)>>
  <2>1. s \in Slots
    BY <1>5 DEF Slots
  <2>2. s \notin MatchedSlots
    BY <1>5, <1>7 DEF MatchedSlots
  <2>. QED BY <2>1, <2>2
<1>8. ASSUME NEW s \in Slots, s \notin MatchedSlots
      PROVE  \E key \in Known : Counter(key) < Multiplicity(key)
  <2>1. ~(s[2] <= Counter(s[1]))
    BY <1>8 DEF MatchedSlots
  <2>. QED BY <2>1, <1>5, <1>6
<1>. QED BY <1>1, <1>2, <1>3, <1>4, <1>7, <1>8

\* The triangles in the strips are the triangles in the list.
LEMMA AnswerIsExact == IInv => VerdictExact
<1>. SUFFICES ASSUME IInv, stage = "Answered"
              PROVE  verdict <=> \A corners \in AllCorners :
                       Cardinality(InList(corners)) = Cardinality(InStrips(corners))
  BY DEF VerdictExact
<1>. DEFINE Equal(corners) == Cardinality(InList(corners)) = Cardinality(InStrips(corners))
<1>1. verdict <=> ~(Unknown # {} \/ Superfluous # {} \/ matchedTris < validTris)
  BY DEF IInv, Answered
<1>2. \A key \in Known : /\ Corners(key) \in AllCorners
                         /\ Equal(Corners(key)) <=> Counter(key) = Multiplicity(key)
                         /\ Multiplicity(key) \in Nat /\ Counter(key) \in Nat
  BY KnownCounted
<1>3. Superfluous = {} /\ ~(matchedTris < validTris) <=> \A key \in Known : Equal(Corners(key))
  BY <1>2, SumTellsMissing DEF Superfluous
<1>4. ASSUME \A corners \in AllCorners : Equal(corners)
      PROVE  Unknown = {}
  <2>. SUFFICES ASSUME NEW p \in Unknown PROVE FALSE
    OBVIOUS
  <2>. DEFINE t == TriAt(p)
  <2>1. /\ p \in PlacesRead /\ PlacesRead = Places /\ t \in Triangles
        /\ IsProper(t) /\ KeyOf(t) \notin Known
    BY AllRead DEF Unknown
  <2>2. Corners(t) \in AllCorners
    BY <2>1 DEF AllCorners, TriAt
  <2>3. p \in StripPlaces(KeyOf(t))
    BY <2>1 DEF StripPlaces
  <2>4. ListPlaces(KeyOf(t)) = {}
    BY <2>1 DEF ListPlaces, IInv, ListCounted
  <2>. HIDE DEF t
  <2>5. Cardinality({}) = Cardinality(StripPlaces(KeyOf(t)))
    BY <2>1, <2>2, <2>4, <1>4, FoundByKey
  <2>. QED BY <2>3, <2>5, PlacesFinite, FS_EmptySet
<1>5. ASSUME Unknown = {}, \A key \in Known : Equal(Corners(key)), NEW corners \in AllCorners
      PROVE  Equal(corners)
  <2>1. PICK t \in Triangles :
          /\ corners = Corners(t)
          /\ \/ \E i \in DOMAIN list : t = list[i]
             \/ \E p \in Places : t = TriAt(p)
    BY AllRead DEF AllCorners, TriAt
  <2>2. IsProper(t) => KeyOf(t) \in Known
    BY <2>1, <1>5, AllRead DEF IInv, ListCounted, Unknown
  <2>3. CASE IsProper(t)
    BY <2>1, <2>2, <2>3, <1>5, KeyIsSorted
  <2>4. CASE ~IsProper(t)
    BY <2>1, <2>4, FoundByKey
  <2>. QED BY <2>3, <2>4
<1>6. (\A corners \in AllCorners : Equal(corners)) =>
        \A key \in Known : Equal(Corners(key))
  BY <1>2
<1>. HIDE DEF Equal
<1>7. verdict <=> \A corners \in AllCorners : Equal(corners)
  BY <1>1, <1>3, <1>4, <1>5, <1>6
<1>. QED BY <1>7 DEF Equal

\* For every list and every sequence of sets of strips that are compared with
\* it, rm_tristripper_verify accepts exactly the strips that have every
\* triangle as often as the list.
THEOREM VerdictIsExact == Spec => []VerdictExact
BY AnswerIsExact, InvariantHolds, PTL

\* What is logged are the triangles that are missing, each of them and no other.
LEMMA LogIsExact == IInv => MissingExact
<1>. SUFFICES ASSUME IInv, stage = "Answered"
              PROVE  {Corners(key) : key \in missing} =
                     {corners \in AllCorners :
                        Cardinality(InStrips(corners)) < Cardinality(InList(corners))}
  BY DEF MissingExact
<1>. DEFINE Fewer(corners) == Cardinality(InStrips(corners)) < Cardinality(InList(corners))
<1>1. MissingTris = {key \in Known : Counter(key) < Multiplicity(key)}
  BY DEF MissingTris, Known, Counter, Multiplicity
<1>2. missing = IF matchedTris < validTris THEN MissingTris ELSE {}
  BY DEF IInv, Answered
<1>3. missing = {key \in Known : Counter(key) < Multiplicity(key)}
  BY <1>1, <1>2, SumTellsMissing
<1>4. \A key \in Known : Corners(key) \in AllCorners
                         /\ (Fewer(Corners(key)) <=> Counter(key) < Multiplicity(key))
  BY KnownCounted
<1>5. ASSUME NEW corners \in AllCorners, Fewer(corners)
      PROVE  \E key \in Known : corners = Corners(key)
  <2>1. PICK t \in Triangles : corners = Corners(t)
    BY AllRead DEF AllCorners, TriAt
  <2>2. Cardinality({}) = 0
    BY FS_EmptySet
  <2>3. IsProper(t)
    BY <1>5, <2>1, <2>2, FoundByKey
  <2>4. KeyOf(t) \in Known
    <3>. SUFFICES ASSUME KeyOf(t) \notin Known PROVE FALSE
      OBVIOUS
    <3>1. ListPlaces(KeyOf(t)) = {}
      BY DEF ListPlaces, IInv, ListCounted
    <3>2. Cardinality(StripPlaces(KeyOf(t))) < 0
      BY <1>5, <2>1, <2>2, <2>3, <3>1, FoundByKey
    <3>. QED BY <3>2, PlacesFinite
  <2>. QED BY <2>1, <2>3, <2>4, KeyIsSorted
<1>. HIDE DEF Fewer
<1>6. {Corners(key) : key \in missing} = {corners \in AllCorners : Fewer(corners)}
  BY <1>3, <1>4, <1>5
<1>. QED BY <1>6 DEF Fewer

\* rm_tristripper_verifier_log_missing_tris is called when it has something to
\* log, and names exactly the missing triangles.
THEOREM MissingIsExact == Spec => []MissingExact
BY LogIsExact, InvariantHolds, PTL

=============================================================================
