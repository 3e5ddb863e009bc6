--------------------------- MODULE BuildTrisProofs --------------------------
(***************************************************************************)
(* For every list of triangles, of any length: build_tris stitches the     *)
(* mesh both ways, and its hashmap holds exactly the sides that are still  *)
(* open.  The two hold together or not at all: a side taken from the map   *)
(* has no neighbour yet because the map is exact, and the map stays exact  *)
(* because a stitched side is never offered again.  The array returned is  *)
(* the one of Mesh: on every edge the sides are stitched two by two in the *)
(* order of the list, because the open one is always the last.             *)
(***************************************************************************)
EXTENDS BuildTrisProps, FiniteSetTheorems, TLAPS

SideKey(t, d) == EdgeKey(Edge(t, d)[1], Edge(t, d)[2])

\* The neighbours of the triangles in use; the memory behind them may hold
\* pointers that lead anywhere.
Nb == InUseOnly(neighbours, NoNeighbours)

\* Has side d of triangle t been looked up in the map?
IsSeen(t, d) == t <= trisCount /\ (t < trisCount \/ pc # "Stitch" \/ d < edge)

CountersOK ==
  /\ IsInput(input)
  /\ trisCount \in Nat /\ read \in Nat
  /\ trisCount <= read /\ read <= Len(input)
  /\ pc \in {"Read", "Stitch", "Built"}
  /\ pc = "Stitch" => edge \in Dir /\ 1 <= trisCount

ArraysOK ==
  /\ neighbours \in [Tris -> [Dir -> Tris \cup {Null}]]
  /\ indices \in [Tris -> [Dir -> 0 .. 255]]
  /\ vertices \in [Tris -> [Dir -> Nat]]
  /\ unstripped \in [Tris -> Nat]

\* No triangle of the array is degenerated.
TrisProper ==
  \A t \in 1 .. trisCount :
    /\ vertices[t][0] # vertices[t][1]
    /\ vertices[t][1] # vertices[t][2]
    /\ vertices[t][2] # vertices[t][0]

\* A side of the map has been seen, has no neighbour, and has its edge's key.
EntriesOpen ==
  \A k \in DOMAIN openEdges :
    /\ openEdges[k] \in [tri : Tris, index : Dir]
    /\ IsSeen(openEdges[k].tri, openEdges[k].index)
    /\ neighbours[openEdges[k].tri][openEdges[k].index] = Null
    /\ k = SideKey(openEdges[k].tri, openEdges[k].index)

\* A side that has been seen and has no neighbour is in the map.
OpenSidesEntered ==
  \A t \in Tris, d \in Dir :
    IsSeen(t, d) /\ neighbours[t][d] = Null =>
      /\ SideKey(t, d) \in DOMAIN openEdges
      /\ openEdges[SideKey(t, d)] = [tri |-> t, index |-> d]

UnseenSidesOpen ==
  \A t \in Tris, d \in Dir : ~IsSeen(t, d) => Nb[t][d] = Null

Counted == \A t \in 1 .. trisCount : unstripped[t] = NeighboursCount(t)

\* A triangle in use has no links and is no endpoint yet.
LinksReset ==
  /\ StripTypeOK
  /\ \A t \in 1 .. trisCount : linkState[t] = {} /\ t \notin endpoint

\* From the end on, all the memory is as if it were in use.
HandedOver ==
  /\ neighbours = Nb /\ unstripped = InUseOnly(unstripped, 0)
  /\ linkState = [t \in Tris |-> {}] /\ endpoint = {}

IInv ==
  /\ CountersOK /\ ArraysOK /\ TrisProper
  /\ pc # "Built" => EntriesOpen /\ OpenSidesEntered
  /\ UnseenSidesOpen
  /\ Stitched(trisCount, Nb, indices)
  /\ Counted /\ LinksReset
  /\ pc = "Built" => HandedOver

-----------------------------------------------------------------------------
(* What the map must remember of an edge for the neighbours to be the ones *)
(* that Mesh describes: how many sides of the list lie on it already.      *)

\* The sides on the edge of <<t, d>> in the triangles up to t, and how many
\* they are: the place of <<t, d>> among the sides on its edge.
SidesTo(t, d) ==
  {side \in (1 .. t) \X Dir : SideKey(side[1], side[2]) = SideKey(t, d)}
Place(t, d) == Cardinality(SidesTo(t, d))
OtherPlace(k) == IF k % 2 = 0 THEN k - 1 ELSE k + 1

OnSameEdge(s, e, t, d) == IsSeen(s, e) /\ SideKey(s, e) = SideKey(t, d)

\* The array holds the proper triangles that have been read, in their order.
TrisRead ==
  /\ trisCount = Cardinality(ProperUpTo(input, read))
  /\ \A i \in ProperUpTo(input, read) : \A d \in Dir :
       vertices[Cardinality(ProperUpTo(input, i))][d] = Vertex(input[i], d)
  /\ \A t \in 1 .. trisCount : \E i \in ProperUpTo(input, read) :
       Cardinality(ProperUpTo(input, i)) = t
  /\ pc = "Built" => read = Len(input)

\* The first side on an edge is stitched to the second, the third to the
\* fourth, ...
TwoByTwo ==
  \A t \in Tris, d \in Dir :
    IsSeen(t, d) /\ neighbours[t][d] # Null =>
      /\ SideKey(neighbours[t][d], indices[t][d]) = SideKey(t, d)
      /\ Place(neighbours[t][d], indices[t][d]) = OtherPlace(Place(t, d))

\* ... and a side without a neighbour is the last one so far, on an odd place.
OpenIsLast ==
  \A t \in Tris, d \in Dir :
    IsSeen(t, d) /\ neighbours[t][d] = Null =>
      /\ Place(t, d) % 2 = 1
      /\ \A s \in Tris, e \in Dir : OnSameEdge(s, e, t, d) => s <= t

\* One of the sides seen on an edge is the last one.
LastOnEdge ==
  \A t \in Tris, d \in Dir : IsSeen(t, d) =>
    \E u \in Tris, i \in Dir :
      /\ OnSameEdge(u, i, t, d)
      /\ \A s \in Tris, e \in Dir : OnSameEdge(s, e, t, d) => s <= u

MeshInv == TrisRead /\ TwoByTwo /\ OpenIsLast /\ LastOnEdge

-----------------------------------------------------------------------------
(* Two sides of a proper triangle never have the same key: a triangle is   *)
(* never stitched to itself.                                               *)
LEMMA SidesOfOneTri ==
  ASSUME ArraysOK, NEW t \in Tris,
         vertices[t][0] # vertices[t][1],
         vertices[t][1] # vertices[t][2],
         vertices[t][2] # vertices[t][0],
         NEW d \in Dir, NEW e \in Dir, SideKey(t, d) = SideKey(t, e)
  PROVE  d = e
<1>1. vertices[t][0] \in Nat /\ vertices[t][1] \in Nat /\ vertices[t][2] \in Nat
  BY DEF ArraysOK, Dir
<1>2. d \in {0, 1, 2} /\ e \in {0, 1, 2}
  BY DEF Dir
<1>3. /\ SideKey(t, 0) = EdgeKey(vertices[t][0], vertices[t][1])
      /\ SideKey(t, 1) = EdgeKey(vertices[t][1], vertices[t][2])
      /\ SideKey(t, 2) = EdgeKey(vertices[t][2], vertices[t][0])
  BY DEF SideKey, Edge
<1>4. SideKey(t, 0) # SideKey(t, 1)
  BY <1>1, <1>3 DEF EdgeKey
<1>5. SideKey(t, 1) # SideKey(t, 2)
  BY <1>1, <1>3 DEF EdgeKey
<1>6. SideKey(t, 2) # SideKey(t, 0)
  BY <1>1, <1>3 DEF EdgeKey
<1> QED
  BY <1>2, <1>4, <1>5, <1>6

(* A triangle with one more neighbour has one more in its count. *)
LEMMA OneMoreNeighbour ==
  ASSUME NEW before, NEW after, NEW e \in Dir,
         before[e] = Null, after[e] # Null,
         \A d \in Dir \ {e} : after[d] = before[d]
  PROVE  Cardinality({d \in Dir : after[d] # Null}) =
           Cardinality({d \in Dir : before[d] # Null}) + 1
<1> DEFINE S == {d \in Dir : before[d] # Null}
<1>1. IsFiniteSet(Dir)
  BY FS_Interval, 0 \in Int, 2 \in Int DEF Dir
<1>2. IsFiniteSet(S)
  BY <1>1, FS_Subset
<1>3. {d \in Dir : after[d] # Null} = S \cup {e}
  OBVIOUS
<1>4. e \notin S
  OBVIOUS
<1>5. Cardinality(S \cup {e}) = Cardinality(S) + 1
  BY <1>2, <1>4, FS_AddElement
<1> QED
  BY <1>3, <1>5

(* A triangle whose sides are all open counts no neighbour.                *)
LEMMA NothingCounted ==
  ASSUME NEW t \in Tris, \A d \in Dir : neighbours[t][d] = Null
  PROVE  NeighboursCount(t) = 0
<1>1. {d \in Dir : neighbours[t][d] # Null} = {}
  OBVIOUS
<1> QED
  BY <1>1, FS_EmptySet DEF NeighboursCount

(* The neighbours of the triangles in use, before and after a step.        *)
LEMMA NeighboursInUse ==
  /\ \A t \in Tris : \A d \in Dir :
       Nb[t][d] = IF t \in 1 .. trisCount THEN neighbours[t][d] ELSE Null
  /\ \A t \in Tris : \A d \in Dir :
       Nb'[t][d] = IF t \in 1 .. trisCount' THEN neighbours'[t][d] ELSE Null
BY DEF Nb, InUseOnly, InUse, NoNeighbours

-----------------------------------------------------------------------------
(* Before the first triangle is read nothing is seen, stitched or counted. *)
LEMMA BlankIInv ==
  ASSUME IsInput(input), Blank, pc = "Read"
  PROVE  IInv
<1> USE MaxTrisAssumption, InputsAssumption DEF IsInput
<1>1. CountersOK
  BY DEF Blank, CountersOK
<1>2. ArraysOK
  BY DEF Blank, ArraysOK
<1>3. TrisProper
  BY DEF Blank, TrisProper
<1>4. \A t \in Tris, d \in Dir : ~IsSeen(t, d) /\ Nb[t][d] = Null
  <2>1. trisCount = 0
    BY DEF Blank
  <2> QED
    BY <2>1, NeighboursInUse DEF IsSeen, Tris
<1>5. EntriesOpen /\ OpenSidesEntered /\ UnseenSidesOpen
  <2>1. DOMAIN openEdges = {}
    BY DEF Blank
  <2> QED
    BY <1>4, <2>1 DEF EntriesOpen, OpenSidesEntered, UnseenSidesOpen
<1>6. Stitched(trisCount, Nb, indices)
  BY <1>4 DEF Stitched
<1>7. Counted /\ LinksReset
  BY DEF Blank, Counted, LinksReset, StripTypeOK, BitsOf
<1> QED
  BY <1>1, <1>2, <1>3, <1>5, <1>6, <1>7 DEF IInv

(* A triangle that is read has not been seen, so nothing else changes. *)
LEMMA ReadTriIInv ==
  IInv /\ ReadTri => IInv'
<1> SUFFICES ASSUME IInv, ReadTri PROVE IInv'
  OBVIOUS
<1> USE MaxTrisAssumption, InputsAssumption DEF IsInput
<1> DEFINE tri == input[read + 1]
           t == trisCount + 1
<1>1. /\ tri \in Nat \X Nat \X Nat
      /\ t \in Tris /\ t <= read + 1 /\ read + 1 <= Len(input)
      /\ tri[1] \in Nat /\ tri[2] \in Nat /\ tri[3] \in Nat
  <2>1. input \in Seq(Nat \X Nat \X Nat) /\ Len(input) <= MaxTris
    BY DEF IInv, CountersOK
  <2>2. read + 1 \in 1 .. Len(input) /\ t \in Tris
    BY <2>1 DEF IInv, CountersOK, ReadTri, Tris
  <2>3. tri \in Nat \X Nat \X Nat
    BY <2>1, <2>2
  <2> QED
    BY <2>2, <2>3, SMTT(20) DEF IInv, CountersOK, ReadTri
<1>2. \A s \in Tris, d \in Dir : IsSeen(s, d)' <=> IsSeen(s, d)
  <2>1. pc = "Read" /\ trisCount \in Nat
    BY DEF IInv, CountersOK, ReadTri
  <2>2. CASE IsDegenerated(tri)
    BY <2>1, <2>2 DEF ReadTri, IsSeen
  <2>3. CASE ~IsDegenerated(tri)
    <3>1. trisCount' = trisCount + 1 /\ edge' = 0 /\ pc' = "Stitch"
      BY <2>3 DEF ReadTri
    <3> QED
      BY <2>1, <3>1 DEF IsSeen, Tris, Dir
  <2> QED
    BY <2>2, <2>3
<1>3. UNCHANGED <<indices, openEdges, input>>
  BY DEF ReadTri
<1>4. CountersOK'
  BY <1>1, SMTT(20) DEF IInv, CountersOK, ReadTri, Dir
<1>5. /\ ArraysOK'
      /\ \A s \in 1 .. trisCount : /\ vertices'[s] = vertices[s]
                                   /\ neighbours'[s] = neighbours[s]
                                   /\ unstripped'[s] = unstripped[s]
                                   /\ linkState'[s] = linkState[s]
      /\ vertices'[t] = [d \in Dir |-> tri[d + 1]]
      /\ neighbours'[t] = NoNeighbours /\ unstripped'[t] = 0
      /\ linkState'[t] = {} /\ endpoint' = endpoint \ {t}
  <2> DEFINE new == [d \in Dir |-> tri[d + 1]]
  <2>1. ArraysOK /\ StripTypeOK /\ trisCount \in Nat
    BY DEF IInv, CountersOK, LinksReset
  <2>2. /\ vertices' = [vertices EXCEPT ![t] = new]
        /\ neighbours' = [neighbours EXCEPT ![t] = NoNeighbours]
        /\ unstripped' = [unstripped EXCEPT ![t] = 0]
        /\ linkState' = [linkState EXCEPT ![t] = {}]
        /\ endpoint' = endpoint \ {t}
    BY DEF ReadTri, ResetNeighbours, ResetCount, ResetLinkState, ResetFlags
  <2>3. new \in [Dir -> Nat] /\ NoNeighbours \in [Dir -> Tris \cup {Null}]
    BY <1>1 DEF Dir, NoNeighbours
  <2> HIDE DEF new
  <2>4. ArraysOK'
    BY <1>1, <1>3, <2>1, <2>2, <2>3 DEF ArraysOK
  <2>5. \A s \in 1 .. trisCount : s # t /\ s \in Tris
    BY <1>1, <2>1 DEF Tris
  <2>6. vertices'[t] = new /\ \A s \in 1 .. trisCount : vertices'[s] = vertices[s]
    BY <1>1, <2>1, <2>2, <2>5 DEF ArraysOK
  <2>7. neighbours'[t] = NoNeighbours /\ \A s \in 1 .. trisCount : neighbours'[s] = neighbours[s]
    BY <1>1, <2>1, <2>2, <2>5 DEF ArraysOK
  <2>8. unstripped'[t] = 0 /\ \A s \in 1 .. trisCount : unstripped'[s] = unstripped[s]
    BY <1>1, <2>1, <2>2, <2>5 DEF ArraysOK
  <2>9. linkState'[t] = {} /\ \A s \in 1 .. trisCount : linkState'[s] = linkState[s]
    BY <1>1, <2>1, <2>2, <2>5 DEF StripTypeOK
  <2> QED
    BY <2>2, <2>4, <2>6, <2>7, <2>8, <2>9 DEF new
<1>10. trisCount' \in {trisCount, t} /\ trisCount \in Nat
  BY DEF IInv, CountersOK, ReadTri
<1>11. \A s \in 1 .. trisCount' : s \in 1 .. trisCount \/ s = t
  BY <1>10
<1>12. Nb' = Nb
  <2>1. ASSUME NEW s \in Tris
        PROVE  (IF s \in 1 .. trisCount' THEN neighbours'[s] ELSE NoNeighbours) =
                 (IF s \in 1 .. trisCount THEN neighbours[s] ELSE NoNeighbours)
    <3>1. s \in 1 .. trisCount => s \in 1 .. trisCount'
      BY <1>10
    <3>2. s = t => s \notin 1 .. trisCount
      BY <1>10
    <3> QED
      BY <1>5, <1>11, <3>1, <3>2
  <2> QED
    BY <2>1 DEF Nb, InUseOnly, InUse, NoNeighbours
<1>6. TrisProper'
  <2>1. CASE IsDegenerated(tri)
    BY <1>5, <2>1 DEF IInv, ReadTri, TrisProper
  <2>2. CASE ~IsDegenerated(tri)
    <3>1. trisCount' = t /\ vertices'[t] = [d \in Dir |-> tri[d + 1]]
      BY <1>5, <2>2 DEF ReadTri
    <3>2. vertices'[t][0] = tri[1] /\ vertices'[t][1] = tri[2] /\ vertices'[t][2] = tri[3]
      BY <3>1 DEF Dir
    <3>3. vertices'[t][0] # vertices'[t][1] /\ vertices'[t][1] # vertices'[t][2]
          /\ vertices'[t][2] # vertices'[t][0]
      BY <2>2, <3>2 DEF IsDegenerated
    <3>4. \A s \in 1 .. trisCount' : s = t \/ s \in 1 .. trisCount
      BY <3>1 DEF IInv, CountersOK
    <3> QED
      BY <1>5, <3>3, <3>4 DEF IInv, TrisProper
  <2> QED
    BY <2>1, <2>2
<1>7. \A s \in Tris, d \in Dir : IsSeen(s, d) => SideKey(s, d)' = SideKey(s, d)
  BY <1>5 DEF SideKey, Edge, IsSeen, Tris
<1>8. EntriesOpen' /\ OpenSidesEntered' /\ UnseenSidesOpen'
  <2>1. EntriesOpen /\ OpenSidesEntered /\ UnseenSidesOpen
    BY DEF IInv, ReadTri
  <2>2. ASSUME NEW s \in Tris, NEW d \in Dir, IsSeen(s, d)
        PROVE  neighbours'[s][d] = neighbours[s][d]
    <3>1. s \in 1 .. trisCount
      BY <1>10, <2>2 DEF IsSeen, Tris
    <3> QED
      BY <1>5, <3>1
  <2>3. EntriesOpen'
    BY <2>1, <2>2, <1>2, <1>3, <1>7 DEF EntriesOpen
  <2>4. OpenSidesEntered'
    BY <2>1, <2>2, <1>2, <1>3, <1>7 DEF OpenSidesEntered
  <2>5. UnseenSidesOpen'
    BY <2>1, <1>2, <1>12 DEF UnseenSidesOpen
  <2> QED
    BY <2>3, <2>4, <2>5
<1>9. Stitched(trisCount, Nb, indices)'
  <2>1. trisCount <= trisCount' /\ trisCount' \in Nat
    BY <1>10
  <2>2. \A s \in Tris, d \in Dir : Nb[s][d] # Null => Nb[s][d] \in 1 .. trisCount
    BY DEF IInv, Stitched
  <2>3. Stitched(trisCount, Nb, indices)
    BY DEF IInv
  <2>4. Stitched(trisCount', Nb, indices)
    BY <1>10, <2>1, <2>2, <2>3 DEF Stitched, Tris
  <2> QED
    BY <1>3, <1>12, <2>4 DEF Stitched
<1>13. Counted'
  <2>1. ASSUME NEW s \in 1 .. trisCount
        PROVE  unstripped'[s] = Cardinality({d \in Dir : neighbours'[s][d] # Null})
    BY <1>5 DEF IInv, Counted, NeighboursCount
  <2>2. Cardinality({d \in Dir : neighbours'[t][d] # Null}) = 0
    <3>1. \A d \in Dir : neighbours'[t][d] = Null
      BY <1>5 DEF NoNeighbours
    <3>2. {d \in Dir : neighbours'[t][d] # Null} = {}
      BY <3>1
    <3> QED
      BY <3>2, FS_EmptySet
  <2> QED
    BY <1>5, <1>11, <2>1, <2>2 DEF Counted, NeighboursCount
<1>14. LinksReset'
  <2>1. StripTypeOK'
    BY <1>1 DEF IInv, LinksReset, StripTypeOK, ReadTri, ResetLinkState, ResetFlags
  <2> QED
    BY <1>5, <1>11, <2>1 DEF IInv, LinksReset
<1>15. pc' # "Built"
  BY DEF ReadTri
<1> QED
  BY <1>4, <1>5, <1>6, <1>8, <1>9, <1>13, <1>14, <1>15 DEF IInv

-----------------------------------------------------------------------------
(* What both ways of stitching a side have in common. *)
LEMMA StitchEdgeFrame ==
  ASSUME IInv, StitchEdge
  PROVE  /\ trisCount \in Tris /\ edge \in Dir
         /\ ~IsSeen(trisCount, edge) /\ neighbours[trisCount][edge] = Null
         /\ \A s \in Tris, d \in Dir :
              IsSeen(s, d)' <=> IsSeen(s, d) \/ (s = trisCount /\ d = edge)
         /\ \A s \in Tris, d \in Dir : SideKey(s, d)' = SideKey(s, d)
         /\ CountersOK' /\ TrisProper' /\ LinksReset' /\ pc' # "Built"
<1> USE MaxTrisAssumption, InputsAssumption DEF IsInput
<1>1. trisCount \in Tris /\ edge \in Dir /\ pc = "Stitch"
  BY DEF IInv, CountersOK, StitchEdge, Tris
<1>2. ~IsSeen(trisCount, edge)
  BY <1>1 DEF IsSeen, Dir, Tris
<1>3. neighbours[trisCount][edge] = Null
  BY <1>1, <1>2, NeighboursInUse DEF IInv, UnseenSidesOpen, Tris
<1>4. \A s \in Tris, d \in Dir :
        IsSeen(s, d)' <=> IsSeen(s, d) \/ (s = trisCount /\ d = edge)
  <2>1. trisCount' = trisCount /\ edge' = edge + 1
        /\ pc' = IF edge = 2 THEN "Read" ELSE "Stitch"
    BY DEF StitchEdge
  <2> QED
    BY <1>1, <2>1 DEF IsSeen, Tris, Dir
<1>5. \A s \in Tris, d \in Dir : SideKey(s, d)' = SideKey(s, d)
  BY DEF StitchEdge, SideKey, Edge
<1>6. CountersOK'
  BY <1>1 DEF IInv, CountersOK, StitchEdge, Dir
<1>7. TrisProper'
  BY DEF IInv, TrisProper, StitchEdge
<1>8. LinksReset' /\ pc' # "Built"
  BY DEF IInv, LinksReset, StripTypeOK, StitchEdge, stripVars
<1> QED
  BY <1>1, <1>2, <1>3, <1>4, <1>5, <1>6, <1>7, <1>8

(* The first triangle on an edge enters its side into the map. *)
LEMMA OpenEdgeIInv ==
  ASSUME IInv, StitchEdge, SideKey(trisCount, edge) \notin DOMAIN openEdges
  PROVE  IInv'
<1> USE MaxTrisAssumption
<1> DEFINE t == trisCount
           e == edge
           key == SideKey(t, e)
           side == [tri |-> t, index |-> e]
<1>1. /\ t \in Tris /\ e \in Dir
      /\ neighbours[t][e] = Null
      /\ \A s \in Tris, d \in Dir : IsSeen(s, d)' <=> IsSeen(s, d) \/ (s = t /\ d = e)
      /\ \A s \in Tris, d \in Dir : SideKey(s, d)' = SideKey(s, d)
      /\ CountersOK' /\ TrisProper' /\ LinksReset' /\ pc' # "Built"
  BY StitchEdgeFrame
<1>2. /\ UNCHANGED <<neighbours, indices, vertices, unstripped, trisCount>>
      /\ openEdges' = [k \in DOMAIN openEdges \cup {key} |->
                         IF k = key THEN side ELSE openEdges[k]]
  BY DEF StitchEdge, SideKey, Opened
<1>3. EntriesOpen /\ OpenSidesEntered
  BY DEF IInv, StitchEdge
<1>4. ArraysOK'
  BY <1>2 DEF IInv, ArraysOK
<1>5. EntriesOpen'
  <2>1. /\ side \in [tri : Tris, index : Dir]
        /\ side.tri = t /\ side.index = e
    BY <1>1
  <2>2. ASSUME NEW k \in DOMAIN openEdges'
        PROVE  /\ openEdges'[k] \in [tri : Tris, index : Dir]
               /\ IsSeen(openEdges[k].tri, openEdges[k].index)'
               /\ neighbours'[openEdges'[k].tri][openEdges'[k].index] = Null
               /\ k = SideKey(openEdges[k].tri, openEdges[k].index)'
    <3>1. CASE k = key
      <4>1. openEdges'[k] = side
        BY <1>2, <3>1
      <4> QED
        BY <1>1, <1>2, <2>1, <3>1, <4>1
    <3>2. CASE k # key
      <4>1. k \in DOMAIN openEdges /\ openEdges'[k] = openEdges[k]
        BY <1>2, <3>2
      <4>2. openEdges[k].tri \in Tris /\ openEdges[k].index \in Dir
        BY <1>3, <4>1 DEF EntriesOpen
      <4> QED
        BY <1>1, <1>2, <1>3, <4>1, <4>2 DEF EntriesOpen
    <3> QED
      BY <3>1, <3>2
  <2> QED
    BY <2>2 DEF EntriesOpen
<1>6. OpenSidesEntered'
  <2>1. ASSUME NEW s \in Tris, NEW d \in Dir, IsSeen(s, d)', neighbours'[s][d] = Null
        PROVE  /\ SideKey(s, d)' \in DOMAIN openEdges'
               /\ openEdges'[SideKey(s, d)'] = [tri |-> s, index |-> d]
    <3>1. CASE s = t /\ d = e
      BY <1>1, <1>2, <3>1
    <3>2. CASE ~(s = t /\ d = e)
      <4>1. IsSeen(s, d) /\ neighbours[s][d] = Null
        BY <1>1, <1>2, <2>1, <3>2
      <4>2. SideKey(s, d) \in DOMAIN openEdges
            /\ openEdges[SideKey(s, d)] = [tri |-> s, index |-> d]
        BY <1>3, <4>1 DEF OpenSidesEntered
      <4> QED
        BY <1>1, <1>2, <4>2
    <3> QED
      BY <3>1, <3>2
  <2> QED
    BY <2>1 DEF OpenSidesEntered
<1>7. Nb' = Nb
  BY <1>2 DEF Nb, InUseOnly, InUse, NoNeighbours
<1>8. UnseenSidesOpen' /\ Stitched(trisCount, Nb, indices)'
  BY <1>1, <1>2, <1>7 DEF IInv, UnseenSidesOpen, Stitched
<1>9. Counted'
  BY <1>2 DEF IInv, Counted, NeighboursCount
<1> QED
  BY <1>1, <1>4, <1>5, <1>6, <1>8, <1>9 DEF IInv

(* The second triangle on an edge is stitched to the first, whose side has *)
(* no neighbour yet and belongs to another triangle.                       *)
LEMMA CloseEdgeIInv ==
  ASSUME IInv, StitchEdge, SideKey(trisCount, edge) \in DOMAIN openEdges
  PROVE  IInv'
<1> USE MaxTrisAssumption
<1> DEFINE t == trisCount
           e == edge
           key == SideKey(t, e)
           u == openEdges[key].tri
           i == openEdges[key].index
<1>1. /\ t \in Tris /\ e \in Dir
      /\ ~IsSeen(t, e) /\ neighbours[t][e] = Null
      /\ \A s \in Tris, d \in Dir : IsSeen(s, d)' <=> IsSeen(s, d) \/ (s = t /\ d = e)
      /\ \A s \in Tris, d \in Dir : SideKey(s, d)' = SideKey(s, d)
      /\ CountersOK' /\ TrisProper' /\ LinksReset' /\ pc' # "Built"
  BY StitchEdgeFrame
<1>2. EntriesOpen /\ OpenSidesEntered /\ ArraysOK
  BY DEF IInv, StitchEdge
<1>3. /\ u \in Tris /\ i \in Dir /\ IsSeen(u, i)
      /\ neighbours[u][i] = Null /\ key = SideKey(u, i)
  BY <1>2 DEF EntriesOpen
<1>4. u # t /\ u <= t
  <2>1. vertices[t][0] # vertices[t][1] /\ vertices[t][1] # vertices[t][2]
        /\ vertices[t][2] # vertices[t][0]
    BY <1>1 DEF IInv, TrisProper, Tris
  <2>2. u = t => i = e
    BY <1>1, <1>2, <1>3, <2>1, SidesOfOneTri
  <2> QED
    BY <1>1, <1>3, <2>2 DEF IsSeen
<1>5. /\ neighbours' = [neighbours EXCEPT ![t][e] = u, ![u][i] = t]
      /\ indices' = [indices EXCEPT ![t][e] = i, ![u][i] = e]
      /\ unstripped' = [unstripped EXCEPT ![t] = @ + 1, ![u] = @ + 1]
      /\ openEdges' = [k \in DOMAIN openEdges \ {key} |-> openEdges[k]]
      /\ UNCHANGED <<vertices, trisCount>>
  BY DEF StitchEdge, SideKey, Closed
<1>6. ArraysOK'
  <2>1. neighbours' \in [Tris -> [Dir -> Tris \cup {Null}]]
    BY <1>1, <1>2, <1>3, <1>5 DEF ArraysOK
  <2>2. i \in 0 .. 255 /\ e \in 0 .. 255
    BY <1>1, <1>3 DEF Dir
  <2>3. indices' \in [Tris -> [Dir -> 0 .. 255]]
    BY <1>1, <1>2, <1>3, <1>5, <2>2, ZenonT(40) DEF ArraysOK
  <2>4. unstripped' \in [Tris -> Nat]
    BY <1>1, <1>2, <1>3, <1>5 DEF ArraysOK
  <2> QED
    BY <1>2, <1>5, <2>1, <2>3, <2>4 DEF ArraysOK
<1>7. \A s \in Tris, d \in Dir :
        /\ neighbours'[s][d] = IF s = t /\ d = e THEN u
                               ELSE IF s = u /\ d = i THEN t ELSE neighbours[s][d]
        /\ indices'[s][d] = IF s = t /\ d = e THEN i
                            ELSE IF s = u /\ d = i THEN e ELSE indices[s][d]
  BY <1>1, <1>2, <1>3, <1>4, <1>5 DEF ArraysOK
<1>8. t # Null /\ u # Null
  BY <1>1, <1>3 DEF Tris, Null
<1>14. \A s \in Tris, d \in Dir :
         Nb'[s][d] = IF s = t /\ d = e THEN u
                     ELSE IF s = u /\ d = i THEN t ELSE Nb[s][d]
  <2>1. trisCount' = t /\ t \in 1 .. t /\ u \in 1 .. t
    BY <1>1, <1>3, <1>4, <1>5 DEF Tris
  <2> QED
    BY <1>7, <2>1, NeighboursInUse
<1>15. Nb[t][e] = Null /\ Nb[u][i] = Null
  BY <1>1, <1>3, NeighboursInUse
<1>9. EntriesOpen'
  <2>1. ASSUME NEW k \in DOMAIN openEdges'
        PROVE  /\ openEdges'[k] \in [tri : Tris, index : Dir]
               /\ IsSeen(openEdges[k].tri, openEdges[k].index)'
               /\ neighbours'[openEdges'[k].tri][openEdges'[k].index] = Null
               /\ k = SideKey(openEdges[k].tri, openEdges[k].index)'
    <3> DEFINE s == openEdges[k].tri
               d == openEdges[k].index
    <3>1. k \in DOMAIN openEdges /\ k # key /\ openEdges'[k] = openEdges[k]
      BY <1>5
    <3>2. /\ openEdges[k] \in [tri : Tris, index : Dir]
          /\ s \in Tris /\ d \in Dir
          /\ IsSeen(s, d) /\ neighbours[s][d] = Null /\ k = SideKey(s, d)
      BY <1>2, <3>1 DEF EntriesOpen
    <3>3. ~(s = t /\ d = e) /\ ~(s = u /\ d = i)
      BY <1>1, <1>3, <3>1, <3>2
    <3>4. neighbours'[s][d] = Null
      BY <1>7, <3>2, <3>3
    <3> QED
      BY <1>1, <3>1, <3>2, <3>4
  <2> QED
    BY <2>1 DEF EntriesOpen
<1>10. OpenSidesEntered'
  <2>1. ASSUME NEW s \in Tris, NEW d \in Dir, IsSeen(s, d)', neighbours'[s][d] = Null
        PROVE  /\ SideKey(s, d)' \in DOMAIN openEdges'
               /\ openEdges'[SideKey(s, d)'] = [tri |-> s, index |-> d]
    <3>1. ~(s = t /\ d = e) /\ ~(s = u /\ d = i)
      BY <1>7, <1>8, <2>1
    <3>2. IsSeen(s, d) /\ neighbours[s][d] = Null
      BY <1>1, <1>7, <2>1, <3>1
    <3>3. /\ SideKey(s, d) \in DOMAIN openEdges
          /\ openEdges[SideKey(s, d)] = [tri |-> s, index |-> d]
      BY <1>2, <3>2 DEF OpenSidesEntered
    <3>4. SideKey(s, d) # key
      BY <3>1, <3>3
    <3> QED
      BY <1>1, <1>5, <3>3, <3>4
  <2> QED
    BY <2>1 DEF OpenSidesEntered
<1>11. UnseenSidesOpen'
  <2>1. ASSUME NEW s \in Tris, NEW d \in Dir, ~IsSeen(s, d)'
        PROVE  Nb'[s][d] = Null
    <3>1. ~IsSeen(s, d) /\ ~(s = t /\ d = e) /\ ~(s = u /\ d = i)
      BY <1>1, <1>3, <2>1
    <3> QED
      BY <1>14, <3>1 DEF IInv, UnseenSidesOpen
  <2> QED
    BY <2>1 DEF UnseenSidesOpen
<1>12. Stitched(trisCount, Nb, indices)'
  <2>1. ASSUME NEW s \in Tris, NEW d \in Dir, Nb'[s][d] # Null
        PROVE  /\ s <= t
               /\ Nb'[s][d] \in (1 .. t) \ {s}
               /\ indices'[s][d] \in Dir
               /\ Nb'[Nb'[s][d]][indices'[s][d]] = s
               /\ indices'[Nb'[s][d]][indices'[s][d]] = d
    <3>1. CASE s = t /\ d = e
      BY <1>1, <1>3, <1>4, <1>7, <1>14, <3>1 DEF Tris
    <3>2. CASE s = u /\ d = i
      BY <1>1, <1>3, <1>4, <1>7, <1>14, <3>2 DEF Tris
    <3>3. CASE ~(s = t /\ d = e) /\ ~(s = u /\ d = i)
      <4> DEFINE r == Nb[s][d]
                 j == indices[s][d]
      <4>1. Nb'[s][d] = r /\ indices'[s][d] = j
        BY <1>7, <1>14, <3>3
      <4>2. /\ s <= t /\ r \in (1 .. t) \ {s} /\ j \in Dir
            /\ Nb[r][j] = s /\ indices[r][j] = d
        BY <2>1, <4>1 DEF IInv, Stitched
      <4>3. r \in Tris /\ s # Null
        BY <1>1, <4>2 DEF Tris, Null
      <4>4. ~(r = t /\ j = e) /\ ~(r = u /\ j = i)
        BY <1>15, <4>2, <4>3
      <4>5. Nb'[r][j] = s /\ indices'[r][j] = d
        BY <1>7, <1>14, <4>2, <4>3, <4>4
      <4> QED
        BY <4>1, <4>2, <4>5
    <3> QED
      BY <3>1, <3>2, <3>3
  <2>2. trisCount' = t
    BY <1>5
  <2>3. Stitched(t, Nb', indices')
    BY <2>1 DEF Stitched
  <2> QED
    BY <2>2, <2>3 DEF Stitched
<1>13. Counted'
  <2>1. \A s \in Tris : unstripped'[s] = IF s \in {t, u} THEN unstripped[s] + 1
                                         ELSE unstripped[s]
    BY <1>1, <1>2, <1>3, <1>4, <1>5 DEF ArraysOK
  <2>2. ASSUME NEW s \in {t, u}
        PROVE  Cardinality({d \in Dir : neighbours'[s][d] # Null}) =
                 Cardinality({d \in Dir : neighbours[s][d] # Null}) + 1
    <3>1. PICK j \in Dir : (s = t /\ j = e) \/ (s = u /\ j = i)
      BY <1>1, <1>3
    <3>2. neighbours[s][j] = Null /\ neighbours'[s][j] # Null
      BY <1>1, <1>3, <1>4, <1>7, <1>8, <3>1
    <3>3. \A d \in Dir \ {j} : neighbours'[s][d] = neighbours[s][d]
      BY <1>1, <1>3, <1>4, <1>7, <3>1
    <3> QED
      BY <3>2, <3>3, OneMoreNeighbour
  <2>3. ASSUME NEW s \in Tris \ {t, u}
        PROVE  {d \in Dir : neighbours'[s][d] # Null} = {d \in Dir : neighbours[s][d] # Null}
    BY <1>7
  <2>4. ASSUME NEW s \in 1 .. trisCount
        PROVE  unstripped'[s] = Cardinality({d \in Dir : neighbours'[s][d] # Null})
    <3>1. unstripped[s] = Cardinality({d \in Dir : neighbours[s][d] # Null})
      BY DEF IInv, Counted, NeighboursCount
    <3>2. s \in Tris
      BY <1>1 DEF Tris
    <3> QED
      BY <2>1, <2>2, <2>3, <3>1, <3>2
  <2> QED
    BY <1>5, <2>4 DEF Counted, NeighboursCount
<1> QED
  BY <1>1, <1>6, <1>9, <1>10, <1>11, <1>12, <1>13 DEF IInv

(* The array that is handed over holds the triangles in use, and no other. *)
LEMMA FinishBuildIInv ==
  IInv /\ FinishBuild => IInv'
<1> SUFFICES ASSUME IInv, FinishBuild PROVE IInv'
  OBVIOUS
<1> USE MaxTrisAssumption
<1>1. /\ UNCHANGED <<indices, vertices, trisCount, input, read>>
      /\ pc = "Read" /\ pc' = "Built"
      /\ neighbours' = Nb /\ unstripped' = InUseOnly(unstripped, 0)
      /\ linkState' = InUseOnly(linkState, {}) /\ endpoint' = endpoint \cap InUse
  BY DEF FinishBuild, Nb
<1>2. \A t \in Tris, d \in Dir : IsSeen(t, d)' <=> IsSeen(t, d)
  BY <1>1 DEF IsSeen
<1>3. ArraysOK /\ CountersOK /\ LinksReset
  BY DEF IInv
<1>4. \A t \in 1 .. trisCount : t \in Tris
  BY <1>3 DEF CountersOK, IsInput, Tris
<1>5. Nb' = Nb
  BY <1>1 DEF Nb, InUseOnly, InUse, NoNeighbours
<1>6. linkState' = [t \in Tris |-> {}] /\ endpoint' = {}
  BY <1>1, <1>3 DEF InUseOnly, InUse, LinksReset
<1>7. InUseOnly(unstripped, 0)' = unstripped'
  BY <1>1 DEF InUseOnly, InUse
<1>8. ArraysOK'
  <2>1. NoNeighbours \in [Dir -> Tris \cup {Null}]
    BY DEF NoNeighbours
  <2>2. neighbours' \in [Tris -> [Dir -> Tris \cup {Null}]]
    BY <1>1, <1>3, <2>1 DEF ArraysOK, Nb, InUseOnly
  <2>3. unstripped' \in [Tris -> Nat]
    BY <1>1, <1>3 DEF ArraysOK, InUseOnly
  <2> QED
    BY <1>1, <1>3, <2>2, <2>3 DEF ArraysOK
<1>9. CountersOK' /\ TrisProper'
  BY <1>1 DEF IInv, CountersOK, TrisProper
<1>10. UnseenSidesOpen' /\ Stitched(trisCount, Nb, indices)'
  BY <1>1, <1>2, <1>5 DEF IInv, UnseenSidesOpen, Stitched
<1>11. Counted'
  <2>1. ASSUME NEW t \in 1 .. trisCount
        PROVE  unstripped'[t] = unstripped[t] /\ neighbours'[t] = neighbours[t]
    BY <1>1, <1>4 DEF Nb, InUseOnly, InUse
  <2>2. ASSUME NEW t \in 1 .. trisCount PROVE NeighboursCount(t)' = NeighboursCount(t)
    BY <2>1 DEF NeighboursCount
  <2> QED
    BY <1>1, <2>1, <2>2 DEF IInv, Counted
<1>12. LinksReset' /\ HandedOver'
  <2>1. StripTypeOK'
    BY <1>6 DEF StripTypeOK
  <2>2. LinksReset'
    BY <1>1, <1>4, <1>6, <2>1 DEF LinksReset
  <2> QED
    BY <1>1, <1>5, <1>6, <1>7, <2>2 DEF HandedOver
<1> QED
  BY <1>1, <1>8, <1>9, <1>10, <1>11, <1>12 DEF IInv

(* Every step of build_tris, and every stutter, keeps the invariant.       *)
LEMMA NextIInv ==
  IInv /\ [Next]_vars => IInv'
<1> SUFFICES ASSUME IInv, [Next]_vars PROVE IInv'
  OBVIOUS
<1>1. CASE ReadTri
  BY <1>1, ReadTriIInv
<1>2. CASE StitchEdge
  BY <1>2, OpenEdgeIInv, CloseEdgeIInv
<1>3. CASE FinishBuild
  BY <1>3, FinishBuildIInv
<1>4. CASE UNCHANGED vars
  <2>1. /\ UNCHANGED <<trisCount, neighbours, indices, vertices, linkState, endpoint>>
        /\ UNCHANGED <<input, read, edge, openEdges, pc, unstripped>>
    BY <1>4 DEF vars, mesh, stripVars, buildVars
  <2>2. /\ Nb' = Nb /\ InUseOnly(unstripped, 0)' = InUseOnly(unstripped, 0)
        /\ \A t : NeighboursCount(t)' = NeighboursCount(t)
        /\ \A t, d : IsSeen(t, d)' <=> IsSeen(t, d)
        /\ \A t, d : SideKey(t, d)' = SideKey(t, d)
    BY <2>1 DEF Nb, InUseOnly, InUse, NoNeighbours, NeighboursCount, IsSeen, SideKey, Edge
  <2>3. /\ CountersOK' <=> CountersOK
        /\ ArraysOK' <=> ArraysOK
        /\ TrisProper' <=> TrisProper
        /\ EntriesOpen' <=> EntriesOpen
        /\ OpenSidesEntered' <=> OpenSidesEntered
    BY <2>1, <2>2 DEF CountersOK, ArraysOK, TrisProper, EntriesOpen, OpenSidesEntered
  <2>4. /\ UnseenSidesOpen' <=> UnseenSidesOpen
        /\ Stitched(trisCount, Nb, indices)' <=> Stitched(trisCount, Nb, indices)
        /\ Counted' <=> Counted
        /\ LinksReset' <=> LinksReset
        /\ HandedOver' <=> HandedOver
    BY <2>1, <2>2 DEF UnseenSidesOpen, Stitched, Counted, LinksReset, StripTypeOK, HandedOver
  <2> QED
    BY <2>1, <2>3, <2>4 DEF IInv
<1> QED
  BY <1>1, <1>2, <1>3, <1>4 DEF Next, Step, Finished

(* The counters and arrays keep their types, the map of open edges holds   *)
(* the open sides and no other, and the mesh is stitched both ways.        *)
THEOREM IInvHolds ==
  Spec => []IInv
<1>1. Init => IInv
  BY BlankIInv, InputsAssumption DEF Init
<1> QED
  BY <1>1, NextIInv, PTL DEF Spec

-----------------------------------------------------------------------------
(* What build_tris returns, unless every triangle was degenerated.         *)
LEMMA BuiltMesh ==
  ASSUME IInv, pc = "Built", trisCount # 0
  PROVE  /\ MeshOK /\ unstripped = [t \in Tris |-> NeighboursCount(t)]
         /\ linkState = [t \in Tris |-> {}] /\ endpoint = {}
<1>1. trisCount \in Tris
  BY MaxTrisAssumption DEF IInv, CountersOK, IsInput, Tris
<1>2. HandedOver /\ ArraysOK
  BY DEF IInv
<1>3. MeshOK
  BY <1>1, <1>2 DEF IInv, HandedOver, ArraysOK, MeshOK, IsMesh, Byte
<1>4. ASSUME NEW t \in Tris PROVE unstripped[t] = NeighboursCount(t)
  <2>1. CASE t \in 1 .. trisCount
    BY <2>1 DEF IInv, Counted
  <2>2. CASE t \notin 1 .. trisCount
    <3>1. unstripped[t] = 0
      BY <1>2, <2>2 DEF HandedOver, InUseOnly, InUse
    <3>2. \A d \in Dir : neighbours[t][d] = Null
      BY <1>2, <2>2, NeighboursInUse DEF HandedOver
    <3> QED
      BY <3>1, <3>2, NothingCounted
  <2> QED
    BY <2>1, <2>2
<1>5. unstripped = [t \in Tris |-> NeighboursCount(t)]
  BY <1>2, <1>4 DEF ArraysOK
<1> QED
  BY <1>2, <1>3, <1>5 DEF HandedOver

(* The mesh is stitched both ways at every step, whatever triangles come   *)
(* in whatever order, and each triangle's counter counts its neighbours.   *)
THEOREM AlwaysStitched ==
  Spec => []StitchedSoFar
<1>1. IInv => StitchedSoFar
  BY DEF IInv, StitchedSoFar, Counted, Nb
<1> QED
  BY <1>1, IInvHolds, PTL

(* The hashmap of open edges is exact at every step: no side is lost, and  *)
(* none is offered to a third triangle.                                    *)
THEOREM AlwaysExact ==
  Spec => []OpenEdgesExact
<1>1. IInv => OpenEdgesExact
  <2> SUFFICES ASSUME IInv, pc # "Built"
               PROVE  /\ {<<openEdges[k].tri, openEdges[k].index>> : k \in DOMAIN openEdges} =
                           {side \in Seen : neighbours[side[1]][side[2]] = Null}
                      /\ \A k \in DOMAIN openEdges :
                           k = SideKey(openEdges[k].tri, openEdges[k].index)
    BY DEF OpenEdgesExact, SideKey
  <2> DEFINE entered == {<<openEdges[k].tri, openEdges[k].index>> : k \in DOMAIN openEdges}
             open == {side \in Seen : neighbours[side[1]][side[2]] = Null}
  <2>1. EntriesOpen /\ OpenSidesEntered /\ CountersOK
    BY DEF IInv
  <2>2. \A t, d : <<t, d>> \in Seen <=> t \in Tris /\ d \in Dir /\ IsSeen(t, d)
    BY <2>1, MaxTrisAssumption DEF Seen, IsSeen, CountersOK, IsInput, Tris
  <2>3. ASSUME NEW k \in DOMAIN openEdges
        PROVE  <<openEdges[k].tri, openEdges[k].index>> \in open
    BY <2>1, <2>2 DEF EntriesOpen
  <2>4. ASSUME NEW side \in open
        PROVE  side \in entered
    <3>1. PICK t \in Tris, d \in Dir :
            side = <<t, d>> /\ IsSeen(t, d) /\ neighbours[t][d] = Null
      BY <2>2 DEF Seen
    <3>2. /\ SideKey(t, d) \in DOMAIN openEdges
          /\ openEdges[SideKey(t, d)] = [tri |-> t, index |-> d]
      BY <2>1, <3>1 DEF OpenSidesEntered
    <3> QED
      BY <3>1, <3>2
  <2>5. entered = open
    BY <2>3, <2>4
  <2> QED
    BY <2>1, <2>5 DEF EntriesOpen
<1> QED
  BY <1>1, IInvHolds, PTL

-----------------------------------------------------------------------------
(* A triangle whose three vertices differ is one that is not degenerated. *)
LEMMA ProperOrDegenerated ==
  ASSUME NEW tri \in Nat \X Nat \X Nat
  PROVE  IsProper(tri) <=> ~IsDegenerated(tri)
<1> DEFINE a == tri[1]
           b == tri[2]
           c == tri[3]
<1>1. {Vertex(tri, d) : d \in Dir} = {a, b, c}
  <2>1. Dir = {0, 1, 2}
    BY DEF Dir
  <2>2. Vertex(tri, 0) = a /\ Vertex(tri, 1) = b /\ Vertex(tri, 2) = c
    BY DEF Vertex
  <2> QED
    BY <2>1, <2>2
<1>2. Cardinality({a, b}) \in Nat /\ IsFiniteSet({a, b})
      /\ Cardinality({a, b}) = IF a = b THEN 1 ELSE 2
  <2>1. IsFiniteSet({a}) /\ Cardinality({a}) = 1
    BY FS_Singleton
  <2>2. {a, b} = {a} \cup {b}
    OBVIOUS
  <2>3. IsFiniteSet({a} \cup {b})
        /\ Cardinality({a} \cup {b}) = IF b \in {a} THEN 1 ELSE 1 + 1
    BY <2>1, FS_AddElement
  <2> QED
    BY <2>2, <2>3
<1>3. Cardinality({a, b, c}) = IF c \in {a, b} THEN Cardinality({a, b})
                               ELSE Cardinality({a, b}) + 1
  <2>1. {a, b, c} = {a, b} \cup {c}
    OBVIOUS
  <2>2. Cardinality({a, b} \cup {c}) = IF c \in {a, b} THEN Cardinality({a, b})
                                       ELSE Cardinality({a, b}) + 1
    BY <1>2, FS_AddElement
  <2> QED
    BY <2>1, <2>2
<1>4. Cardinality({a, b, c}) = 3 <=> a # b /\ b # c /\ c # a
  BY <1>2, <1>3
<1> QED
  BY <1>1, <1>4 DEF IsProper, IsDegenerated

(* How the places of the proper triangles grow with the list. *)
LEMMA OneMoreProper ==
  ASSUME NEW list, NEW n \in Nat
  PROVE  /\ IsFiniteSet(ProperUpTo(list, n)) /\ Cardinality(ProperUpTo(list, n)) \in Nat
         /\ IsProper(list[n + 1]) =>
              /\ ProperUpTo(list, n + 1) = ProperUpTo(list, n) \cup {n + 1}
              /\ Cardinality(ProperUpTo(list, n + 1)) = Cardinality(ProperUpTo(list, n)) + 1
         /\ ~IsProper(list[n + 1]) => ProperUpTo(list, n + 1) = ProperUpTo(list, n)
<1> DEFINE P == ProperUpTo(list, n)
<1>1. IsFiniteSet(1 .. n)
  BY FS_Interval, 1 \in Int, n \in Int
<1>2. IsFiniteSet(P) /\ Cardinality(P) \in Nat
  BY <1>1, FS_Subset, FS_CardinalityType DEF ProperUpTo
<1>3. IsProper(list[n + 1]) => ProperUpTo(list, n + 1) = P \cup {n + 1}
  BY DEF ProperUpTo
<1>4. ~IsProper(list[n + 1]) => ProperUpTo(list, n + 1) = P
  BY DEF ProperUpTo
<1>5. n + 1 \notin P
  BY DEF ProperUpTo
<1> HIDE DEF P
<1>6. Cardinality(P \cup {n + 1}) = Cardinality(P) + 1
  BY <1>2, <1>5, FS_AddElement
<1> QED
  BY <1>2, <1>3, <1>4, <1>6 DEF P

(* Two edges have the same key just when they have the same vertices. *)
LEMMA KeysAreEdges ==
  ASSUME NEW a \in Nat, NEW b \in Nat, NEW v \in Nat, NEW w \in Nat
  PROVE  EdgeKey(a, b) = EdgeKey(v, w) <=> (a = v /\ b = w) \/ (a = w /\ b = v)
BY DEF EdgeKey

(* A later side on an edge has a higher place. *)
LEMMA LaterPlace ==
  ASSUME NEW s \in Tris, NEW e \in Dir, NEW t \in Tris, NEW d \in Dir,
         SideKey(s, e) = SideKey(t, d), s <= t
  PROVE  /\ IsFiniteSet(SidesTo(t, d)) /\ Place(t, d) \in Nat /\ Place(s, e) \in Nat
         /\ SidesTo(s, e) \subseteq SidesTo(t, d)
         /\ Place(s, e) <= Place(t, d)
         /\ s < t => Place(s, e) < Place(t, d)
<1> USE MaxTrisAssumption
<1>1. s \in Nat /\ t \in Nat
  BY DEF Tris
<1>2. IsFiniteSet(SidesTo(t, d))
  <2>1. IsFiniteSet(1 .. t) /\ IsFiniteSet(Dir)
    BY <1>1, FS_Interval, 0 \in Int, 1 \in Int, 2 \in Int, t \in Int DEF Dir
  <2>2. IsFiniteSet((1 .. t) \X Dir)
    BY <2>1, FS_Product
  <2> QED
    BY <2>2, FS_Subset DEF SidesTo
<1>3. SidesTo(s, e) \subseteq SidesTo(t, d)
  BY <1>1 DEF SidesTo
<1>4. s < t => SidesTo(s, e) # SidesTo(t, d)
  <2>1. SUFFICES ASSUME s < t PROVE <<t, d>> \in SidesTo(t, d) /\ <<t, d>> \notin SidesTo(s, e)
    OBVIOUS
  <2> QED
    BY <1>1, <2>1 DEF SidesTo, Tris
<1>5. IsFiniteSet(SidesTo(s, e))
  BY <1>2, <1>3, FS_Subset
<1>6. Place(t, d) \in Nat /\ Place(s, e) \in Nat
  BY <1>2, <1>5, FS_CardinalityType DEF Place
<1>7. Place(s, e) <= Place(t, d) /\ (Place(s, e) = Place(t, d) => SidesTo(s, e) = SidesTo(t, d))
  BY <1>2, <1>3, FS_Subset DEF Place
<1> QED
  BY <1>2, <1>3, <1>4, <1>6, <1>7

(* On one edge no two sides have the same place. *)
LEMMA OneSideOnPlace ==
  ASSUME ArraysOK, TrisProper,
         NEW s \in Tris, NEW e \in Dir, NEW t \in Tris, NEW d \in Dir,
         s <= trisCount, t <= trisCount, trisCount \in Nat,
         SideKey(s, e) = SideKey(t, d), Place(s, e) = Place(t, d)
  PROVE  s = t /\ e = d
<1>1. s \in Nat /\ t \in Nat
  BY DEF Tris
<1>2. ~(s < t) /\ ~(t < s)
  BY <1>1, LaterPlace
<1>3. s = t
  BY <1>1, <1>2
<1> QED
  BY <1>1, <1>3, SidesOfOneTri DEF TrisProper, Tris

(* A side that is looked up is the next one on its edge after the last. *)
LEMMA NextPlace ==
  ASSUME IInv, pc = "Stitch", NEW u \in Tris, NEW i \in Dir,
         OnSameEdge(u, i, trisCount, edge),
         \A s \in Tris, e \in Dir : OnSameEdge(s, e, trisCount, edge) => s <= u
  PROVE  u < trisCount /\ Place(u, i) \in Nat /\ Place(trisCount, edge) = Place(u, i) + 1
<1> USE MaxTrisAssumption, InputsAssumption DEF IsInput
<1> DEFINE t == trisCount
           new == <<t, edge>>
<1>1. t \in Tris /\ edge \in Dir /\ t \in Nat /\ ArraysOK
  BY DEF IInv, CountersOK, Tris
<1>2. \A e \in Dir : SideKey(t, e) = SideKey(t, edge) => e = edge
  <2>1. vertices[t][0] # vertices[t][1] /\ vertices[t][1] # vertices[t][2]
        /\ vertices[t][2] # vertices[t][0]
    BY <1>1 DEF IInv, TrisProper, Tris
  <2> QED
    BY <1>1, <2>1, SidesOfOneTri
<1>3. ~IsSeen(t, edge)
  BY <1>1 DEF IsSeen, Dir
<1>4. u < t
  BY <1>1, <1>2, <1>3 DEF OnSameEdge, IsSeen, Tris
<1>5. SidesTo(t, edge) = SidesTo(u, i) \cup {new}
  <2>1. ASSUME NEW s \in 1 .. t, NEW e \in Dir, SideKey(s, e) = SideKey(t, edge)
        PROVE  s \in 1 .. u \/ (s = t /\ e = edge)
    <3>1. CASE s = t
      BY <1>2, <2>1, <3>1
    <3>2. CASE s # t
      <4>1. s < t /\ s \in Tris
        BY <1>1, <3>2 DEF Tris
      <4>2. IsSeen(s, e)
        BY <1>1, <4>1 DEF IsSeen
      <4> QED
        BY <2>1, <4>1, <4>2 DEF OnSameEdge, Tris
    <3> QED
      BY <3>1, <3>2
  <2>2. \A s \in 1 .. u : s \in 1 .. t
    BY <1>1, <1>4 DEF Tris
  <2>3. SideKey(u, i) = SideKey(t, edge)
    BY DEF OnSameEdge
  <2>4. t \in 1 .. t
    BY <1>1 DEF Tris
  <2> QED
    BY <1>1, <2>1, <2>2, <2>3, <2>4 DEF SidesTo
<1>6. new \notin SidesTo(u, i)
  BY <1>1, <1>4 DEF SidesTo, Tris
<1>7. IsFiniteSet(SidesTo(u, i)) /\ Place(u, i) \in Nat
  BY LaterPlace DEF Tris
<1> HIDE DEF new
<1>8. Cardinality(SidesTo(u, i) \cup {new}) = Cardinality(SidesTo(u, i)) + 1
  BY <1>6, <1>7, FS_AddElement
<1> QED
  BY <1>4, <1>5, <1>7, <1>8 DEF Place

-----------------------------------------------------------------------------
(* Before the first triangle is read there is no place to remember.        *)
LEMMA BlankMeshInv ==
  ASSUME Blank, pc = "Read"
  PROVE  MeshInv
<1> USE MaxTrisAssumption
<1>1. \A t \in Tris, d \in Dir : ~IsSeen(t, d)
  BY DEF Blank, IsSeen, Tris
<1>2. ProperUpTo(input, read) = {} /\ trisCount = 0 /\ pc = "Read"
  BY DEF Blank, ProperUpTo
<1>3. TrisRead
  BY <1>2, FS_EmptySet DEF TrisRead
<1> QED
  BY <1>1, <1>3 DEF MeshInv, TwoByTwo, OpenIsLast, LastOnEdge

(* The neighbour of a triangle in use is in use, and stitched back to it.  *)
LEMMA NeighbourStitched ==
  ASSUME IInv, NEW t \in Tris, NEW d \in Dir, t <= trisCount, neighbours[t][d] # Null
  PROVE  /\ neighbours[t][d] \in Tris /\ neighbours[t][d] <= trisCount
         /\ neighbours[t][d] # t /\ indices[t][d] \in Dir
         /\ neighbours[neighbours[t][d]][indices[t][d]] = t
         /\ indices[neighbours[t][d]][indices[t][d]] = d
<1> DEFINE u == neighbours[t][d]
           i == indices[t][d]
<1>1. trisCount \in Nat /\ t \in 1 .. trisCount
  BY DEF IInv, CountersOK, Tris
<1>2. Nb[t][d] = u
  BY <1>1, NeighboursInUse
<1>3. /\ u \in 1 .. trisCount /\ u # t /\ i \in Dir
      /\ Nb[u][i] = t /\ indices[u][i] = d
  BY <1>2 DEF IInv, Stitched
<1>4. u \in Tris
  BY <1>3, NeighboursInUse DEF IInv, ArraysOK
<1>5. neighbours[u][i] = t
  BY <1>3, <1>4, NeighboursInUse
<1> QED
  BY <1>1, <1>3, <1>4, <1>5

(* What is unseen, unstitched and unmoved leaves the places as they were.  *)
LEMMA SamePlaces ==
  ASSUME IInv, TwoByTwo, OpenIsLast, LastOnEdge, UNCHANGED indices,
         \A s \in Tris : s <= trisCount => neighbours'[s] = neighbours[s],
         \A s \in Tris, d \in Dir : IsSeen(s, d)' <=> IsSeen(s, d),
         \A s \in Tris, d \in Dir : s <= trisCount => SideKey(s, d)' = SideKey(s, d)
  PROVE  TwoByTwo' /\ OpenIsLast' /\ LastOnEdge'
<1> USE MaxTrisAssumption
<1>1. \A s \in Tris, d \in Dir : IsSeen(s, d) => s <= trisCount
  BY DEF IsSeen
<1>2. ASSUME NEW s \in Tris, NEW d \in Dir, s <= trisCount
      PROVE  Place(s, d)' = Place(s, d)
  <2>1. \A q \in 1 .. s : q \in Tris /\ q <= trisCount
    BY <1>2 DEF IInv, CountersOK, Tris
  <2>2. SidesTo(s, d)' = SidesTo(s, d)
    BY <1>2, <2>1 DEF SidesTo
  <2> QED
    BY <2>2 DEF Place
<1>3. \A s \in Tris, e \in Dir, t \in Tris, d \in Dir :
        t <= trisCount => (OnSameEdge(s, e, t, d)' <=> OnSameEdge(s, e, t, d))
  BY <1>1 DEF OnSameEdge
<1>4. TwoByTwo'
  <2> SUFFICES ASSUME NEW t \in Tris, NEW d \in Dir, IsSeen(t, d)', neighbours[t][d]' # Null
               PROVE  /\ SideKey(neighbours[t][d], indices[t][d])' = SideKey(t, d)'
                      /\ Place(neighbours[t][d], indices[t][d])' = OtherPlace(Place(t, d)')
    BY DEF TwoByTwo, OtherPlace
  <2>1. PICK u, i : u = neighbours[t][d] /\ i = indices[t][d]
    OBVIOUS
  <2>4. IsSeen(t, d) /\ t <= trisCount
    BY <1>1
  <2>2. neighbours'[t][d] = u /\ indices'[t][d] = i /\ u # Null
    BY <2>1, <2>4
  <2>3. u \in Tris /\ i \in Dir /\ u <= trisCount
    BY <2>1, <2>2, <2>4, NeighbourStitched
  <2>5. SideKey(u, i) = SideKey(t, d) /\ Place(u, i) = OtherPlace(Place(t, d))
    BY <2>1, <2>2, <2>4 DEF TwoByTwo
  <2>6. SideKey(u, i)' = SideKey(t, d)' /\ Place(u, i)' = OtherPlace(Place(t, d)')
    BY <1>2, <2>3, <2>4, <2>5
  <2> QED
    BY <2>2, <2>6
<1>5. OpenIsLast'
  <2> SUFFICES ASSUME NEW t \in Tris, NEW d \in Dir, IsSeen(t, d)', neighbours[t][d]' = Null
               PROVE  /\ Place(t, d)' % 2 = 1
                      /\ \A s \in Tris, e \in Dir : OnSameEdge(s, e, t, d)' => s <= t
    BY DEF OpenIsLast
  <2>1. IsSeen(t, d) /\ t <= trisCount
    BY <1>1
  <2>2. neighbours[t][d] = Null
    BY <2>1
  <2> QED
    BY <1>2, <1>3, <2>1, <2>2 DEF OpenIsLast
<1>6. LastOnEdge'
  BY <1>1, <1>3 DEF LastOnEdge
<1> QED
  BY <1>4, <1>5, <1>6

(* The triangle that is read takes the next place, if it is a proper one.  *)
LEMMA ReadTriMeshInv ==
  IInv /\ MeshInv /\ ReadTri => MeshInv'
<1> SUFFICES ASSUME IInv, MeshInv, ReadTri PROVE MeshInv'
  OBVIOUS
<1> USE MaxTrisAssumption, InputsAssumption DEF IsInput
<1>1. PICK list, n, count, tri :
        list = input /\ n = read /\ count = trisCount /\ tri = input[read + 1]
  OBVIOUS
<1>2. /\ n \in Nat /\ count \in Nat /\ count + 1 \in Tris
      /\ input' = list /\ read' = n + 1 /\ tri = list[n + 1]
      /\ pc = "Read" /\ pc' \in {"Read", "Stitch"}
      /\ UNCHANGED indices
      /\ vertices' = [vertices EXCEPT ![count + 1] = [d \in Dir |-> tri[d + 1]]]
      /\ neighbours' = [neighbours EXCEPT ![count + 1] = NoNeighbours]
      /\ tri \in Nat \X Nat \X Nat
  <2>1. list \in Seq(Nat \X Nat \X Nat) /\ Len(list) <= MaxTris
    BY <1>1 DEF IInv, CountersOK
  <2>4. read < Len(input) /\ pc = "Read"
    BY DEF ReadTri
  <2>2. n + 1 \in 1 .. Len(list) /\ count + 1 \in Tris
    BY <1>1, <2>1, <2>4 DEF IInv, CountersOK, Tris
  <2>3. tri \in Nat \X Nat \X Nat
    BY <1>1, <2>1, <2>2
  <2> QED
    BY <1>1, <2>2, <2>3 DEF IInv, CountersOK, ReadTri, ResetNeighbours
<1>3. IF IsProper(tri)
      THEN trisCount' = count + 1 /\ edge' = 0 /\ pc' = "Stitch"
      ELSE UNCHANGED <<trisCount, edge, pc>>
  BY <1>1, <1>2, ProperOrDegenerated DEF ReadTri
<1>4. ArraysOK
  BY DEF IInv
<1>5. \A s \in Tris : s <= count => vertices'[s] = vertices[s] /\ neighbours'[s] = neighbours[s]
  <2>1. \A s \in Tris : s <= count => s # count + 1
    BY <1>2 DEF Tris
  <2> QED
    BY <1>2, <1>4, <2>1 DEF ArraysOK
<1>6. \A s \in Tris, d \in Dir : IsSeen(s, d)' <=> IsSeen(s, d)
  <2>1. CASE IsProper(tri)
    BY <1>1, <1>2, <1>3, <2>1 DEF IsSeen, Tris, Dir
  <2>2. CASE ~IsProper(tri)
    BY <1>1, <1>2, <1>3, <2>2 DEF IsSeen
  <2> QED
    BY <2>1, <2>2
<1>7. \A s \in Tris, d \in Dir : s <= trisCount => SideKey(s, d)' = SideKey(s, d)
  BY <1>1, <1>5 DEF SideKey, Edge
<1>8. TwoByTwo' /\ OpenIsLast' /\ LastOnEdge'
  BY <1>1, <1>2, <1>5, <1>6, <1>7, SamePlaces DEF MeshInv
<1>9. TrisRead'
  <2> DEFINE P == ProperUpTo(list, n)
             Q == ProperUpTo(list, n + 1)
             At(i) == Cardinality(ProperUpTo(list, i))
  <2>1. /\ count = Cardinality(P)
        /\ \A i \in P : \A d \in Dir : vertices[At(i)][d] = Vertex(list[i], d)
        /\ \A t \in 1 .. count : \E i \in P : At(i) = t
    BY <1>1 DEF MeshInv, TrisRead
  <2>4. ASSUME NEW i \in P PROVE At(i) \in 1 .. count
    <3>1. i \in 1 .. n
      BY DEF ProperUpTo
    <3>2. ProperUpTo(list, i) \subseteq P /\ i \in ProperUpTo(list, i)
      BY <1>2, <3>1 DEF ProperUpTo
    <3>3. IsFiniteSet(P) /\ IsFiniteSet(ProperUpTo(list, i)) /\ At(i) \in Nat
      BY <1>2, <3>1, OneMoreProper
    <3>4. At(i) <= count
      BY <2>1, <3>2, <3>3, FS_Subset
    <3>5. At(i) # 0
      BY <3>2, <3>3, FS_EmptySet
    <3> QED
      BY <1>2, <3>3, <3>4, <3>5
  <2>2. CASE ~IsProper(tri)
    <3>1. Q = P
      BY <1>2, <2>2, OneMoreProper
    <3>2. trisCount' = count /\ pc' = "Read"
      BY <1>1, <1>2, <1>3, <2>2
    <3>3. ASSUME NEW i \in P PROVE vertices'[At(i)] = vertices[At(i)]
      BY <1>2, <1>5, <2>4 DEF Tris
    <3> QED
      BY <1>2, <2>1, <3>1, <3>2, <3>3 DEF TrisRead
  <2>3. CASE IsProper(tri)
    <3>1. Q = P \cup {n + 1} /\ At(n + 1) = count + 1
      BY <1>2, <2>1, <2>3, OneMoreProper
    <3>2. trisCount' = count + 1 /\ pc' = "Stitch"
      BY <1>3, <2>3
    <3>3. \A d \in Dir : vertices'[count + 1][d] = Vertex(tri, d)
      <4>1. vertices'[count + 1] = [d \in Dir |-> tri[d + 1]]
        BY <1>2, <1>4 DEF ArraysOK
      <4>2. \A d \in Dir : Vertex(tri, d) = tri[d + 1]
        BY DEF Vertex, Dir
      <4> QED
        BY <4>1, <4>2
    <3>4. ASSUME NEW i \in Q
          PROVE  \A d \in Dir : vertices'[At(i)][d] = Vertex(list[i], d)
      <4>1. CASE i = n + 1
        BY <1>2, <3>1, <3>3, <4>1
      <4>2. CASE i \in P
        <5>1. At(i) \in 1 .. count
          BY <2>4, <4>2
        <5>2. vertices'[At(i)] = vertices[At(i)]
          BY <1>2, <1>5, <5>1 DEF Tris
        <5> QED
          BY <2>1, <4>2, <5>2
      <4> QED
        BY <3>1, <4>1, <4>2
    <3>5. \A t \in 1 .. count + 1 : \E i \in Q : At(i) = t
      <4>1. \A t \in 1 .. count + 1 : t \in 1 .. count \/ t = count + 1
        BY <1>2
      <4> QED
        BY <2>1, <3>1, <4>1
    <3>6. Cardinality(Q) = count + 1
      BY <3>1
    <3> QED
      BY <1>2, <3>2, <3>4, <3>5, <3>6 DEF TrisRead
  <2> QED
    BY <2>2, <2>3
<1> QED
  BY <1>8, <1>9 DEF MeshInv

(* What the lookup of a side does to the places, whether it is stitched or *)
(* not: the side becomes the last one on its edge.                         *)
LEMMA StitchEdgePlaces ==
  ASSUME IInv, MeshInv, StitchEdge
  PROVE  /\ TrisRead' /\ LastOnEdge'
         /\ \A s \in Tris, d \in Dir : Place(s, d)' = Place(s, d)
         /\ \A s \in Tris, e \in Dir, p \in Tris, d \in Dir :
              OnSameEdge(s, e, p, d)' <=>
                \/ OnSameEdge(s, e, p, d)
                \/ s = trisCount /\ e = edge /\ SideKey(p, d) = SideKey(trisCount, edge)
<1> USE MaxTrisAssumption, InputsAssumption DEF IsInput
<1>1. PICK t, e : t = trisCount /\ e = edge
  OBVIOUS
<1>2. /\ t \in Tris /\ e \in Dir
      /\ \A s \in Tris, d \in Dir : IsSeen(s, d)' <=> IsSeen(s, d) \/ (s = t /\ d = e)
      /\ \A s \in Tris, d \in Dir : SideKey(s, d)' = SideKey(s, d)
  BY <1>1, StitchEdgeFrame
<1>3. TrisRead'
  <2>1. pc' # "Built" /\ UNCHANGED <<trisCount, vertices, input, read>>
    BY DEF StitchEdge
  <2> QED
    BY <2>1 DEF MeshInv, TrisRead
<1>4. ASSUME NEW s \in Tris, NEW d \in Dir
      PROVE  Place(s, d)' = Place(s, d)
  <2>1. \A q \in 1 .. s : q \in Tris
    BY DEF Tris
  <2>2. SidesTo(s, d)' = SidesTo(s, d)
    BY <1>2, <2>1 DEF SidesTo
  <2> QED
    BY <2>2 DEF Place
<1>5. \A s \in Tris, f \in Dir, p \in Tris, d \in Dir :
        OnSameEdge(s, f, p, d)' <=>
          OnSameEdge(s, f, p, d) \/ (s = t /\ f = e /\ SideKey(p, d) = SideKey(t, e))
  BY <1>2 DEF OnSameEdge
<1>6. LastOnEdge'
  <2> SUFFICES ASSUME NEW p \in Tris, NEW d \in Dir, IsSeen(p, d)'
               PROVE  \E u \in Tris, i \in Dir :
                        /\ OnSameEdge(u, i, p, d)'
                        /\ \A s \in Tris, f \in Dir : OnSameEdge(s, f, p, d)' => s <= u
    BY DEF LastOnEdge
  <2>1. CASE SideKey(p, d) = SideKey(t, e)
    <3>1. OnSameEdge(t, e, p, d)'
      BY <1>2, <1>5, <2>1
    <3>2. \A s \in Tris, f \in Dir : OnSameEdge(s, f, p, d)' => s <= t
      BY <1>1, <1>2, <1>5 DEF OnSameEdge, IsSeen, Tris
    <3> QED
      BY <1>2, <3>1, <3>2
  <2>2. CASE SideKey(p, d) # SideKey(t, e)
    <3>1. IsSeen(p, d)
      BY <1>2, <2>2
    <3>2. PICK u \in Tris, i \in Dir :
            /\ OnSameEdge(u, i, p, d)
            /\ \A s \in Tris, f \in Dir : OnSameEdge(s, f, p, d) => s <= u
      BY <3>1 DEF MeshInv, LastOnEdge
    <3> QED
      BY <1>5, <2>2, <3>2
  <2> QED
    BY <2>1, <2>2
<1> QED
  BY <1>1, <1>3, <1>4, <1>5, <1>6

(* A side that finds its edge closed has an odd place: the sides on that   *)
(* edge so far are stitched two by two.                                    *)
LEMMA OpenedOnOddPlace ==
  ASSUME IInv, MeshInv, pc = "Stitch", SideKey(trisCount, edge) \notin DOMAIN openEdges
  PROVE  Place(trisCount, edge) % 2 = 1
<1> USE MaxTrisAssumption, InputsAssumption DEF IsInput
<1> DEFINE t == trisCount
           new == <<t, edge>>
<1>1. t \in Tris /\ edge \in Dir /\ t \in Nat /\ ArraysOK
  BY DEF IInv, CountersOK, Tris
<1>2. CASE \A s \in Tris, e \in Dir : ~OnSameEdge(s, e, t, edge)
  <2>1. ASSUME NEW s \in 1 .. t, NEW e \in Dir, SideKey(s, e) = SideKey(t, edge)
        PROVE  s = t /\ e = edge
    <3>1. CASE s < t
      <4>1. s \in Tris /\ IsSeen(s, e)
        BY <1>1, <3>1 DEF IsSeen, Tris
      <4> QED
        BY <1>2, <2>1, <4>1 DEF OnSameEdge
    <3>2. CASE s = t
      <4>1. vertices[t][0] # vertices[t][1] /\ vertices[t][1] # vertices[t][2]
            /\ vertices[t][2] # vertices[t][0]
        BY <1>1 DEF IInv, TrisProper, Tris
      <4> QED
        BY <1>1, <2>1, <3>2, <4>1, SidesOfOneTri
    <3> QED
      BY <1>1, <3>1, <3>2
  <2>2. t \in 1 .. t
    BY <1>1 DEF Tris
  <2>3. SidesTo(t, edge) = {new}
    BY <1>1, <2>1, <2>2 DEF SidesTo
  <2>4. Place(t, edge) = 1
    BY <2>3, FS_Singleton DEF Place
  <2> QED
    BY <2>4
<1>3. CASE \E s \in Tris, e \in Dir : OnSameEdge(s, e, t, edge)
  <2>1. PICK s \in Tris, e \in Dir : OnSameEdge(s, e, t, edge)
    BY <1>3
  <2>2. PICK u \in Tris, i \in Dir :
          /\ OnSameEdge(u, i, s, e)
          /\ \A p \in Tris, d \in Dir : OnSameEdge(p, d, s, e) => p <= u
    BY <2>1 DEF MeshInv, LastOnEdge, OnSameEdge
  <2>3. /\ OnSameEdge(u, i, t, edge) /\ IsSeen(u, i)
        /\ SideKey(u, i) = SideKey(t, edge)
        /\ \A p \in Tris, d \in Dir : OnSameEdge(p, d, t, edge) => p <= u
    BY <2>1, <2>2 DEF OnSameEdge
  <2>4. neighbours[u][i] # Null
    BY <2>3 DEF IInv, OpenSidesEntered
  <2> DEFINE v == neighbours[u][i]
             j == indices[u][i]
  <2>5. SideKey(v, j) = SideKey(u, i) /\ Place(v, j) = OtherPlace(Place(u, i))
    BY <2>3, <2>4 DEF MeshInv, TwoByTwo
  <2>6. v \in Tris /\ j \in Dir /\ neighbours[v][j] = u /\ v <= t
    <3>1. u <= t
      BY <2>3 DEF IsSeen
    <3> QED
      BY <2>4, <3>1, NeighbourStitched
  <2>7. IsSeen(v, j)
    <3>1. Nb[v][j] = u
      BY <1>1, <2>6, NeighboursInUse DEF Tris
    <3> QED
      BY <2>6, <3>1 DEF IInv, UnseenSidesOpen, Tris, Null
  <2>8. v <= u
    BY <2>3, <2>5, <2>6, <2>7 DEF OnSameEdge
  <2>9. Place(v, j) <= Place(u, i) /\ Place(u, i) \in Nat
    BY <2>5, <2>6, <2>8, LaterPlace
  <2>10. Place(u, i) % 2 = 0
    BY <2>5, <2>9 DEF OtherPlace
  <2>11. Place(t, edge) = Place(u, i) + 1
    BY <2>3, NextPlace
  <2>12. \A k \in Nat : k % 2 = 0 => (k + 1) % 2 = 1
    OBVIOUS
  <2> QED
    BY <2>9, <2>10, <2>11, <2>12
<1> QED
  BY <1>2, <1>3

(* The first, third, ... side on an edge waits in the map.                 *)
LEMMA OpenEdgeMeshInv ==
  ASSUME IInv, MeshInv, StitchEdge, SideKey(trisCount, edge) \notin DOMAIN openEdges
  PROVE  MeshInv'
<1> USE MaxTrisAssumption
<1>1. PICK t, e : t = trisCount /\ e = edge
  OBVIOUS
<1>2. /\ t \in Tris /\ e \in Dir /\ t \in Nat
      /\ neighbours[t][e] = Null
      /\ \A s \in Tris, d \in Dir : IsSeen(s, d)' <=> IsSeen(s, d) \/ (s = t /\ d = e)
      /\ \A s \in Tris, d \in Dir : SideKey(s, d)' = SideKey(s, d)
  BY <1>1, StitchEdgeFrame DEF Tris
<1>3. /\ TrisRead' /\ LastOnEdge'
      /\ \A s \in Tris, d \in Dir : Place(s, d)' = Place(s, d)
      /\ \A s \in Tris, f \in Dir, p \in Tris, d \in Dir :
           OnSameEdge(s, f, p, d)' <=>
             OnSameEdge(s, f, p, d) \/ (s = t /\ f = e /\ SideKey(p, d) = SideKey(t, e))
  BY <1>1, StitchEdgePlaces
<1>4. UNCHANGED <<neighbours, indices>> /\ pc = "Stitch"
  BY DEF StitchEdge, SideKey
<1>5. ArraysOK /\ OpenSidesEntered
  BY <1>4 DEF IInv
<1>6. TwoByTwo'
  <2> SUFFICES ASSUME NEW p \in Tris, NEW d \in Dir, IsSeen(p, d)', neighbours[p][d]' # Null
               PROVE  /\ SideKey(neighbours[p][d], indices[p][d])' = SideKey(p, d)'
                      /\ Place(neighbours[p][d], indices[p][d])' = OtherPlace(Place(p, d)')
    BY DEF TwoByTwo, OtherPlace
  <2>1. PICK v, j : v = neighbours[p][d] /\ j = indices[p][d]
    OBVIOUS
  <2>2. neighbours'[p][d] = v /\ indices'[p][d] = j /\ v # Null
    BY <1>4, <2>1
  <2>4. IsSeen(p, d)
    BY <1>2, <2>1, <2>2
  <2>3. v \in Tris /\ j \in Dir
    <3>1. p <= trisCount
      BY <2>4 DEF IsSeen
    <3> QED
      BY <2>1, <2>2, <3>1, NeighbourStitched
  <2>5. SideKey(v, j) = SideKey(p, d) /\ Place(v, j) = OtherPlace(Place(p, d))
    BY <2>1, <2>2, <2>4 DEF MeshInv, TwoByTwo
  <2>6. SideKey(v, j)' = SideKey(p, d)' /\ Place(v, j)' = OtherPlace(Place(p, d)')
    BY <1>2, <1>3, <2>3, <2>5
  <2> QED
    BY <2>2, <2>6
<1>7. OpenIsLast'
  <2> SUFFICES ASSUME NEW p \in Tris, NEW d \in Dir, IsSeen(p, d)', neighbours[p][d]' = Null
               PROVE  /\ Place(p, d)' % 2 = 1
                      /\ \A s \in Tris, f \in Dir : OnSameEdge(s, f, p, d)' => s <= p
    BY DEF OpenIsLast
  <2>1. CASE p = t /\ d = e
    <3>1. Place(t, e) % 2 = 1
      BY <1>1, <1>4, OpenedOnOddPlace
    <3>2. \A s \in Tris, f \in Dir : IsSeen(s, f) => s <= t
      BY <1>1 DEF IsSeen
    <3> QED
      BY <1>2, <1>3, <2>1, <3>1, <3>2 DEF OnSameEdge
  <2>2. CASE ~(p = t /\ d = e)
    <3>1. IsSeen(p, d) /\ neighbours[p][d] = Null
      BY <1>2, <1>4, <2>2
    <3>2. SideKey(p, d) # SideKey(t, e)
      BY <1>1, <1>5, <3>1 DEF OpenSidesEntered
    <3>3. Place(p, d) % 2 = 1 /\ \A s \in Tris, f \in Dir : OnSameEdge(s, f, p, d) => s <= p
      BY <3>1 DEF MeshInv, OpenIsLast
    <3> QED
      BY <1>3, <3>2, <3>3
  <2> QED
    BY <2>1, <2>2
<1> QED
  BY <1>3, <1>6, <1>7 DEF MeshInv

(* The second, fourth, ... side on an edge is stitched to the one before.  *)
LEMMA CloseEdgeMeshInv ==
  ASSUME IInv, MeshInv, StitchEdge, SideKey(trisCount, edge) \in DOMAIN openEdges
  PROVE  MeshInv'
<1> USE MaxTrisAssumption
<1>1. PICK t, e, u, i :
        /\ t = trisCount /\ e = edge
        /\ u = openEdges[SideKey(trisCount, edge)].tri
        /\ i = openEdges[SideKey(trisCount, edge)].index
  OBVIOUS
<1>2. /\ t \in Tris /\ e \in Dir /\ t \in Nat
      /\ ~IsSeen(t, e) /\ neighbours[t][e] = Null
      /\ \A s \in Tris, d \in Dir : IsSeen(s, d)' <=> IsSeen(s, d) \/ (s = t /\ d = e)
      /\ \A s \in Tris, d \in Dir : SideKey(s, d)' = SideKey(s, d)
  BY <1>1, StitchEdgeFrame DEF Tris
<1>3. /\ TrisRead' /\ LastOnEdge'
      /\ \A s \in Tris, d \in Dir : Place(s, d)' = Place(s, d)
      /\ \A s \in Tris, f \in Dir, p \in Tris, d \in Dir :
           OnSameEdge(s, f, p, d)' <=>
             OnSameEdge(s, f, p, d) \/ (s = t /\ f = e /\ SideKey(p, d) = SideKey(t, e))
  BY <1>1, StitchEdgePlaces
<1>4. EntriesOpen /\ OpenSidesEntered /\ ArraysOK /\ pc = "Stitch"
  BY DEF IInv, StitchEdge
<1>5. /\ u \in Tris /\ i \in Dir /\ IsSeen(u, i)
      /\ neighbours[u][i] = Null /\ SideKey(u, i) = SideKey(t, e)
  BY <1>1, <1>4 DEF EntriesOpen
<1>6. /\ Place(u, i) % 2 = 1
      /\ \A s \in Tris, f \in Dir : OnSameEdge(s, f, u, i) => s <= u
  BY <1>5 DEF MeshInv, OpenIsLast
<1>7. u < t /\ Place(u, i) \in Nat /\ Place(t, e) = Place(u, i) + 1
  <2>1. OnSameEdge(u, i, t, e) /\ \A s \in Tris, f \in Dir : OnSameEdge(s, f, t, e) => s <= u
    BY <1>5, <1>6 DEF OnSameEdge
  <2> QED
    BY <1>1, <1>4, <1>5, <2>1, NextPlace
<1>8. Place(u, i) = OtherPlace(Place(t, e)) /\ Place(t, e) = OtherPlace(Place(u, i))
  <2>1. \A k \in Nat : k % 2 = 1 => (k + 1) % 2 = 0 /\ OtherPlace(k) = k + 1
                                    /\ OtherPlace(k + 1) = k
    BY DEF OtherPlace
  <2> QED
    BY <1>6, <1>7, <2>1
<1>9. \A s \in Tris, d \in Dir :
        /\ neighbours'[s][d] = IF s = t /\ d = e THEN u
                               ELSE IF s = u /\ d = i THEN t ELSE neighbours[s][d]
        /\ indices'[s][d] = IF s = t /\ d = e THEN i
                            ELSE IF s = u /\ d = i THEN e ELSE indices[s][d]
  <2>1. /\ neighbours' = [neighbours EXCEPT ![t][e] = u, ![u][i] = t]
        /\ indices' = [indices EXCEPT ![t][e] = i, ![u][i] = e]
    BY <1>1 DEF StitchEdge, SideKey
  <2>2. u # t
    BY <1>2, <1>7
  <2> QED
    BY <1>2, <1>4, <1>5, <2>1, <2>2 DEF ArraysOK
<1>10. TwoByTwo'
  <2> SUFFICES ASSUME NEW p \in Tris, NEW d \in Dir, IsSeen(p, d)', neighbours[p][d]' # Null
               PROVE  /\ SideKey(neighbours[p][d], indices[p][d])' = SideKey(p, d)'
                      /\ Place(neighbours[p][d], indices[p][d])' = OtherPlace(Place(p, d)')
    BY DEF TwoByTwo, OtherPlace
  <2>1. PICK v, j : v = neighbours'[p][d] /\ j = indices'[p][d]
    OBVIOUS
  <2>2. /\ v \in Tris /\ j \in Dir
        /\ SideKey(v, j) = SideKey(p, d) /\ Place(v, j) = OtherPlace(Place(p, d))
    <3>1. CASE p = t /\ d = e
      <4>1. v = u /\ j = i
        BY <1>2, <1>9, <2>1, <3>1
      <4> QED
        BY <1>5, <1>8, <3>1, <4>1
    <3>2. CASE p = u /\ d = i
      <4>1. v = t /\ j = e
        BY <1>5, <1>7, <1>9, <2>1, <3>2
      <4> QED
        BY <1>2, <1>5, <1>8, <3>2, <4>1
    <3>3. CASE ~(p = t /\ d = e) /\ ~(p = u /\ d = i)
      <4>1. v = neighbours[p][d] /\ j = indices[p][d] /\ v # Null
        BY <1>9, <2>1, <3>3
      <4>2. IsSeen(p, d)
        BY <1>2, <3>3
      <4>3. v \in Tris /\ j \in Dir
        <5>1. p <= trisCount
          BY <4>2 DEF IsSeen
        <5> QED
          BY <4>1, <5>1, NeighbourStitched
      <4> QED
        BY <4>1, <4>2, <4>3 DEF MeshInv, TwoByTwo
    <3> QED
      BY <3>1, <3>2, <3>3
  <2>4. /\ SideKey(v, j)' = SideKey(v, j) /\ SideKey(p, d)' = SideKey(p, d)
        /\ Place(v, j)' = Place(v, j) /\ Place(p, d)' = Place(p, d)
    BY <1>2, <1>3, <2>2
  <2>3. SideKey(v, j)' = SideKey(p, d)' /\ Place(v, j)' = OtherPlace(Place(p, d)')
    BY <2>2, <2>4
  <2> QED
    BY <2>1, <2>3
<1>11. OpenIsLast'
  <2> SUFFICES ASSUME NEW p \in Tris, NEW d \in Dir, IsSeen(p, d)', neighbours[p][d]' = Null
               PROVE  /\ Place(p, d)' % 2 = 1
                      /\ \A s \in Tris, f \in Dir : OnSameEdge(s, f, p, d)' => s <= p
    BY DEF OpenIsLast
  <2>1. t # Null /\ u # Null
    BY <1>2, <1>5 DEF Tris, Null
  <2>2. ~(p = t /\ d = e) /\ ~(p = u /\ d = i)
    BY <1>9, <2>1
  <2>3. IsSeen(p, d) /\ neighbours[p][d] = Null
    BY <1>2, <1>9, <2>2
  <2>4. openEdges[SideKey(p, d)] = [tri |-> p, index |-> d]
    BY <1>4, <2>3 DEF OpenSidesEntered
  <2>5. SideKey(p, d) # SideKey(t, e)
    BY <1>1, <2>2, <2>4
  <2>6. Place(p, d) % 2 = 1 /\ \A s \in Tris, f \in Dir : OnSameEdge(s, f, p, d) => s <= p
    BY <2>3 DEF MeshInv, OpenIsLast
  <2> QED
    BY <1>3, <2>5, <2>6
<1> QED
  BY <1>3, <1>10, <1>11 DEF MeshInv

(* Every step of build_tris, and every stutter, keeps the places.          *)
LEMMA NextMeshInv ==
  IInv /\ MeshInv /\ [Next]_vars => MeshInv'
<1> SUFFICES ASSUME IInv, MeshInv, [Next]_vars PROVE MeshInv'
  OBVIOUS
<1>1. CASE ReadTri
  BY <1>1, ReadTriMeshInv
<1>2. CASE StitchEdge
  BY <1>2, OpenEdgeMeshInv, CloseEdgeMeshInv
<1>3. ASSUME UNCHANGED <<indices, vertices, trisCount, input, read>>,
             \A s \in Tris : s <= trisCount => neighbours'[s] = neighbours[s],
             \A s \in Tris, d \in Dir : IsSeen(s, d)' <=> IsSeen(s, d),
             pc' = "Built" => read = Len(input)
      PROVE  MeshInv'
  <2>1. \A s \in Tris, d \in Dir : SideKey(s, d)' = SideKey(s, d)
    BY <1>3 DEF SideKey, Edge
  <2>2. TwoByTwo' /\ OpenIsLast' /\ LastOnEdge'
    BY <1>3, <2>1, SamePlaces DEF MeshInv
  <2>3. TrisRead'
    BY <1>3 DEF MeshInv, TrisRead
  <2> QED
    BY <2>2, <2>3 DEF MeshInv
<1>4. CASE FinishBuild
  <2>1. /\ UNCHANGED <<indices, vertices, trisCount, input, read>>
        /\ pc = "Read" /\ pc' = "Built" /\ read = Len(input)
        /\ neighbours' = InUseOnly(neighbours, NoNeighbours)
    BY <1>4 DEF FinishBuild
  <2>2. \A s \in Tris, d \in Dir : IsSeen(s, d)' <=> IsSeen(s, d)
    BY <2>1 DEF IsSeen
  <2>3. \A s \in Tris : s <= trisCount => neighbours'[s] = neighbours[s]
    BY <2>1 DEF InUseOnly, InUse, IInv, CountersOK, Tris
  <2> QED
    BY <1>3, <2>1, <2>2, <2>3
<1>5. CASE UNCHANGED vars
  <2>1. UNCHANGED <<neighbours, indices, vertices, trisCount, input, read, edge, pc>>
    BY <1>5 DEF vars, mesh, buildVars
  <2>2. \A s \in Tris, d \in Dir : IsSeen(s, d)' <=> IsSeen(s, d)
    BY <2>1 DEF IsSeen
  <2>3. pc' = "Built" => read = Len(input)
    BY <2>1 DEF MeshInv, TrisRead
  <2> QED
    BY <1>3, <2>1, <2>2, <2>3
<1> QED
  BY <1>1, <1>2, <1>4, <1>5 DEF Next, Step, Finished

(* The array holds the proper triangles read so far, and the sides on each *)
(* edge are stitched two by two in the order of the list.                  *)
THEOREM MeshInvHolds ==
  Spec => []MeshInv
<1>1. Init => MeshInv
  BY BlankMeshInv DEF Init
<1> QED
  BY <1>1, IInvHolds, NextMeshInv, PTL DEF Spec

(* When all the triangles are read, the array is the list that Mesh        *)
(* describes, and the place of a side is its rank in that list.            *)
LEMMA PlacesAreRanks ==
  ASSUME IInv, MeshInv, pc = "Built"
  PROVE  LET list == Proper(input)
         IN  /\ DOMAIN list = 1 .. trisCount /\ Len(list) = trisCount
             /\ \A t \in 1 .. trisCount, d \in Dir :
                  /\ Vertex(list[t], d) = vertices[t][d]
                  /\ Rank(list, t, d) = Place(t, d)
                  /\ \A s \in 1 .. trisCount, e \in Dir :
                       EdgeOf(list[s], e) = EdgeOf(list[t], d)
                         <=> SideKey(s, e) = SideKey(t, d)
<1> USE MaxTrisAssumption, InputsAssumption DEF IsInput
<1> DEFINE P == ProperUpTo(input, Len(input))
           list == Proper(input)
           n == trisCount
<1>1. read = Len(input) /\ n = Cardinality(P)
  BY DEF MeshInv, TrisRead
<1>2. list = [t \in 1 .. n |->
                input[CHOOSE i \in P : Cardinality(ProperUpTo(input, i)) = t]]
  BY <1>1 DEF Proper
<1>3. n \in Nat /\ ArraysOK /\ \A t \in 1 .. n : t \in Tris
  BY DEF IInv, CountersOK, Tris
<1>4. DOMAIN list = 1 .. n /\ Len(list) = n
  BY <1>2, <1>3
<1>5. ASSUME NEW t \in 1 .. n, NEW d \in Dir
      PROVE  Vertex(list[t], d) = vertices[t][d]
  <2> DEFINE i == CHOOSE i \in P : Cardinality(ProperUpTo(input, i)) = t
  <2>1. \E j \in P : Cardinality(ProperUpTo(input, j)) = t
    BY <1>1, <1>5 DEF MeshInv, TrisRead
  <2>2. i \in P /\ Cardinality(ProperUpTo(input, i)) = t
    BY <2>1
  <2>3. list[t] = input[i]
    BY <1>2
  <2>4. \A j \in P : vertices[Cardinality(ProperUpTo(input, j))][d] = Vertex(input[j], d)
    BY <1>1 DEF MeshInv, TrisRead
  <2> HIDE DEF i, P
  <2> QED
    BY <2>2, <2>3, <2>4
<1> HIDE DEF list
<1>6. ASSUME NEW s \in 1 .. n, NEW e \in Dir, NEW t \in 1 .. n, NEW d \in Dir
      PROVE  EdgeOf(list[s], e) = EdgeOf(list[t], d) <=> SideKey(s, e) = SideKey(t, d)
  <2>1. ASSUME NEW p \in 1 .. n, NEW f \in Dir
        PROVE  /\ EdgeOf(list[p], f) = {vertices[p][f], vertices[p][(f + 1) % 3]}
               /\ SideKey(p, f) = EdgeKey(vertices[p][f], vertices[p][(f + 1) % 3])
               /\ vertices[p][f] \in Nat /\ vertices[p][(f + 1) % 3] \in Nat
    <3>1. f \in {0, 1, 2} /\ (f + 1) % 3 \in Dir
      BY DEF Dir
    <3>2. Vertex(list[p], f + 1) = Vertex(list[p], (f + 1) % 3)
      BY <3>1 DEF Vertex
    <3> QED
      BY <1>3, <1>5, <3>1, <3>2 DEF EdgeOf, SideKey, Edge, ArraysOK
  <2> DEFINE a == vertices[s][e]
             b == vertices[s][(e + 1) % 3]
             v == vertices[t][d]
             w == vertices[t][(d + 1) % 3]
  <2>2. a \in Nat /\ b \in Nat /\ EdgeOf(list[s], e) = {a, b} /\ SideKey(s, e) = EdgeKey(a, b)
    BY <2>1
  <2>3. v \in Nat /\ w \in Nat /\ EdgeOf(list[t], d) = {v, w} /\ SideKey(t, d) = EdgeKey(v, w)
    BY <2>1
  <2> HIDE DEF a, b, v, w
  <2>4. EdgeKey(a, b) = EdgeKey(v, w) <=> (a = v /\ b = w) \/ (a = w /\ b = v)
    BY <2>2, <2>3, KeysAreEdges
  <2>5. {a, b} = {v, w} <=> (a = v /\ b = w) \/ (a = w /\ b = v)
    OBVIOUS
  <2> QED
    BY <2>2, <2>3, <2>4, <2>5
<1>7. ASSUME NEW t \in 1 .. n, NEW d \in Dir
      PROVE  Rank(list, t, d) = Place(t, d)
  <2>1. \A s \in 1 .. t : s \in 1 .. n
    BY <1>3
  <2>2. SidesUpTo(list, t, d) = SidesTo(t, d)
    BY <1>6, <2>1 DEF SidesUpTo, SidesTo
  <2> QED
    BY <2>2 DEF Rank, Place
<1> QED
  BY <1>4, <1>5, <1>6, <1>7 DEF list

(* The array of triangles that build_tris returns is the one that Mesh     *)
(* describes, for every list of triangles: the proper ones in their order, *)
(* and the sides on each edge stitched the first to the second, the third  *)
(* to the fourth, ...                                                      *)
THEOREM AlwaysBuildsTheMesh ==
  Spec => []BuildsTheMesh
<1>1. ASSUME IInv, MeshInv PROVE BuildsTheMesh
  <2> SUFFICES ASSUME pc = "Built"
               PROVE  LET m == MeshOf(input)
                      IN  /\ trisCount = m.trisCount
                          /\ neighbours = m.neighbours
                          /\ linkState = [t \in Tris |-> {}] /\ endpoint = {}
                          /\ \A t \in 1 .. trisCount : \A d \in Dir :
                               /\ vertices[t][d] = m.vertices[t][d]
                               /\ neighbours[t][d] # Null => indices[t][d] = m.indices[t][d]
    BY DEF BuildsTheMesh
  <2> USE MaxTrisAssumption, InputsAssumption DEF IsInput
  <2> DEFINE list == Proper(input)
             n == trisCount
             partner(t, d) ==
               IF t \in DOMAIN list /\ Partners(list, t, d) # {}
               THEN CHOOSE side \in Partners(list, t, d) : TRUE
               ELSE <<Null, Unwritten>>
  <2>1. /\ DOMAIN list = 1 .. n /\ Len(list) = n
        /\ \A t \in 1 .. n, d \in Dir :
             /\ Vertex(list[t], d) = vertices[t][d]
             /\ Rank(list, t, d) = Place(t, d)
             /\ \A s \in 1 .. n, e \in Dir :
                  EdgeOf(list[s], e) = EdgeOf(list[t], d) <=> SideKey(s, e) = SideKey(t, d)
    BY <1>1, PlacesAreRanks
  <2>2. /\ n \in Nat /\ ArraysOK /\ TrisProper
        /\ HandedOver /\ Stitched(n, neighbours, indices)
        /\ \A t \in Tris, d \in Dir : ~IsSeen(t, d) => neighbours[t][d] = Null
        /\ \A t \in 1 .. n : t \in Tris
        /\ \A t \in Tris, d \in Dir : IsSeen(t, d) <=> t \in 1 .. n
    <3>1. HandedOver /\ neighbours = Nb
      BY <1>1 DEF IInv, HandedOver
    <3>2. Stitched(n, neighbours, indices)
      BY <1>1, <3>1 DEF IInv, Stitched
    <3>3. \A t \in Tris, d \in Dir : ~IsSeen(t, d) => neighbours[t][d] = Null
      BY <1>1, <3>1 DEF IInv, UnseenSidesOpen
    <3> QED
      BY <1>1, <3>1, <3>2, <3>3 DEF IInv, CountersOK, IsSeen, Tris
  <2>3. /\ MeshOf(input).trisCount = Len(list)
        /\ MeshOf(input).neighbours = [t \in Tris |-> [d \in Dir |-> partner(t, d)[1]]]
        /\ MeshOf(input).indices = [t \in Tris |-> [d \in Dir |-> partner(t, d)[2]]]
        /\ MeshOf(input).vertices = [t \in Tris |-> [d \in Dir |->
                                       IF t \in DOMAIN list THEN Vertex(list[t], d) ELSE 0]]
    BY DEF MeshOf
  <2> HIDE DEF list
  <2>4. \A t \in 1 .. n, d \in Dir :
          Partners(list, t, d) =
            {side \in (1 .. n) \X Dir :
               /\ SideKey(side[1], side[2]) = SideKey(t, d)
               /\ Place(side[1], side[2]) = OtherPlace(Place(t, d))}
    BY <2>1 DEF Partners, OtherPlace
  <2>5. ASSUME NEW t \in 1 .. n, NEW d \in Dir, neighbours[t][d] # Null
        PROVE  partner(t, d) = <<neighbours[t][d], indices[t][d]>>
    <3> DEFINE u == neighbours[t][d]
               i == indices[t][d]
    <3>1. u \in 1 .. n /\ i \in Dir
      BY <2>2, <2>5 DEF Stitched
    <3>2. SideKey(u, i) = SideKey(t, d) /\ Place(u, i) = OtherPlace(Place(t, d))
      BY <1>1, <2>2, <2>5 DEF MeshInv, TwoByTwo
    <3>3. ASSUME NEW s \in 1 .. n, NEW e \in Dir,
                 SideKey(s, e) = SideKey(t, d), Place(s, e) = OtherPlace(Place(t, d))
          PROVE  s = u /\ e = i
      <4>1. s \in Tris /\ u \in Tris /\ s <= n /\ u <= n
        BY <2>2, <3>1
      <4> HIDE DEF u, i
      <4> QED
        BY <2>2, <3>1, <3>2, <3>3, <4>1, OneSideOnPlace
    <3> HIDE DEF u, i
    <3>4. Partners(list, t, d) = {<<u, i>>}
      BY <2>4, <3>1, <3>2, <3>3
    <3> QED
      BY <2>1, <3>4 DEF u, i
  <2>6. ASSUME NEW t \in 1 .. n, NEW d \in Dir, neighbours[t][d] = Null
        PROVE  partner(t, d) = <<Null, Unwritten>>
    <3>1. /\ Place(t, d) % 2 = 1
          /\ \A s \in Tris, e \in Dir : OnSameEdge(s, e, t, d) => s <= t
      BY <1>1, <2>2, <2>6 DEF MeshInv, OpenIsLast
    <3>2. ASSUME NEW s \in 1 .. n, NEW e \in Dir, SideKey(s, e) = SideKey(t, d)
          PROVE  Place(s, e) # OtherPlace(Place(t, d))
      <4>1. s \in Tris /\ t \in Tris /\ s <= t
        BY <2>2, <3>1, <3>2 DEF OnSameEdge
      <4>2. Place(s, e) <= Place(t, d) /\ Place(t, d) \in Nat /\ Place(s, e) \in Nat
        BY <3>2, <4>1, LaterPlace
      <4> QED
        BY <3>1, <4>2 DEF OtherPlace
    <3>3. Partners(list, t, d) = {}
      BY <2>4, <3>2
    <3> QED
      BY <3>3
  <2>7. ASSUME NEW t \in Tris, NEW d \in Dir
        PROVE  partner(t, d)[1] = neighbours[t][d]
    <3>1. CASE t \in 1 .. n
      <4> HIDE DEF partner
      <4>1. CASE neighbours[t][d] = Null
        <5>1. partner(t, d) = <<Null, Unwritten>>
          BY <2>6, <3>1, <4>1
        <5> QED
          BY <4>1, <5>1
      <4>2. CASE neighbours[t][d] # Null
        <5>1. partner(t, d) = <<neighbours[t][d], indices[t][d]>>
          BY <2>5, <3>1, <4>2
        <5> QED
          BY <5>1
      <4> QED
        BY <4>1, <4>2
    <3>2. CASE t \notin 1 .. n
      <4>1. neighbours[t][d] = Null
        BY <2>2, <3>2
      <4>2. partner(t, d) = <<Null, Unwritten>>
        BY <2>1, <3>2
      <4> QED
        BY <4>1, <4>2
    <3> QED
      BY <3>1, <3>2
  <2>8. neighbours = [t \in Tris |-> [d \in Dir |-> partner(t, d)[1]]]
    <3>1. neighbours = [t \in Tris |-> [d \in Dir |-> neighbours[t][d]]]
      BY <2>2 DEF ArraysOK
    <3> HIDE DEF partner
    <3> QED
      BY <2>7, <3>1
  <2>9. ASSUME NEW t \in 1 .. n, NEW d \in Dir
        PROVE  /\ vertices[t][d] = MeshOf(input).vertices[t][d]
               /\ neighbours[t][d] # Null => indices[t][d] = MeshOf(input).indices[t][d]
    <3>1. t \in Tris /\ t \in DOMAIN list
      BY <2>1, <2>2
    <3>2. vertices[t][d] = MeshOf(input).vertices[t][d]
      BY <2>1, <2>3, <3>1
    <3>3. MeshOf(input).indices[t][d] = partner(t, d)[2]
      BY <2>3, <3>1
    <3>4. neighbours[t][d] # Null => partner(t, d)[2] = indices[t][d]
      BY <2>5
    <3> QED
      BY <3>2, <3>3, <3>4
  <2> QED
    BY <2>1, <2>2, <2>3, <2>8, <2>9 DEF HandedOver
<1> QED
  BY <1>1, IInvHolds, MeshInvHolds, PTL

=============================================================================
