------------------------------ MODULE PathCover -----------------------------
(***************************************************************************)
(* What tunneling promises, without saying how: the strips are a cover of  *)
(* the triangles by paths, and a step joins two of them into one.  Which   *)
(* triangles each strip visits may change all over; of all the triangles   *)
(* only two ends of strips gain a link, and none loses one.                *)
(***************************************************************************)
EXTENDS Naturals, FiniteSets

VARIABLES
  trisCount, neighbours, indices,  \* the mesh, as in TriArray
  linked,                          \* linked[t]: the positions t is linked at
  stripsCount                      \* how many strips there are

vars == <<trisCount, neighbours, indices, linked, stripsCount>>

InUse == 1 .. trisCount
Degree(t) == Cardinality(linked[t])

\* The links of t into the set S.
LinksInto(t, S) == {d \in linked[t] : neighbours[t][d] \in S}

\* A link leads to a triangle that is linked back by the same edge.
Mutual ==
  \A t \in InUse : \A d \in linked[t] :
    /\ neighbours[t][d] \in InUse \ {t}
    /\ indices[t][d] \in linked[neighbours[t][d]]

\* Every set of triangles has one with at most one link into the set: the
\* links close no circle, not even one of two triangles.
NoCircle ==
  \A S \in (SUBSET InUse) \ {{}} :
    \E t \in S : Cardinality(LinksInto(t, S)) <= 1

IsCover == Mutual /\ NoCircle /\ \A t \in InUse : Degree(t) <= 2

\* A path of k triangles has k - 1 edges, and every edge is two links.
LinksCount ==
  Cardinality({side \in InUse \X (0 .. 2) : side[2] \in linked[side[1]]})
CountsStrips == 2 * stripsCount + LinksCount = 2 * trisCount

-----------------------------------------------------------------------------
Init == IsCover /\ CountsStrips

Join ==
  \E a, b \in InUse :
    /\ a # b
    /\ \A t \in InUse :
         Cardinality(linked'[t]) = Degree(t) + IF t \in {a, b} THEN 1 ELSE 0
    /\ stripsCount' = stripsCount - 1
    /\ IsCover'
    /\ UNCHANGED <<trisCount, neighbours, indices>>

Spec == Init /\ [][Join]_vars

=============================================================================
