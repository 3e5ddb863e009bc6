-------------------------------- MODULE Mesh --------------------------------
(***************************************************************************)
(* What rm_tristripper_build_tris (src/rm_tristripper_tri.c) computes from *)
(* a list of triangles, stated without its hashmap of open edges: the      *)
(* sides that lie on one edge, in the order of the list, are neighbours    *)
(* two by two - the first and the second, the third and the fourth, ...    *)
(***************************************************************************)
EXTENDS TriArray

\* A triangle of the list is the sequence of its three vertex IDs.
Vertex(tri, d) == tri[(d % 3) + 1]
EdgeOf(tri, d) == {Vertex(tri, d), Vertex(tri, d + 1)}

\* Degenerated triangles are left out.
IsProper(tri) == Cardinality({Vertex(tri, d) : d \in Dir}) = 3
ProperUpTo(list, n) == {i \in 1 .. n : IsProper(list[i])}
Proper(list) ==
  LET proper == ProperUpTo(list, Len(list))
  IN  [t \in 1 .. Cardinality(proper) |->
         list[CHOOSE i \in proper : Cardinality(ProperUpTo(list, i)) = t]]

\* The sides <<t, d>> of the list that lie on the edge of side <<t, d>>, up to
\* and including that one; a proper triangle has one side at most on an edge.
SidesUpTo(list, t, d) ==
  {side \in (1 .. t) \X Dir : EdgeOf(list[side[1]], side[2]) = EdgeOf(list[t], d)}
Rank(list, t, d) == Cardinality(SidesUpTo(list, t, d))

\* The sides that <<t, d>> is stitched to: one or none.
Partners(list, t, d) ==
  {side \in (DOMAIN list) \X Dir :
     /\ EdgeOf(list[side[1]], side[2]) = EdgeOf(list[t], d)
     /\ LET r == Rank(list, t, d)
        IN  Rank(list, side[1], side[2]) = IF r % 2 = 0 THEN r - 1 ELSE r + 1}

\* The byte of an index that build_tris never writes.
Unwritten == 255

MeshOf(triangles) ==
  LET list == Proper(triangles)
      partner(t, d) ==
        IF t \in DOMAIN list /\ Partners(list, t, d) # {}
        THEN CHOOSE side \in Partners(list, t, d) : TRUE
        ELSE <<Null, Unwritten>>
  IN  [trisCount  |-> Len(list),
       neighbours |-> [t \in Tris |-> [d \in Dir |-> partner(t, d)[1]]],
       indices    |-> [t \in Tris |-> [d \in Dir |-> partner(t, d)[2]]],
       vertices   |-> [t \in Tris |-> [d \in Dir |->
                         IF t \in DOMAIN list THEN Vertex(list[t], d) ELSE 0]]]

=============================================================================
