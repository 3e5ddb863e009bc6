---------------------------- MODULE BuildTrisProps --------------------------
(***************************************************************************)
(* What the array of triangles must be when build_tris returns, and what   *)
(* its hashmap of open edges must hold on the way.                         *)
(***************************************************************************)
EXTENDS BuildTris, Mesh

\* The sides that have been put into the hashmap so far.
Seen == {side \in (1 .. trisCount) \X Dir :
           side[1] < trisCount \/ pc # "Stitch" \/ side[2] < edge}

\* The open edges are exactly the sides without a neighbour, each under the
\* key of its edge: no edge gets lost, none is offered to a third triangle.
OpenEdgesExact ==
  pc # "Built" =>
    /\ {<<openEdges[k].tri, openEdges[k].index>> : k \in DOMAIN openEdges} =
         {side \in Seen : neighbours[side[1]][side[2]] = Null}
    /\ \A k \in DOMAIN openEdges :
         LET e == Edge(openEdges[k].tri, openEdges[k].index)
         IN  k = EdgeKey(e[1], e[2])

\* The neighbours are stitched both ways at every step, also when a triangle
\* comes twice or an edge has more than two triangles, and the counter of a
\* triangle, which the adjacency lists are ordered by, counts them.
StitchedSoFar ==
  /\ Stitched(trisCount, InUseOnly(neighbours, NoNeighbours), indices)
  /\ \A t \in 1 .. trisCount : unstripped[t] = NeighboursCount(t)

\* The result is the one that Mesh describes, without links and endpoints yet,
\* whatever the memory held before, in the place of a degenerated triangle too;
\* an index beside an absent neighbour may be anything.
BuildsTheMesh ==
  pc = "Built" =>
    LET m == MeshOf(input)
    IN  /\ trisCount = m.trisCount
        /\ neighbours = m.neighbours
        /\ linkState = [t \in Tris |-> {}] /\ endpoint = {}
        /\ \A t \in 1 .. trisCount : \A d \in Dir :
             /\ vertices[t][d] = m.vertices[t][d]
             /\ neighbours[t][d] # Null => indices[t][d] = m.indices[t][d]

=============================================================================
