------------------------------ MODULE MCMeshes ------------------------------
(***************************************************************************)
(* Small lists of triangles for model-checking.                            *)
(***************************************************************************)
EXTENDS Naturals, Sequences, FiniteSets

\* Surfaces whose strips can be joined in many ways, and lists with what the
\* stitching has to get right: an edge of four triangles, a triangle twice.
Fan == <<<<0,1,2>>, <<0,2,3>>, <<0,3,4>>, <<0,4,5>>, <<0,5,6>>, <<0,6,1>>>>
Tetrahedron == <<<<0,1,2>>, <<0,3,1>>, <<1,3,2>>, <<2,3,0>>>>
Octahedron == <<<<0,1,2>>, <<5,2,1>>, <<0,2,3>>, <<5,3,2>>,
                <<0,3,4>>, <<5,4,3>>, <<0,4,1>>, <<5,1,4>>>>
Grid == <<<<0,1,4>>, <<0,4,3>>, <<1,2,5>>, <<1,5,4>>,
          <<3,4,7>>, <<3,7,6>>, <<4,5,8>>, <<4,8,7>>>>
Book == <<<<0,1,2>>, <<3,1,0>>, <<0,1,4>>, <<1,0,5>>, <<2,4,1>>, <<3,0,5>>>>
Twice == <<<<0,1,2>>, <<0,1,2>>, <<1,2,3>>, <<3,2,1>>, <<2,3,4>>, <<0,2,4>>>>
Islands == <<<<0,1,2>>, <<2,1,3>>, <<4,5,6>>, <<6,5,7>>, <<5,7,8>>, <<9,10,11>>>>

\* Ten triangles whose search gives up a tunnel that it does not come back to: of
\* the first list when it looks for long tunnels at once, of the second one when
\* it looks for short ones first.
Tangles == {<<<<1,5,6>>, <<0,1,6>>, <<2,5,6>>, <<0,1,5>>, <<2,4,6>>,
              <<3,4,6>>, <<2,3,5>>, <<0,2,3>>, <<3,4,5>>, <<0,3,6>>>>,
            <<<<0,1,2>>, <<0,2,4>>, <<1,2,6>>, <<1,3,6>>, <<2,5,6>>,
              <<0,1,4>>, <<4,5,6>>, <<1,3,5>>, <<3,4,6>>, <<1,4,5>>>>}

\* The surfaces whose neighbours all wind the same way.
Oriented == {Fan, Tetrahedron, Octahedron, Grid, Islands}
Surfaces == Oriented \cup {Book, Twice}

Rotate(list, k) ==
  [i \in DOMAIN list |-> list[((i + k) % Len(list)) + 1]]

\* Each list of a set, started from its first four positions.
Rotations(lists) == {Rotate(list, k) : <<list, k>> \in lists \X (0 .. 3)}

\* The ten triangles on five vertices; up to three of them share an edge.
Faces == <<<<0,1,2>>, <<3,2,1>>, <<0,4,1>>, <<2,3,4>>, <<0,1,3>>,
           <<4,2,0>>, <<1,4,3>>, <<0,3,2>>, <<3,0,4>>, <<1,2,4>>>>

\* All the sets of k of them.
FiveVertexLists(k) ==
  {SelectSeq(Faces, LAMBDA f : f \in F) :
     F \in {G \in SUBSET {Faces[i] : i \in DOMAIN Faces} : Cardinality(G) = k}}

=============================================================================
