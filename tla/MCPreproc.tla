------------------------------ MODULE MCPreproc -----------------------------
(***************************************************************************)
(* Small meshes for model-checking preprocessing.                          *)
(***************************************************************************)
EXTENDS PreprocInv, Mesh, MCMeshes

\* The surfaces from several positions on, and all the sets of six and seven
\* triangles on five vertices.
MCMeshSet ==
  {MeshOf(list) : list \in Rotations(Surfaces) \cup FiveVertexLists(6)
                             \cup FiveVertexLists(7)}

=============================================================================
