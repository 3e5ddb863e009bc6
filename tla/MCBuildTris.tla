----------------------------- MODULE MCBuildTris ----------------------------
(***************************************************************************)
(* Small inputs for model-checking build_tris.                             *)
(***************************************************************************)
EXTENDS BuildTrisProps, MCMeshes

\* All the lists of one and two triangles over three vertices, degenerated
\* ones, equal ones and both windings among them, ...
AllTriples == (0 .. 2) \X (0 .. 2) \X (0 .. 2)
ShortLists ==
  {<<a>> : a \in AllTriples} \cup
  {<<a, b>> : <<a, b>> \in AllTriples \X AllTriples}

\* ... and all the lists of four out of these five, whose edge 0-1 has up to
\* four sides in either direction.
Leaves == {<<0,1,2>>, <<1,0,3>>, <<0,0,1>>, <<4,0,1>>, <<1,3,0>>}
LongLists == [1 .. 4 -> Leaves]

MCInputs == ShortLists \cup LongLists \cup Rotations(Surfaces)
MCBytes == {0, 2, 255}

=============================================================================
