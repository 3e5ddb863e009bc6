----------------------------- MODULE MCTunneling ----------------------------
(***************************************************************************)
(* Small meshes and configurations for model-checking tunneling.           *)
(***************************************************************************)
EXTENDS TunnelingInv, Mesh, MCMeshes

Config(count, inc, lim, back, dest) ==
  [maxCount |-> count, incremental |-> inc, loopLimit |-> lim,
   backtrackAfterLoopLimit |-> back, destCount |-> dest]

\* Every way of searching to the end: tunnels of 2, 4 and up to all triangles.
FullSearch ==
  {Config(count, inc, 0, FALSE, 0) : <<count, inc>> \in {3, 4, 10} \X BOOLEAN}
\* Searches that a loop limit or a destination count cuts short.
CutSearch ==
  {Config(8, FALSE, lim, TRUE, dest) : <<lim, dest>> \in (1 .. 4) \X {0, 2}}
\* A loop limit without backtracking, with tunnels of two triangles and with
\* longer ones.
CancelledPairs == {Config(2, FALSE, lim, FALSE, 0) : lim \in 1 .. 3}
CancelledSearch == {Config(8, FALSE, lim, FALSE, 0) : lim \in 1 .. 4}

MeshesOf(lists) == {MeshOf(list) : list \in lists}
MCSurfaces == MeshesOf(Rotations(Surfaces))
MCAllMeshes ==
  MeshesOf(Rotations(Surfaces) \cup FiveVertexLists(6) \cup Tangles)
MCTangles == MeshesOf(Tangles)
LongSearch == {Config(10, inc, 0, FALSE, 0) : inc \in BOOLEAN}
MCConfigs == FullSearch \cup CutSearch \cup CancelledPairs

=============================================================================
