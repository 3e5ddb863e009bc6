---------------------------- MODULE MCTristripper ---------------------------
(***************************************************************************)
(* Small inputs for model-checking the whole call, and calls after it.     *)
(***************************************************************************)
EXTENDS SessionProps, MCMeshes

\* No triangle, degenerated ones only, some degenerated ones, and the surfaces.
Degenerated == {<<>>, <<<<1,1,2>>>>, <<<<1,2,2>>, <<3,2,3>>>>,
                <<<<0,1,2>>, <<2,1,2>>, <<2,1,3>>, <<4,3,4>>, <<3,4,2>>>>}
MCInputs == Degenerated \cup Rotations(Surfaces) \cup FiveVertexLists(5)

\* A call after others gets an empty list, one that tunnels of two will do for,
\* and larger ones.
MCFollowUps == {<<>>, <<<<0,1,2>>, <<2,1,3>>, <<4,4,5>>>>, Tetrahedron, Fan}

Config(count, inc, lim, back, dest) ==
  [maxCount |-> count, incremental |-> inc, loopLimit |-> lim,
   backtrackAfterLoopLimit |-> back, destCount |-> dest]

\* A full search, a search cut short at the loop limit, one at two strips.
MCConfigs == {Config(100, FALSE, 0, FALSE, 0), Config(5, TRUE, 0, FALSE, 0),
              Config(6, FALSE, 2, TRUE, 0), Config(6, TRUE, 0, FALSE, 2)}

Setting(tunneling, keep, algorithm, c) ==
  [useTunneling |-> tunneling, preserve |-> keep, preproc |-> algorithm,
   config |-> c]
Longest == Config(100, FALSE, 0, FALSE, 0)

\* Each preprocessing with each of them; without tunneling, and without
\* preserving the orientation, one will do.
MCSettings ==
  {Setting(TRUE, TRUE, p, c) : <<p, c>> \in P!Algorithms \X MCConfigs} \cup
  {Setting(TRUE, FALSE, p, Longest) : p \in P!Algorithms} \cup
  {Setting(FALSE, keep, "stripify", Longest) : keep \in BOOLEAN}

\* A byte that looks like an index, a pointer, a link and a flag.
MCBytes == {2}

=============================================================================
