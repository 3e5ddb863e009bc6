----------------------------- MODULE Tristripper ----------------------------
(***************************************************************************)
(* rm_tristripper_create_strips (src/rm_tristripper.c), the whole call:    *)
(* build the triangles, then either the simple algorithm, or preprocessing,*)
(* tunneling and the output of the strips.                                 *)
(*                                                                         *)
(* The phases work on the same array of triangles, and one byte of each    *)
(* triangle serves two of them: unstripped_neighbours_count and            *)
(* tunnel_state are a union in C and are one variable here, sharedByte.    *)
(***************************************************************************)
EXTENDS TriArray

CONSTANTS
  Inputs,   \* sequences of at most MaxTris triangles
  Settings, \* records of useTunneling, preserve, preproc, config
  Bytes     \* what uninitialised memory may hold

VARIABLES
  pc, preserve, useTunneling, preproc, config, sharedByte,
  \* BuildTris
  input, read, edge, openEdges,
  \* Adjacency and Preproc
  stripped, lists, core, coreDirs, grow, growNext, firstEnd,
  \* Tunneling
  limit, endpoints, stripsCount, hasFound, first, tunnel, tunnelIndex,
  visited, loopCount, isolated, step, walker, backIndex, circleIndex,
  \* Output and Simple
  strips, ids, curr, indexToPrev, prevEntrance, entrance,
  prefixCount, isForward, end

settings == <<preserve, useTunneling, preproc>>
buildVars == <<input, read, edge, openEdges>>
adjacencyVars == <<stripped, lists, core, coreDirs>>
growVars == <<grow, growNext, firstEnd>>
endpointVars == <<endpoints, stripsCount>>
tunnelVars == <<limit, hasFound, tunnel, tunnelIndex, visited, loopCount,
                isolated, step, walker, backIndex, circleIndex>>
strandVars == <<curr, indexToPrev, prevEntrance, entrance>>
simpleVars == <<prefixCount, isForward, end>>
vars == <<mesh, stripVars, pc, settings, config, sharedByte, buildVars,
          adjacencyVars, growVars, endpointVars, first, tunnelVars, strips,
          ids, strandVars, simpleVars>>

\* Each phase with the theorems about it, which SessionProofs puts together.
B == INSTANCE BuildTrisProofs WITH unstripped <- sharedByte
P == INSTANCE PreprocProofs WITH unstripped <- sharedByte, Meshes <- {}
T == INSTANCE TunnelingProofs WITH tunnelState <- sharedByte, Meshes <- {},
                                   Configs <- {s.config : s \in Settings}
O == INSTANCE Output
S == INSTANCE Simple WITH unstripped <- sharedByte

ASSUME InputsAssumption == B!InputsAssumption
ASSUME SettingsAssumption ==
  \A s \in Settings : s.preproc \in P!Algorithms /\ s.config \in T!ConfigSet

Init ==
  /\ pc = "Call"
  /\ input \in Inputs /\ B!Blank
  /\ \E s \in Settings :
       /\ useTunneling = s.useTunneling /\ preserve = s.preserve
       /\ preproc = s.preproc /\ config = s.config
  /\ visited = {} /\ stripped = {}
  /\ lists = [c \in 0 .. 3 |-> <<>>] /\ core = <<>> /\ coreDirs = <<>>
  /\ grow = P!NoEnd /\ growNext = P!NoEnd /\ firstEnd = Null
  /\ limit = 0 /\ endpoints = <<>> /\ stripsCount = 0
  /\ hasFound = FALSE /\ first = Null /\ tunnel = <<>>
  /\ tunnelIndex = [t \in Tris |-> 0] /\ loopCount = 0
  /\ isolated = {} /\ step = 0 /\ walker = Null
  /\ backIndex = 0 /\ circleIndex = 0
  /\ strips = <<>> /\ ids = <<>> /\ curr = Null /\ indexToPrev = 0
  /\ prevEntrance = 0 /\ entrance = 0
  /\ prefixCount = 0 /\ isForward = FALSE /\ end = S!NoEnd

-----------------------------------------------------------------------------
\* Less than three IDs: no strips.
ReturnAtOnce ==
  /\ pc = "Call" /\ input = <<>>
  /\ pc' = "Output"
  /\ UNCHANGED <<mesh, stripVars, settings, config, sharedByte, buildVars,
                 adjacencyVars, growVars, endpointVars, first, tunnelVars,
                 strips, ids, strandVars, simpleVars>>

StartBuild ==
  /\ pc = "Call" /\ input # <<>>
  /\ pc' = "Read"
  /\ UNCHANGED <<mesh, stripVars, settings, config, sharedByte, buildVars,
                 adjacencyVars, growVars, endpointVars, first, tunnelVars,
                 strips, ids, strandVars, simpleVars>>

\* Every triangle was degenerated, or the algorithm that is asked for starts.
Dispatch ==
  /\ pc = "Built"
  /\ pc' = IF trisCount = 0 THEN "Output"
           ELSE IF useTunneling THEN "Order" ELSE "SimpleOrder"
  /\ config' = IF pc' = "Order"
               THEN [config EXCEPT
                       !.maxCount = T!TruncatedMaxCount(@, trisCount)]
               ELSE config
  /\ UNCHANGED <<mesh, stripVars, settings, sharedByte, buildVars,
                 adjacencyVars, growVars, endpointVars, first, tunnelVars,
                 strips, ids, strandVars, simpleVars>>

Building ==
  /\ B!Step
  /\ UNCHANGED <<settings, config, adjacencyVars, growVars, endpointVars,
                 first, tunnelVars, strips, ids, strandVars, simpleVars>>

Preprocessing ==
  /\ P!Step
  /\ UNCHANGED <<preserve, useTunneling, config, buildVars, first, tunnelVars,
                 strips, ids, strandVars, simpleVars>>

Tunneling ==
  /\ T!Step
  /\ UNCHANGED <<settings, buildVars, adjacencyVars, growVars, strips, ids,
                 strandVars, simpleVars>>

Collecting ==
  /\ O!Step
  /\ UNCHANGED <<useTunneling, preproc, config, sharedByte, buildVars,
                 adjacencyVars, growVars, tunnelVars, simpleVars>>

BuildingSimple ==
  /\ S!Step
  /\ UNCHANGED <<useTunneling, preproc, config, buildVars, growVars,
                 endpointVars, first, tunnelVars, strandVars>>

\* The call; Session goes on when it has returned.
Step ==
  \/ ReturnAtOnce \/ StartBuild \/ Dispatch
  \/ Building \/ Preprocessing \/ Tunneling \/ Collecting \/ BuildingSimple

=============================================================================
