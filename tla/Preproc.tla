------------------------------- MODULE Preproc ------------------------------
(***************************************************************************)
(* Preprocessing (src/rm_tristripper_ex.c): the first cover of the mesh by *)
(* strips, which tunneling improves.  Every triangle is a strip of its own *)
(* (isolated), neighbours are paired (pairs), or each strip is grown from  *)
(* three core triangles in both directions (stripify).                     *)
(*                                                                         *)
(* An action adds one triangle to a strip, or finishes one end of it.      *)
(***************************************************************************)
EXTENDS Adjacency

CONSTANT Meshes   \* records of trisCount, neighbours, indices, vertices

\* What rm_tristripper_build_tris returns; create_strips stops without it.
ASSUME MeshesAssumption ==
  \A m \in Meshes : IsMesh(m.trisCount, m.neighbours, m.indices)

VARIABLES
  preproc,      \* the preprocessing algorithm
  endpoints,    \* the list of the endpoints
  stripsCount,  \* how many strips have been delineated
  pc,
  grow,         \* the end being grown: triangle, index to previous, entrance
  growNext,     \* the other end of the core, grown after it, or Null
  firstEnd      \* the end that the first of the two has come to, or Null

growVars == <<grow, growNext, firstEnd>>
vars == <<mesh, stripVars, adjVars, preproc, endpoints, stripsCount, pc,
          growVars>>

Algorithms == {"isolated", "pairs", "stripify"}
EndOf(t, index, id) == [tri |-> t, indexToPrev |-> index, entrance |-> id]
NoEnd == EndOf(Null, 0, 0)

Init ==
  /\ \E m \in Meshes :
       /\ trisCount = m.trisCount
       /\ neighbours = m.neighbours
       /\ indices = m.indices
       /\ vertices = m.vertices
  /\ preproc \in Algorithms
  /\ linkState = [t \in Tris |-> {}] /\ endpoint = {} /\ stripped = {}
  /\ unstripped = [t \in Tris |-> NeighboursCount(t)]
  /\ lists = [c \in 0 .. 3 |-> <<>>] /\ core = <<>> /\ coreDirs = <<>>
  /\ endpoints = <<>> /\ stripsCount = 0
  /\ pc = "Order"
  /\ grow = NoEnd /\ growNext = NoEnd /\ firstEnd = Null

-----------------------------------------------------------------------------
\* rm_tristripper_create_strips_ex_isolated
Isolate ==
  /\ pc = "Order" /\ preproc = "isolated"
  /\ pc' = "Start"
  /\ endpoint' = 1 .. trisCount
  /\ endpoints' = [i \in 1 .. trisCount |-> trisCount + 1 - i]
  /\ stripsCount' = trisCount
  /\ UNCHANGED <<mesh, linkState, adjVars, preproc, growVars>>

OrderTris ==
  /\ pc = "Order" /\ preproc # "isolated"
  /\ pc' = "Core"
  /\ lists' = OrderedLists
  /\ UNCHANGED <<mesh, stripVars, stripped, unstripped, coreVars, preproc,
                 endpoints, stripsCount, growVars>>

NoCoreLeft ==
  /\ pc = "Core" /\ ~HasCore
  /\ pc' = "Start"
  /\ UNCHANGED <<mesh, stripVars, adjVars, preproc, endpoints, stripsCount,
                 growVars>>

\* Both sides of the edge d of t are linked.  Mutant: by the same index.
LinkedBySameIndex(t, d) ==
  [linkState EXCEPT ![t] = @ \cup {d}, ![neighbours[t][d]] = @ \cup {d}]
LinkedAcross(t, d) ==
  [linkState EXCEPT ![t] = @ \cup {d}, ![neighbours[t][d]] = @ \cup {indices[t][d]}]

\* The triangles of list become endpoints, one after the other.  Mutant: only
\* the first one is flagged.
MarkFirstEndpoint(list) ==
  /\ endpoint' = endpoint \cup {list[1]}
  /\ endpoints' = [i \in DOMAIN list |-> list[Len(list) + 1 - i]] \o endpoints
MarkEndpoints(list) ==
  /\ endpoint' = endpoint \cup {list[i] : i \in DOMAIN list}
  /\ endpoints' = [i \in DOMAIN list |-> list[Len(list) + 1 - i]] \o endpoints

\* rm_tristripper_delineate_strip_pairs, rm_tristripper_delineate_strip_stripify:
\* the first core triangle; both triangles of a pair are endpoints at once.
DelineateFirst ==
  /\ pc = "Core" /\ HasCore
  /\ StripFirst
  /\ pc' = "Second"
  /\ stripsCount' = stripsCount + 1
  /\ IF preproc = "pairs" THEN MarkEndpoints(<<FirstCore>>)
                           ELSE UNCHANGED <<endpoint, endpoints>>
  /\ UNCHANGED <<mesh, linkState, preproc, growVars>>

DelineateSecond ==
  /\ pc = "Second"
  /\ StripNext
  /\ linkState' = LinkedAcross(LastCore, NextCoreDir)
  /\ IF preproc = "pairs"
     THEN pc' = "Core" /\ MarkEndpoints(<<NextCore>>)
     ELSE pc' = "Third" /\ UNCHANGED <<endpoint, endpoints>>
  /\ UNCHANGED <<mesh, preproc, stripsCount, growVars>>

\* A strip of fewer triangles than its core can have.
FinishShortStrip ==
  /\ pc \in {"Second", "Third"} /\ NextCoreDir = NotFound
  /\ pc' = "Core"
  /\ IF preproc = "pairs" THEN UNCHANGED <<endpoint, endpoints>>
                           ELSE MarkEndpoints(core)
  /\ UNCHANGED <<mesh, linkState, adjVars, preproc, stripsCount, growVars>>

\* From a core of three the strip grows from the second over the first one,
\* then from the second over the third.
DelineateThird ==
  LET entrances == CoreEntrances(Edge(core[1], coreDirs[1]),
                                 Edge(core[2], NextCoreDir))
  IN  /\ pc = "Third"
      /\ StripNext
      /\ linkState' = LinkedAcross(LastCore, NextCoreDir)
      /\ pc' = "Grow"
      /\ grow' = EndOf(core[1], coreDirs[1], entrances[1])
      /\ growNext' = EndOf(NextCore, indices[LastCore][NextCoreDir], entrances[3])
      /\ UNCHANGED <<mesh, endpoint, preproc, endpoints, stripsCount, firstEnd>>

\* rm_tristripper_delineate_strip_stripify_loop, one triangle ...
GrowTo == GrowDir(grow.tri, grow.indexToPrev, grow.entrance)

GrowStrip ==
  LET t == grow.tri
      next == neighbours[t][GrowTo]
  IN  /\ pc = "Grow" /\ GrowTo # NotFound
      /\ linkState' = LinkedAcross(t, GrowTo)
      /\ SetStrippedAndPropagate(next)
      /\ grow' = EndOf(next, indices[t][GrowTo], Opposite(t, grow.indexToPrev))
      /\ UNCHANGED <<mesh, endpoint, preproc, endpoints, stripsCount, pc,
                     growNext, firstEnd, coreVars>>

\* ... until it cannot go on; then the other end, and then the next strip.
TurnAround ==
  /\ pc = "Grow" /\ GrowTo = NotFound /\ growNext # NoEnd
  /\ firstEnd' = grow.tri
  /\ grow' = growNext /\ growNext' = NoEnd
  /\ UNCHANGED <<mesh, stripVars, adjVars, preproc, endpoints, stripsCount, pc>>

FinishStrip ==
  /\ pc = "Grow" /\ GrowTo = NotFound /\ growNext = NoEnd
  /\ pc' = "Core"
  /\ MarkEndpoints(<<firstEnd, grow.tri>>)
  /\ grow' = NoEnd /\ firstEnd' = Null
  /\ UNCHANGED <<mesh, linkState, adjVars, preproc, stripsCount, growNext>>

Finished == pc = "Start" /\ UNCHANGED vars

Step ==
  \/ Isolate \/ OrderTris \/ NoCoreLeft
  \/ DelineateFirst \/ DelineateSecond \/ DelineateThird \/ FinishShortStrip
  \/ GrowStrip \/ TurnAround \/ FinishStrip

Next == Step \/ Finished

Spec == Init /\ [][Next]_vars /\ WF_vars(Next)

=============================================================================
