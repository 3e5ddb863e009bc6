------------------------------- MODULE Simple -------------------------------
(***************************************************************************)
(* The algorithm without tunneling (src/rm_tristripper_simple.c): a strip  *)
(* is grown from its core triangles like in Preproc, and its vertex IDs    *)
(* are written on the way - first the prefix, from the second core         *)
(* triangle backward over the first one, in reverse order; then the core   *)
(* entrances and everything from the third core triangle on.  An action    *)
(* adds one triangle, or finishes one end of the strip.                    *)
(***************************************************************************)
EXTENDS Adjacency

VARIABLES
  preserve,     \* config->preserve_orientation
  pc,
  strips,       \* the strips that are finished: sequences of vertex IDs
  ids,          \* the IDs of the strip that is being built
  prefixCount,  \* how many of them are its prefix
  isForward,    \* has the backward end been finished?
  end           \* the end being grown, a record

simpleVars == <<ids, prefixCount, isForward, end>>

\* Whether the first triangle of the strip would come out right as it is.
End(t, index, prevId, id, isOriented) ==
  [tri |-> t, indexToPrev |-> index, prevEntrance |-> prevId, entrance |-> id,
   isOriented |-> isOriented]
NoEnd == End(Null, 0, 0, 0, FALSE)

OrderTris ==
  /\ pc = "SimpleOrder"
  /\ pc' = "SimpleCore"
  /\ lists' = OrderedLists
  /\ UNCHANGED <<mesh, stripVars, stripped, unstripped, coreVars, preserve,
                 strips, simpleVars>>

NoCoreLeft ==
  /\ pc = "SimpleCore" /\ ~HasCore
  /\ pc' = "Output"
  /\ UNCHANGED <<mesh, stripVars, adjVars, preserve, strips, simpleVars>>

-----------------------------------------------------------------------------
\* rm_tristripper_build_strip
BuildFirst ==
  /\ pc = "SimpleCore" /\ HasCore
  /\ StripFirst
  /\ pc' = "SimpleSecond"
  /\ UNCHANGED <<mesh, stripVars, preserve, strips, simpleVars>>

BuildSecond ==
  /\ pc = "SimpleSecond"
  /\ StripNext
  /\ pc' = "SimpleThird"
  /\ UNCHANGED <<mesh, stripVars, preserve, strips, simpleVars>>

\* Strips of one triangle and of two.
ShortStrip ==
  IF Len(core) = 1 THEN [i \in 1 .. 3 |-> vertices[core[1]][i - 1]]
  ELSE <<Opposite(core[1], coreDirs[1])>> \o Edge(core[1], coreDirs[1])
       \o <<Opposite(core[2], indices[core[1]][coreDirs[1]])>>

FinishShortStrip ==
  /\ pc \in {"SimpleSecond", "SimpleThird"} /\ NextCoreDir = NotFound
  /\ pc' = "SimpleCore"
  /\ strips' = Append(strips, ShortStrip)
  /\ UNCHANGED <<mesh, stripVars, adjVars, preserve, simpleVars>>

BuildThird ==
  LET edge == Edge(core[1], coreDirs[1])
      entrances == CoreEntrances(edge, Edge(core[2], NextCoreDir))
  IN  /\ pc = "SimpleThird"
      /\ StripNext
      /\ pc' = "SimpleGrow"
      /\ ids' = <<>> /\ prefixCount' = 0 /\ isForward' = FALSE
      /\ end' = End(core[1], coreDirs[1], entrances[2], entrances[1],
                    edge[1] = entrances[1])
      /\ UNCHANGED <<mesh, stripVars, preserve, strips>>

-----------------------------------------------------------------------------
\* rm_tristripper_build_strip_loop: the vertex that completes the triangle,
\* after a swap if the way on is not near.
GrowTo == GrowDir(end.tri, end.indexToPrev, end.entrance)
Completing == Opposite(end.tri, end.indexToPrev)

\* Every triangle turns the first one of the strip over, a swap twice.
\* Mutant: a swap counts once.
TurnedAlways(isOriented, isNear) == ~isOriented
Turned(isOriented, isNear) == IF isNear THEN ~isOriented ELSE isOriented

GrowOn ==
  LET t == end.tri
      next == neighbours[t][GrowTo]
      isNear == IsNear(t, GrowTo, end.entrance)
  IN  /\ pc = "SimpleGrow" /\ GrowTo # NotFound
      /\ ids' = ids \o (IF isNear THEN <<Completing>>
                                  ELSE <<end.prevEntrance, Completing>>)
      /\ end' = End(next, indices[t][GrowTo],
                    IF isNear THEN end.entrance ELSE end.prevEntrance,
                    Completing, Turned(end.isOriented, isNear))
      /\ SetStrippedAndPropagate(next)
      /\ UNCHANGED <<mesh, stripVars, coreVars, preserve, pc, strips,
                     prefixCount, isForward>>

\* The prefix ends; its last vertex is repeated to fix the orientation.
FinishBackward ==
  LET prefix == ids \o (IF preserve /\ ~end.isOriented
                        THEN <<Completing, Completing>> ELSE <<Completing>>)
      entrances == CoreEntrances(Edge(core[1], coreDirs[1]),
                                 Edge(core[2], coreDirs[2]))
  IN  /\ pc = "SimpleGrow" /\ GrowTo = NotFound /\ ~isForward
      /\ ids' = prefix \o entrances
      /\ prefixCount' = Len(prefix)
      /\ isForward' = TRUE
      /\ end' = End(core[3], indices[core[2]][coreDirs[2]], entrances[2],
                    entrances[3], FALSE)
      /\ UNCHANGED <<mesh, stripVars, adjVars, preserve, pc, strips>>

FinishForward ==
  LET all == Append(ids, Completing)
  IN  /\ pc = "SimpleGrow" /\ GrowTo = NotFound /\ isForward
      /\ pc' = "SimpleCore"
      /\ strips' = Append(strips,
                     [i \in DOMAIN all |->
                        IF i <= prefixCount THEN all[prefixCount + 1 - i]
                                            ELSE all[i]])
      /\ ids' = <<>> /\ prefixCount' = 0 /\ isForward' = FALSE /\ end' = NoEnd
      /\ UNCHANGED <<mesh, stripVars, adjVars, preserve>>

Step ==
  \/ OrderTris \/ NoCoreLeft
  \/ BuildFirst \/ BuildSecond \/ BuildThird \/ FinishShortStrip
  \/ GrowOn \/ FinishBackward \/ FinishForward

=============================================================================
