------------------------------- MODULE Output -------------------------------
(***************************************************************************)
(* Writing the strips (src/rm_tristripper_ex.c): from each endpoint of the *)
(* list rm_tristripper_collect_strip follows the links to the other end of *)
(* the strip, takes that one off the list and appends the vertex IDs that  *)
(* spell the strip.  An action collects a short strip, the first three     *)
(* triangles of a longer one, or one triangle more of it.                  *)
(***************************************************************************)
EXTENDS TriArray

VARIABLES
  preserve,      \* config->preserve_orientation
  endpoints, stripsCount, pc,
  first,         \* the endpoint that the next strip starts from
  strips,        \* the strips that are finished: sequences of vertex IDs
  ids,           \* the IDs of the strip that is being collected
  curr,          \* the triangle that has been reached on it
  indexToPrev,   \* where curr has the one before it
  prevEntrance,  \* the entrance vertices of the triangle before curr ...
  entrance       \* ... and of curr

strandVars == <<ids, curr, indexToPrev, prevEntrance, entrance>>

\* All the strips are allocated; the list of endpoints is walked along.
StartOutput ==
  /\ pc = "Done"
  /\ pc' = "Collect"
  /\ first' = Head(endpoints)
  /\ UNCHANGED <<mesh, stripVars, preserve, endpoints, stripsCount, strips,
                 strandVars>>

\* The strip ends at triangle last, which leaves the list (unless it is Null:
\* the strip was the first triangle alone); the next strip starts behind the
\* first triangle.  Mutant: the next one is looked up before last has left.
EndpointsWithout(last) ==
  IF last = Null THEN endpoints ELSE RemoveFromList(last, endpoints)
StaleNextEndpoint(last) == NextInList(first, endpoints)
NextEndpoint(last) == NextInList(first, EndpointsWithout(last))

FinishedStrip(list, last) ==
  /\ strips' = Append(strips, list)
  /\ endpoints' = EndpointsWithout(last)
  /\ first' = NextEndpoint(last)
  /\ pc' = IF Len(strips') = stripsCount THEN "Output" ELSE "Collect"

\* The first and the second link of a strip.
FirstDir == CHOOSE d \in Links(first) : \A e \in Links(first) : d <= e
Second == neighbours[first][FirstDir]
IndexOfFirst == indices[first][FirstDir]

CollectOne ==
  /\ pc = "Collect" /\ Links(first) = {}
  /\ FinishedStrip([i \in 1 .. 3 |-> vertices[first][i - 1]], Null)
  /\ UNCHANGED <<mesh, stripVars, preserve, stripsCount, strandVars>>

CollectTwo ==
  /\ pc = "Collect" /\ Links(first) # {} /\ Second \in endpoint
  /\ FinishedStrip(<<Opposite(first, FirstDir)>> \o Edge(first, FirstDir)
                   \o <<Opposite(Second, IndexOfFirst)>>, Second)
  /\ UNCHANGED <<mesh, stripVars, preserve, stripsCount, strandVars>>

\* Three triangles and more.  When the first one would come out turned over,
\* its first vertex is repeated.  Mutant: when it comes out right.
RepeatsFirstWrongly(entrances) ==
  preserve /\ Edge(first, FirstDir)[1] = entrances[1]
RepeatsFirst(entrances) ==
  preserve /\ Edge(first, FirstDir)[1] # entrances[1]

CollectCore ==
  LET d == StripDir(Second, IndexOfFirst)
      entrances == CoreEntrances(Edge(first, FirstDir), Edge(Second, d))
      tip == Opposite(first, FirstDir)
  IN  /\ pc = "Collect" /\ Links(first) # {} /\ Second \notin endpoint
      /\ StripDirs(Second, IndexOfFirst) # {}
      /\ pc' = "Follow"
      /\ ids' = (IF RepeatsFirst(entrances) THEN <<tip, tip>> ELSE <<tip>>)
                \o entrances
      /\ curr' = neighbours[Second][d]
      /\ indexToPrev' = indices[Second][d]
      /\ prevEntrance' = entrances[2]
      /\ entrance' = entrances[3]
      /\ UNCHANGED <<mesh, stripVars, preserve, endpoints, stripsCount, first,
                     strips>>

\* rm_tristripper_collect_strip_loop: the vertex that completes curr, after a
\* swap if the edge to the next triangle does not contain curr's entrance.
Completing == Opposite(curr, indexToPrev)

\* Mutant: the swap is left out.
PushedWithoutSwap(isNear) == <<Completing>>
Pushed(isNear) == IF isNear THEN <<Completing>> ELSE <<prevEntrance, Completing>>

FollowStrip ==
  LET d == StripDir(curr, indexToPrev)
      isNear == entrance \in {Edge(curr, d)[1], Edge(curr, d)[2]}
  IN  /\ pc = "Follow" /\ curr \notin endpoint
      /\ StripDirs(curr, indexToPrev) # {}
      /\ curr' = neighbours[curr][d]
      /\ indexToPrev' = indices[curr][d]
      /\ ids' = ids \o Pushed(isNear)
      /\ prevEntrance' = IF isNear THEN entrance ELSE prevEntrance
      /\ entrance' = Completing
      /\ UNCHANGED <<mesh, stripVars, preserve, endpoints, stripsCount, pc,
                     first, strips>>

FinishStrip ==
  /\ pc = "Follow" /\ curr \in endpoint
  /\ FinishedStrip(Append(ids, Completing), curr)
  /\ UNCHANGED <<mesh, stripVars, preserve, stripsCount, strandVars>>

Step ==
  \/ StartOutput \/ CollectOne \/ CollectTwo \/ CollectCore
  \/ FollowStrip \/ FinishStrip

=============================================================================
