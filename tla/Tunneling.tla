------------------------------ MODULE Tunneling -----------------------------
(***************************************************************************)
(* The tunneling phase (src/rm_tristripper_ex.c): from every endpoint of   *)
(* the current strips, dig a tunnel - a path whose edges alternate between *)
(* unlinked and linked, ending at another endpoint - and flip its edges,   *)
(* which joins two strips into one; undo the flip when it closes a circle. *)
(*                                                                         *)
(* The functions are sequential.  An action is one pass through the body   *)
(* of one of their loops, and pc says which one is next:                   *)
(*   Start, PassEnd        ..._tri_create_strips_from_endpoints            *)
(*   Pass, Endpoint        rm_tristripper_tunnel_all_the_strips            *)
(*   Dig, Push, Expand     rm_tristripper_dig_tunnel                       *)
(*   Backtrack, Retreat    rm_tristripper_backtrack_tunnel                 *)
(*   Cement, Flip, Undo    rm_tristripper_cement_tunnel                    *)
(*   Check, Walk           rm_tristripper_check_tunnel_for_circles         *)
(*   Done / Exit           tunneling is over / rm_exit was called          *)
(* rm_assert is compiled out of release builds, which `make all' builds:   *)
(* the actions do not test it, AssertionsHold says that it never fires.    *)
(***************************************************************************)
EXTENDS TriArray

CONSTANTS
  Meshes,    \* the meshes: records of trisCount, neighbours, indices, vertices
  Configs    \* the configurations: records of the fields of ConfigSet

\* The part of rm_tristripper_config that tunneling reads; 0 stands for
\* RM_TRISTRIPPER_NO_LOOP_LIMIT and for RM_TRISTRIPPER_NO_DEST_COUNT.
ConfigSet == [maxCount : Nat, incremental : BOOLEAN, loopLimit : Nat,
              backtrackAfterLoopLimit : BOOLEAN, destCount : Nat]

ASSUME ConfigsAssumption == Configs \subseteq ConfigSet

\* What rm_tristripper_build_tris returns; create_strips stops without it.
ASSUME MeshesAssumption ==
  \A m \in Meshes : IsMesh(m.trisCount, m.neighbours, m.indices)

VARIABLES
  config,       \* the configuration; incremental tunneling overwrites maxCount
  limit,        \* its maxCount before that
  endpoints,    \* the list of endpoints
  stripsCount,  \* how many strips are left
  pc,
  hasFound,     \* has this pass over the endpoints found a tunnel?
  first,        \* the endpoint that is being tunneled from
  tunnel,       \* the stack: tunnel[k + 1] is the C array's tunnel[k]
  tunnelState,  \* the successors of a triangle that are still to try
  tunnelIndex,  \* the position of a visited triangle in the tunnel
  visited,      \* the triangles whose IS_VISITED flag is set
  loopCount,    \* the iterations of this search, counted under a loop limit
  isolated,     \* the ends of the tunnel that were isolated before the flip
  step,         \* the loop index of the flip and of the circle check
  walker,       \* the triangle the circle check has reached
  backIndex,    \* the position at walker of the triangle it came from
  circleIndex   \* the largest tunnel index met on the strip being checked

passVars == <<config, limit, endpoints, stripsCount, hasFound, first>>
searchVars == <<tunnel, tunnelState, tunnelIndex, visited, loopCount>>
checkVars == <<isolated, step, walker, backIndex, circleIndex>>
vars == <<mesh, stripVars, passVars, pc, searchVars, checkVars>>

-----------------------------------------------------------------------------
\* The tunnel by the indices of the C array.
Top == Len(tunnel) - 1
At(k) == tunnel[k + 1]
SuccessorIndex(t) == tunnelState[t] % 4

\* rm_tristripper_create_strips truncates config->max_count to an even
\* number between 2 and both the number of triangles and UINT16_MAX.
\* Mutant: an odd number stays odd.
MinOf(a, b) == IF a < b THEN a ELSE b
MaxOf(a, b) == IF a > b THEN a ELSE b
TruncatedToOdd(c, n) == MaxOf(MinOf(MinOf(c, n), 65535), 2)
TruncatedMaxCount(c, n) == MaxOf((MinOf(MinOf(c, n), 65535) \div 2) * 2, 2)

Init ==
  /\ \E m \in Meshes :
       /\ trisCount = m.trisCount
       /\ neighbours = m.neighbours
       /\ indices = m.indices
       /\ vertices = m.vertices
  /\ \E c \in Configs :
       config = [c EXCEPT !.maxCount = TruncatedMaxCount(@, trisCount)]
  \* rm_tristripper_create_strips_ex_isolated: every triangle is a strip.  The
  \* byte of the tunnel state still holds the number of neighbours.
  /\ linkState = [t \in Tris |-> {}]
  /\ endpoint = 1 .. trisCount
  /\ endpoints = [i \in 1 .. trisCount |-> trisCount + 1 - i]
  /\ stripsCount = trisCount
  /\ pc = "Start"
  /\ limit = 0 /\ hasFound = FALSE /\ first = Null
  /\ tunnel = <<>> /\ visited = {} /\ loopCount = 0
  /\ tunnelState = [t \in Tris |-> NeighboursCount(t)]
  /\ tunnelIndex = [t \in Tris |-> 0]
  /\ isolated = {} /\ step = 0 /\ walker = Null
  /\ backIndex = 0 /\ circleIndex = 0

-----------------------------------------------------------------------------
(***************************************************************************)
(* The passes over the endpoints.                                          *)
(***************************************************************************)
\* Incremental tunneling runs with max_count = 2, 4, ... up to the given one.
StartTunneling ==
  /\ pc = "Start"
  /\ pc' = "Pass"
  /\ limit' = config.maxCount
  /\ config' = IF config.incremental THEN [config EXCEPT !.maxCount = 2]
                                     ELSE config
  /\ UNCHANGED <<mesh, stripVars, endpoints, stripsCount, hasFound, first,
                 searchVars, checkVars>>

StartPass ==
  /\ pc = "Pass"
  /\ pc' = "Endpoint"
  /\ hasFound' = FALSE
  /\ first' = HeadOf(endpoints)
  /\ UNCHANGED <<mesh, stripVars, config, limit, endpoints, stripsCount,
                 searchVars, checkVars>>

\* Is there another pass with the same length?  Mutant: as long as there is
\* more than one strip.
PassAgainAnyway == stripsCount > 1
PassAgain == hasFound /\ stripsCount > 1

EndPass ==
  /\ pc = "PassEnd"
  /\ LET again == PassAgain
         deeper == config.incremental /\ config.maxCount + 2 <= limit
     IN  /\ pc' = IF again \/ deeper THEN "Pass" ELSE "Done"
         /\ config' = IF deeper /\ ~again
                      THEN [config EXCEPT !.maxCount = @ + 2] ELSE config
  /\ UNCHANGED <<mesh, stripVars, limit, endpoints, stripsCount, hasFound,
                 first, searchVars, checkVars>>

\* The end of the loop body: go on with endpoint t if there is work left.
ContinueWith(t, count) ==
  /\ first' = t
  /\ pc' = IF t # Null /\ count > 1 THEN "Endpoint" ELSE "PassEnd"

\* rm_tristripper_dig_tunnel has returned false.
DigFailed ==
  /\ ContinueWith(NextInList(first, endpoints), stripsCount)
  /\ UNCHANGED <<config, limit, endpoints, stripsCount, hasFound>>

DestCountReached == config.destCount # 0 /\ stripsCount <= config.destCount

StopAtDestCount ==
  /\ pc = "Endpoint" /\ DestCountReached
  /\ pc' = "PassEnd"
  /\ hasFound' = FALSE
  /\ UNCHANGED <<mesh, stripVars, config, limit, endpoints, stripsCount,
                 first, searchVars, checkVars>>

\* The first endpoint is opened by hand: it is red and may go to every
\* neighbour that it is not linked to.
OpenedFirst(t) ==
  LET add(s, d) == IF neighbours[t][d] # Null /\ d \notin Links(t)
                   THEN AddTunnelState(s, d) ELSE s
  IN  add(add(add(TunnelStateDepleted, 0), 1), 2)

\* Without an endpoint to start from the program would stop here, reading null.
StartDig ==
  /\ pc = "Endpoint" /\ ~DestCountReached
  /\ first # Null
  /\ tunnelState' = [tunnelState EXCEPT ![first] = OpenedFirst(first)]
  /\ IF OpenedFirst(first) = TunnelStateDepleted
     THEN /\ DigFailed
          /\ UNCHANGED <<tunnel, tunnelIndex, visited, loopCount>>
     ELSE /\ pc' = "Dig"
          /\ tunnel' = <<first>>
          /\ visited' = visited \cup {first}
          /\ tunnelIndex' = [tunnelIndex EXCEPT ![first] = 0]
          /\ loopCount' = 0
          /\ UNCHANGED passVars
  /\ UNCHANGED <<mesh, stripVars, checkVars>>

-----------------------------------------------------------------------------
(***************************************************************************)
(* The depth-first search of rm_tristripper_dig_tunnel.                    *)
(***************************************************************************)
\* rm_tristripper_backtrack_tunnel: drop everything above index k (it does
\* nothing when k is above the tunnel) ...  Mutant: unvisits one too few.
BacktrackToButOne(k, vis, label) ==
  /\ pc' = label
  /\ visited' = vis \ {At(j) : j \in k + 2 .. Top}
  /\ tunnel' = SubSeq(tunnel, 1, MinOf(k, Top) + 1)
BacktrackTo(k, vis, label) ==
  /\ pc' = label
  /\ visited' = vis \ {At(j) : j \in k + 1 .. Top}
  /\ tunnel' = SubSeq(tunnel, 1, MinOf(k, Top) + 1)

\* ... then, from there down, abandon the triangles with no state left.
Backtrack(label, resume) ==
  LET curr == At(Top)
      next == SelectNextTunnelState(tunnelState[curr])
  IN  /\ pc = label
      /\ tunnelState' = [tunnelState EXCEPT ![curr] = next]
      /\ IF next # TunnelStateDepleted
         THEN /\ pc' = resume
              /\ UNCHANGED <<tunnel, visited, passVars>>
         ELSE /\ visited' = visited \ {curr}
              /\ IF Top = 0
                 THEN DigFailed /\ UNCHANGED tunnel
                 ELSE /\ tunnel' = SubSeq(tunnel, 1, Top)
                      /\ UNCHANGED <<pc, passVars>>
      /\ UNCHANGED <<mesh, stripVars, tunnelIndex, checkVars>>

BacktrackTunnel ==
  Backtrack("Backtrack", "Dig") /\ UNCHANGED loopCount

\* Backtracking after the loop limit resets the count and goes on.
RetreatTunnel ==
  /\ Backtrack("Retreat", "Push")
  /\ loopCount' = IF pc' = "Push" THEN 0 ELSE loopCount

LoopLimitReached == config.loopLimit # 0 /\ loopCount >= config.loopLimit

\* The loop limit without backtracking.  The loop that unvisits the tunnel
\* clears the flag of tunnel[tunnel_index] every time round.
CancelDig ==
  /\ pc = "Dig" /\ LoopLimitReached /\ ~config.backtrackAfterLoopLimit
  /\ visited' = visited \ {At(Top)}
  /\ DigFailed
  /\ loopCount' = loopCount + 1
  /\ UNCHANGED <<mesh, stripVars, tunnel, tunnelState, tunnelIndex, checkVars>>

RetreatDig ==
  /\ pc = "Dig" /\ LoopLimitReached /\ config.backtrackAfterLoopLimit
  /\ BacktrackTo(0, visited, "Retreat")
  /\ loopCount' = loopCount + 1
  /\ UNCHANGED <<mesh, stripVars, passVars, tunnelState, tunnelIndex,
                 checkVars>>

\* Push the selected successor of the last triangle.  Triangles at even
\* indices are red; a black endpoint may close the tunnel.
Push ==
  LET last == At(Top)
      curr == neighbours[last][SuccessorIndex(last)]
      isRed == Len(tunnel) % 2 = 0
  IN  /\ \/ pc = "Push" /\ UNCHANGED loopCount
         \/ /\ pc = "Dig" /\ ~LoopLimitReached
            /\ loopCount' = IF config.loopLimit # 0 THEN loopCount + 1
                                                    ELSE loopCount
      /\ tunnel' = Append(tunnel, curr)
      /\ visited' = visited \cup {curr}
      /\ tunnelIndex' = [tunnelIndex EXCEPT ![curr] = Len(tunnel)]
      /\ pc' = IF ~isRed /\ curr \in endpoint THEN "Cement" ELSE "Expand"
      /\ UNCHANGED <<mesh, stripVars, passVars, tunnelState, checkVars>>

\* rm_tristripper_open_tri: a red triangle goes on across unlinked edges, a
\* black one across linked edges, to triangles that are not visited.
\* Mutants: visited triangles too; across any edge from a black one.
OpenedVisitedToo(t, indexToPrev, isRed) ==
  LET add(s, d) == IF neighbours[t][d] # Null /\ isRed # (d \in Links(t))
                   THEN AddTunnelState(s, d) ELSE s
  IN  add(add(TunnelStateDepleted, RemainingIndex(indexToPrev, 0)),
          RemainingIndex(indexToPrev, 1))
OpenedUnlinkedToo(t, indexToPrev, isRed) ==
  LET add(s, d) == IF /\ neighbours[t][d] # Null
                      /\ isRed => d \notin Links(t)
                      /\ neighbours[t][d] \notin visited
                   THEN AddTunnelState(s, d) ELSE s
  IN  add(add(TunnelStateDepleted, RemainingIndex(indexToPrev, 0)),
          RemainingIndex(indexToPrev, 1))
OpenedTri(t, indexToPrev, isRed) ==
  LET add(s, d) == IF /\ neighbours[t][d] # Null
                      /\ isRed # (d \in Links(t))
                      /\ neighbours[t][d] \notin visited
                   THEN AddTunnelState(s, d) ELSE s
  IN  add(add(TunnelStateDepleted, RemainingIndex(indexToPrev, 0)),
          RemainingIndex(indexToPrev, 1))

\* The index of the top triangle's predecessor, as the top triangle sees it.
IndexToPrev == indices[At(Top - 1)][SuccessorIndex(At(Top - 1))]

\* Mutants: notices the last place of the stack one push too late, or too early.
TunnelIsFullLate == Top = config.maxCount
TunnelIsFullEarly == Top >= config.maxCount - 2
TunnelIsFull == Top = config.maxCount - 1

ExpandTunnel ==
  LET curr == At(Top)
      opened == OpenedTri(curr, IndexToPrev, Top % 2 = 0)
  IN  /\ pc = "Expand"
      /\ tunnelState' = IF TunnelIsFull THEN tunnelState ELSE
                          [tunnelState EXCEPT ![curr] = opened]
      /\ IF TunnelIsFull \/ opened = TunnelStateDepleted
         THEN BacktrackTo(Top - 1, visited, "Backtrack")
         ELSE pc' = "Dig" /\ UNCHANGED <<tunnel, visited>>
      /\ UNCHANGED <<mesh, stripVars, passVars, tunnelIndex, loopCount,
                     checkVars>>

-----------------------------------------------------------------------------
(***************************************************************************)
(* rm_tristripper_cement_tunnel: flip the edges, look for circles, undo.   *)
(***************************************************************************)
StartCement ==
  /\ pc = "Cement"
  /\ pc' = "Flip"
  /\ isolated' = {t \in {At(0), At(Top)} : IsIsolated(t)}
  /\ linkState' = [linkState EXCEPT ![At(0)] = SaveLinkState(@)]
  /\ step' = 0
  /\ UNCHANGED <<mesh, endpoint, passVars, searchVars, walker, backIndex,
                 circleIndex>>

\* One edge of the tunnel: save the successor, then link or unlink both.
FlipEdge ==
  LET curr == At(step)
      next == At(step + 1)
      d == SuccessorIndex(curr)
      e == indices[curr][d]
      flip(s, b) == IF step % 2 = 0 THEN s \cup {b} ELSE s \ {b}
  IN  /\ pc = "Flip" /\ step < Top
      /\ linkState' = [linkState EXCEPT
                         ![curr] = flip(@, d),
                         ![next] = flip(SaveLinkState(@), e)]
      /\ step' = step + 1
      /\ UNCHANGED <<mesh, endpoint, pc, passVars, searchVars, isolated,
                     walker, backIndex, circleIndex>>

\* An end that was isolated has one link now and stays an endpoint.
UnmarkEndpoints ==
  /\ pc = "Flip" /\ step = Top
  /\ pc' = "Check"
  /\ endpoint' = endpoint \ ({At(0), At(Top)} \ isolated)
  /\ step' = 0
  /\ circleIndex' = 0
  /\ UNCHANGED <<mesh, linkState, passVars, searchVars, isolated, walker,
                 backIndex>>

\* rm_tristripper_check_tunnel_for_circles: each red triangle that has not
\* been met on the way starts a walk along its strip, away from itself.
StartWalk ==
  LET starter == At(step)
      d == SuccessorIndex(starter)
      next == neighbours[starter][d]
  IN  /\ pc = "Check" /\ step < Top /\ starter \in visited
      /\ pc' = "Walk"
      /\ walker' = next
      /\ backIndex' = indices[starter][d]
      /\ circleIndex' = tunnelIndex[next]
      /\ visited' = visited \ {next}
      /\ UNCHANGED <<mesh, stripVars, passVars, tunnel, tunnelState,
                     tunnelIndex, loopCount, isolated, step>>

SkipStarter ==
  /\ pc = "Check" /\ step < Top /\ At(step) \notin visited
  /\ step' = step + 2
  /\ UNCHANGED <<mesh, stripVars, passVars, pc, searchVars, isolated, walker,
                 backIndex, circleIndex>>

\* The walk is back at the triangle it started from.  Mutant: only at the
\* first triangle of the tunnel.
ClosesCircleAtFirst(t) == t \in visited /\ t = At(0)
ClosesCircle(t) == t \in visited /\ t = At(step)

\* The largest tunnel index on the way.  Mutant: the latest one.
LatestIndex(t) == IF t \in visited THEN tunnelIndex[t] ELSE circleIndex
LargestIndex(t) == IF t \in visited THEN MaxOf(circleIndex, tunnelIndex[t])
                                    ELSE circleIndex

\* The walk moves one triangle along the strip; an inner triangle that it
\* cannot leave stops the program.
WalkOn ==
  LET d == StripDir(walker, backIndex)
      next == neighbours[walker][d]
  IN  /\ pc = "Walk" /\ walker \notin endpoint
      /\ IF StripDirs(walker, backIndex) = {}
         THEN pc' = "Exit" /\ UNCHANGED <<walker, backIndex>>
         ELSE /\ walker' = next
              /\ backIndex' = indices[walker][d]
              /\ pc' = IF ClosesCircle(next) THEN "Undo" ELSE "Walk"
      /\ visited' = IF pc' = "Walk" THEN visited \ {next} ELSE visited
      /\ circleIndex' = IF pc' = "Walk" THEN LargestIndex(next)
                                         ELSE circleIndex
      /\ UNCHANGED <<mesh, stripVars, passVars, tunnel, tunnelState,
                     tunnelIndex, loopCount, isolated, step>>

\* The walk has come to an endpoint: there is no circle through the starter.
EndWalk ==
  /\ pc = "Walk" /\ walker \in endpoint
  /\ pc' = "Check"
  /\ visited' = visited \ {At(step)}
  /\ step' = step + 2
  /\ UNCHANGED <<mesh, stripVars, passVars, tunnel, tunnelState, tunnelIndex,
                 loopCount, isolated, walker, backIndex, circleIndex>>

\* A circle: visit the tunnel again and restore its links and its endpoints,
\* then go back to the last triangle on both the tunnel and the circle.
\* Mutant: the loop stops before the last triangle.
OccurrencesButLast(t) == {k \in 0 .. Top - 1 : At(k) = t}
Occurrences(t) == {k \in 0 .. Top : At(k) = t}
LastOccurrence(t) ==
  CHOOSE k \in Occurrences(t) : \A j \in Occurrences(t) : j <= k

UndoTunnel ==
  LET all == visited \cup {At(k) : k \in 0 .. Top}
  IN  /\ pc = "Undo"
      /\ linkState' = [t \in Tris |-> RestoreLinkState(linkState[t],
                                          Cardinality(Occurrences(t)))]
      /\ tunnelIndex' = [t \in Tris |->
                           IF Occurrences(t) = {} THEN tunnelIndex[t]
                                                  ELSE LastOccurrence(t)]
      /\ endpoint' = endpoint \cup {At(0), At(Top)}
      /\ IF circleIndex = Top
         THEN pc' = "Expand" /\ visited' = all /\ UNCHANGED tunnel
         ELSE BacktrackTo(circleIndex, all, "Backtrack")
      /\ UNCHANGED <<mesh, passVars, tunnelState, loopCount, checkVars>>

-----------------------------------------------------------------------------
(***************************************************************************)
(* The tunnel stays.  The strips it joined are one; ends that are inner    *)
(* triangles now leave the list, and the search goes on behind "first",    *)
(* but never at the other end of the tunnel.                               *)
(***************************************************************************)
StillListed(list, t) == IF t \in endpoint THEN list ELSE RemoveFromList(t, list)

TunnelFound ==
  LET second == At(Top)
      next == NextInList(first, endpoints)
  IN  /\ pc = "Check" /\ step >= Top
      /\ hasFound' = TRUE
      /\ stripsCount' = stripsCount - 1
      /\ endpoints' = StillListed(StillListed(endpoints, first), second)
      /\ ContinueWith(IF first \in endpoint THEN first
                      ELSE IF next # second THEN next
                      ELSE NextInList(second, endpoints),
                      stripsCount - 1)
      /\ UNCHANGED <<mesh, stripVars, config, limit, searchVars, checkVars>>

Finished == pc = "Done" /\ UNCHANGED vars

Step ==
  \/ StartTunneling \/ StartPass \/ EndPass
  \/ StopAtDestCount \/ StartDig \/ TunnelFound
  \/ CancelDig \/ RetreatDig \/ Push \/ ExpandTunnel
  \/ BacktrackTunnel \/ RetreatTunnel
  \/ StartCement \/ FlipEdge \/ UnmarkEndpoints \/ UndoTunnel
  \/ StartWalk \/ SkipStarter \/ WalkOn \/ EndWalk

Next == Step \/ Finished

\* The code is one sequential call: it keeps running until it returns.
Fairness == WF_vars(Next)
Spec == Init /\ [][Next]_vars /\ Fairness

=============================================================================
