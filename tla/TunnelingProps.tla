--------------------------- MODULE TunnelingProps ---------------------------
(***************************************************************************)
(* What tunneling must guarantee.                                          *)
(***************************************************************************)
EXTENDS Tunneling

\* Where the links are changing, or may have to be changed back.
Cementing == {"Flip", "Check", "Walk", "Undo"}
\* Where dig_tunnel's loop runs.
Digging == {"Dig", "Push", "Expand", "Backtrack", "Retreat", "Cement"}
\* Where no tunnel is being dug.
Quiet == {"Start", "Pass", "PassEnd", "Endpoint", "Done"}

\* The type invariant: every variable holds what the C field that it models
\* can hold, and an index of the tunnel stays inside its allocation.
TypeOK ==
  /\ MeshOK /\ StripTypeOK
  /\ config \in ConfigSet /\ limit \in Nat
  /\ endpoints \in Seq(Tris) /\ stripsCount \in Int
  /\ pc \in Quiet \cup Digging \cup Cementing \cup {"Exit"}
  /\ hasFound \in BOOLEAN /\ first \in Tris \cup {Null}
  /\ tunnel \in Seq(Tris) /\ Len(tunnel) <= config.maxCount
  /\ tunnelState \in [Tris -> Byte]
  /\ tunnelIndex \in [Tris -> UInt16]
  /\ visited \subseteq Tris /\ loopCount \in Nat
  /\ isolated \subseteq Tris /\ step \in Nat /\ walker \in Tris \cup {Null}
  /\ backIndex \in Byte /\ circleIndex \in Nat

\* The assertions of rm_tristripper_ex.c and rm_tristripper_tri.h, each where
\* it stands: no debug build ever stops in rm_assert or rm_exit.
AboutToPush == pc = "Push" \/ (pc = "Dig" /\ ~LoopLimitReached)
AssertionsHold ==
  /\ pc = "Endpoint" => first \in endpoint                       \* 631, 691
  /\ AboutToPush =>
       /\ Top < config.maxCount - 1                                   \* 762
       /\ SuccessorIndex(At(Top)) \in Dir
       /\ neighbours[At(Top)][SuccessorIndex(At(Top))] \notin visited \* 772
  /\ pc = "Expand" => Top >= 1                                        \* 888
  /\ pc = "Undo" => circleIndex <= Top                                \* 888
  /\ pc = "Cement" =>                                          \* 1010, 1011
       At(0) \in endpoint /\ Top % 2 = 1 /\ At(Top) \in endpoint
  /\ pc = "Flip" /\ step < Top => SuccessorIndex(At(step)) \in Dir
  /\ pc \in {"Flip", "Check"} /\ step < Top =>                  \* 955, 1032
       At(step + 1) = neighbours[At(step)][SuccessorIndex(At(step))]
  /\ pc # "Exit"                                                      \* 442

\* The two sides of every linked edge agree, at every step: also half way
\* through flipping a tunnel, and after any number of failed searches.
LinksAgree ==
  \A t \in Tris : \A d \in Links(t) :
    /\ neighbours[t][d] # Null
    /\ indices[t][d] \in Links(neighbours[t][d])

\* Outside of cementing, a triangle is flagged as an endpoint if and only if
\* it has at most one link, and the list that the passes walk along and that
\* the strips are collected from holds exactly the flagged ones, once each.
EndpointList ==
  /\ pc \notin Cementing =>
       endpoint = {t \in InUse : Cardinality(Links(t)) <= 1}
  /\ pc \in Quiet => ElementsOf(endpoints) = endpoint
  /\ \A i, j \in DOMAIN endpoints : i # j => endpoints[i] # endpoints[j]

\* The visited flags are exactly the tunnel while one is being dug, however it
\* backtracks; and every one is cleared when the search ends, either way: a
\* flag left behind would hide its triangle from all the searches to come.
VisitedIsTunnel ==
  /\ pc \in Digging \cup {"Flip"} => visited = ElementsOf(tunnel)
  /\ pc \in Quiet => visited = {}

\* The tunnel is a simple path that starts at an endpoint and whose edges are
\* in turn unlinked and linked.
TunnelAlternates ==
  pc \in Digging =>
    /\ At(0) = first /\ first \in endpoint
    /\ \A j, k \in 0 .. Top : j # k => At(j) # At(k)
    /\ \A k \in 0 .. Top - 1 :
         LET d == SuccessorIndex(At(k))
         IN  /\ d \in Dir /\ neighbours[At(k)][d] = At(k + 1)
             /\ (d \in Links(At(k))) = (k % 2 = 1)

\* A strip without an end.
IsCircle(S) == \A t \in S : Cardinality(Links(t)) = 2

\* The circle check is exact: it fails only when a strip through the tunnel is
\* a circle, it reports the last tunnel triangle on that circle, and it
\* succeeds only when no strip through the tunnel is one.
CircleCheckExact ==
  /\ pc = "Undo" =>
       LET circle == StripOf(At(step))
       IN  /\ IsCircle(circle)
           /\ circleIndex \in 0 .. Top
           /\ At(circleIndex) \in circle
           /\ \A k \in circleIndex + 1 .. Top : At(k) \notin circle
  /\ pc = "Check" /\ step >= Top =>
       \A k \in 0 .. Top : ~IsCircle(StripOf(At(k)))

-----------------------------------------------------------------------------
(***************************************************************************)
(* The tunnels that a cover has, stated without a search: links[t] are the *)
(* positions that t is linked at, and a path is the sequence of the sides  *)
(* <<t, d>> that it leaves its triangles by.                               *)
(***************************************************************************)
Across(side) == neighbours[side[1]][side[2]]
Leaves(path, n) == {path[i][1] : i \in 1 .. n}
Visits(path) == Leaves(path, Len(path)) \cup {Across(path[Len(path)])}

\* The sides that triangle t may be left by across linked, or unlinked, edges, and
\* the paths of P that go on across one of them.
SidesOut(links, t, isLinked) ==
  {<<t, d>> : d \in {e \in Dir : /\ neighbours[t][e] # Null
                                /\ (e \in links[t]) = isLinked}}
Extended(links, P, isLinked) ==
  UNION {{Append(p, side) :
            side \in {s \in SidesOut(links, Across(p[Len(p)]), isLinked) :
                       Across(s) \notin Visits(p)}} : p \in P}

\* The paths of up to n sides from triangle a whose edges are in turn unlinked
\* and linked, unlinked ones at both ends, and that visit no triangle twice.
AlternatingFrom(links, a, n) ==
  LET paths[k \in 1 .. n] ==
        IF k = 1 THEN {<<side>> : side \in SidesOut(links, a, FALSE)}
                 ELSE Extended(links, paths[k - 1], k % 2 = 0)
  IN  UNION {paths[k] : k \in {i \in 1 .. n : i % 2 = 1}}
ClosingFrom(links, a, n) ==
  {p \in AlternatingFrom(links, a, n) : Across(p[Len(p)]) \in endpoint}

\* The circles there are when the edges of a path are flipped.
LinksAfter(links, path) ==
  LET flips == {path[i] : i \in DOMAIN path} \cup
               {<<Across(path[i]), indices[path[i][1]][path[i][2]]>> :
                  i \in DOMAIN path}
      flipped(t) == {d \in Dir : <<t, d>> \in flips}
  IN  [t \in Tris |-> (links[t] \ flipped(t)) \cup (flipped(t) \ links[t])]
CirclesAfter(links, path) ==
  LET new == LinksAfter(links, path)
      after(t) == new[t]
  IN  Circles(after)

\* "we loop until all DFS paths of depth max_count have been evaluated"
\* (rm_tristripper_common.h:41), "until all paths have been discovered" (:48):
\* when an unlimited search is over, no path is a tunnel any more.
NoTunnelLeft ==
  pc = "Done" /\ config.loopLimit = 0 /\ config.destCount = 0 =>
    \A a \in endpoint : \A path \in ClosingFrom(LinksNow, a, config.maxCount - 1) :
      CirclesAfter(LinksNow, path) # {}

\* A path that closes a circle is given up at the last triangle on both, and with
\* it all the paths that go on from there by the same side.
GivesUpAfter(links, path, n) ==
  \E C \in CirclesAfter(links, path) : Visits(path) \cap C \subseteq Leaves(path, n)

\* When an unlimited search is over, every tunnel that is left begins like a path
\* that was given up on the way: it would have broken the circle again behind the
\* triangle that the search went back to.  Nothing else is ever overlooked,
\* however the searches, the undone tunnels and the passes follow each other.
TunnelsTried ==
  pc = "Done" /\ config.loopLimit = 0 /\ config.destCount = 0 =>
    \A a \in endpoint :
      LET closing == ClosingFrom(LinksNow, a, config.maxCount - 1)
      IN  \A path \in closing :
            CirclesAfter(LinksNow, path) = {} =>
              \E given \in closing, n \in 2 .. Len(path) :
                /\ n % 2 = 0 /\ n < Len(given)
                /\ \A i \in 1 .. n : given[i] = path[i]
                /\ GivesUpAfter(LinksNow, given, n)

-----------------------------------------------------------------------------
(***************************************************************************)
(* Tunneling implements PathCover: while a tunnel is being cemented, the   *)
(* cover is still the one that the saved link states would restore.        *)
(***************************************************************************)
IsSaved(t) ==
  /\ pc \in Cementing
  /\ \E k \in 0 .. IF pc = "Flip" THEN step ELSE Top : At(k) = t
SettledLinks(t) ==
  IF IsSaved(t) THEN LinksOf(RestoreLinkState(linkState[t], 1)) ELSE Links(t)

Cover == INSTANCE PathCover WITH linked <- [t \in Tris |-> SettledLinks(t)]

\* A found tunnel joins two strips: two ends gain a link each, no triangle
\* ever loses one, the result is a path cover again and the count of strips is
\* right; every other step, a failed or undone tunnel too, leaves the cover.
ImplementsPathCover == Cover!Spec

\* Digging, backtracking, retreating and undoing come to an end.
Terminates == <>(pc = "Done")

=============================================================================
