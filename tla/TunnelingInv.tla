----------------------------- MODULE TunnelingInv ---------------------------
(***************************************************************************)
(* The inductive invariant of tunneling.  Four descriptions of the same    *)
(* path have to agree at every step - the stack, the visited flags, the    *)
(* tunnel indices and the tunnel states - and while the tunnel is being    *)
(* cemented the links are known on both sides of the flip: what they were  *)
(* (SettledLinks, from the saved link states) and what they are now.       *)
(***************************************************************************)
EXTENDS TunnelingProps

\* Cancelling a search clears the visited flag of the tunnel's top only: no
\* configuration cancels, or its tunnels have just two triangles.
CancelsCleanly ==
  \A c \in Configs :
    c.loopLimit = 0 \/ c.backtrackAfterLoopLimit \/ c.maxCount <= 3

Ends(links(_)) == {t \in InUse : AtMostOne(links(t))}

\* The positions that lead from the tunnel's triangle k to k + 1, and back.
Out(k) == SuccessorIndex(At(k))
Back(k) == indices[At(k - 1)][Out(k - 1)]

\* Where a tunnel exists, where its top has a successor selected, where its
\* edges are flipped and its ends have lost their flags.
InTunnel == pc \in Digging \cup Cementing
IsSelected == pc \in {"Dig", "Push", "Backtrack", "Retreat"}
IsFlipped == pc \in {"Check", "Walk", "Undo"}

ArraysOK ==
  /\ MeshOK
  /\ linkState \in [Tris -> SUBSET (0 .. 7)]
  /\ tunnelState \in [Tris -> Byte]
  /\ tunnelIndex \in [Tris -> UInt16]
  /\ endpoint \subseteq InUse /\ visited \subseteq Tris /\ isolated \subseteq Tris

CountersOK ==
  /\ pc \in Quiet \cup Digging \cup Cementing
  /\ stripsCount \in Int /\ hasFound \in BOOLEAN /\ loopCount \in Nat
  /\ first \in Tris \cup {Null}
  /\ step \in Nat /\ circleIndex \in Nat
  /\ walker \in Tris \cup {Null} /\ backIndex \in Byte

ConfigOK ==
  /\ config \in ConfigSet /\ limit \in Nat
  /\ 2 <= config.maxCount /\ config.maxCount <= 65535 /\ limit <= 65535
  /\ \/ config.loopLimit = 0
     \/ config.backtrackAfterLoopLimit
     \/ config.maxCount = 2 /\ limit <= 2

\* The list holds the endpoints, those included that have lost their flags for
\* the time of the circle check; the one that is tunneled from is among them.
Endpoints == IF IsFlipped THEN endpoint \cup {At(0), At(Top)} ELSE endpoint
ListOK ==
  /\ endpoints \in Seq(Tris)
  /\ IsInjectiveList(endpoints)
  /\ ElementsOf(endpoints) = Endpoints
  /\ InTunnel \/ pc = "Endpoint" => first \in Endpoints
  /\ endpoint # {} \/ (IsFlipped /\ step = 0)

\* The stack is a path, each triangle knows its place, and there is room.
PathOK ==
  /\ tunnel \in Seq(Tris) /\ Len(tunnel) <= config.maxCount
  /\ pc = "Start" => tunnel = <<>>
  /\ InTunnel =>
       /\ Len(tunnel) >= 1 /\ At(0) = first
       /\ \A k \in 0 .. Top : At(k) \in InUse /\ tunnelIndex[At(k)] = k
       /\ \A k \in 0 .. Top - 1 : neighbours[At(k)][Out(k)] = At(k + 1)
  /\ IsSelected => Len(tunnel) < config.maxCount
  /\ pc = "Expand" => Len(tunnel) >= 2
  /\ pc \in Cementing \cup {"Cement"} => Top % 2 = 1 /\ At(Top) \in Endpoints

\* The positions that the tunnel's triangle k may be left by: red ones across
\* unlinked edges and black ones across linked edges, forward only.
Permitted(k) ==
  {d \in Dir : /\ neighbours[At(k)][d] # Null
               /\ d \in SettledLinks(At(k)) <=> k % 2 = 1
               /\ \A j \in 0 .. k : At(j) # neighbours[At(k)][d]}

\* The tunnel states with one, two and three positions of D.
Stacks(D) == {12 + d : d \in D} \cup {48 + 4 * d + e : d, e \in D}
               \cup {192 + 16 * d + 4 * e + f : d, e, f \in D}
StatesOK ==
  InTunnel =>
    \A k \in 0 .. Top :
      k < Top \/ IsSelected => tunnelState[At(k)] \in Stacks(Permitted(k))

LinksOK ==
  /\ Agree(SettledLinks) /\ LinksAgree
  /\ Endpoints = Ends(SettledLinks)

VisitedOK ==
  /\ pc \in Quiet => visited = {}
  /\ pc \in Digging \cup {"Flip"} \/ (pc = "Check" /\ step = 0) =>
       visited = ElementsOf(tunnel)
  /\ IsFlipped => visited \subseteq ElementsOf(tunnel)

\* The edges before Flipped have their new links, the others their old ones.
Flipped == IF pc = "Flip" THEN step ELSE Top
FlipOK ==
  pc \in Cementing =>
    /\ pc = "Flip" => step <= Top
    /\ isolated = {t \in {At(0), At(Top)} : SettledLinks(t) = {}}
    /\ \A k \in 0 .. Flipped : \A d \in Dir :
         d \in Links(At(k)) <=>
           IF k > 0 /\ d = Back(k) THEN k % 2 = 1
           ELSE IF k < Flipped /\ d = Out(k) THEN k % 2 = 0
           ELSE d \in SettledLinks(At(k))

\* The circle check clears the tunnel pair by pair: a pair whose first triangle
\* is cleared is cleared, or the walk is just about to clear the second.
CheckOK ==
  /\ IsFlipped =>
       /\ Agree(Links) /\ endpoint = Ends(Links)
       /\ circleIndex <= Top /\ step % 2 = 0 /\ step <= Top + 1
  /\ pc \in {"Check", "Walk"} =>
       /\ \A k \in 0 .. Top : k < step => At(k) \notin visited
       /\ \A k \in 0 .. Top - 1 :
            k % 2 = 0 /\ At(k) \notin visited =>
              \/ At(k + 1) \notin visited
              \/ pc = "Walk" /\ walker = At(k) /\ backIndex # Out(k)
  /\ pc = "Walk" =>
       /\ step < Top /\ At(step) \in visited /\ At(step + 1) \notin visited
       /\ walker \in InUse \ visited /\ backIndex \in Links(walker)

IInv ==
  /\ ArraysOK /\ CountersOK /\ ConfigOK
  /\ ListOK /\ PathOK /\ StatesOK /\ LinksOK /\ VisitedOK /\ FlipOK /\ CheckOK

-----------------------------------------------------------------------------
(***************************************************************************)
(* Why the circle check may be trusted.  A triangle that has been cleared  *)
(* is on no circle, or on the one that the walk is following; and the walk *)
(* runs along a strip, never back, so that it can only close at its start. *)
(***************************************************************************)
\* The settled links close no circle.  While the flipped ones are checked, a
\* circle has no cleared triangle, except for one that runs through the
\* starter of the walk: it runs through the walker, too.
CirclesOK ==
  /\ Circles(SettledLinks) = {}
  /\ pc = "Check" =>
       \A S \in Circles(Links), k \in 0 .. Top : At(k) \notin visited => At(k) \notin S
  /\ pc = "Walk" =>
       \A S \in Circles(Links) :
         /\ walker \in S <=> At(step) \in S
         /\ \A k \in 0 .. Top : At(k) \notin visited /\ At(k) \in S => At(step) \in S

\* The links between the starter and the walker, both sides of each: they pass
\* through the triangles of W, which have no others.
Walked(W, t) ==
  IF t = At(step) THEN {Out(step)}
  ELSE IF t = walker THEN {backIndex}
  ELSE IF t \in W THEN Links(t) ELSE {}

WalkOK ==
  pc = "Walk" =>
    \E W \in SUBSET InUse :
      /\ walker # At(step) /\ walker \notin W /\ At(step) \notin W
      /\ W \cap endpoint = {} /\ W \cap visited = {}
      /\ W \cup {walker} \subseteq StripOf(At(step))
      /\ \A t \in InUse : \A d \in Walked(W, t) :
           indices[t][d] \in Walked(W, neighbours[t][d])
      /\ step < circleIndex /\ At(circleIndex) \in W \cup {walker}
      /\ \A k \in 0 .. Top : At(k) \notin visited =>
           \/ At(k) \in W \cup {walker} /\ k <= circleIndex
           \/ \A S \in Circles(Links) : At(k) \notin S

\* What the walk has found when it stops.
CircleFound == pc = "Undo" => CircleCheckExact

\* Every strip has two places left for links, and no more strips are counted.
Settled == [t \in Tris |-> SettledLinks(t)]
CountOK == Cardinality(Places(Settled, InUse)) = 2 * stripsCount

CoverInv == IInv /\ CirclesOK /\ WalkOK /\ CircleFound /\ CountOK

-----------------------------------------------------------------------------
(***************************************************************************)
(* What the search has left behind.  All of it is about the settled links, *)
(* so that only a tunnel that stays (and a pass with longer tunnels)       *)
(* changes what is still to be tried.                                      *)
(***************************************************************************)
\* The paths from end to end that may be dug; the ones that one of them has made
\* the search give up, and the ones that need not be dug any more.
Closing ==
  {p \in UNION {AlternatingFrom(Settled, a, config.maxCount - 1) : a \in Ends(SettledLinks)} :
     Across(p[Len(p)]) \in Ends(SettledLinks)}
GivenUp(p) ==
  \E given \in Closing, n \in 2 .. Len(p) :
    /\ n % 2 = 0 /\ n < Len(given)
    /\ \A i \in 1 .. n : given[i] = p[i]
    /\ GivesUpAfter(Settled, given, n)
Tried(p) == CirclesAfter(Settled, p) = {} => GivenUp(p)

\* The positions on the stack of a tunnel state, and those of the tunnel's triangle
\* i that are still to try: a selected one is being tried until it is abandoned.
Untried(s) ==
  IF s \in 12 .. 15 THEN {s % 4}
  ELSE IF s \in 48 .. 63 THEN {s % 4, (s \div 4) % 4}
  ELSE IF s \in 192 .. 255 THEN {s % 4, (s \div 4) % 4, (s \div 16) % 4}
  ELSE {}
LeftToTry(i) ==
  IF i < Top \/ pc \in {"Dig", "Push"} THEN Untried(tunnelState[At(i)])
  ELSE IF pc \in {"Backtrack", "Retreat"} THEN Untried(tunnelState[At(i)] \div 4)
  ELSE Dir

\* A path that begins like the tunnel up to its triangle i and then leaves it, or
\* ends there.
Follows(p, i) ==
  /\ i <= Len(p) /\ p[1][1] = first
  /\ \A j \in 1 .. i : p[j] = <<At(j - 1), Out(j - 1)>>
Behind(p, i) ==
  /\ Follows(p, i)
  /\ Len(p) = i \/ p[i + 1][2] \notin LeftToTry(i)

SearchOK ==
  /\ pc \notin {"Push", "Retreat"}
  /\ InTunnel =>
       \A i \in 0 .. Top, p \in Closing :
         (i < Top \/ pc \notin Cementing \cup {"Cement"}) /\ Behind(p, i) => Tried(p)
PassOK ==
  /\ InTunnel \/ pc = "Endpoint" =>
       \/ hasFound
       \/ \A p \in Closing :
            PlaceIn(p[1][1], endpoints) < PlaceIn(first, endpoints) => Tried(p)
  /\ pc \in {"PassEnd", "Done"} =>
       \/ pc = "PassEnd" /\ hasFound
       \/ stripsCount <= 1
       \/ \A p \in Closing : Tried(p)
TriedOK == config.loopLimit = 0 /\ config.destCount = 0 => SearchOK /\ PassOK

TriedInv == CoverInv /\ TriedOK

-----------------------------------------------------------------------------
\* What tunneling starts from, whichever preprocessing there was: strips without
\* circles, whose ends are flagged and listed, and memory that no search has used.
Untouched ==
  /\ limit = 0 /\ hasFound = FALSE /\ first = Null
  /\ tunnel = <<>> /\ visited = {} /\ loopCount = 0
  /\ tunnelIndex = [t \in Tris |-> 0]
  /\ isolated = {} /\ step = 0 /\ walker = Null
  /\ backIndex = 0 /\ circleIndex = 0

Ready ==
  /\ pc = "Start" /\ Untouched /\ ConfigOK
  /\ MeshOK /\ linkState \in [Tris -> SUBSET Dir] /\ tunnelState \in [Tris -> Byte]
  /\ Agree(Links) /\ Circles(Links) = {}
  /\ stripsCount \in Nat /\ Cardinality(Places(LinksNow, InUse)) = 2 * stripsCount
  /\ endpoint = Ends(Links)
  /\ endpoints \in Seq(Tris) /\ IsInjectiveList(endpoints)
  /\ ElementsOf(endpoints) = endpoint

=============================================================================
