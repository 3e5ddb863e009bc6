----------------------------- MODULE SessionInv ------------------------------
(***************************************************************************)
(* The invariant of a session: in every phase the invariant of that phase, *)
(* together with what the phases before it and after it keep, which is     *)
(* that their variables are untouched; the invariant of the output; and    *)
(* what has become of the configuration record.                            *)
(***************************************************************************)
EXTENDS SessionProps

\* Cancelling a search leaves visited flags behind, except in tunnels of two.
CancelsCleanly ==
  \A s \in Settings :
    s.config.loopLimit = 0 \/ s.config.backtrackAfterLoopLimit \/ s.config.maxCount <= 3

Reading == {"Read", "Stitch", "Built"}
Preparing == {"Order", "Core", "Second", "Third", "Grow"}
Tunneled == T!Quiet \cup T!Digging \cup T!Cementing
Writing == {"Collect", "Follow"}
Simply == {"SimpleOrder", "SimpleCore", "SimpleSecond", "SimpleThird", "SimpleGrow"}

PhaseOK ==
  /\ pc \in {"Call", "Output"} \cup Reading \cup Preparing \cup Tunneled
              \cup Writing \cup Simply
  /\ pc \in Preparing \cup Tunneled \cup Writing => useTunneling /\ trisCount # 0
  /\ pc \in Simply => ~useTunneling
  /\ stage # "None" => pc = "Output"

\* What the phases to come will find as create_strips has initialised it.
NoStrips ==
  /\ stripped = {} /\ lists = [c \in 0 .. 3 |-> <<>>] /\ core = <<>> /\ coreDirs = <<>>
  /\ grow = P!NoEnd /\ growNext = P!NoEnd /\ firstEnd = Null
  /\ endpoints = <<>> /\ stripsCount = 0
UntouchedOK ==
  /\ pc = "Call" => B!Blank
  /\ pc \in {"Call"} \cup Reading => NoStrips
  /\ pc \in {"Call"} \cup Reading \cup Preparing => T!Untouched
  /\ pc \in {"Call"} \cup Reading \cup Preparing \cup Tunneled => strips = <<>>
  /\ pc \in Simply \cup {"Output"} => first = Null

\* What the configuration record always holds, and when tunneling starts.
SettingsOK ==
  /\ B!IsInput(input) /\ preproc \in P!Algorithms /\ config \in T!ConfigSet
  /\ \/ config.loopLimit = 0 \/ config.backtrackAfterLoopLimit
     \/ config.maxCount <= 3 /\ limit <= 3
  /\ pc \in Preparing => T!ConfigOK

\* The invariants of the phases.
PhasesOK ==
  /\ pc \in Reading => B!IInv
  /\ pc \in Preparing => P!PreprocInv
  /\ pc \in Tunneled => T!TriedInv

-----------------------------------------------------------------------------
(***************************************************************************)
(* The output.                                                             *)
(***************************************************************************)
\* The endpoints that no strip has been collected from: they come in strips,
\* and each strip that is still to be collected has two places for links left.
Behind(t, list) == {list[i] : i \in PlaceIn(t, list) + 1 .. Len(list)}
Uncollected == {first} \cup Behind(first, endpoints)
StripsOK ==
  /\ MeshOK /\ Agree(Links) /\ endpoint = {t \in InUse : AtMostOne(Links(t))}
  /\ stripsCount \in Int /\ strips \in Seq(ElementsOf(strips))
CollectOK ==
  /\ StripsOK
  /\ endpoints \in Seq(Tris) /\ IsInjectiveList(endpoints)
  /\ first \in ElementsOf(endpoints)
  /\ Uncollected \subseteq endpoint
  /\ \A t \in Uncollected : StripOf(t) \cap endpoint \subseteq Uncollected
  /\ Cardinality(Places(LinksNow, Uncollected)) = 2 * (stripsCount - Len(strips))

\* The links between "first" and triangle t, which has been come to across d:
\* they pass through the triangles of W, which have no others.
Passed(W, t, d, u) ==
  IF u = first THEN Links(first)
  ELSE IF u = t THEN {d}
  ELSE IF u \in W THEN Links(u) ELSE {}
Leads(W, t, d) ==
  /\ t \in InUse /\ t # first /\ t \notin W /\ d \in Links(t)
  /\ W \subseteq InUse /\ W \cap endpoint = {}
  /\ W \cup {t} \subseteq StripOf(first)
  /\ \A u \in InUse : \A e \in Passed(W, t, d, u) :
       indices[u][e] \in Passed(W, t, d, neighbours[u][e])

OutputOK ==
  /\ pc \in Writing => CollectOK
  /\ pc = "Follow" => \E W \in SUBSET InUse : Leads(W, curr, indexToPrev)

-----------------------------------------------------------------------------
(***************************************************************************)
(* The configuration record.                                               *)
(***************************************************************************)
\* max_count after tunneling meshes of n triangles and more, as the caller set
\* it if there was none.
Held(n) == IF n = Unbounded THEN asked ELSE T!TruncatedMaxCount(asked, n)
RecordOK ==
  /\ asked \in Nat /\ smallest \in 1 .. Unbounded
  /\ trisCount \in 0 .. MaxTris
  /\ pc \in {"Call"} \cup Reading \cup Simply => config.maxCount = Held(smallest)
  /\ pc \in Preparing \cup Writing \cup {"Start", "Done", "Output"} =>
       config.maxCount = Held(SmallestSoFar)
  /\ pc \in Tunneled \ {"Start"} =>
       /\ limit = Held(SmallestSoFar)
       /\ IF config.incremental
          THEN config.maxCount % 2 = 0 /\ config.maxCount <= limit
          ELSE config.maxCount = limit

SessionInv ==
  /\ PhaseOK /\ UntouchedOK /\ SettingsOK /\ PhasesOK /\ OutputOK /\ RecordOK

-----------------------------------------------------------------------------
(***************************************************************************)
(* What the strips spell.  Two triples are alike when they have the same   *)
(* corners or, where the orientation counts, when they are wound the same  *)
(* way; the IDs spell a set of triangles when either count comes out right *)
(* for every triple.  Triples that neither side has come out right anyway. *)
(***************************************************************************)
Triple(t) == <<vertices[t][0], vertices[t][1], vertices[t][2]>>
Alike(a, b, wound) == IF wound THEN SameWinding(a, b) ELSE SameCorners(a, b)
Kinds == {wound \in BOOLEAN : wound => preserve /\ IsOriented}
InTris(F, tri, wound) == Cardinality({t \in F : Alike(Triple(t), tri, wound)})

\* A list of IDs that has "turn" others before it, or an even number more.
SpelledAs(list, turn, i) ==
  IF (i + turn) % 2 = 1 THEN <<list[i], list[i + 1], list[i + 2]>>
                        ELSE <<list[i + 1], list[i], list[i + 2]>>
InList(list, turn, tri, wound) ==
  Cardinality({i \in Spells(list) : Alike(SpelledAs(list, turn, i), tri, wound)})
ListSpells(list, turn, F) ==
  /\ list \in Seq(Nat)
  /\ \A wound \in Kinds :
       \A tri \in {Triple(t) : t \in F} \cup {SpelledAs(list, turn, i) : i \in Spells(list)} :
         InList(list, turn, tri, wound) = InTris(F, tri, wound)

\* No triangle takes more than two IDs, after the first two.
Fits(list, F) == Len(list) <= 2 * Cardinality(F) + 2

\* The strips that are finished spell the triangles of F.
StripPlaces == UNION {{k} \X Spells(strips[k]) : k \in DOMAIN strips}
InOutput(tri, wound) ==
  Cardinality({place \in StripPlaces :
                 Alike(SpelledAt(strips[place[1]], place[2]), tri, wound)})
Written(F) ==
  /\ strips \in Seq(Seq(Nat))
  /\ \A k \in DOMAIN strips : Len(strips[k]) \in 3 .. 2 * MaxTris + 2
  /\ \A wound \in Kinds : \A tri \in {Triple(t) : t \in F} \cup Spelled :
       InOutput(tri, wound) = InTris(F, tri, wound)

\* The array spells the proper ones of the first n triangles of the input.
MeshRead(n) ==
  \A wound \in BOOLEAN :
    \A tri \in {Triple(t) : t \in InUse} \cup {input[i] : i \in M!ProperUpTo(input, n)} :
      Cardinality({i \in M!ProperUpTo(input, n) : Alike(input[i], tri, wound)}) =
        InTris(InUse, tri, wound)

\* Neighbours have the two vertices of their edge in common.
EndsOf(t, d) == {Edge(t, d)[1], Edge(t, d)[2]}
GoodMesh ==
  /\ trisCount \in 0 .. MaxTris /\ vertices \in [Tris -> [Dir -> Nat]]
  /\ B!TrisProper
  /\ \A t \in Tris, d \in Dir :
       neighbours[t][d] # Null => EndsOf(neighbours[t][d], indices[t][d]) = EndsOf(t, d)

\* The IDs a, b lie on edge d of t, along it if a is at an odd place.
Along(a, b, t, d, place) ==
  /\ {a, b} = EndsOf(t, d)
  /\ preserve /\ IsOriented => (a = Edge(t, d)[1] <=> place % 2 = 1)

\* The list spells the triangles of F and goes on at triangle t, across d.
Strand(list, turn, F, t, d) ==
  /\ ListSpells(list, turn, F) /\ Len(list) >= 2
  /\ F \subseteq InUse /\ t \in InUse \ F /\ d \in Dir
  /\ Along(list[Len(list) - 1], list[Len(list)], t, d, Len(list) - 1 + turn)

\* ... and does so with the IDs a and b, few enough.
Reaches(list, turn, F, t, d, a, b) ==
  /\ Strand(list, turn, F, t, d) /\ Fits(list, F)
  /\ a = list[Len(list) - 1] /\ b = list[Len(list)]

-----------------------------------------------------------------------------
(* Collecting: the strips without an endpoint that is to be collected from *)
(* are written, and the one that is being collected as far as it has been  *)
(* followed.                                                               *)
Collected == {t \in InUse : StripOf(t) \cap Uncollected = {}}
CollectSpells ==
  /\ pc \in Writing => Written(Collected)
  /\ pc = "Follow" => \E W \in SUBSET InUse :
       /\ Leads(W, curr, indexToPrev)
       /\ Reaches(ids, 0, W \cup {first}, curr, indexToPrev, prevEntrance, entrance)

(* The simple algorithm: what is stripped is written, but for the strip    *)
(* that is being built.  Backward, its IDs go on from the core entrances;  *)
(* forward, the prefix is read in reverse.                                 *)
SimpleEntrances ==
  CoreEntrances(Edge(core[1], coreDirs[1]), Edge(core[2], coreDirs[2]))
Backward(list) == <<SimpleEntrances[2], SimpleEntrances[1]>> \o list
PrefixTurned(list, n) == [i \in DOMAIN list |-> IF i <= n THEN list[n + 1 - i] ELSE list[i]]

IsCore(n) ==
  /\ Len(core) = n /\ Len(coreDirs) = n - 1 /\ ElementsOf(core) \subseteq stripped
  /\ IsInjectiveList(core)
  /\ \A i \in 1 .. n - 1 : /\ coreDirs[i] \in Dir
                           /\ core[i + 1] = neighbours[core[i]][coreDirs[i]]
GrowsStrand(list, turn, F) ==
  /\ end = S!End(end.tri, end.indexToPrev, end.prevEntrance, end.entrance, end.isOriented)
  /\ Reaches(list, turn, F, end.tri, end.indexToPrev, end.prevEntrance, end.entrance)
  /\ F \cup {end.tri} \subseteq stripped
GrowsBackward(turn, F) ==
  /\ turn \in {0, 1} /\ GrowsStrand(Backward(ids), turn, F)
  /\ ids \in Seq(Nat) /\ {core[2], core[3]} \cap (F \cup {end.tri}) = {}
  /\ end.isOriented <=> (Len(ids) + turn) % 2 = 1
  /\ Along(SimpleEntrances[2], SimpleEntrances[1], core[1], coreDirs[1], turn + 1)
  /\ Written(stripped \ (F \cup {end.tri, core[2], core[3]}))
GrowsForward(F) ==
  /\ ids \in Seq(Nat) /\ prefixCount \in 0 .. Len(ids) - 3
  /\ GrowsStrand(PrefixTurned(ids, prefixCount), 0, F)
  /\ Written(stripped \ (F \cup {end.tri}))

SimpleOK ==
  /\ MeshOK /\ P!ArraysOK /\ P!CountsOK
  /\ IF pc = "SimpleOrder" THEN stripped = {}
     ELSE P!Sorted(sharedByte, lists, InUse \ stripped)
  /\ pc \in {"SimpleOrder", "SimpleCore"} => Written(stripped)
  /\ pc = "SimpleSecond" => IsCore(1) /\ Written(stripped \ {core[1]})
  /\ pc = "SimpleThird" => IsCore(2) /\ Written(stripped \ {core[1], core[2]})
  /\ pc = "SimpleGrow" =>
       /\ IsCore(3) /\ coreDirs[2] # indices[core[1]][coreDirs[1]]
       /\ IF isForward THEN \E F \in SUBSET stripped : GrowsForward(F)
          ELSE \E F \in SUBSET stripped, turn \in {0, 1} : GrowsBackward(turn, F)

SpellInv ==
  /\ pc \in Reading => B!MeshInv
  /\ pc \notin {"Call"} \cup Reading =>
       MeshRead(Len(input)) /\ (pc # "Output" => GoodMesh)
  /\ CollectSpells
  /\ pc \in Simply => SimpleOK
  /\ pc = "Output" => Written(InUse)

-----------------------------------------------------------------------------
\* The verifier compares the list and the strips of the call that has returned.
VerifierOK ==
  /\ V!IInv
  /\ stage # "None" => counted = input
  /\ stage \in {"Compare", "Answered"} => given = strips

\* The statistics are those of the strips of the call that has returned.
StatsOK == stats # NoStats => pc = "Output" /\ stats = St!CalculateStats(strips)

=============================================================================
