----------------------------- MODULE PreprocInv -----------------------------
(***************************************************************************)
(* The inductive invariant of preprocessing.  The lists, the counters and  *)
(* the flags are three descriptions of the same set, the triangles of no   *)
(* strip; the links, the list of the endpoints and the count of the strips *)
(* describe the strips, of which at most one is unfinished.                *)
(***************************************************************************)
EXTENDS PreprocProps

\* The triangles that are in a strip.
Taken == IF pc = "Start" THEN InUse ELSE stripped

\* The ends of the strip that is being grown, which are not flagged yet, and
\* the whole of that strip.
Growing ==
  IF pc = "Grow" THEN {grow.tri, IF growNext = NoEnd THEN firstEnd ELSE growNext.tri}
  ELSE IF pc \in {"Second", "Third"} /\ preproc = "stripify" THEN ElementsOf(core)
  ELSE {}
Current ==
  IF pc = "Grow" THEN StripOf(grow.tri)
  ELSE IF pc \in {"Second", "Third"} THEN StripOf(core[1])
  ELSE {}

ArraysOK ==
  /\ MeshOK
  /\ linkState \in [Tris -> SUBSET Dir] /\ endpoint \subseteq InUse
  /\ stripped \subseteq InUse /\ unstripped \in [Tris -> 0 .. 3]
  /\ core \in Seq(Tris) /\ coreDirs \in Seq(Dir) /\ stripsCount \in Nat

PhaseOK ==
  /\ preproc \in Algorithms
  /\ pc \in {"Order", "Core", "Second", "Third", "Grow", "Start"}
  /\ preproc = "isolated" => pc \in {"Order", "Start"} /\ stripped = {}
  /\ pc = "Order" => stripped = {} /\ stripsCount = 0
  /\ pc = "Start" /\ preproc # "isolated" => stripped = InUse
  /\ pc \in {"Third", "Grow"} => preproc = "stripify"

\* The triangles of S, each once, in the list that its counter names.
Sorted(counts, ls, S) ==
  /\ ls \in [0 .. 3 -> Seq(Tris)]
  /\ \A c \in 0 .. 3 : /\ IsInjectiveList(ls[c])
                       /\ ElementsOf(ls[c]) = {t \in S : counts[t] = c}
CountsOK == \A t \in InUse \ stripped : unstripped[t] = Cardinality(Open(t))
AllSorted == CountsOK /\ Sorted(unstripped, lists, InUse \ stripped)
ListsOK ==
  /\ CountsOK
  /\ Sorted(unstripped, lists,
            IF pc = "Order" \/ preproc = "isolated" THEN {} ELSE InUse \ stripped)

LinksCount == Cardinality({side \in InUse \X Dir : side[2] \in Links(side[1])})
LinksOK ==
  /\ Agree(Links)
  /\ \A t \in Tris : Links(t) # {} => t \in stripped
  /\ Circles(Links) = {}
  /\ 2 * stripsCount + LinksCount = 2 * Cardinality(Taken)

EndpointsOK ==
  /\ endpoints \in Seq(Tris)
  /\ IsInjectiveList(endpoints)
  /\ ElementsOf(endpoints) = endpoint
  /\ endpoint = {t \in Taken : AtMostOne(Links(t))} \ Growing
  /\ preproc = "stripify" => endpoint \cap Current = {}

\* What is known of the strip that is being grown.
CoreOK ==
  /\ pc = "Second" => /\ Len(core) = 1 /\ coreDirs = <<>>
                      /\ core[1] \in stripped /\ Links(core[1]) = {}
  /\ pc = "Third" => /\ Len(core) = 2 /\ Len(coreDirs) = 1
                     /\ core[2] = neighbours[core[1]][coreDirs[1]]
                     /\ Links(core[1]) = {coreDirs[1]}
                     /\ Links(core[2]) = {indices[core[1]][coreDirs[1]]}
                     /\ core[2] \in StripOf(core[1])
IsEnd(e) ==
  /\ e = EndOf(e.tri, e.indexToPrev, e.entrance)
  /\ e.tri \in Tris /\ e.indexToPrev \in Dir
  /\ Links(e.tri) = {e.indexToPrev}
GrowOK ==
  IF pc # "Grow" THEN grow = NoEnd /\ growNext = NoEnd /\ firstEnd = Null
  ELSE /\ IsEnd(grow)
       /\ growNext # NoEnd =>
            /\ IsEnd(growNext) /\ firstEnd = Null
            /\ growNext.tri # grow.tri /\ growNext.tri \in StripOf(grow.tri)
       /\ growNext = NoEnd =>
            /\ firstEnd \in Tris /\ Cardinality(Links(firstEnd)) = 1
            /\ firstEnd # grow.tri /\ firstEnd \in StripOf(grow.tri)
            /\ Open(firstEnd) = {}

\* Where a finished strip, unless it is a pair, has come to its end: all the
\* neighbours are in strips, and none of them in the one that is being grown.
IsPair(t) == Cardinality(StripOf(t)) = 2
Shut(t) ==
  \A d \in Dir : neighbours[t][d] # Null => neighbours[t][d] \in stripped \ Current
ApartOK ==
  preproc # "isolated" =>
    \A a \in endpoint \ Current : ~IsPair(a) =>
      /\ Shut(a)
      /\ \A d \in Dir :
           LET b == neighbours[a][d]
           IN  b \in endpoint \ (Current \cup StripOf(a)) => IsPair(b)

PreprocInv ==
  /\ ArraysOK /\ PhaseOK /\ ListsOK /\ LinksOK /\ EndpointsOK
  /\ CoreOK /\ GrowOK /\ ApartOK

-----------------------------------------------------------------------------
\* What preprocessing starts from: the mesh, as rm_tristripper_build_tris leaves
\* it, and nothing in any strip or list.
Fresh ==
  /\ MeshOK /\ preproc \in Algorithms /\ pc = "Order"
  /\ linkState = [t \in Tris |-> {}] /\ endpoint = {} /\ stripped = {}
  /\ unstripped = [t \in Tris |-> NeighboursCount(t)]
  /\ lists = [c \in 0 .. 3 |-> <<>>] /\ core = <<>> /\ coreDirs = <<>>
  /\ endpoints = <<>> /\ stripsCount = 0
  /\ grow = NoEnd /\ growNext = NoEnd /\ firstEnd = Null

=============================================================================
