------------------------------ MODULE Adjacency -----------------------------
(***************************************************************************)
(* The adjacency lists: the triangles that are in no strip yet, by their   *)
(* number of neighbours that are in no strip yet.  The strips are started  *)
(* from the shortest supply (include/rm_tristripper_tri.h,                 *)
(* rm_tristripper_select_next_core_tri in src/rm_tristripper_tri.c, and    *)
(* the loop that grows a strip, which rm_tristripper_ex.c and              *)
(* rm_tristripper_simple.c both have).                                     *)
(***************************************************************************)
EXTENDS TriArray

VARIABLES
  stripped,    \* the triangles whose IS_STRIPPED flag is set
  unstripped,  \* unstripped[t]: the byte unstripped_neighbours_count
  lists,       \* lists[c]: the triangles with c unstripped neighbours
  core,        \* the core triangles of the strip that is being started ...
  coreDirs     \* ... and the positions that lead from each to the next

coreVars == <<core, coreDirs>>
adjVars == <<stripped, unstripped, lists, coreVars>>

\* rm_tristripper_order_tris prepends the triangles in the order of the array:
\* in each list, a triangle has those with a greater position before it.
Descending(S) ==
  [i \in 1 .. Cardinality(S) |->
     CHOOSE t \in S : Cardinality({u \in S : u > t}) = i - 1]
OrderedLists == [c \in 0 .. 3 |-> Descending({t \in InUse : unstripped[t] = c})]

\* The positions of t at which a neighbour in no strip is.
Open(t) == {d \in Dir : neighbours[t][d] # Null /\ neighbours[t][d] \notin stripped}

\* rm_tristripper_tri_set_stripped_and_propagate: t leaves its list; then, for
\* each position, 0 to 2, the neighbour there leaves its list, has one neighbour
\* less and becomes the head of the list of that number (a neighbour across two
\* edges twice).  Mutant: it stays in the list that it was in, too.
DemoteAndKeep(u, a) ==
  LET c == a.counts[u]
  IN  [counts |-> [a.counts EXCEPT ![u] = c - 1],
       lists |-> [a.lists EXCEPT ![c - 1] = PrependToList(u, @)]]
Demote(u, a) ==
  LET c == a.counts[u]
  IN  [counts |-> [a.counts EXCEPT ![u] = c - 1],
       lists |-> [a.lists EXCEPT ![c] = RemoveFromList(u, @),
                                 ![c - 1] = PrependToList(u, @)]]
Visit(t, d, a) == IF d \in Open(t) THEN Demote(neighbours[t][d], a) ELSE a
Without(t) ==
  [counts |-> unstripped,
   lists |-> [lists EXCEPT ![unstripped[t]] = RemoveFromList(t, @)]]
Propagated(t) == Visit(t, 2, Visit(t, 1, Visit(t, 0, Without(t))))

SetStrippedAndPropagate(t) ==
  /\ stripped' = stripped \cup {t}
  /\ unstripped' = Propagated(t).counts
  /\ lists' = Propagated(t).lists

\* The core triangle of the next strip: the head of the first list that has one.
HasCore == \E c \in 0 .. 3 : lists[c] # <<>>
FirstCore ==
  Head(lists[CHOOSE c \in 0 .. 3 :
               lists[c] # <<>> /\ \A b \in 0 .. c - 1 : lists[b] = <<>>])

StripFirst ==
  /\ SetStrippedAndPropagate(FirstCore)
  /\ core' = <<FirstCore>>
  /\ coreDirs' = <<>>

\* rm_tristripper_select_next_core_tri: the first one with the least unstripped
\* neighbours of its own.
NotFound == 3
CountAt(t, d) == unstripped[neighbours[t][d]]
LastCore == core[Len(core)]
NextCoreDir ==
  LET t == LastCore
  IN  IF Open(t) = {} THEN NotFound
      ELSE CHOOSE d \in Open(t) :
             \A e \in Open(t) \ {d} :
               \/ CountAt(t, d) < CountAt(t, e)
               \/ CountAt(t, d) = CountAt(t, e) /\ d < e
NextCore == neighbours[LastCore][NextCoreDir]

StripNext ==
  /\ NextCoreDir # NotFound
  /\ SetStrippedAndPropagate(NextCore)
  /\ core' = Append(core, NextCore)
  /\ coreDirs' = Append(coreDirs, NextCoreDir)

\* Where a strip grows from t, which it has come to across indexToPrev: the
\* less unstripped neighbours the better; on a tie the first of the two
\* positions if it is near, that is, needs no swap.
IsNear(t, d, entrance) == entrance \in {Edge(t, d)[1], Edge(t, d)[2]}
\* Mutant: only the first position is looked at.
GrowDirFirst(t, indexToPrev, entrance) ==
  LET d == RemainingIndex(indexToPrev, 0)
  IN  IF d \in Open(t) THEN d ELSE NotFound
GrowDir(t, indexToPrev, entrance) ==
  LET d == RemainingIndex(indexToPrev, 0)
      e == RemainingIndex(indexToPrev, 1)
      isFirstBetter ==
        \/ CountAt(t, d) < CountAt(t, e)
        \/ CountAt(t, d) = CountAt(t, e) /\ IsNear(t, d, entrance)
  IN  IF Open(t) \cap {d, e} = {} THEN NotFound
      ELSE IF d \notin Open(t) THEN e
      ELSE IF e \notin Open(t) \/ isFirstBetter THEN d
      ELSE e

-----------------------------------------------------------------------------
AdjTypeOK ==
  /\ stripped \subseteq Tris
  /\ unstripped \in [Tris -> 0 .. 255]
  /\ lists \in [0 .. 3 -> Seq(Tris)]
  /\ core \in Seq(Tris) /\ coreDirs \in Seq(Dir)

\* Every triangle that is in no strip is in the one list that its counter
\* names, once, and the counter is the number of its neighbours that are in no
\* strip; the other triangles are in no list.  (A neighbour across two edges
\* counts twice.)
AdjListsExact ==
  /\ \A c \in 0 .. 3 : \A i, j \in DOMAIN lists[c] :
       /\ i # j => lists[c][i] # lists[c][j]
       /\ unstripped[lists[c][i]] = c
  /\ \A t \in 1 .. trisCount :
       IF t \in stripped
       THEN \A c \in 0 .. 3 : \A i \in DOMAIN lists[c] : lists[c][i] # t
       ELSE /\ unstripped[t] = Cardinality(Open(t))
            /\ \E i \in DOMAIN lists[unstripped[t]] : lists[unstripped[t]][i] = t

=============================================================================
