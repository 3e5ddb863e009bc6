------------------------------ MODULE BuildTris -----------------------------
(***************************************************************************)
(* rm_tristripper_build_tris (src/rm_tristripper_tri.c): the vertex IDs    *)
(* become an array of triangles, and a hashmap of the open edges stitches  *)
(* each triangle to its neighbours.  An action reads one triangle, or puts *)
(* one of its edges into the hashmap, which is a function here (HashMap    *)
(* models it).  A degenerated triangle leaves its place to the next one.   *)
(***************************************************************************)
EXTENDS TriArray

CONSTANTS
  Inputs,  \* sequences of at most MaxTris triangles
  Bytes    \* what uninitialised memory may hold

IsInput(list) == list \in Seq(Nat \X Nat \X Nat) /\ Len(list) <= MaxTris

ASSUME InputsAssumption ==
  (\A list \in Inputs : IsInput(list)) /\ Bytes \subseteq 0 .. 255

VARIABLES
  input,       \* the triangles: a sequence of triples of vertex IDs
  read,        \* how many of them have been read
  pc,          \* Read, Stitch, Built
  edge,        \* the edge of the latest triangle that is stitched next
  openEdges,   \* edge key -> the triangle and the position with that open edge
  unstripped   \* unstripped[t]: the byte unstripped_neighbours_count

buildVars == <<input, read, edge, openEdges>>
vars == <<mesh, stripVars, buildVars, pc, unstripped>>

\* The malloc'ed array holds some byte (the same one everywhere, to keep the
\* initial states few), and pointers made of such bytes may lead anywhere.  Of
\* the flags, those that later phases set are their variables.
NoNeighbours == [d \in Dir |-> Null]
BitsOf(byte) == {i \in 0 .. 7 : (byte \div 2^i) % 2 = 1}
IsEndpointBit == 1

Blank ==
  /\ trisCount = 0
  /\ \E b \in Bytes :
       /\ indices = [t \in Tris |-> [d \in Dir |-> b]]
       /\ vertices = [t \in Tris |-> [d \in Dir |-> b]]
       /\ neighbours = [t \in Tris |-> [d \in Dir |-> IF b \in Tris THEN b ELSE Null]]
       /\ unstripped = [t \in Tris |-> b]
       /\ linkState = [t \in Tris |-> BitsOf(b)]
       /\ endpoint = IF IsEndpointBit \in BitsOf(b) THEN Tris ELSE {}
  /\ read = 0 /\ edge = 0 /\ openEdges = <<>>

Init == input \in Inputs /\ Blank /\ pc = "Read"

\* Two equal vertices.  Mutant: the last and the first are not compared.
IsDegeneratedInARow(tri) == tri[1] = tri[2] \/ tri[2] = tri[3]
IsDegenerated(tri) == tri[1] = tri[2] \/ tri[2] = tri[3] \/ tri[3] = tri[1]

\* A triangle starts without any neighbours, links and flags.  Mutants: what
\* the memory held stays.
KeptNeighbours(t) == neighbours
ResetNeighbours(t) == [neighbours EXCEPT ![t] = NoNeighbours]
KeptCount(t) == unstripped
ResetCount(t) == [unstripped EXCEPT ![t] = 0]
ResetLinkState(t) == [linkState EXCEPT ![t] = {}]
ResetFlags(t) == endpoint \ {t}

ReadTri ==
  LET tri == input[read + 1]
      t == trisCount + 1
  IN  /\ pc = "Read" /\ read < Len(input)
      /\ read' = read + 1
      /\ neighbours' = ResetNeighbours(t)
      /\ unstripped' = ResetCount(t)
      /\ endpoint' = ResetFlags(t)
      /\ linkState' = ResetLinkState(t)
      /\ vertices' = [vertices EXCEPT ![t] = [d \in Dir |-> tri[d + 1]]]
      /\ IF IsDegenerated(tri)
         THEN UNCHANGED <<trisCount, edge, pc>>
         ELSE trisCount' = t /\ edge' = 0 /\ pc' = "Stitch"
      /\ UNCHANGED <<indices, input, openEdges>>

\* rm_tristripper_open_edge_hashmap_make_key: one key for both directions.
EdgeKey(v, w) == IF v < w THEN <<v, w>> ELSE <<w, v>>

\* The first triangle on an edge opens it, the second one is stitched to the
\* first and closes it again.  Mutant: it stays open.
StillOpen(key) == openEdges
Closed(key) == [k \in DOMAIN openEdges \ {key} |-> openEdges[k]]
Opened(key, t, d) ==
  [k \in DOMAIN openEdges \cup {key} |->
     IF k = key THEN [tri |-> t, index |-> d] ELSE openEdges[k]]

StitchEdge ==
  LET t == trisCount
      key == EdgeKey(Edge(t, edge)[1], Edge(t, edge)[2])
      other == openEdges[key]
  IN  /\ pc = "Stitch"
      /\ IF key \in DOMAIN openEdges
         THEN /\ neighbours' = [neighbours EXCEPT ![t][edge] = other.tri,
                                                  ![other.tri][other.index] = t]
              /\ indices' = [indices EXCEPT ![t][edge] = other.index,
                                            ![other.tri][other.index] = edge]
              /\ unstripped' = [unstripped EXCEPT ![t] = @ + 1,
                                                  ![other.tri] = @ + 1]
              /\ openEdges' = Closed(key)
         ELSE /\ openEdges' = Opened(key, t, edge)
              /\ UNCHANGED <<neighbours, indices, unstripped>>
      /\ edge' = edge + 1
      /\ pc' = IF edge = 2 THEN "Read" ELSE "Stitch"
      /\ UNCHANGED <<trisCount, vertices, stripVars, input, read>>

\* The array is handed over.  What the memory behind its last triangle holds
\* is never read again; it counts as blank from here on.
InUseOnly(array, blank) == [t \in Tris |-> IF t \in InUse THEN array[t] ELSE blank]

FinishBuild ==
  /\ pc = "Read" /\ read = Len(input)
  /\ pc' = "Built"
  /\ openEdges' = <<>>
  /\ neighbours' = InUseOnly(neighbours, NoNeighbours)
  /\ unstripped' = InUseOnly(unstripped, 0)
  /\ linkState' = InUseOnly(linkState, {})
  /\ endpoint' = endpoint \cap InUse
  /\ UNCHANGED <<trisCount, indices, vertices, input, read, edge>>

Step == ReadTri \/ StitchEdge \/ FinishBuild
Finished == pc = "Built" /\ UNCHANGED vars
Next == Step \/ Finished

Spec == Init /\ [][Next]_vars /\ WF_vars(Next)

=============================================================================
