------------------------------ MODULE TriArray ------------------------------
(***************************************************************************)
(* The array of rm_tristripper_tri records that every phase of the         *)
(* stripper works on (include/rm_tristripper_tri.h).                       *)
(*                                                                         *)
(* A triangle is its position 1 .. MaxTris in the array; the C pointers    *)
(* are positions, the null pointer is 0.  A byte that the code uses as a   *)
(* set of bits (flags, link_state) is the set of the positions of its one  *)
(* bits, so that shifting and masking are exact; each flag of "flags" is   *)
(* the set of the triangles that have it.  The triangles in use are        *)
(* 1 .. trisCount; the rest of the allocation is never reached.            *)
(***************************************************************************)
EXTENDS Integers, Sequences, FiniteSets

CONSTANT MaxTris   \* how many triangles the array has room for

ASSUME MaxTrisAssumption == MaxTris \in Nat \ {0}

Tris == 1 .. MaxTris
Null == 0
AtMostOne(S) == \A d, e \in S : d = e

\* uint8_t and uint16_t.
Byte == 0 .. 255
UInt16 == 0 .. 65535

\* The three neighbour positions (01), (12), (20) of a triangle.
Dir == 0 .. 2

VARIABLES
  trisCount,    \* how many triangles of the array are in use
  neighbours,   \* neighbours[t][d]: the triangle across edge d of t, or Null
  indices,      \* indices[t][d]: the position of t at its neighbour d
  vertices,     \* vertices[t][d]: the vertex IDs in winding order
  linkState,    \* linkState[t]: the one bits of the byte link_state
  endpoint      \* the triangles whose IS_ENDPOINT flag is set

InUse == 1 .. trisCount
mesh == <<trisCount, neighbours, indices, vertices>>
stripVars == <<linkState, endpoint>>

-----------------------------------------------------------------------------
\* rm_tristripper_tri_remaining_index: the two positions other than d.
RemainingIndex(d, i) == (d + 1 + i) % 3

\* unstripped_neighbours_count, as rm_tristripper_build_tris leaves it.
NeighboursCount(t) == Cardinality({d \in Dir : neighbours[t][d] # Null})

\* The two vertices of an edge of t, and the vertex opposite to it.
Edge(t, d) == <<vertices[t][d], vertices[t][(d + 1) % 3]>>
Opposite(t, d) == vertices[t][(d + 2) % 3]

\* rm_tristripper_determine_core_entrance_vertex_ids: the vertex that the two
\* shared edges have in common, between the other vertices of the two.
OtherEnd(edge, v) == IF edge[1] = v THEN edge[2] ELSE edge[1]
CoreEntrances(e, f) ==
  LET common == IF e[1] \in {f[1], f[2]} THEN e[1] ELSE e[2]
  IN  <<OtherEnd(e, common), common, OtherEnd(f, common)>>

\* The current links of a triangle are the low three bits of link_state.
LinksOf(s) == s \cap Dir
Links(t) == LinksOf(linkState[t])
\* Mutant: every endpoint counts as isolated.
IsEndOfStrip(t) == Cardinality(Links(t)) <= 1
IsIsolated(t) == Links(t) = {}

\* save_link_state: (s << 3) | (s & 7) in eight bits; restore, n times: >> 3n.
\* Mutant: the current links are shifted away.
ShiftLinkState(s) == {b + 3 : b \in s \cap (0 .. 4)}
SaveLinkState(s) == {b + 3 : b \in s \cap (0 .. 4)} \cup LinksOf(s)
RestoreLinkState(s, n) == {b - 3 * n : b \in {b \in s : b >= 3 * n}}

\* rm_tristripper_traverse_strip: along a strip, to the first of the two
\* remaining positions that the triangle is linked at.
StripDirs(t, indexToPrev) ==
  {i \in {0, 1} : RemainingIndex(indexToPrev, i) \in Links(t)}
StripDir(t, indexToPrev) ==
  RemainingIndex(indexToPrev, IF 0 \in StripDirs(t, indexToPrev) THEN 0 ELSE 1)

-----------------------------------------------------------------------------
(***************************************************************************)
(* The tunnel state is a stack of neighbour positions in one byte: base-4  *)
(* digits above the sentinel digit 3, the selected one at the bottom.      *)
(***************************************************************************)
TunnelStateDepleted == 3
\* Mutant: the latest position replaces the earlier ones.
ReplaceTunnelState(s, d) == 4 * TunnelStateDepleted + d
AddTunnelState(s, d) == (4 * s + d) % 256
SelectNextTunnelState(s) == s \div 4

-----------------------------------------------------------------------------
(***************************************************************************)
(* The intrusive doubly-linked lists (prev_tri, next_tri), as the sequence *)
(* of their elements from the head on.                                     *)
(***************************************************************************)
ElementsOf(s) == {s[i] : i \in DOMAIN s}
IsInjectiveList(list) == \A i, j \in DOMAIN list : list[i] = list[j] => i = j
HeadOf(list) == IF list = <<>> THEN Null ELSE list[1]
PrependToList(t, list) == <<t>> \o list
PlaceIn(t, list) == CHOOSE i \in DOMAIN list : list[i] = t
RemoveFromList(t, list) ==
  LET i == PlaceIn(t, list)
  IN  SubSeq(list, 1, i - 1) \o SubSeq(list, i + 1, Len(list))
NextInList(t, list) ==
  LET i == PlaceIn(t, list)
  IN  IF i = Len(list) THEN Null ELSE list[i + 1]

-----------------------------------------------------------------------------
(***************************************************************************)
(* What rm_tristripper_build_tris guarantees: the neighbour relation is    *)
(* symmetric, irreflexive, and the two indices of a shared edge name each  *)
(* other's side of it.  (An index beside an absent neighbour is a byte     *)
(* that was never written.)                                                *)
(***************************************************************************)
Stitched(n, nb, ix) ==
  \A t \in Tris, d \in Dir :
    nb[t][d] # Null =>
      /\ t <= n
      /\ nb[t][d] \in (1 .. n) \ {t}
      /\ ix[t][d] \in Dir
      /\ nb[nb[t][d]][ix[t][d]] = t
      /\ ix[nb[t][d]][ix[t][d]] = d

IsMesh(n, nb, ix) ==
  /\ n \in Tris
  /\ nb \in [Tris -> [Dir -> Tris \cup {Null}]]
  /\ ix \in [Tris -> [Dir -> Byte]]
  /\ Stitched(n, nb, ix)

MeshOK == IsMesh(trisCount, neighbours, indices)

\* The strip through t, by the current links: what every set of triangles has
\* to contain that contains t and that no link leads out of.
Enclosed == {S \in SUBSET InUse : \A u \in S : \A d \in Links(u) : neighbours[u][d] \in S}
StripOf(t) == {u \in InUse : \A S \in Enclosed : t \in S => u \in S}

\* The two sides of each edge agree, and no triangle is linked at all three.
Agree(links(_)) ==
  \A t \in Tris :
    /\ \A d \in links(t) : /\ neighbours[t][d] # Null
                           /\ indices[t][d] \in links(neighbours[t][d])
    /\ \E d \in Dir : d \notin links(t)

\* Sets of triangles that have two links into the set each.
Circles(links(_)) ==
  {S \in SUBSET InUse :
     /\ S # {}
     /\ \A t \in S : ~AtMostOne({d \in links(t) : neighbours[t][d] \in S})}

\* A path has two places left for links: each of its triangles has two, and an
\* edge takes one on both sides.  links[t] are the positions that t is linked at.
LinksNow == [t \in Tris |-> Links(t)]
Places(links, S) ==
  {place \in S \X {1, 2} : place[2] > Cardinality(links[place[1]])}
SidesOf(links, S) == {side \in S \X Dir : side[2] \in links[side[1]]}

StripTypeOK ==
  /\ linkState \in [Tris -> SUBSET (0 .. 7)]
  /\ endpoint \subseteq Tris

=============================================================================
