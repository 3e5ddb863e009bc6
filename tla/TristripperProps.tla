-------------------------- MODULE TristripperProps --------------------------
(***************************************************************************)
(* What the caller of rm_tristripper_create_strips relies on, and what the *)
(* phases rely on each other for.                                          *)
(***************************************************************************)
EXTENDS Tristripper

M == INSTANCE Mesh

Corners(tri) == {tri[i] : i \in 1 .. 3}

\* The triangles that a strip spells: every three consecutive IDs that are
\* different, read backward at every second position.
Spells(strip) ==
  {i \in 1 .. Len(strip) - 2 :
     Cardinality({strip[i], strip[i + 1], strip[i + 2]}) = 3}
SpelledAt(strip, i) == IF i % 2 = 1 THEN <<strip[i], strip[i + 1], strip[i + 2]>>
                                    ELSE <<strip[i + 1], strip[i], strip[i + 2]>>

\* The same triangle, wound the same way.
SameWinding(a, b) ==
  \E k \in 0 .. 2 : \A i \in 1 .. 3 : a[i] = b[((i + k - 1) % 3) + 1]
SameCorners(a, b) == Corners(a) = Corners(b)

\* How many triangles of the input, and how many of all the strips, are tri.
InInput(tri, Same(_, _)) ==
  Cardinality({i \in DOMAIN input : Same(input[i], tri)})
InStrips(tri, Same(_, _)) ==
  Cardinality({place \in UNION {{k} \X Spells(strips[k]) : k \in DOMAIN strips} :
                 Same(SpelledAt(strips[place[1]], place[2]), tri)})
Spelled ==
  UNION {{SpelledAt(strips[k], i) : i \in Spells(strips[k])} : k \in DOMAIN strips}

\* The strips spell each proper triangle of the input exactly as often as the
\* input has it, and nothing else; this is what the verifier counts.
OutputSpells ==
  pc = "Output" =>
    \A tri \in {input[i] : i \in {j \in DOMAIN input : M!IsProper(input[j])}}
               \cup Spelled :
      InInput(tri, SameCorners) = InStrips(tri, SameCorners)

\* The neighbours wind the same way: they cross an edge in opposite directions.
IsOriented ==
  \A t \in 1 .. trisCount : \A d \in Dir :
    neighbours[t][d] # Null =>
      Edge(neighbours[t][d], indices[t][d]) = <<Edge(t, d)[2], Edge(t, d)[1]>>

\* With preserve_orientation the strips of an oriented surface spell every
\* triangle with its own winding.
OrientationKept ==
  pc = "Output" /\ preserve /\ IsOriented =>
    \A tri \in Spelled :
      InInput(tri, SameWinding) = InStrips(tri, SameWinding)

\* Tunneling keeps its promises from whatever strips preprocessing hands over.
IsTunneling == pc \in T!Quiet \cup T!Digging \cup T!Cementing \cup {"Exit"}
TunnelingHolds ==
  IsTunneling =>
    /\ T!AssertionsHold /\ T!LinksAgree /\ T!EndpointList
    /\ T!VisitedIsTunnel /\ T!TunnelAlternates /\ T!CircleCheckExact

\* An unlimited search leaves only tunnels behind that it has given up at a
\* circle, from whatever strips.
NoneOverlooked == IsTunneling => T!TunnelsTried

\* Tunneling only ever joins two strips.
TunnelingJoins ==
  [][IsTunneling => T!Cover!Join \/ UNCHANGED T!Cover!vars]_vars

\* As long as a strip is missing there is an endpoint that no strip has been
\* collected from, and when all of them are there the list is through: the list
\* of endpoints and the count of strips, which every phase keeps separately,
\* have been in step all the time.
EndpointsLast ==
  /\ pc = "Collect" =>
       /\ first \in endpoint
       /\ \E i \in DOMAIN endpoints : endpoints[i] = first
       /\ Len(strips) < stripsCount
  /\ pc = "Output" => first = Null                                      \* 396

=============================================================================
