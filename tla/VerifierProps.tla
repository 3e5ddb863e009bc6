--------------------------- MODULE VerifierProps ----------------------------
(***************************************************************************)
(* What the verdict of the verifier means.                                 *)
(***************************************************************************)
EXTENDS Verifier

IsProper(tri) == ~IsDegenerated(tri[1], tri[2], tri[3])
Corners(tri) == {tri[1], tri[2], tri[3]}

\* The triples of the strips that are read, and those that have been read.
TripleAt(k, w) == [i \in 1 .. 3 |-> strips[k][w + i - 1]]
Places == UNION {{k} \X (1 .. WindowsCount(strips[k])) : k \in DOMAIN strips}
PlacesRead == {p \in Places : p[1] < strip \/ (p[1] = strip /\ p[2] < window)}

\* Where a triangle, whatever its winding, is in the list and in the strips.
InList(corners) ==
  {i \in DOMAIN list : IsProper(list[i]) /\ Corners(list[i]) = corners}
InStrips(corners) ==
  {p \in Places : /\ IsProper(TripleAt(p[1], p[2]))
                  /\ Corners(TripleAt(p[1], p[2])) = corners}

AllCorners ==
  {Corners(list[i]) : i \in DOMAIN list} \cup
  {Corners(TripleAt(p[1], p[2])) : p \in Places}

TypeOK ==
  /\ stage \in {"None", "Count", "Ready", "Compare", "Answered"}
  /\ list \in Seq([1 .. 3 -> Nat]) /\ strips \in Seq(Seq(Nat))
  /\ DOMAIN occurrences \subseteq [1 .. 3 -> Nat]
  /\ occurrences \in [DOMAIN occurrences -> [multiplicity : Nat \ {0}, index : Nat]]
  /\ {validTris, distinctTris, matchedTris} \subseteq Nat
  /\ {next, strip, window} \subseteq Nat \ {0}
  /\ counters \in [DOMAIN counters -> Nat]
  /\ hasFoundError \in BOOLEAN /\ verdict \in BOOLEAN
  /\ missing \subseteq DOMAIN occurrences

\* "Each set of tristrips must cover exactly those triangles that form the
\* input" (rm_tristripper_verifier.h:13): the strips are accepted if and only
\* if every triangle, in whatever winding and however often, occurs in them
\* as often as in the list.  It holds for any number of comparisons with one
\* verifier.
VerdictExact ==
  stage = "Answered" =>
    (verdict <=> \A corners \in AllCorners :
                    Cardinality(InList(corners)) = Cardinality(InStrips(corners)))

\* The log names each triangle that the strips have too few of, and no other
\* (the sum of the matches is compared first, and only if it is too low the
\* counters are).
MissingExact ==
  stage = "Answered" =>
    {Corners(key) : key \in missing} =
    {corners \in AllCorners :
       Cardinality(InStrips(corners)) < Cardinality(InList(corners))}

\* Every known triangle has a counter of its own in the array, which is as
\* long as the number of distinct triangles says.
CountersDistinct ==
  /\ stage # "None" =>
       {occurrences[key].index : key \in DOMAIN occurrences} = 0 .. distinctTris - 1
  /\ \A k, l \in DOMAIN occurrences :
       k # l => occurrences[k].index # occurrences[l].index
=============================================================================
