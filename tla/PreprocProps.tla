----------------------------- MODULE PreprocProps ---------------------------
(***************************************************************************)
(* What preprocessing must hand over to tunneling and to the output.       *)
(***************************************************************************)
EXTENDS Preproc

\* The type invariant.
TypeOK ==
  /\ MeshOK /\ StripTypeOK /\ AdjTypeOK
  /\ preproc \in Algorithms
  /\ endpoints \in Seq(Tris) /\ stripsCount \in 0 .. MaxTris
  /\ pc \in {"Order", "Core", "Second", "Third", "Grow", "Start"}
  /\ \A e \in {grow, growNext} :
       /\ DOMAIN e = {"tri", "indexToPrev", "entrance"}
       /\ e.tri \in Tris \cup {Null} /\ e.indexToPrev \in Dir
  /\ firstEnd \in Tris \cup {Null}

\* Every variable has its type, and the adjacency lists hold exactly the
\* triangles of no strip, once each, in the list that the number of their
\* neighbours of no strip says - so that the next strip starts where the
\* supply is the shortest - and never one that is in the list of endpoints:
\* both kinds of list are linked through the same two pointers of a triangle.
ListsExact ==
  /\ TypeOK
  /\ preproc # "isolated" =>
       /\ pc # "Order" => AdjListsExact
       /\ ElementsOf(endpoints) \subseteq stripped

\* A strip grows as a path: the two sides of a link agree, no triangle of no
\* strip has a link, and the two ends of the one being grown have one each.
GrowsAPath ==
  /\ \A t \in InUse : \A d \in Links(t) :
       /\ neighbours[t][d] # Null
       /\ indices[t][d] \in Links(neighbours[t][d])
       /\ t \in stripped
  /\ pc = "Grow" =>
       \A e \in {grow, growNext} \ {NoEnd} :
         Links(e.tri) = {e.indexToPrev} /\ e.tri \notin endpoint

Cover == INSTANCE PathCover WITH linked <- [t \in Tris |-> Links(t)]

\* What tunneling starts from, and the output relies on: the strips are paths
\* that cover the triangles, their count is right, and the list of endpoints
\* holds the ends of the strips, the flagged triangles, once each.
CoverReady ==
  pc = "Start" =>
    /\ Cover!Init
    /\ endpoint = {t \in InUse : Cardinality(Links(t)) <= 1}
    /\ ElementsOf(endpoints) = endpoint
    /\ \A i, j \in DOMAIN endpoints : i # j => endpoints[i] # endpoints[j]

\* No strip could have grown into another one: the ends of two strips are
\* neighbours only if one of the two strips is a pair (the first triangle of a
\* pair is left as it is even when it has neighbours to go on to).
EndsApart ==
  pc = "Start" /\ preproc # "isolated" =>
    \A a \in endpoint : \A d \in Dir :
      LET b == neighbours[a][d]
      IN  b \in endpoint \ StripOf(a) =>
            2 \in {Cardinality(StripOf(a)), Cardinality(StripOf(b))}

=============================================================================
