----------------------------- MODULE VerifierInv -----------------------------
(***************************************************************************)
(* The inductive invariant of the verifier: what has been read of the list *)
(* and of the strips so far is what the hashmap and the counters say.      *)
(***************************************************************************)
EXTENDS VerifierProps

TriAt(p) == TripleAt(p[1], p[2])

\* Where a key has been read in the list and in the strips.
ListPlaces(key) == {i \in 1 .. next - 1 : IsProper(list[i]) /\ KeyOf(list[i]) = key}
StripPlaces(key) == {p \in PlacesRead : IsProper(TriAt(p)) /\ KeyOf(TriAt(p)) = key}

Known == DOMAIN occurrences
Multiplicity(key) == occurrences[key].multiplicity
Counter(key) == counters[occurrences[key].index]

\* The occurrences in the list, numbered for each key, and those of them that
\* an occurrence in the strips has been matched with.  The code has only their
\* numbers, validTris and matchedTris.
Slots == UNION {{key} \X (1 .. Multiplicity(key)) : key \in Known}
MatchedSlots == {s \in Slots : s[2] <= Counter(s[1])}

\* What makes hasFoundError true.
Unknown == {p \in PlacesRead : IsProper(TriAt(p)) /\ KeyOf(TriAt(p)) \notin Known}
Superfluous == {key \in Known : Counter(key) > Multiplicity(key)}

StripsLong == \A k \in DOMAIN strips : Len(strips[k]) \in 2 .. Sizes - 1

ListCounted ==
  /\ next <= Len(list) + 1
  /\ stage \notin {"None", "Count"} => next = Len(list) + 1
  /\ Known = {KeyOf(list[i]) : i \in {j \in 1 .. next - 1 : IsProper(list[j])}}
  /\ \A key \in Known :
       IsFiniteSet(ListPlaces(key)) /\ Multiplicity(key) = Cardinality(ListPlaces(key))
  /\ IsFiniteSet(Slots) /\ validTris = Cardinality(Slots)
  /\ CountersDistinct

StripsCounted ==
  stage \in {"Compare", "Answered"} =>
    /\ DOMAIN counters = 0 .. distinctTris - 1
    /\ strip <= Len(strips) + 1
    /\ \A key \in Known :
         IsFiniteSet(StripPlaces(key)) /\ Counter(key) = Cardinality(StripPlaces(key))
    /\ IsFiniteSet(MatchedSlots) /\ matchedTris = Cardinality(MatchedSlots)
    /\ stage = "Compare" =>
         (hasFoundError <=> Unknown # {} \/ Superfluous # {})

Answered ==
  /\ stage # "Answered" => missing = {}
  /\ stage = "Answered" =>
       /\ strip > Len(strips)
       /\ missing = IF matchedTris < validTris THEN MissingTris ELSE {}
       /\ verdict <=> ~(Unknown # {} \/ Superfluous # {} \/ matchedTris < validTris)

IInv == TypeOK /\ StripsLong /\ ListCounted /\ StripsCounted /\ Answered
=============================================================================
