------------------------------ MODULE Verifier ------------------------------
(***************************************************************************)
(* The verifier (src/rm_tristripper_verifier.c): it counts the triangles   *)
(* of a list in a hashmap, and compares any number of sets of strips with  *)
(* them.  The hashmap is used by its promise (Dictionary): it maps a key,  *)
(* three IDs in ascending order, to how often the triangle occurs and to   *)
(* the place of its counter in the array that a comparison allocates.      *)
(*                                                                         *)
(* One action per triangle of the list, per triple of consecutive IDs of a *)
(* strip, and for the start and the end of every loop.                     *)
(***************************************************************************)
EXTENDS Integers, Sequences, FiniteSets

CONSTANTS
  Lists,     \* the triangle lists: sequences of triples of IDs
  StripSets, \* the sets of strips: sequences of sequences of IDs
  Sizes      \* how many values a size has

\* IDs are numbers, and a strip has at least two of them (WindowsCount).
ASSUME ListsAssumption ==
  Lists \subseteq Seq([1 .. 3 -> Nat])
ASSUME StripSetsAssumption ==
  /\ StripSets \subseteq Seq(Seq(Nat))
  /\ \A set \in StripSets : \A k \in DOMAIN set : Len(set[k]) \in 2 .. Sizes - 1
ASSUME SizesAssumption == Sizes \in Nat

VARIABLES
  stage,        \* the loop that runs next; "None" without a verifier
  list, strips, \* what is counted, and what is compared with it
  occurrences,  \* the hashmap
  validTris, distinctTris,   \* the counters of the verifier
  next,         \* the triangle of the list that is read next
  strip, window,             \* the triple that is read next
  counters,     \* distinct_valid_tris_multiplicities
  matchedTris,  \* valid_tris_count of rm_tristripper_verify
  hasFoundError,
  missing,      \* the keys that are logged as missing
  verdict       \* what rm_tristripper_verify returned last

verifierVars == <<list, occurrences, validTris, distinctTris, next>>
callVars == <<strips, strip, window, counters, matchedTris, hasFoundError,
              missing, verdict>>
vars == <<stage, verifierVars, callVars>>

IsDegenerated(a, b, c) == a = b \/ b = c \/ c = a

\* The IDs in ascending order.
MakeKey(v0, v1, v2) ==
  CASE v0 < v1 /\ v0 < v2 /\ v1 < v2  -> <<v0, v1, v2>>
    [] v0 < v1 /\ v0 < v2 /\ v2 <= v1 -> <<v0, v2, v1>>
    [] v0 < v1 /\ v2 <= v0            -> <<v2, v0, v1>>
    [] v1 <= v0 /\ v1 < v2 /\ v0 < v2 -> <<v1, v0, v2>>
    [] v1 <= v0 /\ v1 < v2 /\ v2 <= v0 -> <<v1, v2, v0>>
    [] v1 <= v0 /\ v2 <= v1           -> <<v2, v1, v0>>

KeyOf(tri) == MakeKey(tri[1], tri[2], tri[3])

Init ==
  /\ stage = "None"
  /\ list = <<>> /\ occurrences = <<>> /\ validTris = 0 /\ distinctTris = 0
  /\ next = 1
  /\ strips = <<>> /\ strip = 1 /\ window = 1 /\ counters = <<>>
  /\ matchedTris = 0 /\ hasFoundError = FALSE /\ missing = {} /\ verdict = FALSE

-----------------------------------------------------------------------------
\* rm_tristripper_init_verifier

InitVerifier ==
  /\ stage = "None"
  /\ stage' = "Count"
  /\ list' \in Lists
  /\ occurrences' = <<>> /\ validTris' = 0 /\ distinctTris' = 0 /\ next' = 1
  /\ UNCHANGED callVars

SkipDegenerated ==
  /\ stage = "Count" /\ next <= Len(list)
  /\ IsDegenerated(list[next][1], list[next][2], list[next][3])
  /\ next' = next + 1
  /\ UNCHANGED <<stage, list, occurrences, validTris, distinctTris, callVars>>

\* An occurrence more of a triangle that is known, and one of a new triangle.
Merged(old) == [old EXCEPT !.multiplicity = @ + 1]

NewOccurrence == [multiplicity |-> 1, index |-> distinctTris]

CountTri ==
  LET key == KeyOf(list[next])
      isKnown == key \in DOMAIN occurrences
  IN  /\ stage = "Count" /\ next <= Len(list)
      /\ ~IsDegenerated(list[next][1], list[next][2], list[next][3])
      /\ occurrences' =
           [k \in DOMAIN occurrences \cup {key} |->
              IF k # key THEN occurrences[k]
              ELSE IF isKnown THEN Merged(occurrences[k]) ELSE NewOccurrence]
      /\ distinctTris' = IF isKnown THEN distinctTris ELSE distinctTris + 1
      /\ validTris' = validTris + 1
      /\ next' = next + 1
      /\ UNCHANGED <<stage, list, callVars>>

EndCount ==
  /\ stage = "Count" /\ next > Len(list)
  /\ stage' = "Ready"
  /\ UNCHANGED <<verifierVars, callVars>>

DisposeVerifier ==
  /\ stage \in {"Ready", "Answered"}
  /\ stage' = "None"
  /\ list' = <<>> /\ occurrences' = <<>> /\ validTris' = 0
  /\ distinctTris' = 0 /\ next' = 1
  /\ strips' = <<>> /\ strip' = 1 /\ window' = 1 /\ counters' = <<>>
  /\ matchedTris' = 0 /\ hasFoundError' = FALSE /\ missing' = {}
  /\ verdict' = FALSE

-----------------------------------------------------------------------------
\* rm_tristripper_verify

\* Mutant: the array of counters is not zeroed.
CountersLeft == [i \in 0 .. distinctTris - 1 |-> IF i \in DOMAIN counters THEN counters[i] ELSE 0]

NewCounters == [i \in 0 .. distinctTris - 1 |-> 0]

StartVerify ==
  /\ stage \in {"Ready", "Answered"}
  /\ stage' = "Compare"
  /\ strips' \in StripSets
  /\ counters' = NewCounters
  /\ strip' = 1 /\ window' = 1 /\ matchedTris' = 0
  /\ hasFoundError' = FALSE /\ missing' = {} /\ verdict' = FALSE
  /\ UNCHANGED verifierVars

\* ids_count - 2 is unsigned: for one ID it would be a huge number.
WindowsCount(ids) == (Len(ids) - 2) % Sizes

Triple == [i \in 1 .. 3 |-> strips[strip][window + i - 1]]
IsDegeneratedTriple == IsDegenerated(Triple[1], Triple[2], Triple[3])
ReadsTriple ==
  stage = "Compare" /\ strip <= Len(strips) /\ window <= WindowsCount(strips[strip])

SkipTriple ==
  /\ ReadsTriple /\ IsDegeneratedTriple
  /\ window' = window + 1
  /\ UNCHANGED <<stage, verifierVars, strips, strip, counters, matchedTris,
                 hasFoundError, missing, verdict>>

UnknownTriple ==
  /\ ReadsTriple /\ ~IsDegeneratedTriple
  /\ KeyOf(Triple) \notin DOMAIN occurrences
  /\ hasFoundError' = TRUE
  /\ window' = window + 1
  /\ UNCHANGED <<stage, verifierVars, strips, strip, counters, matchedTris,
                 missing, verdict>>

\* Mutant: one more than there are is let pass.
IsSuperfluousLate(count, occurrence) == count > occurrence.multiplicity + 1

IsSuperfluous(count, occurrence) == count > occurrence.multiplicity

\* A triple of the strip that is in the list: it matches one occurrence there,
\* or is one too many.
KnownTriple ==
  LET occurrence == occurrences[KeyOf(Triple)]
  IN  /\ ReadsTriple /\ ~IsDegeneratedTriple
      /\ KeyOf(Triple) \in DOMAIN occurrences
      /\ counters' = [counters EXCEPT ![occurrence.index] = @ + 1]
      /\ LET isSuperfluous == IsSuperfluous(counters'[occurrence.index], occurrence)
         IN  /\ hasFoundError' = (hasFoundError \/ isSuperfluous)
             /\ matchedTris' = IF isSuperfluous THEN matchedTris ELSE matchedTris + 1
      /\ window' = window + 1
      /\ UNCHANGED <<stage, verifierVars, strips, strip, missing, verdict>>

NextStrip ==
  /\ stage = "Compare" /\ strip <= Len(strips)
  /\ window > WindowsCount(strips[strip])
  /\ strip' = strip + 1 /\ window' = 1
  /\ UNCHANGED <<stage, verifierVars, strips, counters, matchedTris,
                 hasFoundError, missing, verdict>>

\* Too few matches: the triangles whose counter is too low are logged, by
\* rm_tristripper_verifier_log_missing_tris.
MissingTris ==
  {key \in DOMAIN occurrences :
     counters[occurrences[key].index] < occurrences[key].multiplicity}

EndVerify ==
  /\ stage = "Compare" /\ strip > Len(strips)
  /\ stage' = "Answered"
  /\ missing' = IF matchedTris < validTris THEN MissingTris ELSE {}
  /\ hasFoundError' = (hasFoundError \/ matchedTris < validTris)
  /\ verdict' = ~hasFoundError'
  /\ UNCHANGED <<verifierVars, strips, strip, window, counters, matchedTris>>

-----------------------------------------------------------------------------
Counting == SkipDegenerated \/ CountTri \/ EndCount
Comparing == SkipTriple \/ UnknownTriple \/ KnownTriple \/ NextStrip \/ EndVerify

Next ==
  \/ InitVerifier \/ StartVerify \/ DisposeVerifier
  \/ Counting \/ Comparing

Spec == Init /\ [][Next]_vars
=============================================================================
