----------------------------- MODULE Statistics ------------------------------
(***************************************************************************)
(* The statistics of a set of strips (src/rm_tristripper_stats.c): every   *)
(* three consecutive IDs of a strip are a triangle, or a swap if two of    *)
(* them are equal.                                                         *)
(***************************************************************************)
EXTENDS Integers, Sequences, FiniteSets

CONSTANT Sizes   \* how many values a size has

\* ids_count - 2 is unsigned.
WindowsCount(ids) == (Len(ids) - 2) % Sizes

Windows(strips) == UNION {{k} \X (1 .. WindowsCount(strips[k])) : k \in DOMAIN strips}

IsSwap(ids, j) == Cardinality({ids[j], ids[j + 1], ids[j + 2]}) < 3

\* Mutant: no strips need one restart less than none.
RestartsBetween(strips) == (Len(strips) - 1) % Sizes

RestartsCount(strips) == IF strips = <<>> THEN 0 ELSE Len(strips) - 1

\* rm_tristripper_calculate_stats; cost[s][r] is the cost in vertices when a
\* swap costs s and a primitive restart costs r of them.
CalculateStats(strips) ==
  LET swaps == Cardinality({w \in Windows(strips) : IsSwap(strips[w[1]], w[2])})
      valid == Cardinality({w \in Windows(strips) : ~IsSwap(strips[w[1]], w[2])})
  IN  [strips |-> Len(strips), validTris |-> valid, swaps |-> swaps,
       cost |-> [s \in 0 .. 1 |-> [r \in 0 .. 2 |->
                   Len(strips) * 2 + valid + swaps * s + RestartsCount(strips) * r]]]

=============================================================================
