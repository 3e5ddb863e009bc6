---------------------------- MODULE SessionProps -----------------------------
(***************************************************************************)
(* What the parts of the library promise each other, and their caller,     *)
(* over any number of calls.                                               *)
(***************************************************************************)
EXTENDS TristripperProps, Session, SequencesExt

\* "Each set of tristrips must cover exactly those triangles that form the
\* input" (rm_tristripper_verifier.h:13): the verifier accepts what create_strips
\* returns, whatever the calls before were.
AcceptedByVerifier == stage = "Answered" => verdict

\* The strips one after the other, with n restart IDs (here 0) between them.
Joined(n) ==
  FlattenSeq([k \in DOMAIN strips |->
                IF k = 1 THEN strips[k] ELSE [i \in 1 .. n |-> 0] \o strips[k]])

\* The statistics count each proper triangle of the list, and the cost model
\* with swaps at one vertex is the number of IDs that a renderer is sent, with
\* any number of restart IDs between two strips - and none for no strips.
StatsExact ==
  stats # NoStats =>
    /\ stats.validTris = Cardinality({i \in DOMAIN input : M!IsProper(input[i])})
    /\ stats.cost[1] = [n \in 0 .. 2 |-> Len(Joined(n))]

\* Over any number of calls, the configuration record that the caller passes
\* holds the largest even number that fits into 16 bits and that neither the
\* caller's nor the size of a mesh so far was below (but 2 at least): incremental
\* tunneling, which counts up in that very record, has come back to where it
\* started.
RecordHeld ==
  pc = "Output" =>
    config.maxCount =
      LET bounds == {asked, SmallestSoFar, 65535}
          bound == CHOOSE b \in bounds : \A c \in bounds : b <= c
      IN  IF SmallestSoFar = Unbounded THEN asked
          ELSE IF bound < 2 THEN 2 ELSE 2 * (bound \div 2)

\* Every call returns, and the verification of its strips comes to an end.  A
\* strip of less than two IDs, in which the verifier and the statistics would
\* read beyond the end (ids_count - 2 is unsigned), would stop it: the verifier
\* is given none.
Terminates == pc = "Call" ~> stage = "Answered"

=============================================================================
