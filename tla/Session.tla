------------------------------- MODULE Session -------------------------------
(***************************************************************************)
(* A caller of the library (include/rm_tristripper.h): it has strips       *)
(* created from a list of triangles, measures them, has them verified      *)
(* against the list, disposes of them, and calls again, with another list  *)
(* and the same configuration record, which create_strips has changed.     *)
(***************************************************************************)
EXTENDS Tristripper

CONSTANTS
  FollowUps,   \* the lists of the calls after the first one
  Sizes        \* how many values a size has

ASSUME FollowUpsAssumption ==
  /\ \A list \in FollowUps : B!IsInput(list)
  /\ Sizes \in Nat \ {0}

VARIABLES
  stats,              \* what rm_tristripper_calculate_stats wrote
  \* Verifier
  stage, counted, given, occurrences, validTris, distinctTris, nextTri,
  strip, window, counters, matchedTris, hasFoundError, missing, verdict,
  \* History: max_count as the caller set it, and the size of the smallest
  \* mesh that was tunneled with the record in the calls before this one.
  asked, smallest

verifierVars == <<stage, counted, given, occurrences, validTris, distinctTris,
                  nextTri, strip, window, counters, matchedTris, hasFoundError,
                  missing, verdict>>
historyVars == <<asked, smallest>>
sessionVars == <<vars, stats, verifierVars, historyVars>>

St == INSTANCE Statistics
V == INSTANCE VerifierProofs
       WITH Lists <- Inputs \cup FollowUps,
            StripSets <- Seq({s \in Seq(Nat) : Len(s) \in 2 .. Sizes - 1}),
            list <- counted, strips <- given, next <- nextTri

NoStats == <<>>
Unbounded == MaxTris + 1

SessionInit ==
  /\ Init
  /\ V!Init
  /\ stats = NoStats
  /\ asked = config.maxCount /\ smallest = Unbounded

Calling == Step /\ UNCHANGED <<stats, verifierVars, historyVars>>

Measure ==
  /\ pc = "Output" /\ stats = NoStats
  /\ stats' = St!CalculateStats(strips)
  /\ UNCHANGED <<vars, verifierVars, historyVars>>

CountList ==
  /\ pc = "Output" /\ stats # NoStats
  /\ counted' = input
  /\ V!InitVerifier
  /\ UNCHANGED <<vars, stats, historyVars>>

VerifyStrips ==
  /\ stage = "Ready"
  /\ given' = strips
  /\ V!StartVerify
  /\ UNCHANGED <<vars, stats, historyVars>>

Verifying ==
  /\ V!Counting \/ V!Comparing
  /\ UNCHANGED <<vars, stats, historyVars>>

\* rm_tristripper_dispose_strips and the next call, whose variables and whose
\* array are new; only the configuration record stays.
SmallestSoFar ==
  IF useTunneling /\ trisCount \in 1 .. smallest - 1 THEN trisCount ELSE smallest

CallAgain ==
  /\ stage = "Answered"
  /\ V!DisposeVerifier /\ stats' = NoStats
  /\ asked' = asked /\ smallest' = SmallestSoFar
  /\ pc' = "Call" /\ input' \in FollowUps
  /\ trisCount' = 0
  /\ \E b \in Bytes :
       /\ indices' = [t \in Tris |-> [d \in Dir |-> b]]
       /\ vertices' = [t \in Tris |-> [d \in Dir |-> b]]
       /\ neighbours' = [t \in Tris |-> [d \in Dir |-> IF b \in Tris THEN b ELSE Null]]
       /\ sharedByte' = [t \in Tris |-> b]
       /\ linkState' = [t \in Tris |-> B!BitsOf(b)]
       /\ endpoint' = IF B!IsEndpointBit \in B!BitsOf(b) THEN Tris ELSE {}
  /\ read' = 0 /\ edge' = 0 /\ openEdges' = <<>>
  /\ visited' = {} /\ stripped' = {}
  /\ lists' = [c \in 0 .. 3 |-> <<>>] /\ core' = <<>> /\ coreDirs' = <<>>
  /\ grow' = P!NoEnd /\ growNext' = P!NoEnd /\ firstEnd' = Null
  /\ limit' = 0 /\ endpoints' = <<>> /\ stripsCount' = 0
  /\ hasFound' = FALSE /\ first' = Null /\ tunnel' = <<>>
  /\ tunnelIndex' = [t \in Tris |-> 0] /\ loopCount' = 0
  /\ isolated' = {} /\ step' = 0 /\ walker' = Null
  /\ backIndex' = 0 /\ circleIndex' = 0
  /\ strips' = <<>> /\ ids' = <<>> /\ curr' = Null /\ indexToPrev' = 0
  /\ prevEntrance' = 0 /\ entrance' = 0
  /\ prefixCount' = 0 /\ isForward' = FALSE /\ end' = S!NoEnd
  /\ UNCHANGED <<settings, config>>

Next == Calling \/ Measure \/ CountList \/ VerifyStrips \/ Verifying \/ CallAgain

\* The library runs in the thread of its caller, who goes on after each call.
Spec == SessionInit /\ [][Next]_sessionVars /\ WF_sessionVars(Next)

=============================================================================
