---------------------------- MODULE SessionProofs ----------------------------
(***************************************************************************)
(* For all inputs, settings and numbers of calls, as long as no search is  *)
(* cancelled in the middle of a longer tunnel: every phase of create_strips *)
(* finds what the theorem about it starts from, so that what has been      *)
(* proved of building the triangles, preprocessing and tunneling, each     *)
(* from its own initial states, holds in the composition; the output comes *)
(* to the end of the endpoints with the last strip; and the configuration  *)
(* record carries over what was proved of it.  Last, what lists of IDs     *)
(* spell as they grow, and that collecting the strips spells the triangles *)
(* of each; SpellingProofs goes on from there.                             *)
(***************************************************************************)
EXTENDS SessionInv, TriLemmas

-----------------------------------------------------------------------------
(* What the theorems about the phases assume of their constants.           *)
LEMMA PhasesApply ==
  /\ MaxTris \in Nat \ {0}
  /\ B!InputsAssumption
  /\ {s.config : s \in Settings} \subseteq T!ConfigSet
  /\ \A m \in {} : T!IsMesh(m.trisCount, m.neighbours, m.indices)
  /\ \A m \in {} : P!IsMesh(m.trisCount, m.neighbours, m.indices)
<1>1. {s.config : s \in Settings} \subseteq T!ConfigSet
  BY SettingsAssumption
<1> QED
  BY <1>1, MaxTrisAssumption, InputsAssumption

(* A step of building the triangles keeps the invariant of building them.  *)
LEMMA BuildingKeeps ==
  B!IInv /\ B!Step => B!IInv'
<1>1. B!IInv /\ [B!Next]_(B!vars) => B!IInv'
  BY PhasesApply, B!NextIInv DEF B!MaxTrisAssumption, B!InputsAssumption
<1> QED
  BY <1>1 DEF B!Next

(* A step of preprocessing keeps the invariant of preprocessing.           *)
LEMMA PreprocessingKeeps ==
  P!PreprocInv /\ P!Step => P!PreprocInv'
<1>1. P!PreprocInv /\ [P!Next]_(P!vars) => P!PreprocInv'
  BY PhasesApply, P!NextInv
<1> QED
  BY <1>1 DEF P!Next

(* A step of tunneling keeps the invariant of tunneling.                   *)
LEMMA TunnelingKeeps ==
  T!TriedInv /\ T!Step => T!TriedInv'
<1>1. T!TriedInv /\ [T!Next]_(T!vars) => T!TriedInv'
  BY PhasesApply, T!NextTriedInv
<1> QED
  BY <1>1 DEF T!Next

-----------------------------------------------------------------------------
(***************************************************************************)
(* The frame of each step.                                                 *)
(***************************************************************************)
(* Building the triangles leaves the record and the strips alone.          *)
LEMMA BuildingFrame ==
  ASSUME Building
  PROVE  /\ pc \in {"Read", "Stitch"} /\ pc' \in Reading
         /\ UNCHANGED <<settings, config, adjacencyVars, growVars, endpointVars, first,
                        tunnelVars, strips, input>>
<1> USE DEF Building, Reading
<1>1. CASE B!ReadTri
  BY <1>1 DEF B!ReadTri
<1>2. CASE B!StitchEdge
  BY <1>2 DEF B!StitchEdge
<1>3. CASE B!FinishBuild
  BY <1>3 DEF B!FinishBuild
<1> QED
  BY <1>1, <1>2, <1>3 DEF B!Step

(* Preprocessing leaves the triangles and the record alone.                *)
LEMMA PreprocessingFrame ==
  ASSUME Preprocessing
  PROVE  /\ pc \in Preparing /\ pc' \in Preparing \cup {"Start"}
         /\ UNCHANGED <<mesh, settings, config, buildVars, first, tunnelVars, strips>>
<1> USE DEF Preprocessing, Preparing, P!mesh, mesh, settings
<1>1. CASE P!Isolate
  BY <1>1 DEF P!Isolate
<1>2. CASE P!OrderTris
  BY <1>2 DEF P!OrderTris
<1>3. CASE P!NoCoreLeft
  BY <1>3 DEF P!NoCoreLeft
<1>4. CASE P!DelineateFirst
  BY <1>4 DEF P!DelineateFirst
<1>5. CASE P!DelineateSecond
  BY <1>5 DEF P!DelineateSecond
<1>6. CASE P!DelineateThird
  BY <1>6 DEF P!DelineateThird
<1>7. CASE P!FinishShortStrip
  BY <1>7 DEF P!FinishShortStrip
<1>8. CASE P!GrowStrip
  BY <1>8 DEF P!GrowStrip
<1>9. CASE P!TurnAround \/ P!FinishStrip
  BY <1>9 DEF P!TurnAround, P!FinishStrip
<1> QED
  BY <1>1, <1>2, <1>3, <1>4, <1>5, <1>6, <1>7, <1>8, <1>9 DEF P!Step

(* So does tunneling, but for max_count and the limit that it counts up to *)
(* when a pass begins or ends.                                             *)
LEMMA TunnelingFrame ==
  ASSUME Tunneling
  PROVE  /\ pc \in Tunneled
         /\ UNCHANGED <<mesh, settings, buildVars, strips>>
         /\ \/ T!StartTunneling \/ T!EndPass
            \/ pc # "Start" /\ pc' \notin {"Start", "Done"} /\ UNCHANGED <<config, limit>>
<1> USE DEF Tunneling, Tunneled, T!Quiet, T!Digging, T!Cementing, T!mesh, mesh, T!passVars,
            T!DigFailed, T!ContinueWith, T!BacktrackTo
<1>1. CASE T!StartTunneling \/ T!EndPass
  BY <1>1 DEF T!StartTunneling, T!EndPass
<1>2. CASE T!StartPass \/ T!StopAtDestCount \/ T!StartDig \/ T!TunnelFound
  BY <1>2 DEF T!StartPass, T!StopAtDestCount, T!StartDig, T!TunnelFound
<1>3. CASE T!CancelDig \/ T!RetreatDig \/ T!Push \/ T!ExpandTunnel
  BY <1>3 DEF T!CancelDig, T!RetreatDig, T!Push, T!ExpandTunnel
<1>4. CASE T!BacktrackTunnel \/ T!RetreatTunnel
  BY <1>4 DEF T!BacktrackTunnel, T!RetreatTunnel, T!Backtrack
<1>5. CASE T!StartCement \/ T!FlipEdge \/ T!UnmarkEndpoints \/ T!UndoTunnel
  BY <1>5 DEF T!StartCement, T!FlipEdge, T!UnmarkEndpoints, T!UndoTunnel
<1>6. CASE T!StartWalk \/ T!SkipStarter \/ T!WalkOn \/ T!EndWalk
  BY <1>6 DEF T!StartWalk, T!SkipStarter, T!WalkOn, T!EndWalk
<1> QED
  BY <1>1, <1>2, <1>3, <1>4, <1>5, <1>6 DEF T!Step

(* The simple algorithm leaves the triangles and the record alone.         *)
LEMMA BuildingSimpleFrame ==
  ASSUME BuildingSimple
  PROVE  /\ pc \in Simply /\ pc' \in Simply \cup {"Output"}
         /\ UNCHANGED <<mesh, settings, config, buildVars, first>>
<1> USE DEF BuildingSimple, Simply, S!mesh, mesh, settings
<1>1. CASE S!OrderTris \/ S!NoCoreLeft \/ S!BuildFirst \/ S!BuildSecond
  BY <1>1 DEF S!OrderTris, S!NoCoreLeft, S!BuildFirst, S!BuildSecond
<1>2. CASE S!BuildThird \/ S!FinishShortStrip
  BY <1>2 DEF S!BuildThird, S!FinishShortStrip
<1>3. CASE S!GrowOn \/ S!FinishBackward \/ S!FinishForward
  BY <1>3, Zenon DEF S!GrowOn, S!FinishBackward, S!FinishForward
<1> QED
  BY <1>1, <1>2, <1>3 DEF S!Step

-----------------------------------------------------------------------------
(***************************************************************************)
(* The configuration record.                                               *)
(***************************************************************************)
(* What rm_tristripper_create_strips truncates max_count to: x, the least of *)
(* the three bounds, or one less.                                            *)
IsEvenOf(v, x) ==
  /\ v \in Nat /\ v % 2 = 0 /\ v >= 2
  /\ x < 2 => v = 2
  /\ x >= 2 => v <= x /\ x < v + 2
LeastOf(c, n) == T!MinOf(T!MinOf(c, n), 65535)

(* The least of the bounds is one of them.                                 *)
LEMMA LeastIs ==
  ASSUME NEW c \in Nat, NEW n \in Nat
  PROVE  /\ LeastOf(c, n) \in Nat
         /\ LeastOf(c, n) <= c /\ LeastOf(c, n) <= n /\ LeastOf(c, n) <= 65535
         /\ LeastOf(c, n) = c \/ LeastOf(c, n) = n \/ LeastOf(c, n) = 65535
BY DEF LeastOf, T!MinOf

(* The truncation rounds the least bound down to an even number.           *)
LEMMA TruncatedIs ==
  ASSUME NEW c \in Nat, NEW n \in Nat
  PROVE  IsEvenOf(T!TruncatedMaxCount(c, n), LeastOf(c, n))
<1> DEFINE x == LeastOf(c, n)
<1>1. x \in Nat
  BY LeastIs
<1>2. T!TruncatedMaxCount(c, n) = T!MaxOf((x \div 2) * 2, 2)
  BY DEF T!TruncatedMaxCount, LeastOf
<1> HIDE DEF x
<1>3. x \div 2 \in Nat /\ 2 * (x \div 2) <= x /\ x < 2 * (x \div 2) + 2
  BY <1>1
<1>4. T!TruncatedMaxCount(c, n) = IF x < 2 THEN 2 ELSE 2 * (x \div 2)
  BY <1>1, <1>2, <1>3 DEF T!MaxOf
<1>5. IsEvenOf(T!TruncatedMaxCount(c, n), x)
  BY <1>1, <1>3, <1>4 DEF IsEvenOf
<1> QED
  BY <1>5 DEF x

(* It fits into 16 bits, and a small one becomes the smallest.             *)
LEMMA TruncatedRange ==
  ASSUME NEW c \in Nat, NEW n \in Nat
  PROVE  /\ T!TruncatedMaxCount(c, n) \in Nat
         /\ 2 <= T!TruncatedMaxCount(c, n) /\ T!TruncatedMaxCount(c, n) <= 65535
         /\ c <= 3 => T!TruncatedMaxCount(c, n) = 2
<1> DEFINE v == T!TruncatedMaxCount(c, n)
           x == LeastOf(c, n)
<1>1. IsEvenOf(v, x)
  BY TruncatedIs
<1>2. x \in Nat /\ x <= c /\ x <= 65535
  BY LeastIs
<1> HIDE DEF v, x
<1>3. v \in Nat /\ 2 <= v /\ v <= 65535 /\ (c <= 3 => v = 2)
  <2>1. CASE x < 2
    BY <1>1, <2>1 DEF IsEvenOf
  <2>2. CASE x >= 2
    BY <1>1, <1>2, <2>2 DEF IsEvenOf
  <2> QED
    BY <1>2, <2>1, <2>2
<1> QED
  BY <1>3 DEF v

(* Truncating twice is truncating at the smaller mesh.                     *)
LEMMA TruncatedTwice ==
  ASSUME NEW c \in Nat, NEW n \in Nat, NEW m \in Nat, NEW k \in Nat,
         k <= n, k <= m, k = n \/ k = m
  PROVE  /\ T!TruncatedMaxCount(c, n) \in Nat
         /\ T!TruncatedMaxCount(T!TruncatedMaxCount(c, n), m) = T!TruncatedMaxCount(c, k)
<1> DEFINE v == T!TruncatedMaxCount(c, n)
           x == LeastOf(c, n)
           w == T!TruncatedMaxCount(v, m)
           y == LeastOf(v, m)
           u == T!TruncatedMaxCount(c, k)
           z == LeastOf(c, k)
<1>1. IsEvenOf(v, x) /\ IsEvenOf(u, z)
  BY TruncatedIs
<1>2. v \in Nat
  BY <1>1 DEF IsEvenOf
<1> HIDE DEF v
<1>3. IsEvenOf(w, y)
  BY <1>2, TruncatedIs
<1>4. /\ x \in Nat /\ x <= c /\ x <= n /\ x <= 65535 /\ (x = c \/ x = n \/ x = 65535)
      /\ z \in Nat /\ z <= c /\ z <= k /\ z <= 65535 /\ (z = c \/ z = k \/ z = 65535)
  <2>1. x \in Nat /\ x <= c /\ x <= n /\ x <= 65535 /\ (x = c \/ x = n \/ x = 65535)
    BY LeastIs
  <2>2. z \in Nat /\ z <= c /\ z <= k /\ z <= 65535 /\ (z = c \/ z = k \/ z = 65535)
    BY LeastIs
  <2> QED
    BY <2>1, <2>2
<1>5. y \in Nat /\ y <= v /\ y <= m /\ y <= 65535 /\ (y = v \/ y = m \/ y = 65535)
  BY <1>2, LeastIs
<1> HIDE DEF x, y, z, w, u
<1>6. z <= x /\ z <= m /\ (z = x \/ z = m)
  BY <1>4
<1>7. w = u
  <2>1. CASE z < 2
    <3>1. u = 2
      BY <1>1, <2>1 DEF IsEvenOf
    <3>2. CASE x < 2
      <4>1. v = 2
        BY <1>1, <3>2 DEF IsEvenOf
      <4>2. y <= 2
        BY <1>5, <4>1
      <4> QED
        BY <1>3, <1>5, <3>1, <4>2 DEF IsEvenOf
    <3>3. CASE x >= 2
      <4>1. y < 2
        BY <1>4, <1>5, <1>6, <2>1, <3>3
      <4> QED
        BY <1>3, <3>1, <4>1 DEF IsEvenOf
    <3> QED
      BY <1>4, <3>2, <3>3
  <2>2. CASE z >= 2
    <3>1. x >= 2 /\ m >= 2
      BY <1>4, <1>6, <2>2
    <3>2. v \in Nat /\ v % 2 = 0 /\ v >= 2 /\ v <= x /\ x < v + 2
      BY <1>1, <3>1 DEF IsEvenOf
    <3>3. y >= 2
      BY <1>5, <3>1, <3>2
    <3>4. w \in Nat /\ w % 2 = 0 /\ w <= y /\ y < w + 2
      BY <1>3, <3>3 DEF IsEvenOf
    <3>5. u \in Nat /\ u % 2 = 0 /\ u <= z /\ z < u + 2
      BY <1>1, <2>2 DEF IsEvenOf
    <3>6. y = v \/ y = m
      BY <1>4, <1>5, <3>2
    <3>7. CASE y = v
      <4>1. w = v
        BY <3>2, <3>4, <3>7
      <4>2. z <= x /\ z >= v
        BY <1>4, <1>5, <1>6, <3>2, <3>7
      <4> QED
        BY <3>2, <3>5, <4>1, <4>2, <1>4
    <3>8. CASE y = m
      <4>1. z = x \/ z = y
        BY <1>6, <3>8
      <4>2. CASE z = y
        BY <1>4, <3>4, <3>5, <4>2
      <4>3. CASE z = x
        <5>1. y <= v /\ v <= x /\ x <= y
          BY <1>4, <1>5, <1>6, <3>2, <3>8, <4>3
        <5> QED
          BY <1>4, <1>5, <3>2, <3>4, <3>5, <4>3, <5>1
      <4> QED
        BY <4>1, <4>2, <4>3
    <3> QED
      BY <3>6, <3>7, <3>8
  <2> QED
    BY <1>4, <2>1, <2>2
<1> QED
  BY <1>2, <1>7 DEF v, w, u

-----------------------------------------------------------------------------
(***************************************************************************)
(* The steps of the phases.                                                *)
(***************************************************************************)
(* The parts of the invariant that a step leaves alone.                    *)
LEMMA Unsettled ==
  ASSUME UNCHANGED <<asked, smallest, useTunneling, trisCount>>
  PROVE  /\ SmallestSoFar' = SmallestSoFar
         /\ \A n : Held(n)' = Held(n)
         /\ Held(smallest)' = Held(smallest)
         /\ Held(SmallestSoFar)' = Held(SmallestSoFar)
BY DEF SmallestSoFar, Held

(* Building the triangles keeps the invariant of the session.              *)
LEMMA BuildingStep ==
  ASSUME SessionInv, Building, UNCHANGED <<stats, verifierVars, historyVars>>
  PROVE  SessionInv'
<1>1. /\ pc \in {"Read", "Stitch"} /\ pc' \in Reading
      /\ UNCHANGED <<settings, config, adjacencyVars, growVars, endpointVars, first,
                     tunnelVars, strips, input>>
  BY BuildingFrame
<1>2. pc \in Reading
  BY <1>1 DEF Reading
<1>3. B!IInv'
  BY <1>2, BuildingKeeps DEF SessionInv, PhasesOK, Building
<1>4. PhaseOK'
  BY <1>1 DEF SessionInv, PhaseOK, verifierVars, Reading, Preparing, Tunneled, Writing, Simply,
              T!Quiet, T!Digging, T!Cementing
<1>5. UntouchedOK'
  BY <1>1, <1>2
  DEF SessionInv, UntouchedOK, NoStrips, T!Untouched, Reading, Preparing, Tunneled, Simply,
      adjacencyVars, growVars, endpointVars, tunnelVars, T!Quiet, T!Digging, T!Cementing
<1>6. SettingsOK'
  BY <1>1 DEF SessionInv, SettingsOK, settings, tunnelVars, Reading, Preparing
<1>7. PhasesOK'
  BY <1>1, <1>3 DEF PhasesOK, Reading, Preparing, Tunneled, T!Quiet, T!Digging, T!Cementing
<1>8. OutputOK'
  BY <1>1 DEF OutputOK, Reading, Writing
<1>9. trisCount' \in 0 .. MaxTris
  BY <1>3, MaxTrisAssumption DEF B!IInv, B!CountersOK, B!IsInput
<1>10. RecordOK'
  BY <1>1, <1>2, <1>9
  DEF SessionInv, RecordOK, Reading, Preparing, Tunneled, Writing, T!Quiet, T!Digging, T!Cementing,
      historyVars, settings, Held, Simply
<1> QED
  BY <1>4, <1>5, <1>6, <1>7, <1>8, <1>10 DEF SessionInv

(* So does the simple algorithm.                                           *)
LEMMA BuildingSimpleStep ==
  ASSUME SessionInv, BuildingSimple, UNCHANGED <<stats, verifierVars, historyVars>>
  PROVE  SessionInv'
<1>1. /\ pc \in Simply /\ pc' \in Simply \cup {"Output"}
      /\ UNCHANGED <<mesh, settings, config, buildVars, first>>
  BY BuildingSimpleFrame
<1>2. PhaseOK'
  BY <1>1 DEF SessionInv, PhaseOK, verifierVars, Reading, Preparing, Tunneled, Writing, Simply,
              T!Quiet, T!Digging, T!Cementing, settings
<1>3. UntouchedOK'
  BY <1>1 DEF SessionInv, UntouchedOK, Reading, Preparing, Tunneled, Simply,
              T!Quiet, T!Digging, T!Cementing
<1>4. limit' = limit
  BY DEF BuildingSimple, tunnelVars
<1>5. SettingsOK'
  BY <1>1, <1>4 DEF SessionInv, SettingsOK, settings, buildVars, Simply, Preparing
<1>6. PhasesOK'
  BY <1>1 DEF PhasesOK, Simply, Reading, Preparing, Tunneled, T!Quiet, T!Digging, T!Cementing
<1>7. OutputOK'
  BY <1>1 DEF OutputOK, Simply, Writing
<1>8. ~useTunneling /\ SmallestSoFar = smallest
  BY <1>1 DEF SessionInv, PhaseOK, SmallestSoFar
<1>9. RecordOK'
  BY <1>1, <1>8, Unsettled
  DEF SessionInv, RecordOK, Reading, Preparing, Tunneled, Writing, T!Quiet, T!Digging, T!Cementing,
      historyVars, settings, Simply, mesh
<1> QED
  BY <1>2, <1>3, <1>5, <1>6, <1>7, <1>9 DEF SessionInv

(* What preprocessing hands over is what tunneling starts from.            *)
LEMMA HandedOver ==
  P!PreprocInv /\ pc = "Start" /\ T!Untouched /\ T!ConfigOK => T!TriedInv
<1> SUFFICES ASSUME P!PreprocInv, pc = "Start", T!Untouched, T!ConfigOK PROVE T!TriedInv
  OBVIOUS
<1>1. T!MeshOK /\ linkState \in [Tris -> SUBSET Dir] /\ stripsCount \in Nat
  BY DEF P!PreprocInv, P!ArraysOK, P!MeshOK, P!IsMesh, P!Stitched, P!Tris, P!Dir, P!Byte, P!Null,
         T!MeshOK, T!IsMesh, T!Stitched, T!Tris, T!Dir, T!Byte, T!Null, Tris, Dir
<1>2. sharedByte \in [Tris -> T!Byte]
  BY DEF P!PreprocInv, P!ArraysOK, P!Tris, Tris, T!Byte
<1>3. T!Agree(T!Links) /\ T!Circles(T!Links) = {}
  BY Zenon DEF P!PreprocInv, P!LinksOK, P!Agree, P!Circles, P!Links, P!LinksOf, P!Dir, P!Tris, P!Null,
         P!InUse, P!AtMostOne, T!Agree, T!Circles, T!Links, T!LinksOf, T!Dir, T!Tris, T!Null,
         T!InUse, T!AtMostOne
<1>4. T!Cardinality(T!Places(T!LinksNow, T!InUse)) = 2 * stripsCount
  <2>1. P!Cardinality(P!Places(P!LinksNow, P!InUse)) = 2 * stripsCount
    BY PhasesApply, P!StartPlaces
  <2>2. \A X : P!Cardinality(X) = Cardinality(X) /\ T!Cardinality(X) = Cardinality(X)
    BY DEF P!Cardinality, T!Cardinality, Cardinality, P!IsFiniteSet, T!IsFiniteSet, IsFiniteSet
  <2>3. P!Places(P!LinksNow, P!InUse) = T!Places(T!LinksNow, T!InUse)
    BY <2>2 DEF P!Places, P!LinksNow, P!InUse, P!Links, P!LinksOf, P!Dir, P!Tris,
                T!Places, T!LinksNow, T!InUse, T!Links, T!LinksOf, T!Dir, T!Tris
  <2> QED
    BY <2>1, <2>2, <2>3
<1>5. endpoint = T!Ends(T!Links)
  BY DEF P!PreprocInv, P!EndpointsOK, P!Taken, P!Growing, P!Links, P!LinksOf, P!Dir, P!InUse,
         P!AtMostOne, T!Ends, T!Links, T!LinksOf, T!Dir, T!InUse, T!AtMostOne
<1>6. endpoints \in Seq(T!Tris) /\ T!IsInjectiveList(endpoints) /\ T!ElementsOf(endpoints) = endpoint
  BY DEF P!PreprocInv, P!EndpointsOK, P!Tris, P!IsInjectiveList, P!ElementsOf,
         T!Tris, T!IsInjectiveList, T!ElementsOf
<1>7. T!Ready
  BY <1>1, <1>2, <1>3, <1>4, <1>5, <1>6 DEF T!Ready, T!Tris, T!Dir, Tris, Dir
<1> QED
  BY <1>7, PhasesApply, T!ReadyTried

(* Preprocessing keeps the invariant of the session, and hands over.       *)
LEMMA PreprocessingStep ==
  ASSUME SessionInv, Preprocessing, UNCHANGED <<stats, verifierVars, historyVars>>
  PROVE  SessionInv'
<1>1. /\ pc \in Preparing /\ pc' \in Preparing \cup {"Start"}
      /\ UNCHANGED <<mesh, settings, config, buildVars, first, tunnelVars, strips>>
  BY PreprocessingFrame
<1>2. P!PreprocInv'
  BY <1>1, PreprocessingKeeps DEF SessionInv, PhasesOK, Preprocessing
<1>3. T!Untouched'
  BY <1>1 DEF SessionInv, UntouchedOK, T!Untouched, tunnelVars
<1>4. T!ConfigOK'
  BY <1>1 DEF SessionInv, SettingsOK, T!ConfigOK, T!ConfigSet, tunnelVars
<1>5. pc' = "Start" => T!TriedInv'
  <2>1. (P!PreprocInv /\ pc = "Start" /\ T!Untouched /\ T!ConfigOK => T!TriedInv)'
    BY HandedOver, PTL
  <2> QED
    BY <1>2, <1>3, <1>4, <2>1
<1>6. PhaseOK'
  BY <1>1 DEF SessionInv, PhaseOK, verifierVars, Reading, Preparing, Tunneled, Writing, Simply,
              T!Quiet, T!Digging, T!Cementing, settings, mesh
<1>7. UntouchedOK'
  BY <1>1, <1>3
  DEF SessionInv, UntouchedOK, Reading, Preparing, Tunneled, Simply, T!Quiet, T!Digging, T!Cementing
<1>8. SettingsOK'
  BY <1>1, <1>4 DEF SessionInv, SettingsOK, settings, buildVars, tunnelVars
<1>9. PhasesOK'
  BY <1>1, <1>2, <1>5 DEF PhasesOK, Reading, Preparing, Tunneled, T!Quiet, T!Digging, T!Cementing
<1>10. OutputOK'
  BY <1>1 DEF OutputOK, Preparing, Writing
<1>11. RecordOK'
  BY <1>1, Unsettled
  DEF SessionInv, RecordOK, Reading, Preparing, Tunneled, Writing, T!Quiet, T!Digging, T!Cementing,
      historyVars, settings, Simply, mesh
<1> QED
  BY <1>6, <1>7, <1>8, <1>9, <1>10, <1>11 DEF SessionInv

(* In tunneling the configuration holds the truncated number.              *)
LEMMA HeldIsEven ==
  ASSUME RecordOK, useTunneling, trisCount # 0
  PROVE  /\ SmallestSoFar \in 1 .. MaxTris
         /\ Held(SmallestSoFar) \in Nat /\ Held(SmallestSoFar) % 2 = 0
         /\ Held(SmallestSoFar) >= 2
<1>1. SmallestSoFar \in 1 .. MaxTris
  BY MaxTrisAssumption DEF RecordOK, SmallestSoFar, Unbounded
<1>2. IsEvenOf(T!TruncatedMaxCount(asked, SmallestSoFar), LeastOf(asked, SmallestSoFar))
  <2>1. asked \in Nat /\ SmallestSoFar \in Nat
    BY <1>1 DEF RecordOK
  <2> QED
    BY <2>1, TruncatedIs
<1>3. Held(SmallestSoFar) = T!TruncatedMaxCount(asked, SmallestSoFar)
  BY <1>1, MaxTrisAssumption DEF Held, Unbounded
<1> QED
  BY <1>1, <1>2, <1>3 DEF IsEvenOf

(* Tunneling keeps the invariant of the session; incremental tunneling     *)
(* ends with max_count at the limit again.                                 *)
LEMMA TunnelingStep ==
  ASSUME SessionInv, Tunneling, UNCHANGED <<stats, verifierVars, historyVars>>
  PROVE  SessionInv'
<1>1. /\ pc \in Tunneled
      /\ UNCHANGED <<mesh, settings, buildVars, strips>>
      /\ \/ T!StartTunneling \/ T!EndPass
         \/ pc # "Start" /\ pc' \notin {"Start", "Done"} /\ UNCHANGED <<config, limit>>
  BY TunnelingFrame
<1>2. T!TriedInv' /\ T!CoverInv /\ T!CoverInv'
  BY <1>1, TunnelingKeeps DEF SessionInv, PhasesOK, Tunneling, T!TriedInv
<1>3. pc' \in Tunneled
  BY <1>2 DEF T!CoverInv, T!IInv, T!CountersOK, Tunneled
<1> USE DEF T!Quiet, T!Digging, T!Cementing
<1>4. PhaseOK'
  BY <1>1, <1>3 DEF SessionInv, PhaseOK, verifierVars, Reading, Preparing, Tunneled, Writing, Simply,
                    settings, mesh
<1>5. UntouchedOK'
  BY <1>1, <1>3 DEF SessionInv, UntouchedOK, Reading, Preparing, Tunneled, Simply
<1>6. T!ConfigOK /\ T!ConfigOK'
  BY <1>2 DEF T!CoverInv, T!IInv
<1>7. SettingsOK'
  <2>1. B!IsInput(input)' /\ preproc' \in P!Algorithms
    BY <1>1 DEF SessionInv, SettingsOK, settings, buildVars
  <2>2. config' \in T!ConfigSet /\ limit' \in Nat
    BY <1>6 DEF T!ConfigOK, T!ConfigSet
  <2>3. \/ config'.loopLimit = 0 \/ config'.backtrackAfterLoopLimit
        \/ config'.maxCount <= 3 /\ limit' <= 3
    BY <1>6, <2>2 DEF T!ConfigOK
  <2>4. pc' \notin Preparing
    BY <1>3 DEF Preparing, Tunneled
  <2> QED
    BY <2>1, <2>2, <2>3, <2>4 DEF SettingsOK
<1>8. PhasesOK'
  BY <1>2, <1>3 DEF PhasesOK, Reading, Preparing, Tunneled
<1>9. OutputOK'
  BY <1>3 DEF OutputOK, Tunneled, Writing
<1>10. RecordOK'
  <2>1. /\ SmallestSoFar' = SmallestSoFar /\ Held(SmallestSoFar)' = Held(SmallestSoFar)
        /\ asked' \in Nat /\ smallest' \in 1 .. Unbounded
        /\ trisCount' \in 0 .. MaxTris
    BY <1>1, Unsettled DEF SessionInv, RecordOK, historyVars, settings, mesh
  <2>2. Held(SmallestSoFar) \in Nat /\ Held(SmallestSoFar) % 2 = 0 /\ Held(SmallestSoFar) >= 2
    BY <1>1, HeldIsEven DEF SessionInv, PhaseOK
  <2>3. /\ pc = "Start" => config.maxCount = Held(SmallestSoFar)
        /\ pc # "Start" => /\ limit = Held(SmallestSoFar)
                           /\ IF config.incremental
                              THEN config.maxCount % 2 = 0 /\ config.maxCount <= limit
                              ELSE config.maxCount = limit
    BY <1>1 DEF SessionInv, RecordOK
  <2>4. /\ config.maxCount \in Nat /\ config.incremental \in BOOLEAN
        /\ DOMAIN config = {"maxCount", "incremental", "loopLimit", "backtrackAfterLoopLimit", "destCount"}
    BY <1>6 DEF T!ConfigOK, T!ConfigSet
  <2>5. /\ pc' # "Start" /\ limit' = Held(SmallestSoFar)
        /\ IF config'.incremental
           THEN config'.maxCount % 2 = 0 /\ config'.maxCount <= limit'
           ELSE config'.maxCount = limit'
        /\ pc' = "Done" => config'.maxCount = Held(SmallestSoFar)
    <3>1. CASE T!StartTunneling
      <4>1. pc = "Start" /\ pc' = "Pass" /\ limit' = config.maxCount
            /\ config' = IF config.incremental THEN [config EXCEPT !.maxCount = 2] ELSE config
        BY <3>1 DEF T!StartTunneling
      <4> QED
        BY <2>2, <2>3, <2>4, <4>1
    <3>2. CASE T!EndPass
      <4>1. /\ pc = "PassEnd" /\ limit' = limit
            /\ pc' \in {"Pass", "Done"}
            /\ \/ config' = config
               \/ /\ config.incremental /\ config.maxCount + 2 <= limit
                  /\ config' = [config EXCEPT !.maxCount = @ + 2] /\ pc' = "Pass"
            /\ pc' = "Done" => config' = config /\ ~(config.incremental /\ config.maxCount + 2 <= limit)
        BY <3>2 DEF T!EndPass
      <4>2. CASE config' = config
        BY <2>2, <2>3, <2>4, <4>1, <4>2
      <4>3. CASE config' # config
        BY <2>2, <2>3, <2>4, <4>1, <4>3
      <4> QED
        BY <4>2, <4>3
    <3>3. CASE pc # "Start" /\ pc' \notin {"Start", "Done"} /\ UNCHANGED <<config, limit>>
      BY <2>3, <3>3
    <3> QED
      BY <1>1, <3>1, <3>2, <3>3
  <2> QED
    BY <1>3, <2>1, <2>5 DEF RecordOK, Reading, Preparing, Writing, Simply, Tunneled
<1> QED
  BY <1>4, <1>5, <1>7, <1>8, <1>9, <1>10 DEF SessionInv

(* What the phases find when they begin.                                   *)
LEMMA BlankBegins ==
  B!IsInput(input) /\ B!Blank /\ pc = "Read" => B!IInv
BY PhasesApply, B!BlankIInv

(* Preprocessing begins with the triangles as they were built.             *)
LEMMA FreshBegins ==
  P!Fresh => P!PreprocInv
BY PhasesApply, P!FreshInv

(* The call begins: at once with the result, or with the triangles.        *)
LEMMA CallStep ==
  ASSUME SessionInv, ReturnAtOnce \/ StartBuild, UNCHANGED <<stats, verifierVars, historyVars>>
  PROVE  SessionInv'
<1> USE DEF Reading, Preparing, Tunneled, Writing, Simply, T!Quiet, T!Digging, T!Cementing
<1>1. /\ pc = "Call" /\ pc' \in {"Read", "Output"}
      /\ UNCHANGED <<mesh, stripVars, settings, config, sharedByte, buildVars,
                     adjacencyVars, growVars, endpointVars, first, tunnelVars, strips>>
  BY DEF ReturnAtOnce, StartBuild
<1>2. PhaseOK'
  BY <1>1 DEF SessionInv, PhaseOK, verifierVars
<1>3. B!Blank /\ B!Blank'
  BY <1>1 DEF SessionInv, UntouchedOK, B!Blank, mesh, stripVars, buildVars
<1>4. UntouchedOK'
  <2>1. NoStrips /\ T!Untouched /\ strips = <<>>
    BY <1>1 DEF SessionInv, UntouchedOK
  <2>2. NoStrips'
    BY <1>1, <2>1 DEF NoStrips, adjacencyVars, growVars, endpointVars
  <2>3. T!Untouched' /\ first' = Null
    BY <1>1, <2>1 DEF T!Untouched, tunnelVars, T!Null, Null
  <2> QED
    BY <1>1, <2>1, <2>2, <2>3 DEF UntouchedOK
<1>5. SettingsOK'
  BY <1>1 DEF SessionInv, SettingsOK, settings, tunnelVars, buildVars
<1>6. PhasesOK'
  <2>1. pc' = "Read" => B!IInv'
    <3>1. (B!IsInput(input) /\ B!Blank /\ pc = "Read" => B!IInv)'
      BY BlankBegins, PTL
    <3> QED
      BY <1>3, <1>5, <3>1 DEF SettingsOK
  <2> QED
    BY <1>1, <2>1 DEF PhasesOK
<1>7. OutputOK'
  BY <1>1 DEF OutputOK
<1>8. RecordOK'
  <2>1. trisCount = 0 /\ SmallestSoFar = smallest
    BY <1>3 DEF B!Blank, SmallestSoFar
  <2> QED
    BY <1>1, <2>1, Unsettled DEF SessionInv, RecordOK, historyVars, settings, mesh
<1> QED
  BY <1>2, <1>4, <1>5, <1>6, <1>7, <1>8 DEF SessionInv

(* The algorithms find the array and the counters as build_tris left them. *)
LEMMA BuiltForTheAlgorithms ==
  ASSUME B!IInv, pc = "Built", trisCount # 0
  PROVE  /\ P!MeshOK /\ MeshOK /\ sharedByte = [t \in P!Tris |-> P!NeighboursCount(t)]
         /\ linkState = [t \in P!Tris |-> {}] /\ endpoint = {}
<1>1. /\ B!MeshOK /\ sharedByte = [t \in Tris |-> B!NeighboursCount(t)]
      /\ linkState = [t \in Tris |-> {}] /\ endpoint = {}
  BY PhasesApply, B!BuiltMesh DEF B!Tris, Tris
<1>2. P!MeshOK /\ MeshOK
  BY <1>1 DEF B!MeshOK, B!IsMesh, B!Stitched, B!Tris, B!Dir, B!Byte, B!Null,
              P!MeshOK, P!IsMesh, P!Stitched, P!Tris, P!Dir, P!Byte, P!Null,
              MeshOK, IsMesh, Stitched, Tris, Dir, Byte, Null
<1>3. \A X : B!Cardinality(X) = Cardinality(X) /\ P!Cardinality(X) = Cardinality(X)
  BY DEF B!Cardinality, P!Cardinality, Cardinality, B!IsFiniteSet, P!IsFiniteSet, IsFiniteSet
<1>4. \A t : P!NeighboursCount(t) = B!NeighboursCount(t)
  BY <1>3 DEF B!NeighboursCount, P!NeighboursCount, B!Dir, P!Dir, B!Null, P!Null
<1>5. sharedByte = [t \in P!Tris |-> P!NeighboursCount(t)]
  BY <1>1, <1>4 DEF P!Tris, Tris
<1> QED
  BY <1>1, <1>2, <1>5 DEF P!Tris, Tris

(* The triangles are handed over to the algorithm.                         *)
LEMMA DispatchStep ==
  ASSUME SessionInv, Dispatch, UNCHANGED <<stats, verifierVars, historyVars>>
  PROVE  SessionInv'
<1> USE DEF Reading, Preparing, Tunneled, Writing, Simply, T!Quiet, T!Digging, T!Cementing
<1>1. /\ pc = "Built"
      /\ pc' = IF trisCount = 0 THEN "Output" ELSE IF useTunneling THEN "Order" ELSE "SimpleOrder"
      /\ config' = IF pc' = "Order"
                   THEN [config EXCEPT !.maxCount = T!TruncatedMaxCount(@, trisCount)]
                   ELSE config
      /\ UNCHANGED <<mesh, stripVars, settings, sharedByte, buildVars,
                     adjacencyVars, growVars, endpointVars, first, tunnelVars, strips>>
  BY DEF Dispatch
<1>2. PhaseOK'
  BY <1>1 DEF SessionInv, PhaseOK, verifierVars, settings, mesh
<1>3. NoStrips /\ T!Untouched /\ T!Untouched'
  BY <1>1 DEF SessionInv, UntouchedOK, T!Untouched, tunnelVars
<1>4. UntouchedOK'
  <2>1. first' = Null /\ strips' = <<>>
    BY <1>1, <1>3 DEF SessionInv, UntouchedOK, T!Untouched, T!Null, Null
  <2> QED
    BY <1>1, <1>3, <2>1 DEF UntouchedOK
<1>5. config \in T!ConfigSet /\ trisCount \in Nat
  BY <1>1 DEF SessionInv, SettingsOK, RecordOK
<1>6. pc' = "Order" => T!ConfigOK'
  <2>1. /\ config \in T!ConfigSet /\ trisCount \in Nat /\ limit' = 0
        /\ config.loopLimit = 0 \/ config.backtrackAfterLoopLimit \/ config.maxCount <= 3
    BY <1>1, <1>3, <1>5 DEF SessionInv, SettingsOK, T!Untouched
  <2>2. config.maxCount \in Nat
    BY <2>1 DEF T!ConfigSet
  <2>3. /\ T!TruncatedMaxCount(config.maxCount, trisCount) \in Nat
        /\ 2 <= T!TruncatedMaxCount(config.maxCount, trisCount)
        /\ T!TruncatedMaxCount(config.maxCount, trisCount) <= 65535
        /\ config.maxCount <= 3 => T!TruncatedMaxCount(config.maxCount, trisCount) = 2
    <3>1. PICK c \in Nat, n \in Nat : c = config.maxCount /\ n = trisCount
      BY <2>1, <2>2
    <3>2. /\ T!TruncatedMaxCount(c, n) \in Nat
          /\ 2 <= T!TruncatedMaxCount(c, n) /\ T!TruncatedMaxCount(c, n) <= 65535
          /\ c <= 3 => T!TruncatedMaxCount(c, n) = 2
      BY TruncatedRange
    <3> QED
      BY <3>1, <3>2
  <2>4. ASSUME pc' = "Order"
        PROVE  /\ config' \in T!ConfigSet
               /\ config'.maxCount = T!TruncatedMaxCount(config.maxCount, trisCount)
               /\ config'.loopLimit = config.loopLimit
               /\ config'.backtrackAfterLoopLimit = config.backtrackAfterLoopLimit
    BY <1>1, <2>1, <2>3, <2>4 DEF T!ConfigSet
  <2> QED
    BY <2>1, <2>3, <2>4 DEF T!ConfigOK
<1>7. SettingsOK'
  <2>1. CASE pc' = "Order"
    <3>1. T!ConfigOK'
      BY <1>6, <2>1
    <3>2. \/ config'.loopLimit = 0 \/ config'.backtrackAfterLoopLimit
          \/ config'.maxCount <= 3 /\ limit' <= 3
      BY <3>1 DEF T!ConfigOK
    <3> QED
      BY <1>1, <3>1, <3>2 DEF SessionInv, SettingsOK, settings, buildVars, T!ConfigOK
  <2>2. CASE pc' # "Order"
    BY <1>1, <2>2 DEF SessionInv, SettingsOK, settings, buildVars, tunnelVars
  <2> QED
    BY <2>1, <2>2
<1>8. PhasesOK'
  <2>1. pc' = "Order" => P!Fresh'
    <3> SUFFICES ASSUME pc' = "Order" PROVE P!Fresh'
      OBVIOUS
    <3>1. B!IInv /\ trisCount # 0
      BY <1>1 DEF SessionInv, PhasesOK
    <3>2. /\ P!MeshOK /\ sharedByte = [t \in P!Tris |-> P!NeighboursCount(t)]
          /\ linkState = [t \in P!Tris |-> {}] /\ endpoint = {}
      BY <1>1, <3>1, BuiltForTheAlgorithms
    <3>7. P!MeshOK'
      BY <1>1, <3>2 DEF P!MeshOK, mesh
    <3>8. sharedByte' = [t \in P!Tris |-> P!NeighboursCount(t)']
      BY <1>1, <3>2 DEF P!NeighboursCount, mesh
    <3>9. preproc' \in P!Algorithms
      BY <1>1 DEF SessionInv, SettingsOK, settings
    <3>10. NoStrips' /\ linkState' = [t \in P!Tris |-> {}] /\ endpoint' = {}
      BY <1>1, <1>3, <3>2 DEF NoStrips, stripVars, adjacencyVars, growVars, endpointVars
    <3> QED
      BY <3>7, <3>8, <3>9, <3>10 DEF P!Fresh, NoStrips, P!Null, Null
  <2>2. pc' = "Order" => P!PreprocInv'
    <3>1. (P!Fresh => P!PreprocInv)'
      BY FreshBegins, PTL
    <3> QED
      BY <2>1, <3>1
  <2> QED
    BY <1>1, <2>2 DEF PhasesOK
<1>9. OutputOK'
  BY <1>1 DEF OutputOK
<1>10. RecordOK'
  <2>1. /\ asked \in Nat /\ smallest \in 1 .. MaxTris + 1 /\ trisCount \in 0 .. MaxTris
        /\ config.maxCount = Held(smallest)
    BY <1>1 DEF SessionInv, RecordOK, Unbounded
  <2>2. /\ asked' = asked /\ smallest' = smallest /\ trisCount' = trisCount
        /\ useTunneling' = useTunneling
        /\ SmallestSoFar' = SmallestSoFar /\ Held(SmallestSoFar)' = Held(SmallestSoFar)
        /\ Held(smallest)' = Held(smallest)
    BY <1>1, Unsettled DEF historyVars, settings, mesh
  <2>3. pc' # "Order" => SmallestSoFar = smallest /\ config' = config
    BY <1>1 DEF SmallestSoFar
  <2>4. pc' = "Order" => config'.maxCount = Held(SmallestSoFar)
    <3> SUFFICES ASSUME pc' = "Order" PROVE config'.maxCount = Held(SmallestSoFar)
      OBVIOUS
    <3>1. trisCount # 0 /\ useTunneling
      BY <1>1
    <3>2. config'.maxCount = T!TruncatedMaxCount(Held(smallest), trisCount)
      BY <1>1, <1>5, <2>1 DEF T!ConfigSet
    <3>3. trisCount \in 1 .. MaxTris /\ MaxTris \in Nat
      BY <2>1, <3>1, MaxTrisAssumption
    <3>4. CASE smallest = Unbounded
      <4>1. SmallestSoFar = trisCount /\ trisCount # Unbounded
        BY <3>1, <3>3, <3>4 DEF SmallestSoFar, Unbounded
      <4> QED
        BY <3>2, <3>4, <4>1 DEF Held
    <3>5. CASE smallest # Unbounded
      <4>1. /\ smallest \in Nat /\ trisCount \in Nat /\ SmallestSoFar \in Nat
            /\ SmallestSoFar <= smallest /\ SmallestSoFar <= trisCount
            /\ SmallestSoFar = smallest \/ SmallestSoFar = trisCount
            /\ SmallestSoFar # Unbounded
        BY <2>1, <3>1, <3>3, <3>5 DEF SmallestSoFar, Unbounded
      <4>2. T!TruncatedMaxCount(T!TruncatedMaxCount(asked, smallest), trisCount) =
              T!TruncatedMaxCount(asked, SmallestSoFar)
        BY <2>1, <4>1, TruncatedTwice
      <4> QED
        BY <3>2, <3>5, <4>1, <4>2 DEF Held
    <3> QED
      BY <3>4, <3>5
  <2> QED
    BY <1>1, <2>1, <2>2, <2>3, <2>4 DEF RecordOK, Unbounded
<1> QED
  BY <1>2, <1>4, <1>7, <1>8, <1>9, <1>10 DEF SessionInv

-----------------------------------------------------------------------------
(***************************************************************************)
(* The caller.                                                             *)
(***************************************************************************)
(* What the caller does in between leaves the call's variables alone.      *)
LEMMA BetweenCalls ==
  ASSUME SessionInv, UNCHANGED <<vars, historyVars>>,
         pc = "Output" \/ stage' = "None"
  PROVE  SessionInv'
<1> USE DEF T!Quiet, T!Digging, T!Cementing
<1>1. /\ UNCHANGED <<mesh, stripVars, pc, settings, config, sharedByte, buildVars>>
      /\ UNCHANGED <<adjacencyVars, growVars, endpointVars, first, tunnelVars, strips, strandVars>>
      /\ UNCHANGED historyVars
  BY DEF vars
<1>2. PhaseOK'
  BY <1>1 DEF SessionInv, PhaseOK, settings, mesh
<1>3. UntouchedOK'
  <2>1. /\ B!Blank' <=> B!Blank
        /\ NoStrips' <=> NoStrips
        /\ T!Untouched' <=> T!Untouched
    BY <1>1 DEF B!Blank, NoStrips, T!Untouched, mesh, stripVars, buildVars, adjacencyVars, growVars,
                endpointVars, tunnelVars
  <2> QED
    BY <1>1, <2>1 DEF SessionInv, UntouchedOK
<1>4. SettingsOK'
  BY <1>1 DEF SessionInv, SettingsOK, settings, buildVars, tunnelVars, T!ConfigOK
<1>5. PhasesOK'
  <2>1. pc \in Reading => B!IInv'
    <3>1. B!IInv /\ [B!Next]_(B!vars) => B!IInv'
      BY PhasesApply, B!NextIInv DEF B!MaxTrisAssumption, B!InputsAssumption
    <3>2. UNCHANGED B!vars
      BY <1>1 DEF B!vars, B!mesh, B!stripVars, B!buildVars, mesh, stripVars, buildVars
    <3> QED
      BY <3>1, <3>2 DEF SessionInv, PhasesOK
  <2>2. pc \in Preparing => P!PreprocInv'
    <3>1. P!PreprocInv /\ [P!Next]_(P!vars) => P!PreprocInv'
      BY PhasesApply, P!NextInv
    <3>2. UNCHANGED P!vars
      BY <1>1 DEF P!vars, P!mesh, P!stripVars, P!adjVars, P!coreVars, P!growVars, mesh, stripVars,
                  adjacencyVars, growVars, settings, endpointVars
    <3> QED
      BY <3>1, <3>2 DEF SessionInv, PhasesOK
  <2>3. pc \in Tunneled => T!TriedInv'
    <3>1. T!TriedInv /\ [T!Next]_(T!vars) => T!TriedInv'
      BY PhasesApply, T!NextTriedInv
    <3>2. UNCHANGED T!vars
      BY <1>1 DEF T!vars, T!mesh, T!stripVars, T!passVars, T!searchVars, T!checkVars, mesh, stripVars,
                  endpointVars, tunnelVars
    <3> QED
      BY <3>1, <3>2 DEF SessionInv, PhasesOK
  <2> QED
    BY <1>1, <2>1, <2>2, <2>3 DEF PhasesOK
<1>6. OutputOK'
  <2>1. /\ \A t : Links(t)' = Links(t) /\ StripOf(t)' = StripOf(t)
        /\ LinksNow' = LinksNow /\ InUse' = InUse /\ Uncollected' = Uncollected
    BY <1>1 DEF Uncollected, Behind, mesh, stripVars, endpointVars, InUse, Links, LinksNow, StripOf,
                Enclosed
  <2>2. StripsOK' <=> StripsOK
    BY <1>1, <2>1 DEF StripsOK, MeshOK, Agree, mesh, stripVars, endpointVars
  <2>3. CollectOK' <=> CollectOK
    BY <1>1, <2>1, <2>2 DEF CollectOK, mesh, stripVars, endpointVars
  <2>4. ASSUME NEW W, NEW t, NEW d PROVE Leads(W, t, d)' <=> Leads(W, t, d)
    <3>1. \A u : Passed(W, t, d, u)' = Passed(W, t, d, u)
      BY <1>1, <2>1 DEF Passed
    <3> QED
      BY <1>1, <2>1, <3>1 DEF Leads, mesh, stripVars
  <2>5. (\E W \in SUBSET InUse : Leads(W, curr, indexToPrev))' <=>
          \E W \in SUBSET InUse : Leads(W, curr, indexToPrev)
    <3>1. curr' = curr /\ indexToPrev' = indexToPrev
      BY <1>1 DEF strandVars
    <3>2. \A W : Leads(W, curr, indexToPrev)' <=> Leads(W, curr, indexToPrev)
      BY <2>4, <3>1
    <3> QED
      BY <2>1, <3>2
  <2> QED
    BY <1>1, <2>3, <2>5 DEF SessionInv, OutputOK
<1>7. RecordOK'
  <2>1. UNCHANGED <<asked, smallest, useTunneling, trisCount, pc, config, limit>>
    BY <1>1 DEF historyVars, settings, mesh, tunnelVars
  <2>2. /\ SmallestSoFar' = SmallestSoFar /\ Held(smallest)' = Held(smallest)
        /\ Held(SmallestSoFar)' = Held(SmallestSoFar)
    BY <2>1, Unsettled
  <2> QED
    BY <2>1, <2>2 DEF SessionInv, RecordOK
<1> QED
  BY <1>2, <1>3, <1>4, <1>5, <1>6, <1>7 DEF SessionInv

(* The next call, with new variables and the same record.                  *)
LEMMA CallAgainStep ==
  ASSUME SessionInv, CallAgain
  PROVE  SessionInv'
<1> USE DEF Reading, Preparing, Tunneled, Writing, Simply, T!Quiet, T!Digging, T!Cementing
<1>1. /\ pc = "Output" /\ pc' = "Call" /\ stage' = "None" /\ asked' = asked
      /\ smallest' = SmallestSoFar /\ input' \in FollowUps
      /\ UNCHANGED <<settings, config>> /\ trisCount' = 0 /\ limit' = 0
  BY DEF SessionInv, PhaseOK, CallAgain, V!DisposeVerifier
<1>2. PhaseOK'
  BY <1>1 DEF PhaseOK
<1>3. UntouchedOK'
  <2>1. B!Blank'
    <3>1. \E b \in Bytes :
            /\ indices' = [t \in B!Tris |-> [d \in B!Dir |-> b]]
            /\ vertices' = [t \in B!Tris |-> [d \in B!Dir |-> b]]
            /\ neighbours' = [t \in B!Tris |-> [d \in B!Dir |->
                                 IF b \in B!Tris THEN b ELSE B!Null]]
            /\ sharedByte' = [t \in B!Tris |-> b]
            /\ linkState' = [t \in B!Tris |-> B!BitsOf(b)]
            /\ endpoint' = IF B!IsEndpointBit \in B!BitsOf(b) THEN B!Tris ELSE {}
      BY DEF CallAgain, B!Tris, B!Dir, B!Null, Tris, Dir, Null
    <3>2. B!IsEndpointBit' = B!IsEndpointBit /\ \A b : B!BitsOf(b)' = B!BitsOf(b)
      OBVIOUS
    <3>3. trisCount' = 0 /\ read' = 0 /\ edge' = 0 /\ openEdges' = <<>>
      BY DEF CallAgain
    <3> QED
      BY <3>1, <3>2, <3>3 DEF B!Blank
  <2>2. NoStrips'
    BY DEF CallAgain, NoStrips
  <2>3. T!Untouched' /\ strips' = <<>>
    BY DEF CallAgain, T!Untouched, T!Tris, Tris, T!Null, Null
  <2> QED
    BY <1>1, <2>1, <2>2, <2>3 DEF UntouchedOK
<1>4. SettingsOK'
  <2>1. B!IsInput(input)'
    BY <1>1, FollowUpsAssumption DEF B!IsInput
  <2>2. preproc' \in P!Algorithms /\ config' \in T!ConfigSet
    BY <1>1 DEF SessionInv, SettingsOK, settings
  <2>3. \/ config'.loopLimit = 0 \/ config'.backtrackAfterLoopLimit
        \/ config'.maxCount <= 3 /\ limit' <= 3
    BY <1>1 DEF SessionInv, SettingsOK
  <2> QED
    BY <1>1, <2>1, <2>2, <2>3 DEF SettingsOK
<1>5. PhasesOK' /\ OutputOK'
  BY <1>1 DEF PhasesOK, OutputOK
<1>6. RecordOK'
  <2>1. smallest' \in 1 .. Unbounded /\ asked' \in Nat
    <3>1. asked \in Nat /\ smallest \in 1 .. Unbounded /\ MaxTris \in Nat
      BY MaxTrisAssumption DEF SessionInv, RecordOK
    <3>2. SmallestSoFar = smallest \/ SmallestSoFar \in 1 .. smallest - 1
      BY DEF SmallestSoFar
    <3>3. SmallestSoFar \in 1 .. Unbounded
      BY <3>1, <3>2 DEF Unbounded
    <3>4. Unbounded' = Unbounded
      BY DEF Unbounded
    <3> QED
      BY <1>1, <3>1, <3>3, <3>4
  <2>2. config'.maxCount = Held(smallest)'
    BY <1>1 DEF SessionInv, RecordOK, Held
  <2>3. trisCount' \in 0 .. MaxTris
    BY <1>1, MaxTrisAssumption
  <2> QED
    BY <1>1, <2>1, <2>2, <2>3 DEF RecordOK
<1> QED
  BY <1>2, <1>3, <1>4, <1>5, <1>6 DEF SessionInv

(* The first call.                                                         *)
LEMMA InitSessionInv ==
  ASSUME CancelsCleanly, SessionInit
  PROVE  SessionInv
<1> USE DEF Reading, Preparing, Tunneled, Writing, Simply, T!Quiet, T!Digging, T!Cementing
<1>1. /\ pc = "Call" /\ stage = "None" /\ asked = config.maxCount /\ smallest = Unbounded
      /\ input \in Inputs /\ B!Blank
  BY DEF SessionInit, Init, V!Init
<1>2. PICK s \in Settings : /\ useTunneling = s.useTunneling /\ preserve = s.preserve
                            /\ preproc = s.preproc /\ config = s.config
  BY DEF SessionInit, Init
<1>3. PhaseOK
  BY <1>1 DEF PhaseOK
<1>4. UntouchedOK
  <2>1. NoStrips /\ T!Untouched /\ strips = <<>>
    BY DEF SessionInit, Init, NoStrips, T!Untouched, B!Blank, T!Tris, Tris, B!Tris, T!Null, Null
  <2> QED
    BY <1>1, <2>1 DEF UntouchedOK
<1>5. limit = 0
  BY DEF SessionInit, Init
<1>6. config \in T!ConfigSet /\ preproc \in P!Algorithms
  BY <1>2, SettingsAssumption
<1>7. SettingsOK
  <2>1. config.loopLimit = 0 \/ config.backtrackAfterLoopLimit \/ config.maxCount <= 3
    BY <1>2 DEF CancelsCleanly
  <2>2. B!IsInput(input)
    BY <1>1, InputsAssumption DEF B!InputsAssumption
  <2> QED
    BY <1>1, <1>5, <1>6, <2>1, <2>2 DEF SettingsOK
<1>8. PhasesOK /\ OutputOK
  BY <1>1 DEF PhasesOK, OutputOK
<1>9. RecordOK
  <2>1. asked \in Nat /\ config.maxCount = Held(smallest)
    BY <1>1, <1>6 DEF T!ConfigSet, Held
  <2>2. smallest \in 1 .. Unbounded
    BY <1>1, MaxTrisAssumption DEF Unbounded
  <2>3. trisCount \in 0 .. MaxTris
    BY <1>1, MaxTrisAssumption DEF B!Blank
  <2> QED
    BY <1>1, <2>1, <2>2, <2>3 DEF RecordOK
<1> QED
  BY <1>3, <1>4, <1>7, <1>8, <1>9 DEF SessionInv

-----------------------------------------------------------------------------
(***************************************************************************)
(* The output: the list of the endpoints.                                  *)
(***************************************************************************)
(* What is behind an element of the list, the next element first.          *)
LEMMA BehindNext ==
  ASSUME NEW list \in Seq(Tris), IsInjectiveList(list), NEW t \in ElementsOf(list)
  PROVE  /\ t \notin Behind(t, list) /\ Behind(t, list) \subseteq ElementsOf(list)
         /\ NextInList(t, list) = Null <=> Behind(t, list) = {}
         /\ NextInList(t, list) # Null =>
              /\ NextInList(t, list) \in ElementsOf(list)
              /\ Behind(t, list) = {NextInList(t, list)} \cup Behind(NextInList(t, list), list)
<1>1. PICK i \in DOMAIN list : t = list[i]
  BY DEF ElementsOf
<1>2. PlaceIn(t, list) = i
  BY <1>1, PlaceOfElement
<1>3. i \in 1 .. Len(list) /\ Len(list) \in Nat /\ DOMAIN list = 1 .. Len(list)
  BY <1>1
<1>4. Behind(t, list) = {list[k] : k \in i + 1 .. Len(list)}
  BY <1>2 DEF Behind
<1>5. t \notin Behind(t, list)
  BY <1>1, <1>3, <1>4 DEF IsInjectiveList
<1>6. Behind(t, list) \subseteq ElementsOf(list)
  BY <1>3, <1>4 DEF ElementsOf
<1>7. CASE i = Len(list)
  <2>1. Behind(t, list) = {}
    BY <1>3, <1>4, <1>7
  <2>2. NextInList(t, list) = Null
    BY <1>2, <1>7 DEF NextInList
  <2> QED
    BY <1>5, <2>1, <2>2
<1>8. CASE i # Len(list)
  <2>1. i + 1 \in DOMAIN list /\ NextInList(t, list) = list[i + 1]
    BY <1>2, <1>3, <1>8 DEF NextInList
  <2>2. list[i + 1] \in Tris /\ Null \notin Tris
    <3>1. list[i + 1] \in Tris
      BY <2>1
    <3>2. Null \notin Tris
      BY MaxTrisAssumption DEF Tris, Null
    <3> QED
      BY <3>1, <3>2
  <2>3. PlaceIn(list[i + 1], list) = i + 1
    BY <2>1, PlaceOfElement
  <2>4. Behind(list[i + 1], list) = {list[k] : k \in i + 2 .. Len(list)}
    BY <1>3, <2>3 DEF Behind
  <2>5. Behind(t, list) = {list[i + 1]} \cup Behind(list[i + 1], list)
    BY <1>3, <1>4, <1>8, <2>4
  <2>6. list[i + 1] \in ElementsOf(list)
    BY <2>1 DEF ElementsOf
  <2> QED
    BY <1>5, <1>6, <2>1, <2>2, <2>5, <2>6
<1> QED
  BY <1>7, <1>8

(* Behind the head is the rest.                                            *)
LEMMA BehindHead ==
  ASSUME NEW list \in Seq(Tris), IsInjectiveList(list), ElementsOf(list) # {}
  PROVE  /\ Head(list) \in ElementsOf(list)
         /\ {Head(list)} \cup Behind(Head(list), list) = ElementsOf(list)
<1>1. Len(list) \in Nat \ {0} /\ DOMAIN list = 1 .. Len(list) /\ Head(list) = list[1]
  BY DEF ElementsOf
<1>2. 1 \in DOMAIN list
  BY <1>1
<1>3. PlaceIn(list[1], list) = 1
  BY <1>2, PlaceOfElement
<1>4. Behind(list[1], list) = {list[k] : k \in 2 .. Len(list)}
  BY <1>3 DEF Behind
<1> QED
  BY <1>1, <1>2, <1>4 DEF ElementsOf

(* An element further behind may leave.                                    *)
LEMMA BehindRemoved ==
  ASSUME NEW list \in Seq(Tris), IsInjectiveList(list), NEW t \in ElementsOf(list),
         NEW u \in Behind(t, list)
  PROVE  /\ u \in ElementsOf(list) /\ t \in ElementsOf(RemoveFromList(u, list))
         /\ Behind(t, RemoveFromList(u, list)) = Behind(t, list) \ {u}
<1> DEFINE r == RemoveFromList(u, list)
           n == Len(list)
<1>1. PICK i \in DOMAIN list : t = list[i]
  BY DEF ElementsOf
<1>2. PlaceIn(t, list) = i
  BY <1>1, PlaceOfElement
<1>3. i \in 1 .. n /\ n \in Nat /\ DOMAIN list = 1 .. n
  BY <1>1
<1>4. Behind(t, list) = {list[k] : k \in i + 1 .. n}
  BY <1>2 DEF Behind
<1>5. PICK j \in i + 1 .. n : u = list[j]
  BY <1>4
<1>6. j \in DOMAIN list /\ i < j /\ u \in ElementsOf(list)
  BY <1>3, <1>5 DEF ElementsOf
<1>7. /\ r \in Seq(Tris) /\ Len(r) = n - 1
      /\ \A k \in 1 .. n - 1 : r[k] = IF k < j THEN list[k] ELSE list[k + 1]
  BY <1>5, <1>6, RestInOrder, Zenon
<1>8. IsInjectiveList(r)
  BY <1>6, ElementRemoved
<1> HIDE DEF r, n
<1>9. DOMAIN r = 1 .. n - 1 /\ i \in DOMAIN r /\ r[i] = t
  BY <1>1, <1>3, <1>5, <1>6, <1>7, LenProperties
<1>10. t \in ElementsOf(r) /\ PlaceIn(t, r) = i
  BY <1>7, <1>8, <1>9, PlaceOfElement DEF ElementsOf
<1>11. Behind(t, r) = {r[k] : k \in i + 1 .. n - 1}
  BY <1>7, <1>10 DEF Behind
<1>12. ASSUME NEW k \in i + 1 .. n - 1
       PROVE  r[k] \in Behind(t, list) \ {u}
  <2>1. CASE k < j
    BY <1>3, <1>4, <1>5, <1>6, <1>7, <2>1 DEF IsInjectiveList
  <2>2. CASE ~(k < j)
    <3>1. k + 1 \in i + 1 .. n /\ k + 1 # j /\ r[k] = list[k + 1] /\ k + 1 \in DOMAIN list
      BY <1>3, <1>5, <1>7, <2>2
    <3> QED
      BY <1>4, <1>5, <1>6, <3>1 DEF IsInjectiveList
  <2> QED
    BY <2>1, <2>2
<1>13. ASSUME NEW k \in i + 1 .. n, list[k] # u
       PROVE  list[k] \in Behind(t, r)
  <2>1. CASE k < j
    <3>1. k \in i + 1 .. n - 1 /\ r[k] = list[k]
      BY <1>3, <1>5, <1>7, <2>1
    <3> QED
      BY <1>11, <3>1
  <2>2. CASE k > j
    <3>1. k - 1 \in i + 1 .. n - 1 /\ r[k - 1] = list[k]
      BY <1>3, <1>5, <1>7, <2>2
    <3> QED
      BY <1>11, <3>1
  <2> QED
    BY <1>3, <1>5, <1>13, <2>1, <2>2
<1>14. Behind(t, r) = Behind(t, list) \ {u}
  BY <1>4, <1>11, <1>12, <1>13
<1> QED
  BY <1>6, <1>10, <1>14 DEF r

-----------------------------------------------------------------------------
(***************************************************************************)
(* The output: along a strip.                                              *)
(***************************************************************************)
(* The two sides of a link.                                                *)
LEMMA LinkFacts ==
  ASSUME MeshOK, Agree(Links), NEW t \in InUse, NEW d \in Links(t)
  PROVE  /\ t \in Tris /\ d \in Dir /\ neighbours[t][d] \in InUse /\ neighbours[t][d] # t
         /\ indices[t][d] \in Links(neighbours[t][d])
         /\ neighbours[neighbours[t][d]][indices[t][d]] = t
         /\ indices[neighbours[t][d]][indices[t][d]] = d
<1>1. t \in Tris /\ d \in Dir
  BY MaxTrisAssumption, LinksArePositions DEF MeshOK, IsMesh, InUse, Tris
<1>2. neighbours[t][d] # Null /\ indices[t][d] \in Links(neighbours[t][d])
  BY <1>1 DEF Agree
<1> QED
  BY <1>1, <1>2, EdgeFacts

(* The first link of a strip.                                              *)
LEMMA LeadsStart ==
  ASSUME CollectOK, Links(first) # {}
  PROVE  /\ Leads({}, O!Second, O!IndexOfFirst)
         /\ first \in endpoint /\ first \in InUse /\ Links(first) = {O!FirstDir}
<1>1. /\ MeshOK /\ Agree(Links) /\ endpoint = {t \in InUse : AtMostOne(Links(t))}
      /\ first \in endpoint
  BY DEF CollectOK, StripsOK, Uncollected
<1>2. first \in InUse /\ AtMostOne(Links(first))
  BY <1>1
<1>3. O!FirstDir \in Links(first) /\ Links(first) = {O!FirstDir}
  <2>1. PICK d : d \in Links(first)
    OBVIOUS
  <2>2. \A e \in Links(first) : e = d
    BY <1>2, <2>1 DEF AtMostOne
  <2>3. d <= d
    BY <2>1, LinksArePositions DEF Dir
  <2>4. O!FirstDir = d
    BY <2>1, <2>2, <2>3 DEF O!FirstDir, O!Links, O!LinksOf, O!Dir, Links, LinksOf, Dir
  <2> QED
    BY <2>1, <2>2, <2>4
<1>4. /\ O!Second \in InUse /\ O!Second # first /\ O!IndexOfFirst \in Links(O!Second)
      /\ neighbours[O!Second][O!IndexOfFirst] = first /\ indices[O!Second][O!IndexOfFirst] = O!FirstDir
  BY <1>1, <1>2, <1>3, LinkFacts DEF O!Second, O!IndexOfFirst
<1>5. O!Second \in StripOf(first)
  <2>1. first \in StripOf(first) /\ StripOf(first) \in Enclosed
    BY <1>1, <1>2, StripIsEnclosed
  <2> QED
    BY <1>3, <2>1 DEF Enclosed, O!Second
<1>6. /\ Passed({}, O!Second, O!IndexOfFirst, first) = {O!FirstDir}
      /\ Passed({}, O!Second, O!IndexOfFirst, O!Second) = {O!IndexOfFirst}
      /\ \A u : u # first /\ u # O!Second => Passed({}, O!Second, O!IndexOfFirst, u) = {}
  BY <1>3, <1>4 DEF Passed
<1>7. \A u \in InUse : \A e \in Passed({}, O!Second, O!IndexOfFirst, u) :
        indices[u][e] \in Passed({}, O!Second, O!IndexOfFirst, neighbours[u][e])
  <2> SUFFICES ASSUME NEW u \in InUse, NEW e \in Passed({}, O!Second, O!IndexOfFirst, u)
               PROVE  indices[u][e] \in Passed({}, O!Second, O!IndexOfFirst, neighbours[u][e])
    OBVIOUS
  <2>1. CASE u = first
    <3>1. neighbours[u][e] = O!Second /\ indices[u][e] = O!IndexOfFirst
      BY <1>6, <2>1 DEF O!Second, O!IndexOfFirst
    <3> QED
      BY <1>6, <3>1
  <2>2. CASE u = O!Second
    <3>1. neighbours[u][e] = first /\ indices[u][e] = O!FirstDir
      BY <1>4, <1>6, <2>2
    <3> QED
      BY <1>6, <3>1
  <2>3. CASE u # first /\ u # O!Second
    BY <1>6, <2>3
  <2> QED
    BY <2>1, <2>2, <2>3
<1>8. Leads({}, O!Second, O!IndexOfFirst)
  BY <1>4, <1>5, <1>7 DEF Leads
<1> QED
  BY <1>1, <1>2, <1>3, <1>8

(* One triangle more.                                                      *)
LEMMA LeadsOn ==
  ASSUME CollectOK, NEW W, NEW t, NEW d, Leads(W, t, d), t \notin endpoint,
         StripDirs(t, d) # {}
  PROVE  LET e == StripDir(t, d)
         IN  Leads(W \cup {t}, neighbours[t][e], indices[t][e])
<1>1. /\ MeshOK /\ Agree(Links) /\ endpoint = {u \in InUse : AtMostOne(Links(u))}
      /\ first \in endpoint
  BY DEF CollectOK, StripsOK, Uncollected
<1>2. /\ t \in InUse /\ t # first /\ t \notin W /\ d \in Links(t)
      /\ W \subseteq InUse /\ W \cap endpoint = {} /\ W \cup {t} \subseteq StripOf(first)
      /\ \A u \in InUse : \A e \in Passed(W, t, d, u) :
           indices[u][e] \in Passed(W, t, d, neighbours[u][e])
  BY DEF Leads
<1>3. PICK e : e = StripDir(t, d)
  OBVIOUS
<1>4. d \in Dir /\ e \in Links(t) /\ e # d
  <2>1. d \in Dir
    BY <1>2, LinksArePositions
  <2>2. e \in {RemainingIndex(d, 0), RemainingIndex(d, 1)} /\ e \in Links(t)
    BY <1>3 DEF StripDir, StripDirs
  <2> QED
    BY <2>1, <2>2, Remaining
<1>5. Links(t) = {d, e}
  <2>1. t \in Tris
    BY <1>1, <1>2, LinkFacts
  <2>2. Links(t) \in SUBSET Dir /\ \E x \in Dir : x \notin Links(t)
    BY <1>1, <2>1, LinksArePositions DEF Agree
  <2> QED
    BY <1>2, <1>4, <2>2, TwoLinks
<1>6. PICK v, f : v = neighbours[t][e] /\ f = indices[t][e]
  OBVIOUS
<1>7. /\ v \in InUse /\ v # t /\ f \in Links(v) /\ neighbours[v][f] = t /\ indices[v][f] = e
  BY <1>1, <1>2, <1>4, <1>6, LinkFacts
<1> DEFINE old(u) == Passed(W, t, d, u)
           new(u) == Passed(W \cup {t}, v, f, u)
<1>8. /\ old(first) = Links(first) /\ old(t) = {d}
      /\ \A u \in W : u # first => old(u) = Links(u)
      /\ \A u : u # first /\ u # t /\ u \notin W => old(u) = {}
  BY <1>2 DEF Passed
<1>9. v # first /\ v \notin W
  <2>1. ASSUME v = first \/ v \in W PROVE FALSE
    <3>1. f \in old(v)
      BY <1>2, <1>7, <1>8, <2>1
    <3>2. e \in old(t)
      BY <1>2, <1>7, <3>1
    <3> QED
      BY <1>4, <1>8, <3>2
  <2> QED
    BY <2>1
<1>10. /\ new(first) = Links(first) /\ new(t) = {d, e} /\ new(v) = {f}
       /\ \A u \in W : u # first => new(u) = Links(u)
       /\ \A u : u # first /\ u # t /\ u # v /\ u \notin W => new(u) = {}
  BY <1>2, <1>5, <1>7, <1>9 DEF Passed
<1> HIDE DEF old, new
<1>11. \A u : old(u) \subseteq new(u)
  BY <1>8, <1>9, <1>10
<1>12. \A u \in InUse : \A x \in old(u) : indices[u][x] \in old(neighbours[u][x])
  BY <1>2 DEF old
<1>13. ASSUME NEW u \in InUse, NEW x \in new(u)
       PROVE  indices[u][x] \in new(neighbours[u][x])
  <2>1. CASE x \in old(u)
    BY <1>11, <1>12, <2>1
  <2>2. CASE u = t /\ x = e
    <3>1. neighbours[u][x] = v /\ indices[u][x] = f
      BY <1>6, <2>2
    <3> QED
      BY <1>10, <3>1
  <2>3. CASE u = v /\ x = f
    <3>1. neighbours[u][x] = t /\ indices[u][x] = e
      BY <1>7, <2>3
    <3> QED
      BY <1>10, <3>1
  <2>4. x \in old(u) \/ (u = t /\ x = e) \/ (u = v /\ x = f)
    BY <1>8, <1>10
  <2> QED
    BY <2>1, <2>2, <2>3, <2>4
<1>14. v \in StripOf(first)
  <2>1. StripOf(first) \in Enclosed
    BY <1>1, StripIsEnclosed
  <2> QED
    BY <1>2, <1>4, <1>6, <2>1 DEF Enclosed
<1>15. Leads(W \cup {t}, v, f)
  BY <1>2, <1>7, <1>9, <1>13, <1>14, Zenon DEF Leads, new
<1> QED
  BY <1>3, <1>6, <1>15

(* The walk comes to the other end of the strip, and to no third one.      *)
LEMMA LeadsToTheEnd ==
  ASSUME CollectOK, NEW W, NEW t, NEW d, Leads(W, t, d), t \in endpoint
  PROVE  /\ StripOf(first) \cap endpoint = {first, t} /\ t # first
         /\ Links(first) # {} /\ Links(t) # {} /\ StripOf(first) = W \cup {first, t}
<1>1. /\ MeshOK /\ Agree(Links) /\ endpoint = {u \in InUse : AtMostOne(Links(u))}
      /\ first \in endpoint
  BY DEF CollectOK, StripsOK, Uncollected
<1>2. /\ t \in InUse /\ t # first /\ t \notin W /\ d \in Links(t)
      /\ W \subseteq InUse /\ W \cap endpoint = {} /\ W \cup {t} \subseteq StripOf(first)
      /\ \A u \in InUse : \A e \in Passed(W, t, d, u) :
           indices[u][e] \in Passed(W, t, d, neighbours[u][e])
  BY DEF Leads
<1>3. Links(t) = {d}
  BY <1>1, <1>2 DEF AtMostOne
<1> DEFINE F == W \cup {first, t}
<1>4. /\ \A u \in F : Links(u) = Passed(W, t, d, u)
      /\ \A u : Passed(W, t, d, u) # {} => u \in F
  BY <1>2, <1>3 DEF Passed
<1>5. F \subseteq InUse
  BY <1>1, <1>2
<1>6. F \in Enclosed
  <2>1. \A u \in F : \A e \in Links(u) : neighbours[u][e] \in F
    BY <1>2, <1>4, <1>5
  <2> QED
    BY <1>5, <2>1 DEF Enclosed
<1>7. first \in StripOf(first) /\ StripOf(first) \subseteq F
  <2>1. first \in InUse
    BY <1>1
  <2>2. first \in F
    OBVIOUS
  <2> QED
    BY <1>1, <1>6, <2>1, <2>2, StripIsEnclosed
<1>8. Links(first) # {}
  <2>1. ASSUME Links(first) = {} PROVE FALSE
    <3>1. {first} \in Enclosed
      BY <1>1, <2>1 DEF Enclosed
    <3>2. StripOf(first) \subseteq {first}
      BY <1>1, <3>1, StripIsEnclosed
    <3> QED
      BY <1>2, <3>2
  <2> QED
    BY <2>1
<1> QED
  BY <1>1, <1>2, <1>7, <1>8

-----------------------------------------------------------------------------
(***************************************************************************)
(* The output: its steps.                                                  *)
(***************************************************************************)
(* The copy of the operators that the model of the output works with.      *)
LEMMA OutputApplies ==
  /\ \A t : O!Links(t) = Links(t)
  /\ \A t, d : O!StripDirs(t, d) = StripDirs(t, d) /\ O!StripDir(t, d) = StripDir(t, d)
  /\ \A t, list : /\ O!RemoveFromList(t, list) = RemoveFromList(t, list)
                  /\ O!NextInList(t, list) = NextInList(t, list)
BY DEF O!Links, O!LinksOf, O!Dir, O!StripDirs, O!StripDir, O!RemainingIndex, O!RemoveFromList,
       O!NextInList, O!PlaceIn, O!Null, Links, LinksOf, Dir, StripDirs, StripDir, RemainingIndex,
       RemoveFromList, NextInList, PlaceIn, Null

(* The strips stay as they are while they are written.                     *)
LEMMA SameStrips ==
  ASSUME UNCHANGED <<mesh, stripVars>>
  PROVE  /\ InUse' = InUse /\ Enclosed' = Enclosed /\ LinksNow' = LinksNow
         /\ \A t : Links(t)' = Links(t) /\ StripOf(t)' = StripOf(t)
         /\ (MeshOK /\ Agree(Links))' <=> (MeshOK /\ Agree(Links))
<1>1. \A t : Links(t)' = Links(t)
  BY DEF Links, stripVars
<1>2. InUse' = InUse /\ Enclosed' = Enclosed /\ LinksNow' = LinksNow
  BY <1>1 DEF mesh, InUse, Enclosed, LinksNow
<1>3. \A t : StripOf(t)' = StripOf(t)
  BY <1>2 DEF StripOf
<1>4. (MeshOK /\ Agree(Links))' <=> (MeshOK /\ Agree(Links))
  BY <1>1 DEF mesh, MeshOK, Agree
<1> QED
  BY <1>1, <1>2, <1>3, <1>4, Zenon

(* A step that only follows a strip leaves the endpoints to be collected.  *)
LEMMA SameCollection ==
  ASSUME UNCHANGED <<mesh, stripVars, endpoints, stripsCount, first, strips>>, CollectOK
  PROVE  CollectOK'
<1>1. /\ InUse' = InUse /\ LinksNow' = LinksNow
      /\ \A t : Links(t)' = Links(t) /\ StripOf(t)' = StripOf(t)
      /\ (MeshOK /\ Agree(Links))' <=> (MeshOK /\ Agree(Links))
  BY SameStrips, Zenon
<1>2. Uncollected' = Uncollected
  BY DEF Uncollected, Behind
<1>3. StripsOK'
  BY <1>1 DEF CollectOK, StripsOK, stripVars
<1> QED
  BY <1>1, <1>2, <1>3 DEF CollectOK, stripVars

(* What leads to a triangle leads to it as the current one.                *)
LEMMA SameLeads ==
  ASSUME UNCHANGED <<mesh, stripVars, first>>,
         NEW W, NEW t, NEW d, Leads(W, t, d), curr' = t, indexToPrev' = d
  PROVE  Leads(W, curr, indexToPrev)'
<1>1. InUse' = InUse /\ \A u : Links(u)' = Links(u) /\ StripOf(u)' = StripOf(u)
  BY SameStrips
<1>2. \A u : Passed(W, curr, indexToPrev, u)' = Passed(W, t, d, u)
  BY <1>1 DEF Passed
<1> QED
  BY <1>1, <1>2 DEF Leads, mesh, stripVars

(* Tunneling leaves two places for links in each strip, and the list of    *)
(* the endpoints is not empty.                                             *)
LEMMA WrittenFrom ==
  ASSUME T!CoverInv, pc = "Done", strips = <<>>
  PROVE  /\ StripsOK /\ endpoints \in Seq(Tris) /\ IsInjectiveList(endpoints)
         /\ ElementsOf(endpoints) = endpoint /\ endpoint # {}
         /\ Cardinality(Places(LinksNow, endpoint)) = 2 * stripsCount
         /\ Circles(Links) = {}
<1> USE DEF T!Quiet, T!Digging, T!Cementing
<1>1. \A t : T!SettledLinks(t) = Links(t)
  BY DEF T!SettledLinks, T!IsSaved, T!Links, T!LinksOf, T!Dir, Links, LinksOf, Dir
<1>2. MeshOK
  BY DEF T!CoverInv, T!IInv, T!ArraysOK, T!MeshOK, T!IsMesh, T!Stitched, T!Tris, T!Dir, T!Byte, T!Null,
         MeshOK, IsMesh, Stitched, Tris, Dir, Byte, Null
<1>3. Agree(Links)
  BY <1>1 DEF T!CoverInv, T!IInv, T!LinksOK, T!Agree, T!Tris, T!Dir, T!Null, Agree, Tris, Dir, Null
<1>4. /\ endpoints \in Seq(Tris) /\ IsInjectiveList(endpoints)
      /\ ElementsOf(endpoints) = endpoint /\ endpoint # {}
  BY DEF T!CoverInv, T!IInv, T!ListOK, T!IsFlipped, T!Endpoints, T!Tris, T!IsInjectiveList, T!ElementsOf,
         Tris, IsInjectiveList, ElementsOf
<1>5. endpoint = {t \in InUse : AtMostOne(Links(t))}
  BY <1>1 DEF T!CoverInv, T!IInv, T!LinksOK, T!IsFlipped, T!Endpoints, T!Ends, T!InUse, T!AtMostOne,
              InUse, AtMostOne
<1>6. StripsOK
  <2>1. stripsCount \in Int /\ strips \in Seq(ElementsOf(strips))
    BY DEF T!CoverInv, T!IInv, T!CountersOK
  <2> QED
    BY <1>2, <1>3, <1>5, <2>1 DEF StripsOK
<1>7. Cardinality(Places(LinksNow, endpoint)) = 2 * stripsCount
  <2>1. T!Cardinality(T!Places(T!Settled, T!InUse)) = 2 * stripsCount
    BY DEF T!CoverInv, T!CountOK
  <2>2. \A X : T!Cardinality(X) = Cardinality(X)
    BY DEF T!Cardinality, Cardinality, T!IsFiniteSet, IsFiniteSet
  <2>3. T!Places(T!Settled, T!InUse) = Places(LinksNow, InUse)
    BY <1>1, <2>2, Zenon DEF T!Places, T!Settled, T!InUse, T!Tris, Places, LinksNow, InUse, Tris
  <2>4. Places(LinksNow, InUse) = Places(LinksNow, endpoint)
    <3>1. InUse \subseteq Tris
      BY <1>2, MaxTrisAssumption DEF MeshOK, IsMesh, InUse, Tris
    <3>2. \A t \in InUse : Cardinality(LinksNow[t]) <= 1 <=> t \in endpoint
      BY <1>5, <3>1, AtMostOneLink, LinksArePositions DEF LinksNow
    <3>3. \A t \in InUse : Cardinality(LinksNow[t]) \in Nat
      BY <3>1, LinkSet, LinksArePositions DEF LinksNow
    <3>4. \A t \in InUse, k \in {1, 2} : k > Cardinality(LinksNow[t]) => t \in endpoint
      BY <3>2, <3>3
    <3> QED
      BY <1>5, <3>4 DEF Places
  <2> QED
    BY <2>1, <2>2, <2>3, <2>4
<1>8. Circles(Links) = {}
  <2>1. T!Circles(T!SettledLinks) = {}
    BY DEF T!CoverInv, T!CirclesOK
  <2>2. \A X : AtMostOne(X) <=> T!AtMostOne(X)
    BY DEF T!AtMostOne, AtMostOne
  <2>3. \A X, t : {d \in Links(t) : neighbours[t][d] \in X}
                    = {d \in T!SettledLinks(t) : neighbours[t][d] \in X}
    BY <1>1
  <2>4. T!InUse = InUse
    BY DEF T!InUse, InUse
  <2>5. \A X : X \in Circles(Links) => X \in T!Circles(T!SettledLinks)
    BY <2>2, <2>3, <2>4 DEF T!Circles, Circles
  <2> QED
    BY <2>1, <2>5
<1> QED
  BY <1>4, <1>6, <1>7, <1>8

(* The output begins with all the endpoints.                               *)
LEMMA StartOutputStep ==
  ASSUME T!CoverInv, strips = <<>>, O!StartOutput
  PROVE  CollectOK' /\ pc' = "Collect" /\ Collected' = {}
<1>1. /\ pc = "Done" /\ pc' = "Collect" /\ first' = Head(endpoints)
      /\ UNCHANGED <<mesh, stripVars, endpoints, stripsCount, strips>>
  BY DEF O!StartOutput, O!mesh, O!stripVars, mesh, stripVars
<1>2. /\ StripsOK /\ endpoints \in Seq(Tris) /\ IsInjectiveList(endpoints)
      /\ ElementsOf(endpoints) = endpoint /\ endpoint # {}
      /\ Cardinality(Places(LinksNow, endpoint)) = 2 * stripsCount
      /\ Circles(Links) = {}
  BY <1>1, WrittenFrom
<1>3. /\ InUse' = InUse /\ LinksNow' = LinksNow
      /\ \A t : Links(t)' = Links(t) /\ StripOf(t)' = StripOf(t)
      /\ (MeshOK /\ Agree(Links))' <=> (MeshOK /\ Agree(Links))
  BY <1>1, SameStrips, Zenon
<1>4. StripsOK'
  BY <1>1, <1>2, <1>3 DEF StripsOK, stripVars
<1>5. Uncollected' = endpoint /\ first' \in endpoint
  <2>1. /\ Head(endpoints) \in endpoint
        /\ {Head(endpoints)} \cup Behind(Head(endpoints), endpoints) = endpoint
    BY <1>2, BehindHead
  <2> QED
    BY <1>1, <2>1 DEF Uncollected, Behind
<1>6. Len(strips) = 0 /\ stripsCount \in Int
  BY <1>2 DEF StripsOK
<1>7. CollectOK'
  BY <1>1, <1>2, <1>3, <1>4, <1>5, <1>6 DEF CollectOK, stripVars
<1>8. ASSUME NEW t \in InUse, StripOf(t) \cap endpoint = {} PROVE FALSE
  <2>1. /\ MeshOK /\ Agree(Links) /\ endpoint = {u \in InUse : AtMostOne(Links(u))}
        /\ \A u : Links(u) \subseteq Dir
    BY <1>2, LinksArePositions DEF StripsOK
  <2>2. PICK X : X = StripOf(t)
    OBVIOUS
  <2>3. t \in X /\ X \in Enclosed
    BY <2>1, <2>2, StripIsEnclosed
  <2>4. X \subseteq InUse /\ \A u \in X : \A d \in Links(u) : neighbours[u][d] \in X
    BY <2>3 DEF Enclosed
  <2>5. ASSUME NEW u \in X PROVE ~AtMostOne({d \in Links(u) : neighbours[u][d] \in X})
    <3>1. {d \in Links(u) : neighbours[u][d] \in X} = Links(u)
      BY <2>4
    <3>2. ~AtMostOne(Links(u))
      BY <1>8, <2>1, <2>2, <2>4
    <3> QED
      BY <3>1, <3>2, Zenon
  <2>6. X \in Circles(Links)
    BY <2>3, <2>4, <2>5 DEF Circles
  <2> QED
    BY <1>2, <2>6
<1>9. Collected' = {}
  <2>1. Collected' = {t \in InUse : StripOf(t) \cap endpoint = {}}
    BY <1>3, <1>5 DEF Collected
  <2> QED
    BY <1>8, <2>1
<1> QED
  BY <1>1, <1>7, <1>9

(* An endpoint has a place for a link.                                     *)
LEMMA PlacesLeft ==
  ASSUME StripsOK, NEW U \in SUBSET endpoint
  PROVE  /\ IsFiniteSet(Places(LinksNow, U)) /\ Cardinality(Places(LinksNow, U)) \in Nat
         /\ Cardinality(Places(LinksNow, U)) = 0 <=> U = {}
         /\ U \subseteq Tris
         /\ \A t \in U : <<t, 2>> \in Places(LinksNow, U)
         /\ \A t \in U : Cardinality(LinksNow[t]) \in {0, 1}
         /\ \A t \in U : Cardinality(LinksNow[t]) = 0 <=> Links(t) = {}
<1>1. /\ InUse \subseteq Tris /\ IsFiniteSet(InUse) /\ U \subseteq InUse
      /\ \A t \in U : AtMostOne(Links(t)) /\ LinksNow[t] = Links(t)
  <2>1. trisCount \in Tris /\ endpoint = {t \in InUse : AtMostOne(Links(t))}
    BY DEF StripsOK, MeshOK, IsMesh
  <2>2. trisCount \in Int /\ 1 \in Int
    BY <2>1, MaxTrisAssumption DEF Tris
  <2>3. IsFiniteSet(InUse)
    BY <2>2, FS_Interval DEF InUse
  <2>4. InUse \subseteq Tris
    BY <2>1, MaxTrisAssumption DEF InUse, Tris
  <2> QED
    BY <2>1, <2>3, <2>4 DEF LinksNow
<1>2. IsFiniteSet(U)
  BY <1>1, FS_Subset
<1>3. \A t \in U : LinksNow[t] \in SUBSET Dir /\ \E d \in Dir : d \notin LinksNow[t]
  <2>1. \A t \in U : \E d \in Dir : d \notin Links(t)
    BY <1>1 DEF StripsOK, Agree
  <2> QED
    BY <1>1, <2>1, LinksArePositions
<1>4. IsFiniteSet(Places(LinksNow, U)) /\ Cardinality(Places(LinksNow, U)) \in Nat
  BY <1>2, <1>3, PlacesAndSides, FS_CardinalityType
<1>5. ASSUME NEW t \in U
      PROVE  /\ Cardinality(LinksNow[t]) \in {0, 1}
             /\ Cardinality(LinksNow[t]) = 0 <=> Links(t) = {}
  <2>1. IsFiniteSet(Links(t)) /\ Cardinality(Links(t)) \in Nat
    BY LinkSet, LinksArePositions
  <2>2. Cardinality(Links(t)) <= 1
    BY <1>1, AtMostOneLink, LinksArePositions
  <2>3. Cardinality(Links(t)) = 0 <=> Links(t) = {}
    BY <2>1, FS_EmptySet
  <2>4. LinksNow[t] = Links(t)
    BY <1>1
  <2> QED
    BY <2>1, <2>2, <2>3, <2>4
<1>6. \A t \in U : <<t, 2>> \in Places(LinksNow, U)
  BY <1>5 DEF Places
<1>7. Cardinality(Places(LinksNow, U)) = 0 <=> U = {}
  <2>1. Places(LinksNow, U) = {} <=> U = {}
    BY <1>6, Zenon DEF Places
  <2> QED
    BY <1>4, <2>1, FS_EmptySet
<1> QED
  BY <1>1, <1>4, <1>5, <1>6, <1>7

(* A strip takes its endpoints and their two places with it.               *)
LEMMA PlacesTaken ==
  ASSUME StripsOK, NEW U \in SUBSET endpoint, NEW f \in U, NEW last,
         \/ last = Null /\ Links(f) = {}
         \/ last \in U /\ last # f /\ Links(f) # {} /\ Links(last) # {}
  PROVE  /\ Cardinality(Places(LinksNow, U)) \in Nat
         /\ Cardinality(Places(LinksNow, U \ {f, last})) = Cardinality(Places(LinksNow, U)) - 2
         /\ Cardinality(Places(LinksNow, U \ {f, last})) = 0 <=> U \ {f, last} = {}
<1>1. IsFiniteSet(Places(LinksNow, U)) /\ Cardinality(Places(LinksNow, U)) \in Nat
  BY PlacesLeft
<1>2. U \subseteq Tris
  BY PlacesLeft
<1>3. \A t \in U : <<t, 2>> \in Places(LinksNow, U)
  BY PlacesLeft, Zenon
<1>4. \A t \in U : Cardinality(LinksNow[t]) \in {0, 1}
  BY PlacesLeft
<1>5. \A t \in U : Cardinality(LinksNow[t]) = 0 <=> Links(t) = {}
  BY PlacesLeft
<1>6. PICK p, q : /\ p \in Places(LinksNow, U) /\ q \in Places(LinksNow, U) /\ p # q
                  /\ Places(LinksNow, U \ {f, last}) = Places(LinksNow, U) \ {p, q}
  <2>1. CASE last = Null /\ Links(f) = {}
    <3>1. U \ {f, last} = U \ {f}
      <4>1. Null \notin U
        BY <1>2, MaxTrisAssumption DEF Tris, Null
      <4> QED
        BY <2>1, <4>1
    <3>2. Cardinality(LinksNow[f]) = 0
      BY <1>5, <2>1
    <3>3. <<f, 1>> \in Places(LinksNow, U) /\ <<f, 2>> \in Places(LinksNow, U) /\ <<f, 1>> # <<f, 2>>
      BY <3>2 DEF Places
    <3>4. Places(LinksNow, U \ {f}) = Places(LinksNow, U) \ {<<f, 1>>, <<f, 2>>}
      BY DEF Places
    <3> QED
      BY <3>1, <3>3, <3>4, Zenon
  <2>2. CASE last \in U /\ last # f /\ Links(f) # {} /\ Links(last) # {}
    <3>1. Cardinality(LinksNow[f]) = 1 /\ Cardinality(LinksNow[last]) = 1
      BY <1>4, <1>5, <2>2
    <3>2. /\ <<f, 2>> \in Places(LinksNow, U) /\ <<last, 2>> \in Places(LinksNow, U)
          /\ <<f, 2>> # <<last, 2>>
      BY <1>3, <2>2
    <3>3. Places(LinksNow, U \ {f, last}) = Places(LinksNow, U) \ {<<f, 2>>, <<last, 2>>}
      BY <3>1 DEF Places
    <3> QED
      BY <3>2, <3>3, Zenon
  <2> QED
    BY <2>1, <2>2, Zenon
<1>7. Cardinality(Places(LinksNow, U) \ {p, q}) = Cardinality(Places(LinksNow, U)) - 2
      /\ IsFiniteSet(Places(LinksNow, U) \ {p, q})
  <2> DEFINE Left == Places(LinksNow, U)
  <2>1. IsFiniteSet(Left) /\ p \in Left /\ q \in Left
    BY <1>1, <1>6
  <2> HIDE DEF Left
  <2>2. IsFiniteSet(Left \ {p, q}) /\ Cardinality(Left \ {p, q}) = Cardinality(Left) - 2
    BY <1>6, <2>1, TwoLess
  <2> QED
    BY <2>2 DEF Left
<1>8. Cardinality(Places(LinksNow, U \ {f, last})) = Cardinality(Places(LinksNow, U)) - 2
  BY <1>6, <1>7, Zenon
<1>9. Cardinality(Places(LinksNow, U \ {f, last})) = 0 <=> U \ {f, last} = {}
  <2>1. U \ {f, last} \in SUBSET endpoint
    OBVIOUS
  <2> QED
    BY <2>1, PlacesLeft
<1> QED
  BY <1>1, <1>8, <1>9

(* A strip that has come to its end leaves the others, and both counts     *)
(* come to their end at the same time.                                     *)
LEMMA StripTaken ==
  ASSUME CollectOK, UNCHANGED <<mesh, stripVars, stripsCount>>, NEW list, NEW last,
         O!FinishedStrip(list, last),
         StripOf(first) \cap endpoint = {first, last} \ {Null},
         \/ last = Null /\ Links(first) = {}
         \/ last # Null /\ last # first /\ Links(first) # {} /\ Links(last) # {}
  PROVE  \/ pc' = "Collect" /\ CollectOK' /\ Collected' = Collected \cup StripOf(first)
         \/ pc' = "Output" /\ first' = Null /\ InUse = Collected \cup StripOf(first)
<1>1. /\ StripsOK /\ MeshOK /\ Agree(Links)
      /\ endpoints \in Seq(Tris) /\ IsInjectiveList(endpoints) /\ first \in ElementsOf(endpoints)
      /\ Uncollected \subseteq endpoint
      /\ \A t \in Uncollected : StripOf(t) \cap endpoint \subseteq Uncollected
      /\ Cardinality(Places(LinksNow, Uncollected)) = 2 * (stripsCount - Len(strips))
      /\ first \in Uncollected /\ Uncollected = {first} \cup Behind(first, endpoints)
  BY DEF CollectOK, StripsOK, Uncollected
<1>2. PICK f : f = first
  OBVIOUS
<1>3. PICK rest : rest = IF last = Null THEN endpoints ELSE RemoveFromList(last, endpoints)
  OBVIOUS
<1>4. /\ strips' = Append(strips, list) /\ endpoints' = rest /\ first' = NextInList(f, rest)
      /\ pc' = IF Len(strips') = stripsCount THEN "Output" ELSE "Collect"
  BY <1>2, <1>3, OutputApplies DEF O!FinishedStrip, O!EndpointsWithout, O!NextEndpoint, O!Null, Null
<1>5. last = Null \/ last \in Uncollected
  BY <1>1
<1>6. Null \notin Tris /\ endpoint \subseteq InUse /\ InUse \subseteq Tris
  BY <1>1, MaxTrisAssumption DEF StripsOK, MeshOK, IsMesh, InUse, Tris, Null
<1> DEFINE U == Uncollected \ {f, last}
<1>7. /\ rest \in Seq(Tris) /\ IsInjectiveList(rest) /\ f \in ElementsOf(rest)
      /\ Behind(f, rest) = U
  <2>1. CASE last = Null
    <3>1. rest = endpoints /\ f \notin Behind(f, endpoints)
      BY <1>1, <1>2, <1>3, <2>1, BehindNext
    <3>2. U = Behind(f, endpoints)
      BY <1>1, <1>2, <1>6, <2>1, <3>1
    <3> QED
      BY <1>1, <1>2, <3>1, <3>2
  <2>2. CASE last # Null
    <3>1. last \in Behind(f, endpoints) /\ f \in ElementsOf(endpoints)
      BY <1>1, <1>2, <1>5, <2>2, Zenon
    <3>2. rest = RemoveFromList(last, endpoints)
      BY <1>3, <2>2
    <3>3. /\ last \in ElementsOf(endpoints) /\ f \in ElementsOf(rest)
          /\ Behind(f, rest) = Behind(f, endpoints) \ {last}
      BY <1>1, <3>1, <3>2, BehindRemoved
    <3>4. rest \in Seq(Tris) /\ IsInjectiveList(rest)
      BY <1>1, <3>2, <3>3, ElementRemoved
    <3>5. f \notin Behind(f, endpoints)
      BY <1>1, <3>1, BehindNext
    <3> QED
      BY <1>1, <1>2, <3>3, <3>4, <3>5
  <2> QED
    BY <2>1, <2>2
<1>8. /\ first' = Null <=> U = {}
      /\ first' # Null => first' \in ElementsOf(rest) /\ U = {first'} \cup Behind(first', rest)
  <2>1. /\ NextInList(f, rest) = Null <=> Behind(f, rest) = {}
        /\ NextInList(f, rest) # Null =>
             /\ NextInList(f, rest) \in ElementsOf(rest)
             /\ Behind(f, rest) = {NextInList(f, rest)} \cup Behind(NextInList(f, rest), rest)
    BY <1>7, BehindNext
  <2> QED
    BY <1>4, <1>7, <2>1
<1>9. \A t \in U : StripOf(t) \cap endpoint \subseteq U
  <2> SUFFICES ASSUME NEW t \in U, NEW u \in StripOf(t), u \in endpoint PROVE u \in U
    OBVIOUS
  <2>1. t \in Uncollected /\ t \in endpoint /\ t \in InUse /\ u \in Uncollected
    BY <1>1, <1>6
  <2>2. StripOf(u) = StripOf(t) /\ t \in StripOf(t)
    BY <1>1, <2>1, StripsAreDisjoint, StripIsEnclosed
  <2>3. u # f
    BY <1>2, <2>1, <2>2
  <2>4. ASSUME u = last PROVE FALSE
    <3>1. last # Null
      BY <1>6, <2>1, <2>4
    <3>2. f \in InUse /\ last \in StripOf(f)
      BY <1>1, <1>2, <1>6, <3>1
    <3>3. StripOf(last) = StripOf(f)
      BY <1>1, <3>2, StripsAreDisjoint
    <3> QED
      BY <1>2, <2>1, <2>2, <2>4, <3>3
  <2> QED
    BY <2>1, <2>3, <2>4
<1>10. /\ Cardinality(Places(LinksNow, U)) = Cardinality(Places(LinksNow, Uncollected)) - 2
       /\ Cardinality(Places(LinksNow, U)) = 0 <=> U = {}
       /\ Cardinality(Places(LinksNow, Uncollected)) \in Nat
  <2>1. PICK X : X = Uncollected
    OBVIOUS
  <2>2. /\ X \in SUBSET endpoint /\ f \in X
        /\ \/ last = Null /\ Links(f) = {}
           \/ last \in X /\ last # f /\ Links(f) # {} /\ Links(last) # {}
    BY <1>1, <1>2, <1>5, <2>1
  <2>3. /\ Cardinality(Places(LinksNow, X)) \in Nat
        /\ Cardinality(Places(LinksNow, X \ {f, last})) = Cardinality(Places(LinksNow, X)) - 2
        /\ Cardinality(Places(LinksNow, X \ {f, last})) = 0 <=> X \ {f, last} = {}
    BY <1>1, <2>2, PlacesTaken
  <2> QED
    BY <2>1, <2>3
<1>11. Len(strips') = Len(strips) + 1 /\ Len(strips) \in Nat /\ stripsCount \in Int
  BY <1>1, <1>4 DEF StripsOK
<1>12. Cardinality(Places(LinksNow, U)) = 2 * (stripsCount - Len(strips'))
  BY <1>1, <1>10, <1>11
<1>13. pc' = "Output" <=> U = {}
  <2>1. Len(strips') = stripsCount <=> Cardinality(Places(LinksNow, U)) = 0
    BY <1>11, <1>12
  <2> QED
    BY <1>4, <1>10, <2>1
<1>16. \A t \in InUse : ~(t \in Collected \cup StripOf(f)) =>
         \E u \in StripOf(t) : u \in Uncollected /\ u # f /\ u # last
  <2> SUFFICES ASSUME NEW t \in InUse, ~(t \in Collected \cup StripOf(f)), NEW u \in StripOf(t),
                      u \in Uncollected, u = f \/ u = last
               PROVE  FALSE
    BY DEF Collected
  <2>1. u \in StripOf(f)
    <3>1. f \in StripOf(f)
      BY <1>1, <1>2, <1>6, StripIsEnclosed
    <3>2. u \in InUse
      BY <1>1, <1>6
    <3>3. last # Null => last \in StripOf(f)
      BY <1>2
    <3> QED
      BY <1>6, <3>1, <3>2, <3>3
  <2>2. StripOf(u) = StripOf(t) /\ StripOf(u) = StripOf(f) /\ t \in StripOf(t)
    BY <1>1, <1>2, <1>6, <2>1, StripsAreDisjoint, StripIsEnclosed
  <2> QED
    BY <2>2
<1>17. \A t \in Collected \cup StripOf(f) : t \in InUse /\ StripOf(t) \cap U = {}
  <2> SUFFICES ASSUME NEW t \in Collected \cup StripOf(f)
               PROVE  t \in InUse /\ StripOf(t) \cap U = {}
    OBVIOUS
  <2>1. CASE t \in Collected
    BY <2>1 DEF Collected
  <2>2. CASE t \in StripOf(f)
    <3>1. t \in InUse /\ f \in InUse
      BY <1>1, <1>2, <1>6, <2>2 DEF StripOf
    <3>2. StripOf(t) = StripOf(f)
      BY <1>1, <2>2, <3>1, StripsAreDisjoint
    <3>3. StripOf(f) \cap endpoint \subseteq {f, last}
      BY <1>2
    <3> QED
      BY <1>1, <3>1, <3>2, <3>3
  <2> QED
    BY <2>1, <2>2
<1>14. CASE U = {}
  <2>1. InUse = Collected \cup StripOf(f)
    BY <1>14, <1>16, <1>17
  <2> QED
    BY <1>2, <1>8, <1>13, <1>14, <2>1
<1>15. CASE U # {}
  <2>1. pc' = "Collect"
    BY <1>4, <1>13, <1>15
  <2>2. PICK W : W = U
    BY Zenon
  <2>3. Uncollected' = W
    BY <1>4, <1>8, <1>15, <2>2, Zenon DEF Uncollected, Behind
  <2>4. /\ InUse' = InUse /\ LinksNow' = LinksNow
        /\ \A t : Links(t)' = Links(t) /\ StripOf(t)' = StripOf(t)
        /\ (MeshOK /\ Agree(Links))' <=> (MeshOK /\ Agree(Links))
    BY SameStrips, Zenon
  <2>5. strips' \in Seq(ElementsOf(strips'))
    <3>1. /\ strips \in Seq(ElementsOf(strips)) /\ DOMAIN strips = 1 .. Len(strips)
          /\ strips' = Append(strips, list)
      BY <1>1, <1>4 DEF StripsOK
    <3>2. strips \in Seq(ElementsOf(strips) \cup {list})
      BY <3>1
    <3>3. strips' \in Seq(ElementsOf(strips) \cup {list})
      BY <3>1, <3>2
    <3>4. \A s : s \in Seq(ElementsOf(strips) \cup {list}) => s \in Seq(ElementsOf(s))
      BY DEF ElementsOf
    <3> QED
      BY <3>3, <3>4 DEF ElementsOf
  <2>6. StripsOK'
    BY <1>1, <2>4, <2>5 DEF StripsOK, stripVars
  <2>7. Cardinality(Places(LinksNow, W)) = 2 * (stripsCount - Len(strips'))
    BY <1>12, <2>2
  <2>8. /\ W \subseteq endpoint /\ \A t \in W : StripOf(t) \cap endpoint \subseteq W
        /\ first' \in ElementsOf(rest)
    BY <1>1, <1>8, <1>9, <1>15, <2>2
  <2>9. CollectOK'
    BY <1>4, <1>7, <2>3, <2>4, <2>6, <2>7, <2>8 DEF CollectOK, stripVars
  <2>10. Collected' = Collected \cup StripOf(f)
    <3>1. Collected' = {t \in InUse : StripOf(t) \cap W = {}}
      BY <2>3, <2>4 DEF Collected
    <3>2. \A t \in InUse : ~(t \in Collected \cup StripOf(f)) => StripOf(t) \cap W # {}
      BY <1>16, <2>2
    <3>3. \A t \in Collected \cup StripOf(f) : t \in InUse /\ StripOf(t) \cap W = {}
      BY <1>17, <2>2
    <3> QED
      BY <3>1, <3>2, <3>3
  <2> QED
    BY <1>2, <2>1, <2>9, <2>10
<1> QED
  BY <1>14, <1>15

(* A strip of one is its own end.                                          *)
LEMMA CollectOneStep ==
  ASSUME CollectOK, O!CollectOne
  PROVE  \/ pc' = "Collect" /\ CollectOK' /\ Collected' = Collected \cup StripOf(first)
         \/ pc' = "Output" /\ first' = Null /\ InUse = Collected \cup StripOf(first)
<1>1. PICK list : list = [i \in 1 .. 3 |-> vertices[first][i - 1]]
  BY Zenon
<1>2. O!FinishedStrip(list, Null) /\ UNCHANGED <<mesh, stripVars, stripsCount>> /\ Links(first) = {}
  BY <1>1, OutputApplies
  DEF O!CollectOne, O!FinishedStrip, O!Null, O!mesh, O!stripVars, Null, mesh, stripVars
<1>3. StripOf(first) \cap endpoint = {first, Null} \ {Null}
  <2>1. /\ MeshOK /\ Agree(Links) /\ first \in endpoint
        /\ endpoint = {t \in InUse : AtMostOne(Links(t))}
    BY DEF CollectOK, StripsOK, Uncollected
  <2>2. {first} \in Enclosed
    BY <1>2, <2>1 DEF Enclosed
  <2>3. StripOf(first) = {first}
    BY <2>1, <2>2, StripIsEnclosed
  <2>4. first # Null
    BY <2>1 DEF InUse, Null
  <2> QED
    BY <2>1, <2>3, <2>4
<1> QED
  BY <1>2, <1>3, StripTaken

(* A strip of two ends at its second triangle, the other endpoint.         *)
LEMMA CollectTwoStep ==
  ASSUME CollectOK, O!CollectTwo
  PROVE  \/ pc' = "Collect" /\ CollectOK' /\ Collected' = Collected \cup StripOf(first)
         \/ pc' = "Output" /\ first' = Null /\ InUse = Collected \cup StripOf(first)
<1>1. PICK list, last, d :
        /\ list = <<O!Opposite(first, O!FirstDir)>> \o O!Edge(first, O!FirstDir)
                  \o <<O!Opposite(O!Second, O!IndexOfFirst)>>
        /\ last = O!Second /\ d = O!IndexOfFirst
  BY Zenon
<1>2. /\ O!FinishedStrip(list, last) /\ UNCHANGED <<mesh, stripVars, stripsCount>>
      /\ Links(first) # {} /\ last \in endpoint
  BY <1>1, OutputApplies DEF O!CollectTwo, O!mesh, O!stripVars, mesh, stripVars
<1>3. Leads({}, last, d)
  BY <1>1, <1>2, LeadsStart
<1>4. /\ StripOf(first) \cap endpoint = {first, last} /\ last # first
      /\ Links(first) # {} /\ Links(last) # {}
  BY <1>2, <1>3, LeadsToTheEnd
<1>5. first # Null /\ last # Null
  BY <1>2 DEF CollectOK, StripsOK, Uncollected, InUse, Null
<1>6. StripOf(first) \cap endpoint = {first, last} \ {Null}
  BY <1>4, <1>5
<1> QED
  BY <1>2, <1>4, <1>5, <1>6, StripTaken

(* A longer strip ends at the endpoint that was come to.                   *)
LEMMA FinishStripStep ==
  ASSUME CollectOK, O!FinishStrip, \E W \in SUBSET InUse : Leads(W, curr, indexToPrev)
  PROVE  \/ pc' = "Collect" /\ CollectOK' /\ Collected' = Collected \cup StripOf(first)
         \/ pc' = "Output" /\ first' = Null /\ InUse = Collected \cup StripOf(first)
<1>1. PICK list, last, d : /\ list = Append(ids, O!Completing)
                           /\ last = curr /\ d = indexToPrev
  BY Zenon
<1>2. /\ O!FinishedStrip(list, last) /\ UNCHANGED <<mesh, stripVars, stripsCount>>
      /\ last \in endpoint
  BY <1>1 DEF O!FinishStrip, O!mesh, O!stripVars, mesh, stripVars
<1>3. PICK W \in SUBSET InUse : Leads(W, last, d)
  BY <1>1
<1>4. /\ StripOf(first) \cap endpoint = {first, last} /\ last # first
      /\ Links(first) # {} /\ Links(last) # {}
  BY <1>2, <1>3, LeadsToTheEnd
<1>5. first # Null /\ last # Null
  BY <1>2 DEF CollectOK, StripsOK, Uncollected, InUse, Null
<1>6. StripOf(first) \cap endpoint = {first, last} \ {Null}
  BY <1>4, <1>5
<1> QED
  BY <1>2, <1>4, <1>5, <1>6, StripTaken

(* A longer strip is followed from its first triangles on.                 *)
LEMMA CollectCoreStep ==
  ASSUME CollectOK, O!CollectCore
  PROVE  pc' = "Follow" /\ CollectOK' /\ (\E W \in SUBSET InUse : Leads(W, curr, indexToPrev))'
<1>1. PICK t, d, e, v, f : /\ t = O!Second /\ d = O!IndexOfFirst /\ e = StripDir(t, d)
                           /\ v = neighbours[t][e] /\ f = indices[t][e]
  OBVIOUS
<1>2. /\ UNCHANGED <<mesh, stripVars, endpoints, stripsCount, first, strips>>
      /\ Links(first) # {} /\ t \notin endpoint /\ StripDirs(t, d) # {}
      /\ pc' = "Follow" /\ curr' = v /\ indexToPrev' = f
  BY <1>1, OutputApplies DEF O!CollectCore, O!mesh, O!stripVars, mesh, stripVars
<1>3. Leads({}, t, d)
  BY <1>1, <1>2, LeadsStart
<1>4. Leads({} \cup {t}, v, f)
  BY <1>1, <1>2, <1>3, LeadsOn
<1>5. CollectOK'
  BY <1>2, SameCollection
<1>6. PICK W : W = {} \cup {t}
  BY Zenon
<1>7. Leads(W, curr, indexToPrev)'
  BY <1>2, <1>4, <1>6, SameLeads
<1>8. W \in SUBSET InUse'
  BY <1>7 DEF Leads
<1> QED
  BY <1>2, <1>5, <1>7, <1>8

(* It is followed one triangle on.                                         *)
LEMMA FollowStripStep ==
  ASSUME CollectOK, O!FollowStrip, \E W \in SUBSET InUse : Leads(W, curr, indexToPrev)
  PROVE  pc' = pc /\ CollectOK' /\ (\E W \in SUBSET InUse : Leads(W, curr, indexToPrev))'
<1>1. PICK t, d, e, v, f : /\ t = curr /\ d = indexToPrev /\ e = StripDir(t, d)
                           /\ v = neighbours[t][e] /\ f = indices[t][e]
  OBVIOUS
<1>2. /\ UNCHANGED <<mesh, stripVars, endpoints, stripsCount, first, strips>>
      /\ t \notin endpoint /\ StripDirs(t, d) # {}
      /\ pc' = pc /\ curr' = v /\ indexToPrev' = f
  BY <1>1, OutputApplies DEF O!FollowStrip, O!mesh, O!stripVars, mesh, stripVars
<1>3. PICK W \in SUBSET InUse : Leads(W, t, d)
  BY <1>1
<1>4. Leads(W \cup {t}, v, f)
  BY <1>1, <1>2, <1>3, LeadsOn
<1>5. CollectOK'
  BY <1>2, SameCollection
<1>6. PICK X : X = W \cup {t}
  BY Zenon
<1>7. Leads(X, curr, indexToPrev)'
  BY <1>2, <1>4, <1>6, SameLeads
<1>8. X \in SUBSET InUse'
  BY <1>7 DEF Leads
<1> QED
  BY <1>2, <1>5, <1>7, <1>8

(* The output keeps the invariant of the session.                          *)
LEMMA CollectingStep ==
  ASSUME SessionInv, Collecting, UNCHANGED <<stats, verifierVars, historyVars>>
  PROVE  SessionInv'
<1> USE DEF Reading, Preparing, Tunneled, Writing, Simply, T!Quiet, T!Digging, T!Cementing
<1>1. /\ pc = "Done" => T!CoverInv /\ strips = <<>>
      /\ pc \in Writing => CollectOK
      /\ pc = "Follow" => \E W \in SUBSET InUse : Leads(W, curr, indexToPrev)
  BY DEF SessionInv, PhasesOK, UntouchedOK, OutputOK, T!TriedInv
<1>2. /\ pc \in Writing \cup {"Done"}
      /\ UNCHANGED <<mesh, settings, config, buildVars, tunnelVars>>
  <2>1. UNCHANGED <<mesh, preserve>>
    BY DEF Collecting, O!Step, O!StartOutput, O!CollectOne, O!CollectTwo, O!CollectCore, O!FollowStrip,
           O!FinishStrip, O!mesh, mesh
  <2>2. pc \in Writing \cup {"Done"}
    BY DEF Collecting, O!Step, O!StartOutput, O!CollectOne, O!CollectTwo, O!CollectCore, O!FollowStrip,
           O!FinishStrip
  <2> QED
    BY <2>1, <2>2 DEF Collecting, settings
<1>3. \/ pc' = "Collect" /\ CollectOK'
      \/ pc' = "Follow" /\ CollectOK' /\ (\E W \in SUBSET InUse : Leads(W, curr, indexToPrev))'
      \/ pc' = "Output" /\ first' = Null
  <2>1. CASE O!StartOutput
    <3>1. pc = "Done"
      BY <2>1 DEF O!StartOutput
    <3> QED
      BY <1>1, <2>1, <3>1, StartOutputStep
  <2>2. CASE O!CollectOne
    <3>1. pc = "Collect"
      BY <2>2 DEF O!CollectOne
    <3> QED
      BY <1>1, <2>2, <3>1, CollectOneStep
  <2>3. CASE O!CollectTwo
    <3>1. pc = "Collect"
      BY <2>3 DEF O!CollectTwo
    <3> QED
      BY <1>1, <2>3, <3>1, CollectTwoStep
  <2>4. CASE O!CollectCore
    <3>1. pc = "Collect"
      BY <2>4 DEF O!CollectCore
    <3> QED
      BY <1>1, <2>4, <3>1, CollectCoreStep
  <2>5. CASE O!FollowStrip
    <3>1. pc = "Follow"
      BY <2>5 DEF O!FollowStrip
    <3> QED
      BY <1>1, <2>5, <3>1, FollowStripStep
  <2>6. CASE O!FinishStrip
    <3>1. pc = "Follow"
      BY <2>6 DEF O!FinishStrip
    <3> QED
      BY <1>1, <2>6, <3>1, FinishStripStep
  <2> QED
    BY <2>1, <2>2, <2>3, <2>4, <2>5, <2>6 DEF Collecting, O!Step
<1>4. pc' \in {"Collect", "Follow", "Output"}
  BY <1>3
<1>5. PhaseOK'
  BY <1>2, <1>4 DEF SessionInv, PhaseOK, verifierVars, settings, mesh
<1>6. UntouchedOK'
  BY <1>3, <1>4 DEF UntouchedOK
<1>7. SettingsOK'
  BY <1>2, <1>4 DEF SessionInv, SettingsOK, settings, buildVars, tunnelVars
<1>8. PhasesOK'
  BY <1>4 DEF PhasesOK
<1>9. OutputOK'
  BY <1>3 DEF OutputOK
<1>10. RecordOK'
  <2>1. /\ SmallestSoFar' = SmallestSoFar /\ Held(SmallestSoFar)' = Held(SmallestSoFar)
        /\ UNCHANGED <<asked, smallest, trisCount, config>>
    BY <1>2, Unsettled DEF historyVars, settings, mesh
  <2> QED
    BY <1>2, <1>4, <2>1 DEF SessionInv, RecordOK
<1> QED
  BY <1>5, <1>6, <1>7, <1>8, <1>9, <1>10 DEF SessionInv

-----------------------------------------------------------------------------
(***************************************************************************)
(* The invariant holds over any number of calls.                           *)
(***************************************************************************)
LEMMA NextSessionInv ==
  ASSUME SessionInv, [Next]_sessionVars
  PROVE  SessionInv'
<1>1. CASE Calling
  BY <1>1, CallStep, DispatchStep, BuildingStep, PreprocessingStep, TunnelingStep, CollectingStep,
     BuildingSimpleStep DEF Calling, Step
<1>2. CASE Measure \/ CountList
  <2>1. pc = "Output" /\ UNCHANGED <<vars, historyVars>>
    BY <1>2 DEF Measure, CountList
  <2> QED
    BY <2>1, BetweenCalls
<1>3. stage # "None" => pc = "Output"
  BY DEF SessionInv, PhaseOK
<1>4. CASE VerifyStrips \/ Verifying
  <2>1. stage # "None" /\ UNCHANGED <<vars, historyVars>>
    BY <1>4 DEF VerifyStrips, Verifying, V!StartVerify, V!Counting, V!SkipDegenerated, V!CountTri,
                V!EndCount, V!Comparing, V!SkipTriple, V!UnknownTriple, V!KnownTriple, V!NextStrip,
                V!EndVerify, V!ReadsTriple
  <2> QED
    BY <1>3, <2>1, BetweenCalls
<1>5. CASE CallAgain
  BY <1>5, CallAgainStep
<1>6. CASE UNCHANGED sessionVars
  <2>1. UNCHANGED <<vars, historyVars>> /\ stage' = stage
    BY <1>6 DEF sessionVars, verifierVars
  <2> QED
    BY <1>3, <2>1, BetweenCalls
<1> QED
  BY <1>1, <1>2, <1>4, <1>5, <1>6 DEF Next

(* From the first call on every phase finds what it relies on, whatever    *)
(* the lists, the settings and the calls before were, as long as a search  *)
(* that is cancelled cleans up after itself.                               *)
THEOREM SessionInvHolds ==
  ASSUME CancelsCleanly
  PROVE  Spec => []SessionInv
<1>1. SessionInit => SessionInv
  BY InitSessionInv
<1>2. SessionInv /\ [Next]_sessionVars => SessionInv'
  BY NextSessionInv
<1> QED
  BY <1>1, <1>2, PTL DEF Spec

-----------------------------------------------------------------------------
(* The invariant of tunneling contains what tunneling promises ...         *)
LEMMA InvTunnelingHolds ==
  ASSUME SessionInv
  PROVE  TunnelingHolds
<1> SUFFICES ASSUME IsTunneling
             PROVE  /\ T!AssertionsHold /\ T!LinksAgree /\ T!EndpointList
                    /\ T!VisitedIsTunnel /\ T!TunnelAlternates /\ T!CircleCheckExact
  BY DEF TunnelingHolds
<1>1. T!TriedInv /\ T!CoverInv
  BY DEF SessionInv, PhaseOK, PhasesOK, IsTunneling, Tunneled, Reading, Preparing, Writing, Simply,
         T!Quiet, T!Digging, T!Cementing, T!TriedInv
<1>2. T!IInv
  BY <1>1 DEF T!CoverInv
<1>3. T!AssertionsHold
  BY <1>2, PhasesApply, T!IInvAssertions
<1>4. T!LinksAgree
  BY <1>2, PhasesApply, T!IInvLinksAgree
<1>5. T!EndpointList
  BY <1>2, PhasesApply, T!IInvEndpointList
<1>6. T!VisitedIsTunnel
  BY <1>2, PhasesApply, T!IInvVisitedIsTunnel
<1>7. T!TunnelAlternates
  BY <1>2, PhasesApply, T!IInvTunnelAlternates
<1>8. T!CircleCheckExact
  BY <1>1, PhasesApply, T!CoverInvExact
<1> QED
  BY <1>3, <1>4, <1>5, <1>6, <1>7, <1>8

(* Tunneling keeps its promises from whatever strips preprocessing hands   *)
(* over to it, in every call: no assertion fires, the links agree, the     *)
(* list and the flags follow them, and the circle check is exact.          *)
THEOREM TunnelingAlwaysHolds ==
  ASSUME CancelsCleanly
  PROVE  Spec => []TunnelingHolds
<1>1. SessionInv => TunnelingHolds
  BY InvTunnelingHolds
<1> QED
  BY <1>1, SessionInvHolds, PTL

(* ... and nothing more than it says is overlooked ...                     *)
LEMMA InvNoneOverlooked ==
  ASSUME SessionInv
  PROVE  NoneOverlooked
<1> SUFFICES ASSUME IsTunneling
             PROVE  T!TunnelsTried
  BY DEF NoneOverlooked
<1>1. T!TriedInv
  BY DEF SessionInv, PhaseOK, PhasesOK, IsTunneling, Tunneled, Reading, Preparing, Writing, Simply,
         T!Quiet, T!Digging, T!Cementing
<1> QED
  BY <1>1, PhasesApply, T!TriedInvTried

(* In every call an unlimited search, whatever strips it has started from, *)
(* leaves only such tunnels as begin like one that it has given up.        *)
THEOREM SearchesAreThorough ==
  ASSUME CancelsCleanly
  PROVE  Spec => []NoneOverlooked
<1>1. SessionInv => NoneOverlooked
  BY InvNoneOverlooked
<1> QED
  BY <1>1, SessionInvHolds, PTL

(* ... its steps implement those of the path cover ...                     *)
LEMMA InvTunnelingJoins ==
  ASSUME SessionInv, SessionInv', [Next]_sessionVars
  PROVE  [IsTunneling => T!Cover!Join \/ UNCHANGED T!Cover!vars]_vars
<1> USE DEF Tunneled, Reading, Preparing, Writing, Simply, T!Quiet, T!Digging, T!Cementing
<1> SUFFICES ASSUME ~UNCHANGED vars, IsTunneling
             PROVE  T!Cover!Join \/ UNCHANGED T!Cover!vars
  OBVIOUS
<1>1. T!TriedInv /\ T!CoverInv /\ pc \in Tunneled
  BY DEF SessionInv, PhaseOK, PhasesOK, IsTunneling, T!TriedInv
<1>2. CASE Tunneling
  <2>1. T!CoverInv' /\ T!Next
    BY <1>1, <1>2, TunnelingKeeps DEF Tunneling, T!Next, T!TriedInv
  <2>2. [T!Cover!Join]_(T!Cover!vars)
    BY <1>1, <2>1, PhasesApply, T!JoinsOrStays
  <2> QED
    BY <2>2
<1>3. CASE Collecting
  <2>1. pc = "Done" /\ pc' = "Collect" /\ UNCHANGED <<mesh, stripVars, stripsCount>>
    <3>1. O!StartOutput
      BY <1>1, <1>3 DEF Collecting, O!Step, O!CollectOne, O!CollectTwo, O!CollectCore, O!FollowStrip,
                        O!FinishStrip
    <3> QED
      BY <3>1 DEF O!StartOutput, O!mesh, O!stripVars, mesh, stripVars
  <2>2. \A t : T!SettledLinks(t)' = T!SettledLinks(t)
    BY <2>1 DEF T!SettledLinks, T!IsSaved, T!Links, T!LinksOf, stripVars
  <2>3. UNCHANGED T!Cover!vars
    BY <2>1, <2>2 DEF T!Cover!vars, mesh
  <2> QED
    BY <2>3
<1>4. ~ReturnAtOnce /\ ~StartBuild /\ ~Dispatch /\ ~CallAgain
  BY <1>1 DEF ReturnAtOnce, StartBuild, Dispatch, CallAgain, SessionInv, PhaseOK
<1>5. ~Building /\ ~Preprocessing /\ ~BuildingSimple
  BY <1>1, BuildingFrame, PreprocessingFrame, BuildingSimpleFrame
<1>6. ~Measure /\ ~CountList /\ ~VerifyStrips /\ ~Verifying /\ ~UNCHANGED sessionVars
  BY DEF Measure, CountList, VerifyStrips, Verifying, sessionVars
<1> QED
  BY <1>2, <1>3, <1>4, <1>5, <1>6 DEF Next, Calling, Step

(* Between preprocessing and the output each step of a call joins two      *)
(* strips into one, or leaves them all as they are.                        *)
THEOREM TunnelingAlwaysJoins ==
  ASSUME CancelsCleanly
  PROVE  Spec => TunnelingJoins
<1>1. SessionInv /\ SessionInv' /\ [Next]_sessionVars
        => [IsTunneling => T!Cover!Join \/ UNCHANGED T!Cover!vars]_vars
  BY InvTunnelingJoins
<1> QED
  BY <1>1, SessionInvHolds, PTL DEF Spec, TunnelingJoins

(* ... an endpoint that is to be collected has a place for a link, so that *)
(* a strip is missing ...                                                  *)
LEMMA InvEndpointsLast ==
  ASSUME SessionInv
  PROVE  EndpointsLast
<1>1. ASSUME pc = "Collect"
      PROVE  /\ first \in endpoint /\ \E i \in DOMAIN endpoints : endpoints[i] = first
             /\ Len(strips) < stripsCount
  <2>1. CollectOK
    BY <1>1 DEF SessionInv, OutputOK, Writing
  <2>2. PICK U : U = Uncollected
    OBVIOUS
  <2>3. /\ StripsOK /\ first \in U /\ U \subseteq endpoint
        /\ first \in ElementsOf(endpoints)
        /\ Cardinality(Places(LinksNow, U)) = 2 * (stripsCount - Len(strips))
    BY <2>1, <2>2 DEF CollectOK, Uncollected
  <2>4. Cardinality(Places(LinksNow, U)) \in Nat \ {0}
    BY <2>3, PlacesLeft
  <2>5. stripsCount \in Int /\ Len(strips) \in Nat
    BY <2>3 DEF StripsOK
  <2> QED
    BY <2>3, <2>4, <2>5 DEF ElementsOf
<1>2. pc = "Output" => first = Null
  BY DEF SessionInv, UntouchedOK
<1> QED
  BY <1>1, <1>2 DEF EndpointsLast

(* rm_tristripper_create_strips_ex_output comes to the end of the list of  *)
(* endpoints with the last strip, not before it and not behind it.         *)
THEOREM EndpointsAlwaysLast ==
  ASSUME CancelsCleanly
  PROVE  Spec => []EndpointsLast
<1>1. SessionInv => EndpointsLast
  BY InvEndpointsLast
<1> QED
  BY <1>1, SessionInvHolds, PTL

-----------------------------------------------------------------------------
(* ... and the record is as the truncations have left it.                  *)
LEMMA InvRecordHeld ==
  ASSUME SessionInv
  PROVE  RecordHeld
<1> DEFINE bounds == {asked, SmallestSoFar, 65535}
           bound == CHOOSE b \in bounds : \A c \in bounds : b <= c
<1> SUFFICES ASSUME pc = "Output"
             PROVE  config.maxCount = IF SmallestSoFar = Unbounded THEN asked
                                      ELSE IF bound < 2 THEN 2 ELSE 2 * (bound \div 2)
  BY DEF RecordHeld
<1>1. config.maxCount = Held(SmallestSoFar) /\ asked \in Nat /\ SmallestSoFar \in Nat
  <2>1. smallest \in Nat /\ trisCount \in Nat
    BY MaxTrisAssumption DEF SessionInv, RecordOK, Unbounded
  <2> QED
    BY <2>1 DEF SessionInv, RecordOK, SmallestSoFar
<1>2. PICK a, n : a = asked /\ n = SmallestSoFar
  OBVIOUS
<1>3. PICK v, x : v = T!TruncatedMaxCount(a, n) /\ x = LeastOf(a, n)
  OBVIOUS
<1>4. /\ x \in Nat /\ x <= a /\ x <= n /\ x <= 65535 /\ x \in {a, n, 65535}
      /\ IsEvenOf(v, x)
  <2>1. a \in Nat /\ n \in Nat
    BY <1>1, <1>2
  <2>2. IsEvenOf(T!TruncatedMaxCount(a, n), LeastOf(a, n))
    BY <2>1, TruncatedIs
  <2>3. /\ LeastOf(a, n) \in Nat
        /\ LeastOf(a, n) <= a /\ LeastOf(a, n) <= n /\ LeastOf(a, n) <= 65535
        /\ LeastOf(a, n) = a \/ LeastOf(a, n) = n \/ LeastOf(a, n) = 65535
    BY <2>1, LeastIs
  <2> QED
    BY <1>3, <2>2, <2>3
<1>5. bound = x
  <2>1. x \in bounds /\ \A c \in bounds : x <= c
    BY <1>2, <1>4
  <2>2. \A b \in bounds : (\A c \in bounds : b <= c) => b = x
    <3>1. bounds \subseteq Nat
      BY <1>1
    <3> QED
      BY <2>1, <3>1
  <2> QED
    BY <2>1, <2>2
<1> HIDE DEF bounds, bound
<1>6. v = IF x < 2 THEN 2 ELSE 2 * (x \div 2)
  <2>1. v \in Nat /\ v % 2 = 0 /\ (x < 2 => v = 2) /\ (x >= 2 => v <= x /\ x < v + 2)
    BY <1>4 DEF IsEvenOf
  <2> QED
    BY <1>4, <2>1
<1>7. Held(SmallestSoFar) = IF SmallestSoFar = Unbounded THEN asked ELSE v
  BY <1>2, <1>3 DEF Held
<1> QED
  BY <1>1, <1>5, <1>6, <1>7

(* After any number of calls the caller's record holds the largest even    *)
(* number that the first max_count and the smallest mesh so far left room  *)
(* for, incremental tunneling or not.                                      *)
THEOREM RecordAlwaysHeld ==
  ASSUME CancelsCleanly
  PROVE  Spec => []RecordHeld
<1>1. SessionInv => RecordHeld
  BY InvRecordHeld
<1> QED
  BY <1>1, SessionInvHolds, PTL

-----------------------------------------------------------------------------
(***************************************************************************)
(* What the strips spell: triples that are alike, and lists of IDs that    *)
(* grow by one ID, by a triangle, by an edge across which they go on.      *)
(***************************************************************************)

(* Two triples are wound the same way if one is a rotation of the other.   *)
LEMMA WindingIs ==
  ASSUME NEW a, NEW b
  PROVE  SameWinding(a, b) <=> \/ a[1] = b[1] /\ a[2] = b[2] /\ a[3] = b[3]
                               \/ a[1] = b[2] /\ a[2] = b[3] /\ a[3] = b[1]
                               \/ a[1] = b[3] /\ a[2] = b[1] /\ a[3] = b[2]
<1> DEFINE Turned(k) == \A i \in 1 .. 3 : a[i] = b[((i + k - 1) % 3) + 1]
<1>1. \A k \in 0 .. 2 : Turned(k) <=> /\ a[1] = b[((1 + k - 1) % 3) + 1]
                                      /\ a[2] = b[((2 + k - 1) % 3) + 1]
                                      /\ a[3] = b[((3 + k - 1) % 3) + 1]
  <2> SUFFICES ASSUME NEW k \in 0 .. 2
               PROVE  Turned(k) <=> /\ a[1] = b[((1 + k - 1) % 3) + 1]
                                    /\ a[2] = b[((2 + k - 1) % 3) + 1]
                                    /\ a[3] = b[((3 + k - 1) % 3) + 1]
    OBVIOUS
  <2>1. \A i \in 1 .. 3 : i = 1 \/ i = 2 \/ i = 3
    OBVIOUS
  <2>2. 1 \in 1 .. 3 /\ 2 \in 1 .. 3 /\ 3 \in 1 .. 3
    OBVIOUS
  <2> QED
    BY <2>1, <2>2
<1>2. Turned(0) <=> a[1] = b[1] /\ a[2] = b[2] /\ a[3] = b[3]
  BY <1>1
<1>3. Turned(1) <=> a[1] = b[2] /\ a[2] = b[3] /\ a[3] = b[1]
  BY <1>1
<1>4. Turned(2) <=> a[1] = b[3] /\ a[2] = b[1] /\ a[3] = b[2]
  BY <1>1
<1>5. SameWinding(a, b) <=> Turned(0) \/ Turned(1) \/ Turned(2)
  <2>1. \A k \in 0 .. 2 : k = 0 \/ k = 1 \/ k = 2
    OBVIOUS
  <2>2. 0 \in 0 .. 2 /\ 1 \in 0 .. 2 /\ 2 \in 0 .. 2
    OBVIOUS
  <2>3. SameWinding(a, b) <=> \E k \in 0 .. 2 : Turned(k)
    BY DEF SameWinding
  <2> HIDE DEF Turned
  <2> QED
    BY <2>1, <2>2, <2>3
<1> QED
  BY <1>2, <1>3, <1>4, <1>5

(* The corners of a triple are its three.                                  *)
LEMMA CornersAre ==
  ASSUME NEW a
  PROVE  Corners(a) = {a[1], a[2], a[3]}
<1>1. \A i \in 1 .. 3 : i = 1 \/ i = 2 \/ i = 3
  OBVIOUS
<1>2. 1 \in 1 .. 3 /\ 2 \in 1 .. 3 /\ 3 \in 1 .. 3
  OBVIOUS
<1> QED
  BY <1>1, <1>2 DEF Corners

(* To be alike is an equivalence.                                          *)
LEMMA AlikeIsAlike ==
  ASSUME NEW a, NEW b, NEW wound
  PROVE  /\ Alike(a, a, wound)
         /\ Alike(a, b, wound) => /\ Alike(b, a, wound)
                                  /\ \A c : Alike(a, c, wound) <=> Alike(b, c, wound)
                                  /\ \A c : Alike(c, a, wound) <=> Alike(c, b, wound)
<1>1. CASE wound
  <2>1. SameWinding(a, a)
    BY WindingIs
  <2>2. SameWinding(a, b) => SameWinding(b, a)
    BY WindingIs
  <2>3. ASSUME SameWinding(a, b), NEW c
        PROVE  (SameWinding(a, c) <=> SameWinding(b, c)) /\ (SameWinding(c, a) <=> SameWinding(c, b))
    BY <2>3, WindingIs
  <2> QED
    BY <1>1, <2>1, <2>2, <2>3 DEF Alike
<1>2. CASE ~wound
  BY <1>2 DEF Alike, SameCorners
<1> QED
  BY <1>1, <1>2

\* Two by two.
Differ(a, b, c) == a # b /\ b # c /\ c # a

(* A set of three has three elements if they differ.                       *)
LEMMA ThreeDiffer ==
  ASSUME NEW a, NEW b, NEW c
  PROVE  Cardinality({a, b, c}) = 3 <=> Differ(a, b, c)
<1>1. IsFiniteSet({a}) /\ Cardinality({a}) = 1
  BY FS_Singleton, Zenon
<1>2. {a, b} = {a} \cup {b} /\ {a, b, c} = {a, b} \cup {c}
  OBVIOUS
<1>3. /\ IsFiniteSet({a, b}) /\ Cardinality({a, b}) \in Nat
      /\ Cardinality({a, b}) = IF a = b THEN 1 ELSE 2
  <2>1. IsFiniteSet({a} \cup {b}) /\ Cardinality({a} \cup {b}) = IF b \in {a} THEN 1 ELSE 1 + 1
    BY <1>1, FS_AddElement
  <2> QED
    BY <1>2, <2>1
<1>4. Cardinality({a, b, c}) = IF c \in {a, b} THEN Cardinality({a, b}) ELSE Cardinality({a, b}) + 1
  <2>1. Cardinality({a, b} \cup {c}) = IF c \in {a, b} THEN Cardinality({a, b})
                                       ELSE Cardinality({a, b}) + 1
    BY <1>3, FS_AddElement
  <2> QED
    BY <1>2, <2>1
<1> QED
  BY <1>3, <1>4 DEF Differ

(* The places of a list at which a triangle is spelled.                    *)
LEMMA SpellsAre ==
  ASSUME NEW list \in Seq(Nat)
  PROVE  /\ IsFiniteSet(Spells(list))
         /\ \A i : i \in Spells(list) <=>
              /\ i \in Nat /\ 1 <= i /\ i + 2 <= Len(list)
              /\ list[i] # list[i + 1] /\ list[i + 1] # list[i + 2] /\ list[i + 2] # list[i]
<1>1. Len(list) \in Nat
  OBVIOUS
<1>2. IsFiniteSet(1 .. Len(list) - 2)
  BY <1>1, FS_Interval
<1>3. Spells(list) \subseteq 1 .. Len(list) - 2
  BY DEF Spells
<1>4. IsFiniteSet(Spells(list))
  BY <1>2, <1>3, FS_Subset
<1>5. \A i : i \in 1 .. Len(list) - 2 <=> i \in Nat /\ 1 <= i /\ i + 2 <= Len(list)
  BY <1>1
<1>6. \A i : Cardinality({list[i], list[i + 1], list[i + 2]}) = 3 <=>
              list[i] # list[i + 1] /\ list[i + 1] # list[i + 2] /\ list[i + 2] # list[i]
  <2>1. \A i : Cardinality({list[i], list[i + 1], list[i + 2]}) = 3 <=>
                Differ(list[i], list[i + 1], list[i + 2])
    BY ThreeDiffer, Zenon
  <2> QED
    BY <2>1 DEF Differ
<1>7. \A i : i \in Spells(list) <=>
        i \in 1 .. Len(list) - 2 /\ Cardinality({list[i], list[i + 1], list[i + 2]}) = 3
  BY DEF Spells
<1> QED
  BY <1>4, <1>5, <1>6, <1>7, Zenon

(* Three IDs in a row lie in the list.                                     *)
LEMMA ThreePlaces ==
  ASSUME NEW n \in Nat, NEW i \in Nat, 1 <= i, i + 2 <= n
  PROVE  i \in 1 .. n /\ i + 1 \in 1 .. n /\ i + 2 \in 1 .. n /\ i + 2 <= n + 1
OBVIOUS

(* One ID more spells at most one triangle more.                           *)
LEMMA SpellsOneMore ==
  ASSUME NEW list \in Seq(Nat), NEW x \in Nat, NEW n, n = Len(list)
  PROVE  LET more == Append(list, x)
         IN  /\ more \in Seq(Nat) /\ Len(more) = n + 1
             /\ \A i \in 1 .. n : more[i] = list[i]
             /\ more[n + 1] = x
             /\ n >= 2 /\ list[n - 1] # list[n] /\ list[n] # x /\ x # list[n - 1] =>
                  Spells(more) = Spells(list) \cup {n - 1}
             /\ n < 2 \/ x = list[n] \/ x = list[n - 1] \/ list[n - 1] = list[n] =>
                  Spells(more) = Spells(list)
             /\ n - 1 \notin Spells(list)
<1> DEFINE more == Append(list, x)
<1>1. n \in Nat /\ more \in Seq(Nat) /\ Len(more) = n + 1
  OBVIOUS
<1>2. (\A i \in 1 .. n : more[i] = list[i]) /\ more[n + 1] = x
  OBVIOUS
<1> HIDE DEF more
<1>3. \A i : i \in Spells(list) =>
        /\ i \in 1 .. n /\ i + 1 \in 1 .. n /\ i + 2 \in 1 .. n
  <2> SUFFICES ASSUME NEW i \in Spells(list)
               PROVE  i \in 1 .. n /\ i + 1 \in 1 .. n /\ i + 2 \in 1 .. n
    OBVIOUS
  <2>1. i \in Nat /\ 1 <= i /\ i + 2 <= n
    BY SpellsAre, Zenon
  <2> QED
    BY <1>1, <2>1, ThreePlaces, Zenon
<1>4. Spells(list) \subseteq Spells(more)
  <2> SUFFICES ASSUME NEW i \in Spells(list) PROVE i \in Spells(more)
    OBVIOUS
  <2>1. /\ i \in Nat /\ 1 <= i /\ i + 2 <= n
        /\ list[i] # list[i + 1] /\ list[i + 1] # list[i + 2] /\ list[i + 2] # list[i]
    BY SpellsAre, Zenon
  <2>2. i \in 1 .. n /\ i + 1 \in 1 .. n /\ i + 2 \in 1 .. n /\ i + 2 <= n + 1
    BY <1>1, <2>1, ThreePlaces, Zenon
  <2>3. more[i] = list[i] /\ more[i + 1] = list[i + 1] /\ more[i + 2] = list[i + 2]
    BY <1>2, <2>2
  <2> QED
    BY <1>1, <2>1, <2>2, <2>3, SpellsAre, Zenon
<1>5. \A i \in Spells(more) : i # n - 1 => i \in Spells(list)
  <2> SUFFICES ASSUME NEW i \in Spells(more), i # n - 1 PROVE i \in Spells(list)
    OBVIOUS
  <2>1. /\ i \in Nat /\ 1 <= i /\ i + 2 <= n + 1
        /\ more[i] # more[i + 1] /\ more[i + 1] # more[i + 2] /\ more[i + 2] # more[i]
    BY <1>1, SpellsAre, Zenon
  <2>2. i + 2 <= n
    BY <1>1, <2>1
  <2>3. i \in 1 .. n /\ i + 1 \in 1 .. n /\ i + 2 \in 1 .. n
    BY <1>1, <2>1, <2>2
  <2>4. more[i] = list[i] /\ more[i + 1] = list[i + 1] /\ more[i + 2] = list[i + 2]
    BY <1>2, <2>3
  <2> QED
    BY <1>1, <2>1, <2>2, <2>4, SpellsAre, Zenon
<1>6. n - 1 \notin Spells(list)
  BY <1>1, SpellsAre
<1>7. n - 1 \in Spells(more) <=> n >= 2 /\ list[n - 1] # list[n] /\ list[n] # x /\ x # list[n - 1]
  <2>1. CASE n >= 2
    <3>1. more[n - 1] = list[n - 1] /\ more[n] = list[n] /\ more[n + 1] = x
      BY <1>1, <1>2, <2>1
    <3>2. n - 1 \in Nat /\ 1 <= n - 1 /\ (n - 1) + 2 <= n + 1 /\ (n - 1) + 1 = n /\ (n - 1) + 2 = n + 1
      BY <1>1, <2>1
    <3> QED
      BY <1>1, <2>1, <3>1, <3>2, SpellsAre, ZenonT(30)
  <2>2. CASE ~(n >= 2)
    BY <1>1, <2>2, SpellsAre
  <2> QED
    BY <2>1, <2>2
<1>8. \/ Spells(more) = Spells(list) \cup {n - 1} /\ n - 1 \in Spells(more)
      \/ Spells(more) = Spells(list) /\ n - 1 \notin Spells(more)
  BY <1>4, <1>5, <1>6, Zenon
<1>9. n < 2 => ~(n >= 2)
  BY <1>1
<1> QED
  BY <1>1, <1>2, <1>6, <1>7, <1>8, <1>9 DEF more

(* What comes out right for the triples of the list and of the set comes   *)
(* out right for every triple.                                             *)
LEMMA SpellsEvery ==
  ASSUME NEW list, NEW turn, NEW F, ListSpells(list, turn, F), NEW wound \in Kinds, NEW tri
  PROVE  InList(list, turn, tri, wound) = InTris(F, tri, wound)
<1> DEFINE Known == {Triple(t) : t \in F} \cup {SpelledAs(list, turn, i) : i \in Spells(list)}
<1>1. \A k \in Known : InList(list, turn, k, wound) = InTris(F, k, wound)
  BY DEF ListSpells
<1>2. \A t \in F : Triple(t) \in Known
  OBVIOUS
<1>3. \A i \in Spells(list) : SpelledAs(list, turn, i) \in Known
  OBVIOUS
<1> HIDE DEF Known
<1>4. CASE \E k \in Known : Alike(k, tri, wound)
  <2>1. PICK k \in Known : Alike(k, tri, wound)
    BY <1>4
  <2>2. \A c : Alike(c, k, wound) <=> Alike(c, tri, wound)
    BY <2>1, AlikeIsAlike
  <2>3. {t \in F : Alike(Triple(t), tri, wound)} = {t \in F : Alike(Triple(t), k, wound)}
    BY <2>2
  <2>4. {i \in Spells(list) : Alike(SpelledAs(list, turn, i), tri, wound)} =
        {i \in Spells(list) : Alike(SpelledAs(list, turn, i), k, wound)}
    BY <2>2
  <2> QED
    BY <1>1, <2>3, <2>4 DEF InList, InTris
<1>5. CASE ~ \E k \in Known : Alike(k, tri, wound)
  <2>1. {t \in F : Alike(Triple(t), tri, wound)} = {}
    BY <1>2, <1>5
  <2>2. {i \in Spells(list) : Alike(SpelledAs(list, turn, i), tri, wound)} = {}
    BY <1>3, <1>5
  <2> QED
    BY <2>1, <2>2 DEF InList, InTris
<1> QED
  BY <1>4, <1>5

(* A set of triangles with one more counts one more, or not.               *)
LEMMA TrisOneMore ==
  ASSUME NEW F, IsFiniteSet(F), NEW t, t \notin F, NEW tri, NEW wound
  PROVE  /\ InTris(F, tri, wound) \in Nat
         /\ InTris(F \cup {t}, tri, wound) =
              IF Alike(Triple(t), tri, wound) THEN InTris(F, tri, wound) + 1 ELSE InTris(F, tri, wound)
<1> DEFINE A == {u \in F : Alike(Triple(u), tri, wound)}
           B1 == {u \in F \cup {t} : Alike(Triple(u), tri, wound)}
<1>1. IsFiniteSet(A) /\ A \subseteq F
  BY FS_Subset
<1>2. InTris(F, tri, wound) = Cardinality(A) /\ InTris(F \cup {t}, tri, wound) = Cardinality(B1)
  BY DEF InTris
<1>3. B1 = IF Alike(Triple(t), tri, wound) THEN A \cup {t} ELSE A
  OBVIOUS
<1>4. t \notin A
  OBVIOUS
<1> HIDE DEF A, B1
<1>5. Cardinality(A) \in Nat /\ Cardinality(A \cup {t}) = Cardinality(A) + 1
  BY <1>1, <1>4, FS_AddElement, FS_CardinalityType
<1> QED
  BY <1>2, <1>3, <1>5

(* An ID that completes no triangle changes nothing.                       *)
LEMMA ListPadded ==
  ASSUME NEW list, NEW turn \in Nat, NEW F, ListSpells(list, turn, F), IsFiniteSet(F),
         NEW x \in Nat,
         \/ Len(list) < 2 \/ list[Len(list) - 1] = list[Len(list)]
         \/ x = list[Len(list)] \/ x = list[Len(list) - 1]
  PROVE  ListSpells(Append(list, x), turn, F)
<1> DEFINE more == Append(list, x)
           n == Len(list)
<1>1. list \in Seq(Nat) /\ n \in Nat
  BY DEF ListSpells
<1>2. /\ more \in Seq(Nat) /\ Len(more) = n + 1 /\ \A i \in 1 .. n : more[i] = list[i]
      /\ Spells(more) = Spells(list)
  BY <1>1, SpellsOneMore
<1> HIDE DEF more, n
<1>4. \A i \in Spells(list) : SpelledAs(more, turn, i) = SpelledAs(list, turn, i)
  <2> SUFFICES ASSUME NEW i \in Spells(list) PROVE SpelledAs(more, turn, i) = SpelledAs(list, turn, i)
    OBVIOUS
  <2>1. i \in 1 .. n /\ i + 1 \in 1 .. n /\ i + 2 \in 1 .. n
    BY <1>1, SpellsAre DEF n
  <2> QED
    BY <1>2, <2>1, Zenon DEF SpelledAs
<1>5. \A tri, wound : InList(more, turn, tri, wound) = InList(list, turn, tri, wound)
  <2> SUFFICES ASSUME NEW tri, NEW wound
               PROVE  InList(more, turn, tri, wound) = InList(list, turn, tri, wound)
    OBVIOUS
  <2>1. {i \in Spells(more) : Alike(SpelledAs(more, turn, i), tri, wound)} =
        {i \in Spells(list) : Alike(SpelledAs(list, turn, i), tri, wound)}
    BY <1>2, <1>4
  <2> QED
    BY <2>1, Zenon DEF InList
<1>6. \A wound \in Kinds : \A tri : InList(more, turn, tri, wound) = InTris(F, tri, wound)
  BY <1>5, SpellsEvery
<1> QED
  BY <1>2, <1>6 DEF ListSpells, more

(* An ID that completes a triangle adds that one.                          *)
LEMMA ListCompleted ==
  ASSUME NEW list, NEW turn \in Nat, NEW F, ListSpells(list, turn, F), IsFiniteSet(F),
         NEW x \in Nat, NEW n, n = Len(list), n >= 2,
         list[n - 1] # list[n], list[n] # x, x # list[n - 1],
         NEW t, t \notin F,
         \A wound \in Kinds : Alike(SpelledAs(Append(list, x), turn, n - 1), Triple(t), wound)
  PROVE  ListSpells(Append(list, x), turn, F \cup {t})
<1> DEFINE more == Append(list, x)
<1>1. list \in Seq(Nat) /\ n \in Nat
  BY DEF ListSpells
<1>2. /\ more \in Seq(Nat) /\ Len(more) = n + 1 /\ \A i \in 1 .. n : more[i] = list[i]
      /\ Spells(more) = Spells(list) \cup {n - 1} /\ n - 1 \notin Spells(list)
  <2>1. /\ more \in Seq(Nat) /\ Len(more) = n + 1 /\ \A i \in 1 .. n : more[i] = list[i]
    BY <1>1
  <2>2. n - 1 \notin Spells(list)
    BY <1>1, SpellsAre
  <2>3. Spells(more) = Spells(list) \cup {n - 1}
    BY <1>1, SpellsOneMore
  <2> QED
    BY <2>1, <2>2, <2>3
<1>4. \A i \in Spells(list) : SpelledAs(more, turn, i) = SpelledAs(list, turn, i)
  <2> HIDE DEF more
  <2> SUFFICES ASSUME NEW i \in Spells(list) PROVE SpelledAs(more, turn, i) = SpelledAs(list, turn, i)
    OBVIOUS
  <2>1. i \in 1 .. n /\ i + 1 \in 1 .. n /\ i + 2 \in 1 .. n
    BY <1>1, SpellsAre
  <2> QED
    BY <1>2, <2>1, Zenon DEF SpelledAs
<1>5. ASSUME NEW wound \in Kinds, NEW tri
      PROVE  InList(more, turn, tri, wound) = InTris(F \cup {t}, tri, wound)
  <2> DEFINE A == {i \in Spells(list) : Alike(SpelledAs(list, turn, i), tri, wound)}
             B1 == {i \in Spells(more) : Alike(SpelledAs(more, turn, i), tri, wound)}
  <2>1. Alike(SpelledAs(more, turn, n - 1), tri, wound) <=> Alike(Triple(t), tri, wound)
    BY AlikeIsAlike
  <2> HIDE DEF more
  <2>2. IsFiniteSet(A) /\ n - 1 \notin A
    <3>1. IsFiniteSet(Spells(list)) /\ A \subseteq Spells(list)
      BY <1>1, SpellsAre
    <3> QED
      BY <1>2, <3>1, FS_Subset
  <2>3. B1 = IF Alike(Triple(t), tri, wound) THEN A \cup {n - 1} ELSE A
    BY <1>2, <1>4, <2>1
  <2>4. InList(list, turn, tri, wound) = Cardinality(A) /\ InList(more, turn, tri, wound) = Cardinality(B1)
    BY DEF InList
  <2> HIDE DEF A, B1
  <2>5. Cardinality(A) \in Nat /\ Cardinality(A \cup {n - 1}) = Cardinality(A) + 1
    BY <2>2, FS_CardinalityType, FS_AddElement
  <2>6. Cardinality(A) = InTris(F, tri, wound)
    BY <2>4, SpellsEvery
  <2> QED
    BY <2>3, <2>4, <2>5, <2>6, TrisOneMore
<1> HIDE DEF more
<1>6. ListSpells(more, turn, F \cup {t})
  BY <1>2, <1>5, Zenon DEF ListSpells
<1> QED
  BY <1>6 DEF more

(* A triangle, seen from one of its edges.                                 *)
LEMMA SeenFrom ==
  ASSUME GoodMesh, NEW t \in InUse, NEW d \in Dir, NEW a, NEW b, NEW c,
         {a, b} = EndsOf(t, d), c = Opposite(t, d)
  PROVE  /\ a \in Nat /\ b \in Nat /\ c \in Nat /\ a # b /\ b # c /\ c # a
         /\ SameCorners(<<a, b, c>>, Triple(t)) /\ SameCorners(<<b, a, c>>, Triple(t))
         /\ a = Edge(t, d)[1] => b = Edge(t, d)[2] /\ SameWinding(<<a, b, c>>, Triple(t))
         /\ a # Edge(t, d)[1] => /\ a = Edge(t, d)[2] /\ b = Edge(t, d)[1]
                                 /\ SameWinding(<<b, a, c>>, Triple(t))
<1> DEFINE v(i) == vertices[t][i]
<1>1. /\ v(0) \in Nat /\ v(1) \in Nat /\ v(2) \in Nat
      /\ v(0) # v(1) /\ v(1) # v(2) /\ v(2) # v(0)
  <2>1. t \in Tris
    BY MaxTrisAssumption DEF GoodMesh, InUse, Tris
  <2> QED
    BY <2>1 DEF GoodMesh, B!TrisProper, InUse, Dir
<1>2. /\ Edge(t, d)[1] = v(d) /\ Edge(t, d)[2] = v((d + 1) % 3) /\ c = v((d + 2) % 3)
      /\ EndsOf(t, d) = {v(d), v((d + 1) % 3)}
  BY DEF Edge, Opposite, EndsOf
<1>3. Triple(t) = <<v(0), v(1), v(2)>>
  BY DEF Triple
<1> HIDE DEF v
<1>4. \/ Edge(t, d)[1] = v(0) /\ Edge(t, d)[2] = v(1) /\ c = v(2)
      \/ Edge(t, d)[1] = v(1) /\ Edge(t, d)[2] = v(2) /\ c = v(0)
      \/ Edge(t, d)[1] = v(2) /\ Edge(t, d)[2] = v(0) /\ c = v(1)
  <2>1. CASE d = 0
    BY <1>2, <2>1
  <2>2. CASE d = 1
    BY <1>2, <2>2
  <2>3. CASE d = 2
    BY <1>2, <2>3
  <2> QED
    BY <2>1, <2>2, <2>3 DEF Dir
<1>5. \/ a = Edge(t, d)[1] /\ b = Edge(t, d)[2]
      \/ a = Edge(t, d)[2] /\ b = Edge(t, d)[1]
  BY <1>1, <1>2, <1>4, Zenon
<1>6. /\ Corners(Triple(t)) = {v(0), v(1), v(2)}
      /\ Corners(<<a, b, c>>) = {a, b, c} /\ Corners(<<b, a, c>>) = {b, a, c}
  BY <1>3, CornersAre
<1>7. /\ SameWinding(<<a, b, c>>, Triple(t)) <=> \/ a = v(0) /\ b = v(1) /\ c = v(2)
                                                 \/ a = v(1) /\ b = v(2) /\ c = v(0)
                                                 \/ a = v(2) /\ b = v(0) /\ c = v(1)
      /\ SameWinding(<<b, a, c>>, Triple(t)) <=> \/ b = v(0) /\ a = v(1) /\ c = v(2)
                                                 \/ b = v(1) /\ a = v(2) /\ c = v(0)
                                                 \/ b = v(2) /\ a = v(0) /\ c = v(1)
  BY <1>3, WindingIs
<1>8. a \in Nat /\ b \in Nat /\ c \in Nat /\ a # b /\ b # c /\ c # a
  BY <1>1, <1>4, <1>5
<1>9. SameCorners(<<a, b, c>>, Triple(t)) /\ SameCorners(<<b, a, c>>, Triple(t))
  <2>1. {a, b, c} = {v(0), v(1), v(2)} /\ {b, a, c} = {v(0), v(1), v(2)}
    BY <1>4, <1>5
  <2> QED
    BY <1>6, <2>1 DEF SameCorners
<1> QED
  BY <1>4, <1>5, <1>7, <1>8, <1>9

(* The vertex opposite the edge that a list has come to completes the      *)

(* triangle.                                                               *)
LEMMA StrandCompletes ==
  ASSUME GoodMesh, NEW list, NEW turn \in Nat, NEW F, IsFiniteSet(F), NEW t, NEW d,
         Strand(list, turn, F, t, d)
  PROVE  ListSpells(Append(list, Opposite(t, d)), turn, F \cup {t})
<1> DEFINE n == Len(list)
           a == list[n - 1]
           b == list[n]
           c == Opposite(t, d)
           more == Append(list, c)
<1>1. /\ ListSpells(list, turn, F) /\ list \in Seq(Nat) /\ n \in Nat /\ n >= 2
      /\ t \in InUse /\ t \notin F /\ d \in Dir
      /\ {a, b} = EndsOf(t, d)
      /\ preserve /\ IsOriented => (a = Edge(t, d)[1] <=> (n - 1 + turn) % 2 = 1)
  BY DEF Strand, ListSpells, Along
<1> HIDE DEF a, b, c
<1>2. /\ c \in Nat /\ a # b /\ b # c /\ c # a
      /\ SameCorners(<<a, b, c>>, Triple(t)) /\ SameCorners(<<b, a, c>>, Triple(t))
      /\ a = Edge(t, d)[1] => SameWinding(<<a, b, c>>, Triple(t))
      /\ a # Edge(t, d)[1] => SameWinding(<<b, a, c>>, Triple(t))
  BY <1>1, SeenFrom DEF c
<1>3. SpelledAs(more, turn, n - 1) = IF (n - 1 + turn) % 2 = 1 THEN <<a, b, c>> ELSE <<b, a, c>>
  <2>1. more[n - 1] = a /\ more[n] = b /\ more[n + 1] = c /\ (n - 1) + 1 = n /\ (n - 1) + 2 = n + 1
    BY <1>1, <1>2 DEF a, b
  <2> QED
    BY <2>1, Zenon DEF SpelledAs
<1> HIDE DEF more, n
<1>4. \A wound \in Kinds : Alike(SpelledAs(more, turn, n - 1), Triple(t), wound)
  <2> SUFFICES ASSUME NEW wound \in Kinds PROVE Alike(SpelledAs(more, turn, n - 1), Triple(t), wound)
    OBVIOUS
  <2>1. CASE wound
    <3>1. preserve /\ IsOriented
      BY <2>1 DEF Kinds
    <3> QED
      BY <1>1, <1>2, <1>3, <2>1, <3>1 DEF Alike
  <2>2. CASE ~wound
    BY <1>2, <1>3, <2>2 DEF Alike
  <2> QED
    BY <2>1, <2>2
<1> QED
  BY <1>1, <1>2, <1>4, ListCompleted, Zenon DEF n, a, b, c, more

(* Parity, for the provers.                                                *)
LEMMA OddAndEven ==
  ASSUME NEW n \in Nat
  PROVE  (n + 1) % 2 = 1 <=> ~(n % 2 = 1)
OBVIOUS

(* One of the two positions beside another one.                            *)
LEMMA NextPositions ==
  ASSUME NEW d \in Dir, NEW e \in Dir, e # d
  PROVE  \/ e = (d + 1) % 3 /\ (e + 1) % 3 = (d + 2) % 3
         \/ e = (d + 2) % 3 /\ (e + 1) % 3 = d
BY DEF Dir

(* One ID more.                                                            *)
LEMMA OneMoreId ==
  ASSUME NEW list \in Seq(Nat), NEW x \in Nat, NEW n, n = Len(list)
  PROVE  /\ Append(list, x) \in Seq(Nat) /\ Len(Append(list, x)) = n + 1
         /\ Append(list, x)[n + 1] = x
         /\ n \in Nat /\ (n # 0 => Append(list, x)[n] = list[n])
OBVIOUS

(* A triangle, seen from the edge that two IDs lie on.                     *)
LEMMA SeenAlong ==
  ASSUME GoodMesh, NEW t \in InUse, NEW d \in Dir, NEW a, NEW b, NEW n, Along(a, b, t, d, n),
         NEW c, c = Opposite(t, d)
  PROVE  /\ a \in Nat /\ b \in Nat /\ c \in Nat /\ a # b /\ b # c /\ c # a
         /\ a = Edge(t, d)[1] => b = Edge(t, d)[2]
         /\ a # Edge(t, d)[1] => b = Edge(t, d)[1] /\ a = Edge(t, d)[2]
BY SeenFrom, Zenon DEF Along

(* A swap repeats the last but one ID.                                     *)
LEMMA StrandSwaps ==
  ASSUME NEW list, NEW turn \in Nat, NEW F, IsFiniteSet(F), NEW t, NEW d,
         GoodMesh, Strand(list, turn, F, t, d)
  PROVE  /\ Strand(Append(list, list[Len(list) - 1]), turn, F, t, d)
         /\ Len(Append(list, list[Len(list) - 1])) = Len(list) + 1
         /\ Append(list, list[Len(list) - 1])[Len(list)] = list[Len(list)]
         /\ Append(list, list[Len(list) - 1])[Len(list) + 1] = list[Len(list) - 1]
<1> DEFINE n == Len(list)
           a == list[n - 1]
           b == list[n]
           more == Append(list, a)
<1>1. /\ ListSpells(list, turn, F) /\ list \in Seq(Nat) /\ n \in Nat /\ n >= 2
      /\ F \subseteq InUse /\ t \in InUse \ F /\ d \in Dir
      /\ {a, b} = EndsOf(t, d)
      /\ preserve /\ IsOriented => (a = Edge(t, d)[1] <=> (n - 1 + turn) % 2 = 1)
  BY DEF Strand, ListSpells, Along
<1>2. a \in Nat
  BY <1>1
<1>3. ListSpells(more, turn, F)
  BY <1>1, <1>2, ListPadded
<1>4. /\ Len(more) = n + 1 /\ more[n] = b /\ more[n + 1] = a
  BY <1>1, <1>2
<1> HIDE DEF a, b, more
<1>5. /\ a # b
      /\ a = Edge(t, d)[1] => b = Edge(t, d)[2]
      /\ a # Edge(t, d)[1] => b = Edge(t, d)[1]
  BY <1>1, SeenFrom, Zenon
<1>6. n - 1 + turn \in Nat /\ n + turn = (n - 1 + turn) + 1
  BY <1>1
<1>7. (n + turn) % 2 = 1 <=> ~((n - 1 + turn) % 2 = 1)
  BY <1>6, OddAndEven
<1>8. Along(b, a, t, d, n + turn)
  BY <1>1, <1>5, <1>7 DEF Along
<1>9. Strand(more, turn, F, t, d)
  <2>1. Len(more) - 1 = n /\ Len(more) >= 2
    BY <1>1, <1>4
  <2> HIDE DEF n
  <2> QED
    BY <1>1, <1>3, <1>4, <1>8, <2>1 DEF Strand
<1> QED
  BY <1>4, <1>9 DEF more, a, b

(* From one edge of a triangle across the next one.                        *)
LEMMA AlongAndAcross ==
  ASSUME GoodMesh, MeshOK, NEW t \in InUse, NEW d \in Dir, NEW e \in Dir, e # d,
         neighbours[t][e] \in InUse, NEW a, NEW b, b \in EndsOf(t, e),
         NEW n \in Nat, Along(a, b, t, d, n)
  PROVE  Along(b, Opposite(t, d), neighbours[t][e], indices[t][e], n + 1)
<1> DEFINE c == Opposite(t, d)
           u == neighbours[t][e]
           i == indices[t][e]
<1>1. /\ {a, b} = EndsOf(t, d)
      /\ preserve /\ IsOriented => (a = Edge(t, d)[1] <=> n % 2 = 1)
  BY DEF Along
<1>2. /\ a \in Nat /\ b \in Nat /\ c \in Nat /\ a # b /\ b # c /\ c # a
      /\ a = Edge(t, d)[1] => b = Edge(t, d)[2]
      /\ a # Edge(t, d)[1] => b = Edge(t, d)[1] /\ a = Edge(t, d)[2]
  BY SeenAlong
<1>3. u \in InUse /\ i \in Dir /\ t \in Tris /\ EndsOf(u, i) = EndsOf(t, e)
  <2>1. t \in Tris /\ neighbours[t][e] # Null
    BY <1>1, MaxTrisAssumption DEF MeshOK, IsMesh, InUse, Tris, Null
  <2>2. indices[t][e] \in Dir
    BY <2>1 DEF MeshOK, IsMesh, Stitched
  <2> QED
    BY <2>1, <2>2 DEF GoodMesh
<1>4. preserve /\ IsOriented => Edge(u, i) = <<Edge(t, e)[2], Edge(t, e)[1]>>
  <2>1. t \in 1 .. trisCount /\ neighbours[t][e] # Null
    BY <1>1 DEF InUse, Null
  <2> QED
    BY <2>1 DEF IsOriented
<1> HIDE DEF c, u, i
<1>5. /\ EndsOf(t, e) = {b, c}
      /\ a = Edge(t, d)[1] => Edge(t, e) = <<b, c>>
      /\ a # Edge(t, d)[1] => Edge(t, e) = <<c, b>>
  <2> DEFINE v(k) == vertices[t][k]
  <2>1. /\ Edge(t, d) = <<v(d), v((d + 1) % 3)>> /\ c = v((d + 2) % 3)
        /\ Edge(t, e) = <<v(e), v((e + 1) % 3)>> /\ EndsOf(t, e) = {v(e), v((e + 1) % 3)}
    BY DEF Edge, Opposite, EndsOf, c
  <2>2. \/ e = (d + 1) % 3 /\ (e + 1) % 3 = (d + 2) % 3
        \/ e = (d + 2) % 3 /\ (e + 1) % 3 = d
    BY <1>1, NextPositions
  <2>3. \/ v(e) = Edge(t, d)[2] /\ v((e + 1) % 3) = c
        \/ v(e) = c /\ v((e + 1) % 3) = Edge(t, d)[1]
    BY <2>1, <2>2
  <2> HIDE DEF v
  <2>4. b = v(e) \/ b = v((e + 1) % 3)
    BY <2>1
  <2> QED
    BY <1>2, <2>1, <2>3, <2>4
<1>6. {b, c} = EndsOf(u, i)
  BY <1>3, <1>5
<1>7. ASSUME preserve, IsOriented PROVE b = Edge(u, i)[1] <=> (n + 1) % 2 = 1
  <2>1. Edge(u, i)[1] = Edge(t, e)[2]
    BY <1>4, <1>7
  <2> QED
    BY <1>1, <1>2, <1>5, <1>7, <2>1, OddAndEven
<1> QED
  BY <1>6, <1>7 DEF Along, c, u, i

(* A strand goes on across the edge that its last two IDs lie on.          *)
LEMMA StrandGoesOn ==
  ASSUME NEW list, NEW turn \in Nat, NEW F, IsFiniteSet(F), NEW t, NEW d,
         GoodMesh, MeshOK, Strand(list, turn, F, t, d),
         NEW e \in Dir, e # d, neighbours[t][e] \in InUse, neighbours[t][e] \notin F \cup {t},
         list[Len(list)] \in EndsOf(t, e)
  PROVE  /\ Strand(Append(list, Opposite(t, d)), turn, F \cup {t}, neighbours[t][e], indices[t][e])
         /\ Len(Append(list, Opposite(t, d))) = Len(list) + 1
         /\ Append(list, Opposite(t, d))[Len(list)] = list[Len(list)]
         /\ Append(list, Opposite(t, d))[Len(list) + 1] = Opposite(t, d)
<1> DEFINE n == Len(list)
           a == list[n - 1]
           b == list[n]
           c == Opposite(t, d)
           u == neighbours[t][e]
           i == indices[t][e]
           more == Append(list, c)
<1>1. /\ ListSpells(list, turn, F) /\ list \in Seq(Nat) /\ n \in Nat /\ n >= 2
      /\ F \subseteq InUse /\ t \in InUse /\ t \notin F /\ d \in Dir
      /\ Along(a, b, t, d, n - 1 + turn) /\ {a, b} = EndsOf(t, d)
  BY DEF Strand, ListSpells, Along
<1>2. c \in Nat
  BY <1>1, SeenFrom, Zenon
<1>3. ListSpells(more, turn, F \cup {t})
  BY StrandCompletes
<1>4. Len(more) = n + 1 /\ more[n] = b /\ more[n + 1] = c
  BY <1>1, <1>2
<1>5. i \in Dir /\ u \in InUse
  <2>1. t \in Tris /\ neighbours[t][e] # Null
    BY <1>1, MaxTrisAssumption DEF MeshOK, IsMesh, InUse, Tris, Null
  <2> QED
    BY <2>1 DEF MeshOK, IsMesh, Stitched
<1>6. n - 1 + turn \in Nat /\ n + turn = (n - 1 + turn) + 1
  BY <1>1
<1>7. Along(b, c, u, i, n + turn)
  <2> HIDE DEF a
  <2> QED
    BY <1>1, <1>6, AlongAndAcross
<1>8. Len(more) - 1 = n /\ Len(more) >= 2 /\ u \in InUse \ (F \cup {t}) /\ F \cup {t} \subseteq InUse
  BY <1>1, <1>4, <1>5
<1> HIDE DEF a, b, c, u, i, more, n
<1>9. Strand(more, turn, F \cup {t}, u, i)
  BY <1>3, <1>4, <1>5, <1>7, <1>8 DEF Strand
<1> QED
  BY <1>4, <1>9 DEF more, a, b, c, u, i, n

(* Another triangle, without a swap when the way on contains the latest    *)

(* vertex: one ID more.                                                    *)
LEMMA StrandNear ==
  ASSUME NEW list, NEW turn \in Nat, NEW F, IsFiniteSet(F), NEW t, NEW d,
         NEW a, NEW b, GoodMesh, MeshOK, Reaches(list, turn, F, t, d, a, b),
         NEW e \in Dir, e # d, neighbours[t][e] \in InUse, neighbours[t][e] \notin F, neighbours[t][e] # t,
         b \in EndsOf(t, e)
  PROVE  Reaches(Append(list, Opposite(t, d)), turn, F \cup {t}, neighbours[t][e], indices[t][e],
                 b, Opposite(t, d))
<1> DEFINE n == Len(list)
           c == Opposite(t, d)
           u == neighbours[t][e]
           i == indices[t][e]
           more == Append(list, c)
<1>0. Strand(list, turn, F, t, d) /\ Fits(list, F) /\ a = list[n - 1] /\ b = list[n]
  BY DEF Reaches
<1>1. /\ list \in Seq(Nat) /\ n \in Nat /\ n >= 2 /\ t \in InUse /\ t \notin F /\ d \in Dir
      /\ {list[n - 1], list[n]} = EndsOf(t, d)
  BY <1>0 DEF Strand, ListSpells, Along
<1>2. /\ Cardinality(F) \in Nat /\ Cardinality(F \cup {t}) = Cardinality(F) + 1
      /\ n <= 2 * Cardinality(F) + 2
  BY <1>0, <1>1, FS_CardinalityType, FS_AddElement, Zenon DEF Fits
<1>3. c \in Nat
  BY <1>1, SeenFrom, Zenon
<1>4. Strand(more, turn, F \cup {t}, u, i)
  BY <1>0, StrandGoesOn, Zenon
<1>5. Len(more) = n + 1 /\ more[n] = list[n] /\ more[n + 1] = c
  BY <1>1, <1>3, OneMoreId
<1>6. Fits(more, F \cup {t})
  BY <1>1, <1>2, <1>5 DEF Fits
<1> HIDE DEF n, c, u, i, more
<1>7. /\ Strand(more, turn, F \cup {t}, u, i) /\ Fits(more, F \cup {t})
      /\ more[Len(more)] = c /\ more[Len(more) - 1] = b
  BY <1>0, <1>1, <1>4, <1>5, <1>6
<1> QED
  BY <1>7 DEF Reaches, n, c, u, i, more

(* With a swap, the latest IDs but one again, otherwise: two IDs more.     *)
LEMMA StrandFar ==
  ASSUME NEW list, NEW turn \in Nat, NEW F, IsFiniteSet(F), NEW t, NEW d,
         NEW a, NEW b, GoodMesh, MeshOK, Reaches(list, turn, F, t, d, a, b),
         NEW e \in Dir, e # d, neighbours[t][e] \in InUse, neighbours[t][e] \notin F, neighbours[t][e] # t,
         b \notin EndsOf(t, e)
  PROVE  Reaches(Append(Append(list, a), Opposite(t, d)), turn, F \cup {t},
                 neighbours[t][e], indices[t][e], a, Opposite(t, d))
<1> DEFINE n == Len(list)
           c == Opposite(t, d)
           u == neighbours[t][e]
           i == indices[t][e]
           swapped == Append(list, a)
           m == Len(swapped)
           more == Append(swapped, c)
<1>0. Strand(list, turn, F, t, d) /\ Fits(list, F) /\ a = list[n - 1] /\ b = list[n]
  BY DEF Reaches
<1>1. /\ list \in Seq(Nat) /\ n \in Nat /\ n >= 2 /\ t \in InUse /\ t \notin F /\ d \in Dir
      /\ {list[n - 1], list[n]} = EndsOf(t, d)
  BY <1>0 DEF Strand, ListSpells, Along
<1>2. /\ Cardinality(F) \in Nat /\ Cardinality(F \cup {t}) = Cardinality(F) + 1
      /\ n <= 2 * Cardinality(F) + 2
  BY <1>0, <1>1, FS_CardinalityType, FS_AddElement, Zenon DEF Fits
<1>3. c \in Nat
  BY <1>1, SeenFrom, Zenon
<1>4. /\ Strand(swapped, turn, F, t, d) /\ m = n + 1
      /\ swapped[n] = b /\ swapped[n + 1] = a
  BY <1>0, StrandSwaps, Zenon
<1>5. a \in EndsOf(t, e)
  <2> DEFINE v(k) == vertices[t][k]
  <2>1. EndsOf(t, e) = {v(e), v((e + 1) % 3)} /\ EndsOf(t, d) = {v(d), v((d + 1) % 3)}
    BY DEF EndsOf, Edge
  <2>2. \/ e = (d + 1) % 3
        \/ e = (d + 2) % 3 /\ (e + 1) % 3 = d
    BY <1>1, NextPositions
  <2>3. EndsOf(t, d) \cap EndsOf(t, e) # {}
    BY <2>1, <2>2, Zenon
  <2> QED
    BY <1>0, <1>1, <2>3
<1> HIDE DEF swapped, n, more
<1>6. swapped[Len(swapped)] \in EndsOf(t, e)
  BY <1>4, <1>5
<1>7. Strand(Append(swapped, c), turn, F \cup {t}, u, i)
  BY <1>4, <1>6, StrandGoesOn, Zenon
<1>8. swapped \in Seq(Nat)
  BY <1>4 DEF Strand, ListSpells
<1>9. /\ Len(Append(swapped, c)) = m + 1 /\ Append(swapped, c)[m] = swapped[m]
      /\ Append(swapped, c)[m + 1] = c
  BY <1>1, <1>3, <1>4, <1>8, OneMoreId
<1> HIDE DEF c, m, u, i
<1>10. /\ Strand(more, turn, F \cup {t}, u, i)
       /\ Len(more) = n + 2 /\ Len(more) - 1 = n + 1 /\ (n + 1) + 1 = n + 2
       /\ more[n + 1] = a /\ more[n + 2] = c
  BY <1>1, <1>4, <1>7, <1>9 DEF more
<1>11. Fits(more, F \cup {t})
  BY <1>1, <1>2, <1>10 DEF Fits
<1> QED
  BY <1>10, <1>11 DEF Reaches, n, c, u, i, more, swapped

(* Two lists of the same IDs are the same.                                 *)
LEMMA SameIds ==
  ASSUME NEW s \in Seq(Nat), NEW t \in Seq(Nat), Len(s) = Len(t), \A i \in 1 .. Len(s) : s[i] = t[i]
  PROVE  s = t
OBVIOUS

(* Two lists of the same three IDs are the same ...                        *)
LEMMA SameThree ==
  ASSUME NEW s \in Seq(Nat), NEW t \in Seq(Nat), Len(s) = 3, Len(t) = 3,
         s[1] = t[1], s[2] = t[2], s[3] = t[3]
  PROVE  s = t
<1>1. \A i \in 1 .. 3 : i = 1 \/ i = 2 \/ i = 3
  OBVIOUS
<1>2. \A i \in 1 .. 3 : s[i] = t[i]
  BY <1>1
<1>3. Len(s) = Len(t) /\ \A i \in 1 .. Len(s) : s[i] = t[i]
  BY <1>2
<1> QED
  BY <1>3, SameIds, Zenon

(* ... of the same four ...                                                *)
LEMMA SameFour ==
  ASSUME NEW s \in Seq(Nat), NEW t \in Seq(Nat), Len(s) = 4, Len(t) = 4,
         s[1] = t[1], s[2] = t[2], s[3] = t[3], s[4] = t[4]
  PROVE  s = t
<1>1. \A i \in 1 .. 4 : i = 1 \/ i = 2 \/ i = 3 \/ i = 4
  OBVIOUS
<1>2. \A i \in 1 .. 4 : s[i] = t[i]
  BY <1>1
<1>3. Len(s) = Len(t) /\ \A i \in 1 .. Len(s) : s[i] = t[i]
  BY <1>2
<1> QED
  BY <1>3, SameIds, Zenon

(* ... and of the same five.                                               *)
LEMMA SameFive ==
  ASSUME NEW s \in Seq(Nat), NEW t \in Seq(Nat), Len(s) = 5, Len(t) = 5,
         s[1] = t[1], s[2] = t[2], s[3] = t[3], s[4] = t[4], s[5] = t[5]
  PROVE  s = t
<1>1. \A i \in 1 .. 5 : i = 1 \/ i = 2 \/ i = 3 \/ i = 4 \/ i = 5
  OBVIOUS
<1>2. \A i \in 1 .. 5 : s[i] = t[i]
  BY <1>1
<1>3. Len(s) = Len(t) /\ \A i \in 1 .. Len(s) : s[i] = t[i]
  BY <1>2
<1> QED
  BY <1>3, SameIds, Zenon

(* Short lists of IDs, spelled out.                                        *)
LEMMA FewIds ==
  ASSUME NEW a \in Nat, NEW b \in Nat, NEW c \in Nat, NEW d \in Nat
  PROVE  /\ Append(<<a, b>>, c) = <<a, b, c>>
         /\ Append(<<a, b, c>>, d) = <<a, b, c, d>>
         /\ Append(<<a, a, b>>, c) = <<a, a, b, c>>
         /\ Append(<<a, a, b, c>>, d) = <<a, a, b, c, d>>
         /\ <<a>> \o <<b, c>> \o <<d>> = <<a, b, c, d>>
         /\ <<a>> \o <<b, c, d>> = <<a, b, c, d>>
         /\ <<a, a>> \o <<b, c, d>> = <<a, a, b, c, d>>
<1>1. ASSUME NEW x \in Nat, NEW y \in Nat, NEW z \in Nat PROVE Append(<<x, y>>, z) = <<x, y, z>>
  <2>1. PICK s, t, u : s = <<x, y>> /\ t = <<x, y, z>> /\ u = Append(s, z)
    BY Zenon
  <2>2. s \in Seq(Nat) /\ Len(s) = 2 /\ s[1] = x /\ s[2] = y
    BY <2>1
  <2>3. t \in Seq(Nat) /\ Len(t) = 3 /\ t[1] = x /\ t[2] = y /\ t[3] = z
    BY <2>1
  <2>4. u \in Seq(Nat) /\ Len(u) = 3 /\ u[1] = x /\ u[2] = y /\ u[3] = z
    BY <2>1, <2>2
  <2>5. u = t
    BY <2>3, <2>4, SameThree, Zenon
  <2> QED
    BY <2>1, <2>5, Zenon
<1>2. ASSUME NEW x \in Nat, NEW y \in Nat, NEW z \in Nat, NEW w \in Nat
      PROVE  /\ Append(<<x, y, z>>, w) = <<x, y, z, w>>
             /\ <<x>> \o <<y, z>> \o <<w>> = <<x, y, z, w>>
             /\ <<x>> \o <<y, z, w>> = <<x, y, z, w>>
  <2>1. PICK s, t, u, v, p : /\ s = <<x, y, z>> /\ t = <<x, y, z, w>> /\ u = Append(s, w)
                             /\ v = <<x>> \o <<y, z>> \o <<w>> /\ p = <<x>> \o <<y, z, w>>
    BY Zenon
  <2>2. s \in Seq(Nat) /\ Len(s) = 3 /\ s[1] = x /\ s[2] = y /\ s[3] = z
    BY <2>1
  <2>3. t \in Seq(Nat) /\ Len(t) = 4 /\ t[1] = x /\ t[2] = y /\ t[3] = z /\ t[4] = w
    BY <2>1
  <2>4. u \in Seq(Nat) /\ Len(u) = 4 /\ u[1] = x /\ u[2] = y /\ u[3] = z /\ u[4] = w
    BY <2>1, <2>2
  <2>5. v \in Seq(Nat) /\ Len(v) = 4 /\ v[1] = x /\ v[2] = y /\ v[3] = z /\ v[4] = w
    BY <2>1
  <2>6. p \in Seq(Nat) /\ Len(p) = 4 /\ p[1] = x /\ p[2] = y /\ p[3] = z /\ p[4] = w
    BY <2>1
  <2>7. u = t
    BY <2>3, <2>4, SameFour, Zenon
  <2>8. v = t
    BY <2>3, <2>5, SameFour, Zenon
  <2>9. p = t
    BY <2>3, <2>6, SameFour, Zenon
  <2> QED
    BY <2>1, <2>7, <2>8, <2>9, Zenon
<1>3. Append(<<a, a, b, c>>, d) = <<a, a, b, c, d>> /\ <<a, a>> \o <<b, c, d>> = <<a, a, b, c, d>>
  <2>1. PICK s, t, u, v : /\ s = <<a, a, b, c>> /\ t = <<a, a, b, c, d>> /\ u = Append(s, d)
                          /\ v = <<a, a>> \o <<b, c, d>>
    BY Zenon
  <2>2. s \in Seq(Nat) /\ Len(s) = 4 /\ s[1] = a /\ s[2] = a /\ s[3] = b /\ s[4] = c
    BY <2>1
  <2>3. t \in Seq(Nat) /\ Len(t) = 5 /\ t[1] = a /\ t[2] = a /\ t[3] = b /\ t[4] = c /\ t[5] = d
    BY <2>1
  <2>4. u \in Seq(Nat) /\ Len(u) = 5 /\ u[1] = a /\ u[2] = a /\ u[3] = b /\ u[4] = c /\ u[5] = d
    BY <2>1, <2>2
  <2>5. v \in Seq(Nat) /\ Len(v) = 5 /\ v[1] = a /\ v[2] = a /\ v[3] = b /\ v[4] = c /\ v[5] = d
    BY <2>1
  <2>7. u = t
    BY <2>3, <2>4, SameFive, Zenon
  <2>8. v = t
    BY <2>3, <2>5, SameFive, Zenon
  <2> QED
    BY <2>1, <2>7, <2>8, Zenon
<1>4. Append(<<a, b>>, c) = <<a, b, c>>
  BY <1>1
<1>5. /\ Append(<<a, b, c>>, d) = <<a, b, c, d>>
      /\ <<a>> \o <<b, c>> \o <<d>> = <<a, b, c, d>>
      /\ <<a>> \o <<b, c, d>> = <<a, b, c, d>>
  BY <1>2
<1>6. Append(<<a, a, b>>, c) = <<a, a, b, c>>
  BY <1>2, ZenonT(30)
<1> QED
  BY <1>3, <1>4, <1>5, <1>6

(* A list in which no three IDs in a row differ spells nothing.            *)
LEMMA NothingSpelled ==
  ASSUME NEW list \in Seq(Nat), Spells(list) = {}, NEW turn
  PROVE  ListSpells(list, turn, {})
<1>1. \A tri, wound : InList(list, turn, tri, wound) = Cardinality({})
                      /\ InTris({}, tri, wound) = Cardinality({})
  <2> SUFFICES ASSUME NEW tri, NEW wound
               PROVE  InList(list, turn, tri, wound) = Cardinality({})
                      /\ InTris({}, tri, wound) = Cardinality({})
    OBVIOUS
  <2>1. {i \in Spells(list) : Alike(SpelledAs(list, turn, i), tri, wound)} = {}
    OBVIOUS
  <2>2. {t \in {} : Alike(Triple(t), tri, wound)} = {}
    OBVIOUS
  <2> QED
    BY <2>1, <2>2 DEF InList, InTris
<1> QED
  BY <1>1 DEF ListSpells

(* The same for the lists that strips of one triangle and of two are.      *)
LEMMA ThreeIds ==
  ASSUME NEW a \in Nat, NEW b \in Nat, NEW c \in Nat, NEW s, s = <<a, b>>
  PROVE  Len(Append(s, c)) = 3
OBVIOUS

(* ... and strips of two.                                                  *)
LEMMA FourIds ==
  ASSUME NEW a \in Nat, NEW b \in Nat, NEW c \in Nat, NEW d \in Nat, NEW s, s = <<a, b>>
  PROVE  /\ <<a>> \o <<b, c>> \o <<d>> = Append(Append(s, c), d)
         /\ Len(<<a>> \o <<b, c>> \o <<d>>) = 4
<1>1. PICK t, p, q : t = <<a>> \o <<b, c>> \o <<d>> /\ p = Append(s, c) /\ q = Append(p, d)
  BY Zenon
<1>2. t \in Seq(Nat) /\ Len(t) = 4 /\ t[1] = a /\ t[2] = b /\ t[3] = c /\ t[4] = d
  BY <1>1
<1>3. s \in Seq(Nat) /\ Len(s) = 2 /\ s[1] = a /\ s[2] = b
  OBVIOUS
<1>4. p \in Seq(Nat) /\ Len(p) = 3 /\ p[1] = a /\ p[2] = b /\ p[3] = c
  BY <1>1, <1>3
<1>5. q \in Seq(Nat) /\ Len(q) = 4 /\ q[1] = a /\ q[2] = b /\ q[3] = c /\ q[4] = d
  BY <1>1, <1>4
<1>6. t = q
  BY <1>2, <1>5, SameFour, Zenon
<1> QED
  BY <1>1, <1>2, <1>6, Zenon

(* The vertices of a triangle are IDs.                                     *)
LEMMA VerticesAreIds ==
  ASSUME GoodMesh, NEW t \in InUse, NEW d \in Dir
  PROVE  Edge(t, d)[1] \in Nat /\ Edge(t, d)[2] \in Nat /\ Opposite(t, d) \in Nat
<1>1. t \in Tris
  BY MaxTrisAssumption DEF GoodMesh, InUse, Tris
<1>2. d \in Dir /\ (d + 1) % 3 \in Dir /\ (d + 2) % 3 \in Dir
  BY DEF Dir
<1> QED
  BY <1>1, <1>2 DEF GoodMesh, Edge, Opposite

(* The two vertices of an edge and the opposite one, from the edge that    *)

(* lies between the opposite one and b.                                    *)
LEMMA EdgeBetween ==
  ASSUME GoodMesh, NEW t \in InUse, NEW e \in Dir, NEW b, NEW c, NEW place,
         Along(b, c, t, e, place), NEW tip, tip = Opposite(t, e)
  PROVE  /\ tip \in Nat /\ b \in Nat /\ c \in Nat
         /\ \E d \in Dir : d # e /\ c = Opposite(t, d) /\ Along(tip, b, t, d, place)
<1> DEFINE v(k) == vertices[t][k]
<1>1. /\ v(0) \in Nat /\ v(1) \in Nat /\ v(2) \in Nat
      /\ v(0) # v(1) /\ v(1) # v(2) /\ v(2) # v(0)
  <2>1. t \in Tris
    BY MaxTrisAssumption DEF GoodMesh, InUse, Tris
  <2> QED
    BY <2>1 DEF GoodMesh, B!TrisProper, InUse, Dir
<1>2. \A d : /\ Edge(t, d)[1] = v(d) /\ Edge(t, d)[2] = v((d + 1) % 3)
             /\ Opposite(t, d) = v((d + 2) % 3)
             /\ EndsOf(t, d) = {v(d), v((d + 1) % 3)}
  BY DEF Edge, Opposite, EndsOf
<1> HIDE DEF v
<1>3. PICK f \in Dir, g \in Dir :
        /\ f # e /\ g # e
        /\ v(f) = v((e + 2) % 3) /\ v((f + 1) % 3) = v(e) /\ v((f + 2) % 3) = v((e + 1) % 3)
        /\ v(g) = v((e + 1) % 3) /\ v((g + 1) % 3) = v((e + 2) % 3) /\ v((g + 2) % 3) = v(e)
  <2>1. CASE e = 0
    <3>1. 2 \in Dir /\ 1 \in Dir /\ (2 + 1) % 3 = 0 /\ (2 + 2) % 3 = 1 /\ (1 + 1) % 3 = 2 /\ (1 + 2) % 3 = 0
          /\ (e + 1) % 3 = 1 /\ (e + 2) % 3 = 2
      BY <2>1 DEF Dir
    <3> QED
      BY <2>1, <3>1
  <2>2. CASE e = 1
    <3>1. 0 \in Dir /\ 2 \in Dir /\ (0 + 1) % 3 = 1 /\ (0 + 2) % 3 = 2 /\ (2 + 1) % 3 = 0 /\ (2 + 2) % 3 = 1
          /\ (e + 1) % 3 = 2 /\ (e + 2) % 3 = 0
      BY <2>2 DEF Dir
    <3> QED
      BY <2>2, <3>1
  <2>3. CASE e = 2
    <3>1. 1 \in Dir /\ 0 \in Dir /\ (1 + 1) % 3 = 2 /\ (1 + 2) % 3 = 0 /\ (0 + 1) % 3 = 1 /\ (0 + 2) % 3 = 2
          /\ (e + 1) % 3 = 0 /\ (e + 2) % 3 = 1
      BY <2>3 DEF Dir
    <3> QED
      BY <2>3, <3>1
  <2> QED
    BY <2>1, <2>2, <2>3 DEF Dir
<1>4. /\ v(e) # v((e + 1) % 3) /\ v(e) # v((e + 2) % 3) /\ v((e + 1) % 3) # v((e + 2) % 3)
      /\ v(e) \in Nat /\ v((e + 1) % 3) \in Nat /\ v((e + 2) % 3) \in Nat
  <2>1. CASE e = 0
    BY <1>1, <2>1
  <2>2. CASE e = 1
    BY <1>1, <2>2
  <2>3. CASE e = 2
    BY <1>1, <2>3
  <2> QED
    BY <2>1, <2>2, <2>3 DEF Dir
<1>5. PICK x, y, z : x = v(e) /\ y = v((e + 1) % 3) /\ z = v((e + 2) % 3)
  OBVIOUS
<1>6. /\ x # y /\ x # z /\ y # z /\ x \in Nat /\ y \in Nat /\ z \in Nat /\ tip = z
      /\ Edge(t, e)[1] = x /\ Edge(t, e)[2] = y
      /\ Edge(t, f)[1] = z /\ EndsOf(t, f) = {z, x} /\ Opposite(t, f) = y
      /\ Edge(t, g)[1] = y /\ EndsOf(t, g) = {y, z} /\ Opposite(t, g) = x
  BY <1>2, <1>3, <1>4, <1>5
<1>9. \/ b = x /\ c = y
      \/ b = y /\ c = x
  BY <1>6, SeenAlong
<1>10. preserve /\ IsOriented => (b = x <=> place % 2 = 1)
  BY <1>6 DEF Along
<1>7. CASE b = x
  <2>1. c = y /\ {tip, b} = EndsOf(t, f)
    BY <1>6, <1>7, <1>9
  <2>2. Along(tip, b, t, f, place)
    BY <1>6, <1>7, <1>10, <2>1 DEF Along
  <2> QED
    BY <1>3, <1>6, <1>7, <2>1, <2>2
<1>8. CASE b = y
  <2>1. c = x /\ {tip, b} = EndsOf(t, g)
    BY <1>6, <1>8, <1>9
  <2>2. Along(tip, b, t, g, place)
    BY <1>6, <1>8, <1>10, <2>1 DEF Along
  <2> QED
    BY <1>3, <1>6, <1>8, <2>1, <2>2
<1> QED
  BY <1>6, <1>7, <1>8, <1>9

(* A strip begins with the vertex that the first triangle does not share   *)

(* with the second one, once or twice.                                     *)
LEMMA StripStarts ==
  ASSUME GoodMesh, MeshOK, NEW t \in InUse, NEW e \in Dir,
         neighbours[t][e] \in InUse, neighbours[t][e] # t,
         NEW b, NEW c, NEW tip, tip = Opposite(t, e), NEW list,
         \/ list = <<tip, b>> /\ Along(b, c, t, e, 1)
         \/ list = <<tip, tip, b>> /\ Along(b, c, t, e, 2)
  PROVE  /\ Strand(Append(list, c), 0, {t}, neighbours[t][e], indices[t][e])
         /\ list \in Seq(Nat) /\ c \in Nat
<1>1. PICK n \in {2, 3} :
        /\ IF n = 2 THEN list = <<tip, b>> ELSE list = <<tip, tip, b>>
        /\ Along(b, c, t, e, n - 1)
  <2>1. 2 - 1 = 1 /\ 3 - 1 = 2
    OBVIOUS
  <2> QED
    BY <2>1
<1>3. /\ tip \in Nat /\ b \in Nat /\ c \in Nat
      /\ \E d \in Dir : d # e /\ c = Opposite(t, d) /\ Along(tip, b, t, d, n - 1)
  BY <1>1, EdgeBetween
<1>4. PICK d \in Dir : d # e /\ c = Opposite(t, d) /\ Along(tip, b, t, d, n - 1)
  BY <1>3
<1>5. /\ list \in Seq(Nat) /\ Len(list) = n /\ n \in Nat /\ list[n - 1] = tip /\ list[n] = b
      /\ n = 3 => list[1] = list[2]
  <2>1. CASE n = 2
    <3>1. list = <<tip, b>>
      BY <1>1, <2>1
    <3>2. list \in Seq(Nat) /\ Len(list) = 2 /\ list[1] = tip /\ list[2] = b
      BY <1>3, <3>1
    <3> QED
      BY <2>1, <3>2
  <2>2. CASE n = 3
    <3>1. list = <<tip, tip, b>>
      BY <1>1, <2>2
    <3>2. list \in Seq(Nat) /\ Len(list) = 3 /\ list[1] = tip /\ list[2] = tip /\ list[3] = b
      BY <1>3, <3>1
    <3> QED
      BY <2>2, <3>2
  <2> QED
    BY <1>1, <2>1, <2>2
<1>6. Spells(list) = {}
  <2>2. \A i \in Nat : 1 <= i /\ i + 2 <= n => i = 1 /\ n = 3
    BY <1>1
  <2> QED
    BY <1>5, <2>2, SpellsAre
<1>7. ListSpells(list, 0, {})
  BY <1>5, <1>6, NothingSpelled
<1>8. Strand(list, 0, {}, t, d)
  <2>1. (n - 1) + 0 = n - 1 /\ n >= 2
    BY <1>1
  <2> QED
    BY <1>4, <1>5, <1>7, <2>1 DEF Strand
<1>9. list[Len(list)] \in EndsOf(t, e)
  BY <1>1, <1>5 DEF Along
<1>10. neighbours[t][e] \notin {} \cup {t} /\ IsFiniteSet({}) /\ 0 \in Nat /\ e # d
  BY <1>4, FS_EmptySet
<1>11. Strand(Append(list, Opposite(t, d)), 0, {} \cup {t}, neighbours[t][e], indices[t][e])
  BY <1>8, <1>9, <1>10, StrandGoesOn, Zenon
<1>12. {} \cup {t} = {t}
  OBVIOUS
<1> QED
  BY <1>3, <1>4, <1>5, <1>11, <1>12

(* A strip of one triangle.                                                *)
LEMMA OneSpelled ==
  ASSUME GoodMesh, NEW t \in InUse, NEW list, list = [i \in 1 .. 3 |-> vertices[t][i - 1]]
  PROVE  ListSpells(list, 0, {t}) /\ Len(list) = 3
<1>1. PICK a, b, c : a = vertices[t][0] /\ b = vertices[t][1] /\ c = vertices[t][2]
  OBVIOUS
<1>2. 0 \in Dir /\ Edge(t, 0) = <<a, b>> /\ Opposite(t, 0) = c /\ EndsOf(t, 0) = {a, b}
  BY <1>1 DEF Dir, Edge, Opposite, EndsOf
<1>3. Along(a, b, t, 0, 1)
  BY <1>2 DEF Along
<1>4. a \in Nat /\ b \in Nat /\ c \in Nat
  BY <1>2, <1>3, SeenAlong
<1>5. PICK s : s = <<a, b>>
  BY Zenon
<1>6. s \in Seq(Nat) /\ Len(s) = 2 /\ s[1] = a /\ s[2] = b
  BY <1>4, <1>5
<1>7. Spells(s) = {}
  BY <1>6, SpellsAre
<1>8. Strand(s, 0, {}, t, 0)
  <2>1. ListSpells(s, 0, {})
    BY <1>6, <1>7, NothingSpelled
  <2>2. Along(s[Len(s) - 1], s[Len(s)], t, 0, Len(s) - 1 + 0)
    BY <1>3, <1>6
  <2> QED
    BY <1>2, <1>6, <2>1, <2>2 DEF Strand
<1>9. ListSpells(Append(s, c), 0, {} \cup {t})
  BY <1>2, <1>8, StrandCompletes, FS_EmptySet
<1>10. list = Append(s, c)
  <2>1. Append(s, c) = <<a, b, c>>
    BY <1>4, <1>5, FewIds, Zenon
  <2>2. /\ Len(list) = 3 /\ list \in Seq(Nat) /\ list[1] = a /\ list[2] = b /\ list[3] = c
    <3>1. 1 \in 1 .. 3 /\ 2 \in 1 .. 3 /\ 3 \in 1 .. 3 /\ 1 - 1 = 0 /\ 2 - 1 = 1 /\ 3 - 1 = 2
          /\ \A i \in 1 .. 3 : i = 1 \/ i = 2 \/ i = 3
      OBVIOUS
    <3>2. list[1] = a /\ list[2] = b /\ list[3] = c
      BY <1>1, <3>1
    <3>3. list \in [1 .. 3 -> Nat]
      BY <1>1, <1>4, <3>1, <3>2
    <3> QED
      BY <3>2, <3>3
  <2> QED
    BY <1>4, <2>1, <2>2
<1>11. {} \cup {t} = {t}
  OBVIOUS
<1>12. Len(Append(s, c)) = 3
  BY <1>4, <1>5, ThreeIds
<1> QED
  BY <1>9, <1>10, <1>11, <1>12, Zenon

(* A strip of two triangles.                                               *)
LEMMA TwoSpelled ==
  ASSUME GoodMesh, MeshOK, NEW t \in InUse, NEW e \in Dir,
         neighbours[t][e] \in InUse, neighbours[t][e] # t
  PROVE  LET list == <<Opposite(t, e)>> \o Edge(t, e)
                     \o <<Opposite(neighbours[t][e], indices[t][e])>>
         IN  ListSpells(list, 0, {t, neighbours[t][e]}) /\ Len(list) = 4
<1>1. PICK a, b, c, x, u, f : /\ a = Opposite(t, e) /\ b = Edge(t, e)[1] /\ c = Edge(t, e)[2]
                              /\ u = neighbours[t][e] /\ f = indices[t][e] /\ x = Opposite(u, f)
  OBVIOUS
<1>2. PICK s : s = <<a, b>>
  BY Zenon
<1>3. Strand(Append(s, c), 0, {t}, u, f) /\ s \in Seq(Nat) /\ c \in Nat
  <2>1. Along(b, c, t, e, 1)
    BY <1>1 DEF Along, EndsOf
  <2> QED
    BY <1>1, <1>2, <2>1, StripStarts, Zenon
<1>4. ListSpells(Append(Append(s, c), x), 0, {t} \cup {u})
  BY <1>1, <1>3, StrandCompletes, FS_Singleton, Zenon
<1>5. Edge(t, e) = <<b, c>>
  BY <1>1 DEF Edge
<1>8. a \in Nat /\ b \in Nat /\ x \in Nat
  <2>1. u \in InUse /\ f \in Dir /\ x = Opposite(u, f)
    BY <1>1, <1>3 DEF Strand
  <2> QED
    BY <1>1, <2>1, VerticesAreIds
<1>6. /\ <<a>> \o <<b, c>> \o <<x>> = Append(Append(s, c), x)
      /\ Len(<<a>> \o <<b, c>> \o <<x>>) = 4
  BY <1>2, <1>3, <1>8, FourIds
<1>9. PICK list : list = <<a>> \o <<b, c>> \o <<x>>
  BY Zenon
<1>10. list = <<Opposite(t, e)>> \o Edge(t, e) \o <<Opposite(neighbours[t][e], indices[t][e])>>
  BY <1>1, <1>5, <1>9
<1>7. {t} \cup {u} = {t, neighbours[t][e]}
  BY <1>1
<1>11. ListSpells(list, 0, {t, neighbours[t][e]}) /\ Len(list) = 4
  BY <1>4, <1>6, <1>7, <1>9, Zenon
<1> QED
  BY <1>10, <1>11

(* Two lists that spell alike triangles, one for one, spell the same set.  *)
LEMMA SpellsTheSame ==
  ASSUME NEW list, NEW turn, NEW F, ListSpells(list, turn, F),
         NEW more \in Seq(Nat), NEW other,
         NEW f \in Bijection(Spells(more), Spells(list)),
         \A wound \in Kinds : \A i \in Spells(more) :
           Alike(SpelledAs(more, other, i), SpelledAs(list, turn, f[i]), wound)
  PROVE  ListSpells(more, other, F)
<1>1. ASSUME NEW wound \in Kinds, NEW tri
      PROVE  InList(more, other, tri, wound) = InTris(F, tri, wound)
  <2> DEFINE A == {i \in Spells(more) : Alike(SpelledAs(more, other, i), tri, wound)}
             C == {i \in Spells(list) : Alike(SpelledAs(list, turn, i), tri, wound)}
             g == [i \in A |-> f[i]]
  <2>1. /\ f \in [Spells(more) -> Spells(list)]
        /\ \A i, j \in Spells(more) : f[i] = f[j] => i = j
        /\ \A j \in Spells(list) : \E i \in Spells(more) : f[i] = j
    BY DEF Bijection, Injection, Surjection, IsInjective
  <2>2. \A i \in Spells(more) : i \in A <=> f[i] \in C
    <3> SUFFICES ASSUME NEW i \in Spells(more) PROVE i \in A <=> f[i] \in C
      OBVIOUS
    <3>1. Alike(SpelledAs(more, other, i), SpelledAs(list, turn, f[i]), wound)
      OBVIOUS
    <3>2. Alike(SpelledAs(more, other, i), tri, wound) <=> Alike(SpelledAs(list, turn, f[i]), tri, wound)
      BY <3>1, AlikeIsAlike
    <3> QED
      BY <2>1, <3>2
  <2>3. A \subseteq Spells(more) /\ C \subseteq Spells(list)
    OBVIOUS
  <2>4. InList(more, other, tri, wound) = Cardinality(A) /\ InList(list, turn, tri, wound) = Cardinality(C)
    BY DEF InList
  <2> HIDE DEF A, C
  <2>5. g \in Bijection(A, C)
    <3>1. g \in [A -> C]
      BY <2>1, <2>2, <2>3
    <3>2. \A i, j \in A : g[i] = g[j] => i = j
      BY <2>1, <2>3
    <3>3. \A j \in C : \E i \in A : g[i] = j
      BY <2>1, <2>2, <2>3
    <3> QED
      BY <3>1, <3>2, <3>3, Zenon DEF Bijection, Injection, Surjection, IsInjective
  <2>6. IsFiniteSet(A)
    BY <2>3, SpellsAre, FS_Subset
  <2>7. Cardinality(C) = Cardinality(A)
    BY <2>5, <2>6, FS_Bijection DEF ExistsBijection
  <2> QED
    BY <2>4, <2>7, SpellsEvery
<1> QED
  BY <1>1 DEF ListSpells

(* Where the orientation does not count, the turn does not either.         *)
LEMMA TurnsAlike ==
  ASSUME NEW list, NEW turn, NEW F, ListSpells(list, turn, F), NEW other,
         ~(preserve /\ IsOriented)
  PROVE  ListSpells(list, other, F)
<1> DEFINE f == [i \in Spells(list) |-> i]
<1>1. f \in Bijection(Spells(list), Spells(list))
  BY DEF Bijection, Injection, Surjection, IsInjective
<1>2. ASSUME NEW wound \in Kinds, NEW i \in Spells(list)
      PROVE  Alike(SpelledAs(list, other, i), SpelledAs(list, turn, f[i]), wound)
  <2>1. ~wound
    BY DEF Kinds
  <2>2. PICK a, b, c : a = list[i] /\ b = list[i + 1] /\ c = list[i + 2]
    OBVIOUS
  <2>3. /\ SpelledAs(list, other, i) \in {<<a, b, c>>, <<b, a, c>>}
        /\ SpelledAs(list, turn, i) \in {<<a, b, c>>, <<b, a, c>>}
    BY <2>2 DEF SpelledAs
  <2>4. Corners(<<a, b, c>>) = {a, b, c} /\ Corners(<<b, a, c>>) = {a, b, c}
    BY CornersAre
  <2> QED
    BY <2>1, <2>3, <2>4 DEF Alike, SameCorners
<1>3. list \in Seq(Nat)
  BY DEF ListSpells
<1> HIDE DEF f
<1> QED
  BY <1>1, <1>2, <1>3, SpellsTheSame

(* A sum is odd if one of the two numbers is.                              *)
LEMMA OddSum ==
  ASSUME NEW x \in Nat, NEW y \in Nat, (x + y) % 2 = 1
  PROVE  x % 2 = 1 <=> ~(y % 2 = 1)
OBVIOUS

\* Hidden, this keeps a remainder out of the way of other arithmetic.
IsEven(x) == x % 2 = 0

(* Before an even number comes an odd one.                                 *)
LEMMA EvenBefore ==
  ASSUME NEW x \in Nat, IsEven(x)
  PROVE  (x - 1) % 2 = 1
BY DEF IsEven

(* Places of three IDs in a row, counted from the end.                     *)
LEMMA FromTheEnd ==
  ASSUME NEW n \in Nat, NEW i \in Nat, 1 <= i, i + 2 <= n
  PROVE  /\ n - 1 - i \in Nat /\ 1 <= n - 1 - i /\ n - 1 - i + 2 <= n
         /\ n - 1 - (n - 1 - i) = i
OBVIOUS

(* A list spells the same triangles read from its end.                     *)
LEMMA ListReversed ==
  ASSUME NEW list, NEW turn \in Nat, NEW F, ListSpells(list, turn, F),
         NEW rev \in Seq(Nat), Len(rev) = Len(list),
         \A i \in 1 .. Len(list) : rev[i] = list[Len(list) + 1 - i],
         NEW other \in Nat, IsEven(Len(list) + turn + other)
  PROVE  ListSpells(rev, other, F)
<1> SUFFICES ASSUME NEW n, n = Len(list), Len(rev) = n, \A i \in 1 .. n : rev[i] = list[n + 1 - i],
                    IsEven(n + turn + other)
             PROVE  ListSpells(rev, other, F)
  BY Zenon
<1>1. list \in Seq(Nat) /\ n \in Nat
  BY DEF ListSpells
<1>7. n + turn + other \in Nat
  <2>1. \A x, y, z \in Nat : x + y + z \in Nat
    OBVIOUS
  <2> QED
    BY <1>1, <2>1, Zenon
<1>2. ASSUME NEW i \in Nat, 1 <= i, i + 2 <= n
      PROVE  LET j == n - 1 - i
             IN  /\ j \in Nat /\ 1 <= j /\ j + 2 <= n
                 /\ rev[i] = list[j + 2] /\ rev[i + 1] = list[j + 1] /\ rev[i + 2] = list[j]
  <2>1. i \in 1 .. n /\ i + 1 \in 1 .. n /\ i + 2 \in 1 .. n
    BY <1>1, <1>2
  <2>2. n + 1 - i = n - 1 - i + 2 /\ n + 1 - (i + 1) = n - 1 - i + 1 /\ n + 1 - (i + 2) = n - 1 - i
    BY <1>1
  <2>3. rev[i] = list[n + 1 - i] /\ rev[i + 1] = list[n + 1 - (i + 1)] /\ rev[i + 2] = list[n + 1 - (i + 2)]
    BY <2>1, Zenon
  <2>4. n - 1 - i \in Nat /\ 1 <= n - 1 - i /\ n - 1 - i + 2 <= n
    BY <1>1, <1>2, FromTheEnd
  <2> QED
    BY <2>2, <2>3, <2>4
<1>3. ASSUME NEW i \in Spells(rev)
      PROVE  n - 1 - i \in Spells(list)
  <2>1. i \in Nat /\ 1 <= i /\ i + 2 <= n /\ rev[i] # rev[i + 1] /\ rev[i + 1] # rev[i + 2] /\ rev[i + 2] # rev[i]
    BY SpellsAre
  <2>2. PICK j : j = n - 1 - i
    OBVIOUS
  <2>3. /\ j \in Nat /\ 1 <= j /\ j + 2 <= n
        /\ rev[i] = list[j + 2] /\ rev[i + 1] = list[j + 1] /\ rev[i + 2] = list[j]
    BY <1>2, <2>1, <2>2
  <2> QED
    BY <1>1, <2>1, <2>2, <2>3, SpellsAre, Zenon
<1>4. ASSUME NEW j \in Spells(list)
      PROVE  n - 1 - j \in Spells(rev)
  <2>1. j \in Nat /\ 1 <= j /\ j + 2 <= n /\ list[j] # list[j + 1] /\ list[j + 1] # list[j + 2] /\ list[j + 2] # list[j]
    BY <1>1, SpellsAre, Zenon
  <2>2. PICK i : i = n - 1 - j
    OBVIOUS
  <2>3. i \in Nat /\ 1 <= i /\ i + 2 <= n /\ n - 1 - i = j
    BY <1>1, <2>1, <2>2, FromTheEnd, Zenon
  <2>4. rev[i] = list[j + 2] /\ rev[i + 1] = list[j + 1] /\ rev[i + 2] = list[j]
    BY <1>2, <2>3, Zenon
  <2> QED
    BY <2>1, <2>2, <2>3, <2>4, SpellsAre, Zenon
<1> DEFINE f == [i \in Spells(rev) |-> n - 1 - i]
<1>5. f \in Bijection(Spells(rev), Spells(list))
  <2>1. f \in [Spells(rev) -> Spells(list)]
    BY <1>3
  <2>2. \A i \in Spells(rev) : i \in Nat
    BY SpellsAre
  <2>3. \A i \in Spells(list) : i \in Nat
    BY <1>1, SpellsAre
  <2>4. \A i, j \in Spells(rev) : f[i] = f[j] => i = j
    BY <1>1, <2>2
  <2>5. \A j \in Spells(list) : \E i \in Spells(rev) : f[i] = j
    <3> SUFFICES ASSUME NEW j \in Spells(list) PROVE \E i \in Spells(rev) : f[i] = j
      OBVIOUS
    <3>1. n - 1 - (n - 1 - j) = j
      BY <1>1, <2>3
    <3> QED
      BY <1>4, <3>1
  <2> QED
    BY <2>1, <2>4, <2>5 DEF Bijection, Injection, Surjection, IsInjective
<1>6. ASSUME NEW wound \in Kinds, NEW i \in Spells(rev)
      PROVE  Alike(SpelledAs(rev, other, i), SpelledAs(list, turn, f[i]), wound)
  <2>1. PICK j : j = n - 1 - i
    OBVIOUS
  <2>2. i \in Nat /\ 1 <= i /\ i + 2 <= n
    BY SpellsAre
  <2>3. PICK a, b, c : a = list[j] /\ b = list[j + 1] /\ c = list[j + 2]
    BY Zenon
  <2>4. j \in Nat /\ rev[i] = c /\ rev[i + 1] = b /\ rev[i + 2] = a
    BY <1>2, <2>1, <2>2, <2>3
  <2>5. (i + other) % 2 = 1 <=> ~((j + turn) % 2 = 1)
    <3>1. i + other + (j + turn) = n + turn + other - 1
      <4>1. i + j = n - 1
        BY <1>1, <2>1, <2>2
      <4>2. turn \in Nat /\ other \in Nat /\ i \in Nat /\ j \in Nat /\ n \in Nat
        BY <1>1, <2>2, <2>4
      <4> QED
        BY ONLY <4>1, <4>2
    <3>2. (n + turn + other - 1) % 2 = 1
      BY <1>7, EvenBefore
    <3>3. i + other \in Nat /\ j + turn \in Nat
      BY <2>2, <2>4
    <3> HIDE <2>1
    <3> QED
      BY <3>1, <3>2, <3>3, OddSum, Zenon
  <2>6. SpelledAs(rev, other, i) = IF (i + other) % 2 = 1 THEN <<c, b, a>> ELSE <<b, c, a>>
    BY <2>4 DEF SpelledAs
  <2>7. SpelledAs(list, turn, f[i]) = IF (j + turn) % 2 = 1 THEN <<a, b, c>> ELSE <<b, a, c>>
    BY <2>1, <2>3 DEF SpelledAs
  <2>8. SameWinding(<<c, b, a>>, <<b, a, c>>) /\ SameWinding(<<b, c, a>>, <<a, b, c>>)
    BY WindingIs, Zenon
  <2>9. /\ Corners(<<a, b, c>>) = {a, b, c} /\ Corners(<<b, a, c>>) = {a, b, c}
        /\ Corners(<<c, b, a>>) = {a, b, c} /\ Corners(<<b, c, a>>) = {a, b, c}
    BY CornersAre
  <2>10. SameCorners(<<c, b, a>>, <<b, a, c>>) /\ SameCorners(<<b, c, a>>, <<a, b, c>>)
    BY <2>9, Zenon DEF SameCorners
  <2> HIDE DEF f
  <2> QED
    BY <2>5, <2>6, <2>7, <2>8, <2>10 DEF Alike
<1> HIDE DEF f
<1> QED
  BY <1>5, <1>6, SpellsTheSame, Zenon

-----------------------------------------------------------------------------
(***************************************************************************)
(* The strips that are written.                                            *)
(***************************************************************************)

(* The places of the output at which a triangle is spelled.                *)
LEMMA PlacesSpelled ==
  ASSUME strips \in Seq(Seq(Nat))
  PROVE  /\ \A place : place \in StripPlaces <=>
              \E k \in DOMAIN strips : \E i \in Spells(strips[k]) : place = <<k, i>>
         /\ IsFiniteSet(StripPlaces)
         /\ \A k \in DOMAIN strips : strips[k] \in Seq(Nat)
<1>1. \A place : place \in StripPlaces <=>
        \E k \in DOMAIN strips : \E i \in Spells(strips[k]) : place = <<k, i>>
  BY DEF StripPlaces
<1>2. DOMAIN strips = 1 .. Len(strips) /\ Len(strips) \in Nat /\ \A k \in DOMAIN strips : strips[k] \in Seq(Nat)
  OBVIOUS
<1>3. IsFiniteSet(DOMAIN strips)
  BY <1>2, FS_Interval
<1> DEFINE f == [k \in DOMAIN strips |-> {k} \X Spells(strips[k])]
           R == {f[k] : k \in DOMAIN strips}
<1>4. IsFiniteSet(R)
  <2>1. f \in Surjection(DOMAIN strips, R)
    BY Zenon DEF Surjection
  <2> QED
    BY <1>3, <2>1, FS_Surjection
<1>5. \A X \in R : IsFiniteSet(X)
  <2> SUFFICES ASSUME NEW k \in DOMAIN strips PROVE IsFiniteSet(f[k])
    OBVIOUS
  <2>1. IsFiniteSet(Spells(strips[k]))
    BY <1>2, SpellsAre
  <2>2. IsFiniteSet({k})
    BY FS_Singleton, Zenon
  <2> QED
    BY <2>1, <2>2, FS_Product
<1>6. UNION R = StripPlaces
  BY DEF StripPlaces
<1>7. IsFiniteSet(StripPlaces)
  BY <1>4, <1>5, <1>6, FS_UNION, Zenon
<1> QED
  BY <1>1, <1>2, <1>7

(* A list as a strip: the first triangle counts as the first.              *)
LEMMA SpelledAsFirst ==
  ASSUME NEW list \in Seq(Nat), NEW i \in Spells(list)
  PROVE  SpelledAt(list, i) = SpelledAs(list, 0, i)
<1>1. i \in Nat
  BY SpellsAre
<1>2. i + 0 = i
  BY <1>1
<1> QED
  BY <1>2 DEF SpelledAt, SpelledAs

(* What comes out right for the triples of the output and of the set comes *)

(* out right for every triple.                                             *)
LEMMA WrittenEvery ==
  ASSUME NEW F, Written(F), NEW wound \in Kinds, NEW tri
  PROVE  InOutput(tri, wound) = InTris(F, tri, wound)
<1> DEFINE Known == {Triple(t) : t \in F} \cup Spelled
           at(place) == SpelledAt(strips[place[1]], place[2])
<1>1. \A k \in Known : InOutput(k, wound) = InTris(F, k, wound)
  BY DEF Written
<1>2. \A t \in F : Triple(t) \in Known
  OBVIOUS
<1>3. \A place \in StripPlaces : at(place) \in Known
  <2> SUFFICES ASSUME NEW place \in StripPlaces PROVE at(place) \in Spelled
    OBVIOUS
  <2>1. PICK k \in DOMAIN strips : \E i \in Spells(strips[k]) : place = <<k, i>>
    BY PlacesSpelled DEF Written
  <2>2. PICK i \in Spells(strips[k]) : place = <<k, i>>
    BY <2>1
  <2>3. at(place) = SpelledAt(strips[k], i)
    BY <2>2
  <2> QED
    BY <2>3 DEF Spelled
<1>6. \A x : InOutput(x, wound) = Cardinality({place \in StripPlaces : Alike(at(place), x, wound)})
  BY DEF InOutput
<1> HIDE DEF Known, at
<1>4. CASE \E k \in Known : Alike(k, tri, wound)
  <2>1. PICK k \in Known : Alike(k, tri, wound)
    BY <1>4
  <2>2. \A c : Alike(c, k, wound) <=> Alike(c, tri, wound)
    BY <2>1, AlikeIsAlike
  <2>3. {t \in F : Alike(Triple(t), tri, wound)} = {t \in F : Alike(Triple(t), k, wound)}
    BY <2>2
  <2>4. {place \in StripPlaces : Alike(at(place), tri, wound)} =
        {place \in StripPlaces : Alike(at(place), k, wound)}
    BY <2>2
  <2>5. InOutput(tri, wound) = InOutput(k, wound)
    BY <1>6, <2>4, Zenon
  <2> QED
    BY <1>1, <2>3, <2>5 DEF InTris
<1>5. CASE ~ \E k \in Known : Alike(k, tri, wound)
  <2>1. {t \in F : Alike(Triple(t), tri, wound)} = {}
    BY <1>2, <1>5
  <2>2. {place \in StripPlaces : Alike(at(place), tri, wound)} = {}
    BY <1>3, <1>5
  <2> QED
    BY <1>6, <2>1, <2>2 DEF InTris
<1> QED
  BY <1>4, <1>5

(* Two sets without a common triangle count their sum.                     *)
LEMMA TrisTogether ==
  ASSUME NEW C, IsFiniteSet(C), NEW F, IsFiniteSet(F), C \cap F = {}, NEW tri, NEW wound
  PROVE  /\ InTris(C \cup F, tri, wound) = InTris(C, tri, wound) + InTris(F, tri, wound)
         /\ InTris(C, tri, wound) \in Nat /\ InTris(F, tri, wound) \in Nat
<1> DEFINE X == {t \in C : Alike(Triple(t), tri, wound)}
           Y == {t \in F : Alike(Triple(t), tri, wound)}
<1>1. {t \in C \cup F : Alike(Triple(t), tri, wound)} = X \cup Y /\ X \cap Y = {}
  OBVIOUS
<1>2. IsFiniteSet(X) /\ IsFiniteSet(Y)
  BY FS_Subset
<1>3. /\ InTris(C, tri, wound) = Cardinality(X) /\ InTris(F, tri, wound) = Cardinality(Y)
      /\ InTris(C \cup F, tri, wound) = Cardinality(X \cup Y)
  BY <1>1 DEF InTris
<1> HIDE DEF X, Y
<1>4. Cardinality(X \cup Y) = Cardinality(X) + Cardinality(Y) - Cardinality({})
  BY <1>1, <1>2, FS_Union
<1>5. Cardinality({}) = 0 /\ Cardinality(X) \in Nat /\ Cardinality(Y) \in Nat
  BY <1>2, FS_EmptySet, FS_CardinalityType
<1> QED
  BY <1>3, <1>4, <1>5

(* One strip more spells its triangles.                                    *)
LEMMA OutputOneMore ==
  ASSUME strips \in Seq(Seq(Nat)), NEW list \in Seq(Nat), strips' = Append(strips, list),
         NEW tri, NEW wound
  PROVE  InOutput(tri, wound)' = InOutput(tri, wound) + InList(list, 0, tri, wound)
<1> DEFINE n == Len(strips)
           A == {place \in StripPlaces : Alike(SpelledAt(strips[place[1]], place[2]), tri, wound)}
           D == {i \in Spells(list) : Alike(SpelledAs(list, 0, i), tri, wound)}
           E == {<<n + 1, i>> : i \in D}
           N == {place \in StripPlaces' : Alike(SpelledAt(strips'[place[1]], place[2]), tri, wound)}
<1>1. /\ n \in Nat /\ DOMAIN strips = 1 .. n /\ DOMAIN strips' = 1 .. n + 1
      /\ strips' \in Seq(Seq(Nat)) /\ \A k \in 1 .. n : strips'[k] = strips[k]
      /\ strips'[n + 1] = list
  OBVIOUS
<1> HIDE DEF n
<1>2. \A place : place \in StripPlaces <=>
        \E k \in 1 .. n : \E i \in Spells(strips[k]) : place = <<k, i>>
  BY <1>1, PlacesSpelled, Zenon
<1>3. \A place : place \in StripPlaces' <=>
        \E k \in 1 .. n + 1 : \E i \in Spells(strips'[k]) : place = <<k, i>>
  <2>1. StripPlaces' = UNION {{k} \X Spells(strips'[k]) : k \in DOMAIN strips'}
    BY DEF StripPlaces, Spells
  <2> QED
    BY <1>1, <2>1
<1>4. \A i \in Spells(list) : SpelledAt(list, i) = SpelledAs(list, 0, i)
  BY SpelledAsFirst
<1>5. \A place : place \in N <=> place \in A \/ place \in E
  <2> SUFFICES ASSUME NEW place PROVE place \in N <=> place \in A \/ place \in E
    BY Zenon
  <2>1. ASSUME place \in N PROVE place \in A \/ place \in E
    <3>1. PICK k \in 1 .. n + 1 : \E i \in Spells(strips'[k]) : place = <<k, i>>
      BY <1>3, <2>1, Zenon
    <3>2. PICK i \in Spells(strips'[k]) : place = <<k, i>>
      BY <3>1, Zenon
    <3>3. Alike(SpelledAt(strips'[k], i), tri, wound)
      BY <2>1, <3>2, Zenon
    <3>4. CASE k = n + 1
      <4>1. i \in D
        BY <1>1, <1>4, <3>2, <3>3, <3>4
      <4> QED
        BY <3>2, <3>4, <4>1
    <3>5. CASE k # n + 1
      <4>1. k \in 1 .. n /\ strips'[k] = strips[k]
        BY <1>1, <3>5
      <4>2. place \in StripPlaces
        BY <1>2, <3>2, <4>1
      <4> QED
        BY <3>2, <3>3, <4>1, <4>2
    <3> QED
      BY <3>4, <3>5
  <2>2. ASSUME place \in A PROVE place \in N
    <3>1. PICK k \in 1 .. n : \E i \in Spells(strips[k]) : place = <<k, i>>
      BY <1>2, <2>2
    <3>2. PICK i \in Spells(strips[k]) : place = <<k, i>>
      BY <3>1
    <3>3. Alike(SpelledAt(strips[k], i), tri, wound)
      BY <2>2, <3>2
    <3>4. k \in 1 .. n + 1 /\ strips'[k] = strips[k]
      BY <1>1
    <3>5. place \in StripPlaces'
      BY <1>3, <3>2, <3>4, Zenon
    <3> QED
      BY <3>2, <3>3, <3>4, <3>5, Zenon
  <2>3. ASSUME place \in E PROVE place \in N
    <3>1. PICK i \in D : place = <<n + 1, i>>
      BY <2>3
    <3>2. i \in Spells(strips'[n + 1]) /\ n + 1 \in 1 .. n + 1
      BY <1>1, <3>1
    <3>3. place \in StripPlaces'
      BY <1>3, <3>1, <3>2, Zenon
    <3>4. Alike(SpelledAt(strips'[n + 1], i), tri, wound)
      BY <1>1, <1>4, <3>1
    <3> QED
      BY <3>1, <3>3, <3>4, Zenon
  <2> QED
    BY <2>1, <2>2, <2>3, Zenon
<1>6. A \cap E = {}
  <2> SUFFICES ASSUME NEW place \in A, place \in E PROVE FALSE
    OBVIOUS
  <2>1. PICK k \in 1 .. n : \E i \in Spells(strips[k]) : place = <<k, i>>
    BY <1>2
  <2>2. place[1] = k /\ k # n + 1
    BY <1>1, <2>1
  <2>3. place[1] = n + 1
    OBVIOUS
  <2> QED
    BY <2>2, <2>3
<1>7. IsFiniteSet(A) /\ IsFiniteSet(D)
  BY PlacesSpelled, SpellsAre, FS_Subset
<1>8. /\ InOutput(tri, wound)' = Cardinality(N) /\ InOutput(tri, wound) = Cardinality(A)
      /\ InList(list, 0, tri, wound) = Cardinality(D)
  BY DEF InOutput, InList, Alike, SameWinding, SameCorners, Corners, SpelledAt
<1> DEFINE g == [i \in D |-> <<n + 1, i>>]
<1>9. g \in Bijection(D, E)
  BY Zenon DEF Bijection, Injection, Surjection, IsInjective
<1> HIDE DEF A, D, E, N, g
<1>10. IsFiniteSet(E) /\ Cardinality(E) = Cardinality(D)
  BY <1>7, <1>9, FS_Bijection DEF ExistsBijection
<1>11. N = A \cup E
  BY <1>5
<1>12. Cardinality(N) = Cardinality(A) + Cardinality(E) - Cardinality({})
  BY <1>6, <1>7, <1>10, <1>11, FS_Union
<1>13. Cardinality({}) = 0 /\ Cardinality(A) \in Nat /\ Cardinality(E) \in Nat
  BY <1>7, <1>10, FS_EmptySet, FS_CardinalityType
<1> QED
  BY <1>8, <1>10, <1>12, <1>13

(* The strips that were written and one more are written.                  *)
LEMMA WrittenMore ==
  ASSUME NEW C, IsFiniteSet(C), Written(C), NEW F, IsFiniteSet(F), C \cap F = {},
         NEW list, ListSpells(list, 0, F), Len(list) \in 3 .. 2 * MaxTris + 2,
         strips' = Append(strips, list), UNCHANGED <<mesh, preserve>>
  PROVE  Written(C \cup F)'
<1>1. strips \in Seq(Seq(Nat)) /\ list \in Seq(Nat)
  BY DEF Written, ListSpells
<1>2. strips' \in Seq(Seq(Nat))
  BY <1>1
<1>3. \A k \in DOMAIN strips' : Len(strips'[k]) \in 3 .. 2 * MaxTris + 2
  BY <1>1 DEF Written
<1>4. Kinds' = Kinds /\ \A X, tri, wound : InTris(X, tri, wound)' = InTris(X, tri, wound)
  BY DEF mesh, Kinds, IsOriented, Edge, InTris, Triple, Alike, SameWinding, SameCorners, Corners
<1>5. ASSUME NEW wound \in Kinds', NEW tri
      PROVE  InOutput(tri, wound)' = InTris(C \cup F, tri, wound)'
  <2>1. wound \in Kinds
    BY <1>4
  <2>2. InOutput(tri, wound)' = InOutput(tri, wound) + InList(list, 0, tri, wound)
    BY <1>1, OutputOneMore
  <2>3. InOutput(tri, wound) = InTris(C, tri, wound)
    BY <2>1, WrittenEvery
  <2>4. InList(list, 0, tri, wound) = InTris(F, tri, wound)
    BY <2>1, SpellsEvery
  <2>5. InTris(C \cup F, tri, wound) = InTris(C, tri, wound) + InTris(F, tri, wound)
    BY TrisTogether
  <2> QED
    BY <1>4, <2>2, <2>3, <2>4, <2>5
<1> QED
  BY <1>2, <1>3, <1>5, Zenon DEF Written

(* What is said of the mesh, and of IDs beside it, stays true as long as it stays. *)
LEMMA MeshKept ==
  ASSUME UNCHANGED <<mesh, preserve>>
  PROVE  /\ InUse' = InUse /\ Kinds' = Kinds /\ (MeshOK' <=> MeshOK) /\ (GoodMesh' <=> GoodMesh)
         /\ \A list, turn, F : ListSpells(list, turn, F)' <=> ListSpells(list, turn, F)
         /\ \A a, b, t, d, n : Along(a, b, t, d, n)' <=> Along(a, b, t, d, n)
         /\ \A list, turn, F, t, d : Strand(list, turn, F, t, d)' <=> Strand(list, turn, F, t, d)
<1>1. /\ InUse' = InUse /\ Kinds' = Kinds /\ (MeshOK' <=> MeshOK) /\ (IsOriented' <=> IsOriented)
      /\ \A t, d : Edge(t, d)' = Edge(t, d) /\ EndsOf(t, d)' = EndsOf(t, d)
  BY DEF mesh, InUse, Kinds, IsOriented, Edge, MeshOK, EndsOf
<1>2. GoodMesh' <=> GoodMesh
  BY <1>1 DEF mesh, GoodMesh, B!TrisProper
<1>3. /\ \A X, tri, wound : InTris(X, tri, wound)' = InTris(X, tri, wound)
      /\ \A list, turn, tri, wound : InList(list, turn, tri, wound)' = InList(list, turn, tri, wound)
      /\ \A t : Triple(t)' = Triple(t)
  BY DEF mesh, InTris, InList, Triple, Alike, SameWinding, SameCorners, Corners, SpelledAs, Spells
<1>4. ASSUME NEW list, NEW turn, NEW F PROVE ListSpells(list, turn, F)' <=> ListSpells(list, turn, F)
  <2>1. {Triple(t) : t \in F}' = {Triple(t) : t \in F}
    BY <1>3
  <2>2. {SpelledAs(list, turn, i) : i \in Spells(list)}' = {SpelledAs(list, turn, i) : i \in Spells(list)}
    BY DEF SpelledAs, Spells
  <2> QED
    BY <1>1, <1>3, <2>1, <2>2 DEF ListSpells
<1>5. \A a, b, t, d, n : Along(a, b, t, d, n)' <=> Along(a, b, t, d, n)
  BY <1>1 DEF Along
<1>6. \A list, turn, F, t, d : Strand(list, turn, F, t, d)' <=> Strand(list, turn, F, t, d)
  BY <1>1, <1>4, <1>5 DEF Strand
<1> QED
  BY <1>1, <1>2, <1>4, <1>5, <1>6

(* What has been read and written stays so as long as the list and the     *)

(* strips stay.                                                            *)
LEMMA ReadAndWritten ==
  ASSUME UNCHANGED <<mesh, preserve>>
  PROVE  /\ strips' = strips => \A F : Written(F)' <=> Written(F)
         /\ input' = input => \A n : MeshRead(n)' <=> MeshRead(n)
<1>1. InUse' = InUse /\ Kinds' = Kinds
  BY MeshKept
<1>2. /\ \A X, tri, wound : InTris(X, tri, wound)' = InTris(X, tri, wound)
      /\ \A t : Triple(t)' = Triple(t)
  BY DEF mesh, InTris, Triple, Alike, SameWinding, SameCorners, Corners
<1>3. ASSUME strips' = strips
      PROVE  /\ Spelled' = Spelled
             /\ \A tri, wound : InOutput(tri, wound)' = InOutput(tri, wound)
  <2>1. StripPlaces' = StripPlaces
    BY <1>3 DEF StripPlaces, Spells
  <2> QED
    BY <1>3, <2>1 DEF Spelled, InOutput, Alike, SameWinding, SameCorners, Corners, SpelledAt, Spells
<1>4. strips' = strips => \A F : Written(F)' <=> Written(F)
  BY <1>1, <1>2, <1>3 DEF Written
<1>5. ASSUME input' = input, NEW n PROVE MeshRead(n)' <=> MeshRead(n)
  <2>1. M!ProperUpTo(input, n)' = M!ProperUpTo(input, n)
    BY <1>5 DEF M!ProperUpTo, M!IsProper, M!Vertex, M!Dir
  <2>2. \A tri, wound : Cardinality({i \in M!ProperUpTo(input, n) : Alike(input[i], tri, wound)})'
                        = Cardinality({i \in M!ProperUpTo(input, n) : Alike(input[i], tri, wound)})
    BY <1>5, <2>1 DEF Alike, SameWinding, SameCorners, Corners
  <2> QED
    BY <1>1, <1>2, <1>5, <2>1, <2>2 DEF MeshRead
<1> QED
  BY <1>4, <1>5

(* The core entrances: across the first shared edge, with the vertex that  *)

(* it has in common with the second one last; then what completes the      *)
(* second core triangle.                                                   *)
LEMMA CoreEntrancesAre ==
  ASSUME GoodMesh, MeshOK, NEW t \in InUse, NEW e \in Dir, NEW u \in InUse, u = neighbours[t][e],
         NEW f \in Dir, f # indices[t][e]
  PROVE  \E a, b, c \in Nat :
           /\ CoreEntrances(Edge(t, e), Edge(u, f)) = <<a, b, c>>
           /\ {a, b} = EndsOf(t, e) /\ b \in EndsOf(u, f) /\ c = Opposite(u, indices[t][e])
<1>1. PICK g : g = indices[t][e]
  OBVIOUS
<1>2. /\ g \in Dir /\ g # f /\ t \in Tris /\ u \in Tris /\ neighbours[t][e] # Null
  <2>1. t \in Tris /\ u \in Tris /\ u # Null
    BY MaxTrisAssumption DEF MeshOK, IsMesh, InUse, Tris, Null
  <2> QED
    BY <1>1, <2>1 DEF MeshOK, IsMesh, Stitched
<1>3. EndsOf(u, g) = EndsOf(t, e)
  BY <1>1, <1>2 DEF GoodMesh
<1>4. PICK a, b, c, x, y :
        /\ a = Edge(t, e)[1] /\ b = Edge(t, e)[2] /\ c = Opposite(u, g)
        /\ x = Edge(u, f)[1] /\ y = Edge(u, f)[2]
  OBVIOUS
<1>5. /\ a \in Nat /\ b \in Nat /\ c \in Nat /\ x \in Nat /\ y \in Nat /\ a # b /\ c # a /\ c # b
      /\ {a, b} = EndsOf(t, e) /\ EndsOf(u, f) = {x, y}
  <2>1. {a, b} = EndsOf(u, g)
    BY <1>3, <1>4 DEF EndsOf
  <2>2. a \in Nat /\ b \in Nat /\ x \in Nat /\ y \in Nat
    BY <1>4, VerticesAreIds
  <2>3. c \in Nat /\ a # b /\ b # c /\ c # a
    <3>1. PICK n \in {1, 2} : n = 1 <=> a = Edge(u, g)[1]
      OBVIOUS
    <3>2. Along(a, b, u, g, n)
      BY <2>1, <3>1 DEF Along
    <3> QED
      BY <1>2, <1>4, <3>2, SeenAlong
  <2> QED
    BY <1>3, <1>4, <2>1, <2>2, <2>3 DEF EndsOf
<1>6. \/ x \in {a, b} /\ y = c
      \/ y \in {a, b} /\ x = c
  <2>1. {a, b} = {Edge(u, g)[1], Edge(u, g)[2]}
    BY <1>3, <1>5 DEF EndsOf
  <2>2. \/ f = (g + 1) % 3 /\ (f + 1) % 3 = (g + 2) % 3
        \/ f = (g + 2) % 3 /\ (f + 1) % 3 = g
    BY <1>2, NextPositions
  <2>3. CASE f = (g + 1) % 3 /\ (f + 1) % 3 = (g + 2) % 3
    BY <1>4, <2>1, <2>3, Zenon DEF Edge, Opposite
  <2>4. CASE f = (g + 2) % 3 /\ (f + 1) % 3 = g
    BY <1>4, <2>1, <2>4, Zenon DEF Edge, Opposite
  <2> QED
    BY <2>2, <2>3, <2>4
<1> DEFINE common == IF a \in {x, y} THEN a ELSE b
           other == IF a = common THEN b ELSE a
           third == IF x = common THEN y ELSE x
<1>7. /\ CoreEntrances(Edge(t, e), Edge(u, f)) = <<other, common, third>>
  BY <1>4 DEF CoreEntrances, OtherEnd
<1>8. /\ {other, common} = {a, b} /\ common \in {x, y} /\ third = c
      /\ other \in Nat /\ common \in Nat /\ third \in Nat
  BY <1>5, <1>6
<1> HIDE DEF common, other, third
<1> QED
  BY <1>1, <1>4, <1>5, <1>7, <1>8

-----------------------------------------------------------------------------
(***************************************************************************)
(* Collecting the strips spells the triangles of each.                     *)
(***************************************************************************)

(* The copy of the geometry that the model of the output works with.       *)
LEMMA OutputSees ==
  /\ \A t, d : O!Edge(t, d) = Edge(t, d) /\ O!Opposite(t, d) = Opposite(t, d)
  /\ \A e, f : O!CoreEntrances(e, f) = CoreEntrances(e, f)
BY DEF O!Edge, O!Opposite, O!CoreEntrances, O!OtherEnd, Edge, Opposite, CoreEntrances, OtherEnd

(* The triangles in use are finitely many.                                 *)
LEMMA PartsAreFinite ==
  ASSUME trisCount \in 0 .. MaxTris, NEW F \in SUBSET InUse
  PROVE  /\ IsFiniteSet(InUse) /\ IsFiniteSet(F)
         /\ Cardinality(F) \in Nat /\ Cardinality(F) <= MaxTris
<1>1. trisCount \in Nat /\ trisCount <= MaxTris
  BY MaxTrisAssumption
<1>2. IsFiniteSet(InUse) /\ Cardinality(InUse) = trisCount
  BY <1>1, FS_Interval DEF InUse
<1>3. IsFiniteSet(F) /\ Cardinality(F) <= Cardinality(InUse)
  BY <1>2, FS_Subset
<1>4. Cardinality(F) \in Nat
  BY <1>3, FS_CardinalityType
<1> QED
  BY <1>1, <1>2, <1>3, <1>4, MaxTrisAssumption

(* A strip that has been spelled is written with the ones before it.       *)
LEMMA StripWritten ==
  ASSUME CollectOK, GoodMesh, Written(Collected), NEW list, strips' = Append(strips, list),
         UNCHANGED <<mesh, preserve>>,
         ListSpells(list, 0, StripOf(first)), Fits(list, StripOf(first)), Len(list) >= 3,
         NEW C, C = Collected \cup StripOf(first)
  PROVE  Written(C)'
<1>1. PICK F, D : F = StripOf(first) /\ D = Collected
  OBVIOUS
<1>2. F \subseteq InUse /\ D \subseteq InUse
  BY <1>1 DEF StripOf, Collected
<1>3. D \cap F = {}
  <2> SUFFICES ASSUME NEW t \in D, t \in F PROVE FALSE
    OBVIOUS
  <2>1. MeshOK /\ Agree(Links) /\ first \in Uncollected /\ first \in InUse
    BY DEF CollectOK, StripsOK, Uncollected
  <2>2. StripOf(t) = StripOf(first) /\ first \in StripOf(first)
    BY <1>1, <2>1, StripsAreDisjoint, StripIsEnclosed
  <2> QED
    BY <1>1, <2>1, <2>2 DEF Collected
<1>4. IsFiniteSet(F) /\ IsFiniteSet(D) /\ Cardinality(F) \in Nat /\ Cardinality(F) <= MaxTris
  BY <1>2, PartsAreFinite DEF GoodMesh
<1>5. Len(list) \in 3 .. 2 * MaxTris + 2
  <2>1. list \in Seq(Nat)
    BY DEF ListSpells
  <2>2. Len(list) \in Nat /\ Len(list) <= 2 * Cardinality(F) + 2
    BY <1>1, <2>1 DEF Fits
  <2> QED
    BY <1>4, <2>2, MaxTrisAssumption
<1>6. Written(D) /\ ListSpells(list, 0, F) /\ C = D \cup F
  BY <1>1
<1> QED
  BY <1>3, <1>4, <1>5, <1>6, WrittenMore

(* So the next strip can be collected, or all of them are written.         *)
LEMMA CollectedMore ==
  ASSUME CollectOK, GoodMesh, Written(Collected), NEW list, strips' = Append(strips, list),
         UNCHANGED <<mesh, preserve>>,
         ListSpells(list, 0, StripOf(first)), Fits(list, StripOf(first)), Len(list) >= 3,
         \/ pc' = "Collect" /\ Collected' = Collected \cup StripOf(first)
         \/ pc' = "Output" /\ InUse = Collected \cup StripOf(first)
  PROVE  CollectSpells' /\ (pc' = "Output" => Written(InUse)')
<1>1. PICK C : C = Collected \cup StripOf(first)
  BY Zenon
<1>2. Written(C)'
  BY <1>1, StripWritten
<1>3. InUse' = InUse
  BY MeshKept
<1>4. CASE pc' = "Collect"
  <2>1. Collected' = C
    BY <1>1, <1>4
  <2>2. Written(Collected)'
    BY <1>2, <2>1, Zenon DEF Written
  <2> QED
    BY <1>4, <2>2 DEF CollectSpells
<1>5. CASE pc' = "Output"
  <2>1. InUse' = C
    BY <1>1, <1>3, <1>5
  <2>2. Written(InUse)'
    BY <1>2, <2>1 DEF Written
  <2> QED
    BY <1>5, <2>2 DEF CollectSpells, Writing
<1> QED
  BY <1>4, <1>5

(* A strip of one triangle.                                                *)
LEMMA CollectOneSpells ==
  ASSUME CollectOK, GoodMesh, CollectSpells, O!CollectOne
  PROVE  CollectSpells' /\ (pc' = "Output" => Written(InUse)')
<1>1. PICK list : list = [i \in 1 .. 3 |-> vertices[first][i - 1]]
  BY Zenon
<1>2. /\ pc = "Collect" /\ strips' = Append(strips, list) /\ UNCHANGED <<mesh, preserve>>
      /\ Links(first) = {}
  BY <1>1, OutputApplies DEF O!CollectOne, O!FinishedStrip, O!mesh, mesh
<1>3. \/ pc' = "Collect" /\ Collected' = Collected \cup StripOf(first)
      \/ pc' = "Output" /\ InUse = Collected \cup StripOf(first)
  BY CollectOneStep
<1>4. first \in InUse /\ MeshOK /\ Agree(Links)
  BY DEF CollectOK, StripsOK, Uncollected
<1>5. StripOf(first) = {first}
  <2>1. {first} \in Enclosed
    BY <1>2, <1>4 DEF Enclosed
  <2> QED
    BY <1>4, <2>1, StripIsEnclosed
<1>6. ListSpells(list, 0, StripOf(first)) /\ Len(list) = 3
  BY <1>1, <1>4, <1>5, OneSpelled
<1>7. Fits(list, StripOf(first))
  <2>1. Cardinality({first}) = 1
    BY FS_Singleton
  <2> QED
    BY <1>5, <1>6, <2>1 DEF Fits
<1>8. Written(Collected)
  BY <1>2 DEF CollectSpells, Writing
<1> QED
  BY <1>2, <1>3, <1>6, <1>7, <1>8, CollectedMore

(* A strip of two.                                                         *)
LEMMA CollectTwoSpells ==
  ASSUME CollectOK, GoodMesh, CollectSpells, O!CollectTwo
  PROVE  CollectSpells' /\ (pc' = "Output" => Written(InUse)')
<1>1. PICK t, e, u, f : t = first /\ e = O!FirstDir /\ u = O!Second /\ f = O!IndexOfFirst
  OBVIOUS
<1>2. PICK list : list = <<Opposite(t, e)>> \o Edge(t, e) \o <<Opposite(neighbours[t][e], indices[t][e])>>
  BY Zenon
<1>3. u = neighbours[t][e] /\ f = indices[t][e]
  BY <1>1 DEF O!Second, O!IndexOfFirst
<1>4. /\ pc = "Collect" /\ strips' = Append(strips, list) /\ UNCHANGED <<mesh, preserve>>
      /\ Links(first) # {} /\ u \in endpoint
  <2>1. list = <<O!Opposite(t, e)>> \o O!Edge(t, e) \o <<O!Opposite(u, f)>>
    BY <1>2, <1>3, OutputSees, Zenon
  <2> QED
    BY <1>1, <2>1, OutputApplies DEF O!CollectTwo, O!FinishedStrip, O!mesh, mesh
<1>5. \/ pc' = "Collect" /\ Collected' = Collected \cup StripOf(first)
      \/ pc' = "Output" /\ InUse = Collected \cup StripOf(first)
  BY CollectTwoStep
<1>6. Leads({}, u, f) /\ t \in InUse /\ e \in Links(t) /\ MeshOK /\ Agree(Links)
  BY <1>1, <1>4, LeadsStart DEF CollectOK, StripsOK
<1>7. StripOf(first) = {t, u}
  <2>1. StripOf(first) = {} \cup {first, u}
    BY <1>4, <1>6, LeadsToTheEnd
  <2> QED
    BY <1>1, <2>1
<1>8. e \in Dir /\ u \in InUse /\ u # t
  BY <1>3, <1>6, LinkFacts
<1>9. ListSpells(list, 0, {t, u}) /\ Len(list) = 4
  BY <1>2, <1>3, <1>6, <1>8, TwoSpelled
<1>10. Fits(list, StripOf(first))
  <2>1. Cardinality({t, u}) = 2
    <3>1. IsFiniteSet({t}) /\ Cardinality({t}) = 1
      BY FS_Singleton
    <3>2. Cardinality({t} \cup {u}) = Cardinality({t}) + 1
      BY <1>8, <3>1, FS_AddElement, Zenon
    <3> QED
      BY <3>1, <3>2
  <2> QED
    BY <1>7, <1>9, <2>1 DEF Fits
<1>11. Written(Collected)
  BY <1>4 DEF CollectSpells, Writing
<1>12. ListSpells(list, 0, StripOf(first)) /\ Len(list) >= 3
  BY <1>7, <1>9
<1> QED
  BY <1>4, <1>5, <1>10, <1>11, <1>12, CollectedMore

(* Concatenating few IDs, again.                                           *)
LEMMA CoreIds ==
  ASSUME NEW a \in Nat, NEW b \in Nat, NEW c \in Nat, NEW d \in Nat
  PROVE  /\ <<a>> \o <<b, c, d>> = Append(Append(<<a, b>>, c), d)
         /\ <<a, a>> \o <<b, c, d>> = Append(Append(<<a, a, b>>, c), d)
         /\ Len(<<a, b>>) = 2 /\ Len(<<a, a, b>>) = 3
  OBVIOUS

(* The first triangle, turned round if the strip would turn it over.       *)
LEMMA FirstReached ==
  ASSUME GoodMesh, MeshOK, NEW t \in InUse, NEW u, NEW g, NEW list \in Seq(Nat), NEW b \in Nat,
         NEW n, n = Len(list), n = 2 \/ n = 3,
         Strand(Append(list, b), 0, {t}, u, g), NEW a, a = list[n]
  PROVE  Reaches(Append(list, b), 0, {t}, u, g, a, b)
<1>1. PICK more : more = Append(list, b)
  BY Zenon
<1>2. Len(more) = n + 1 /\ more[n + 1] = b /\ more[n] = a
  BY <1>1, OneMoreId
<1>3. IsFiniteSet({t}) /\ Cardinality({t}) = 1
  BY FS_Singleton, Zenon
<1>4. Fits(more, {t})
  BY <1>2, <1>3 DEF Fits
<1>5. Strand(more, 0, {t}, u, g)
  BY <1>1
<1>6. a = more[Len(more) - 1] /\ b = more[Len(more)]
  BY <1>2
<1>7. Reaches(more, 0, {t}, u, g, a, b)
  BY <1>4, <1>5, <1>6 DEF Reaches
<1> QED
  BY <1>1, <1>7

(* The last of the IDs that go on from the tip.                            *)
LEMMA LastCoreId ==
  ASSUME NEW tip, NEW a, NEW list, NEW repeats,
         list = IF repeats THEN <<tip, tip, a>> ELSE <<tip, a>>
  PROVE  (Len(list) = 2 \/ Len(list) = 3) /\ list[Len(list)] = a
<1>1. CASE repeats
  <2>1. list = <<tip, tip, a>>
    BY <1>1
  <2> QED
    BY <2>1
<1>2. CASE ~repeats
  <2>1. list = <<tip, a>>
    BY <1>2
  <2> QED
    BY <2>1
<1> QED
  BY <1>1, <1>2

(* The two first core triangles, as they are written.                      *)
LEMMA CoreReached ==
  ASSUME GoodMesh, MeshOK, NEW t \in InUse, NEW e \in Dir, NEW u \in InUse, u = neighbours[t][e], u # t,
         NEW f \in Dir, f # indices[t][e], neighbours[u][f] \in InUse, neighbours[u][f] # t, neighbours[u][f] # u,
         NEW es, es = CoreEntrances(Edge(t, e), Edge(u, f)), NEW tip, tip = Opposite(t, e),
         NEW start, start = IF preserve /\ Edge(t, e)[1] # es[1] THEN <<tip, tip>> ELSE <<tip>>
  PROVE  Reaches(start \o es, 0, {t, u}, neighbours[u][f], indices[u][f], es[2], es[3])
<1>1. PICK a, b, c \in Nat :
        /\ CoreEntrances(Edge(t, e), Edge(u, f)) = <<a, b, c>>
        /\ {a, b} = EndsOf(t, e) /\ b \in EndsOf(u, f) /\ c = Opposite(u, indices[t][e])
  BY CoreEntrancesAre
<1>2. es = <<a, b, c>>
  BY <1>1
<1>3. es[1] = a /\ es[2] = b /\ es[3] = c
  BY <1>2
<1>4. PICK list : list = IF preserve /\ Edge(t, e)[1] # a THEN <<tip, tip, a>> ELSE <<tip, a>>
  BY Zenon
<1>5. /\ Strand(Append(list, b), 0, {t}, u, indices[t][e]) /\ tip \in Nat
      /\ list \in Seq(Nat) /\ (Len(list) = 2 \/ Len(list) = 3) /\ list[Len(list)] = a
  <2>1. PICK x, y : x = Along(a, b, t, e, 1) /\ y = Along(a, b, t, e, 2)
    OBVIOUS
  <2>2. \/ list = <<tip, a>> /\ x
        \/ list = <<tip, tip, a>> /\ y
    <3>1. CASE preserve /\ Edge(t, e)[1] # a
      BY <1>1, <1>4, <2>1, <3>1 DEF Along
    <3>2. CASE ~(preserve /\ Edge(t, e)[1] # a)
      BY <1>1, <1>4, <2>1, <3>2 DEF Along
    <3> QED
      BY <3>1, <3>2
  <2>3. Strand(Append(list, b), 0, {t}, u, indices[t][e]) /\ list \in Seq(Nat)
    BY <2>1, <2>2, StripStarts, Zenon
  <2>4. (Len(list) = 2 \/ Len(list) = 3) /\ list[Len(list)] = a
    BY <1>4, LastCoreId
  <2> QED
    BY <2>3, <2>4, VerticesAreIds
<1>6. start \o es = Append(Append(list, b), c)
  <2>1. CASE preserve /\ Edge(t, e)[1] # a
    <3>1. start = <<tip, tip>> /\ list = <<tip, tip, a>>
      BY <1>3, <1>4, <2>1, Zenon
    <3>2. <<tip, tip>> \o <<a, b, c>> = Append(Append(<<tip, tip, a>>, b), c)
      BY <1>5, CoreIds
    <3> QED
      BY <1>2, <3>1, <3>2, Zenon
  <2>2. CASE ~(preserve /\ Edge(t, e)[1] # a)
    <3>1. start = <<tip>> /\ list = <<tip, a>>
      BY <1>3, <1>4, <2>2, Zenon
    <3>2. <<tip>> \o <<a, b, c>> = Append(Append(<<tip, a>>, b), c)
      BY <1>5, CoreIds
    <3> QED
      BY <1>2, <3>1, <3>2, Zenon
  <2> QED
    BY <2>1, <2>2, Zenon
<1>7. Reaches(Append(list, b), 0, {t}, u, indices[t][e], a, b)
  BY <1>5, FirstReached, Zenon
<1>8. Reaches(Append(Append(list, b), c), 0, {t} \cup {u}, neighbours[u][f], indices[u][f], b, c)
  <2>1. PICK F, more, g, turn : /\ F = {t} /\ more = Append(list, b) /\ g = indices[t][e]
                                /\ turn \in Nat /\ turn = 0
    BY Zenon
  <2>2. Reaches(more, turn, F, u, g, a, b) /\ f # g /\ c = Opposite(u, g)
    BY <1>1, <1>7, <2>1, Zenon
  <2>3. IsFiniteSet(F) /\ neighbours[u][f] \notin F
    BY <2>1, FS_Singleton, Zenon
  <2>4. b \in EndsOf(u, f)
    BY <1>1
  <2>5. Reaches(Append(more, Opposite(u, g)), turn, F \cup {u}, neighbours[u][f], indices[u][f], b, Opposite(u, g))
    BY <2>1, <2>2, <2>3, <2>4, StrandNear, Zenon
  <2> QED
    BY <2>1, <2>2, <2>5, Zenon
<1>9. {t} \cup {u} = {t, u}
  OBVIOUS
<1> QED
  BY <1>3, <1>6, <1>8, <1>9, Zenon

(* What the strand has come to is what the next step finds.                *)
LEMMA ReachesKept ==
  ASSUME UNCHANGED <<mesh, stripVars, preserve, first, endpoints, strips>>, pc' = "Follow",
         Written(Collected),
         NEW W, W \subseteq InUse, NEW t, NEW d, Leads(W, t, d), NEW list, NEW a, NEW b,
         Reaches(list, 0, W \cup {first}, t, d, a, b),
         curr' = t, indexToPrev' = d, ids' = list, prevEntrance' = a, entrance' = b
  PROVE  CollectSpells'
<1>1. /\ InUse' = InUse /\ \A t1 : StripOf(t1)' = StripOf(t1)
      /\ Uncollected' = Uncollected
  BY SameStrips, Zenon DEF Uncollected, Behind
<1>2. Collected' = Collected
  BY <1>1 DEF Collected
<1>3. Written(Collected)'
  <2>1. PICK C : C = Collected
    OBVIOUS
  <2>2. Written(C)'
    BY <2>1, ReadAndWritten
  <2> QED
    BY <1>2, <2>1, <2>2 DEF Written
<1>4. Leads(W, curr, indexToPrev)'
  BY SameLeads
<1>5. Reaches(ids, 0, W \cup {first}, curr, indexToPrev, prevEntrance, entrance)'
  <2>1. PICK F : F = W \cup {first}
    OBVIOUS
  <2>2. Strand(list, 0, F, t, d)' /\ Strand(list, 0, F, t, d)
    BY <2>1, MeshKept DEF Reaches
  <2>3. Strand(ids, 0, W \cup {first}, curr, indexToPrev)'
    BY <2>1, <2>2 DEF Strand
  <2>4. Fits(ids, W \cup {first})'
    BY DEF Reaches, Fits
  <2> QED
    BY <2>3, <2>4 DEF Reaches
<1> QED
  BY <1>1, <1>3, <1>4, <1>5 DEF CollectSpells

(* A longer strip: its first two triangles are spelled.                    *)
LEMMA CollectCoreSpells ==
  ASSUME CollectOK, GoodMesh, CollectSpells, O!CollectCore
  PROVE  CollectSpells'
<1>1. PICK t, e, u, g, f, v, h :
        /\ t = first /\ e = O!FirstDir /\ u = O!Second /\ g = O!IndexOfFirst
        /\ f = StripDir(u, g) /\ v = neighbours[u][f] /\ h = indices[u][f]
  OBVIOUS
<1>2. u = neighbours[t][e] /\ g = indices[t][e]
  BY <1>1 DEF O!Second, O!IndexOfFirst
<1>3. PICK es, tip, start :
        /\ es = CoreEntrances(Edge(t, e), Edge(u, f)) /\ tip = Opposite(t, e)
        /\ start = IF preserve /\ Edge(t, e)[1] # es[1] THEN <<tip, tip>> ELSE <<tip>>
  BY Zenon
<1>4. /\ pc = "Collect" /\ pc' = "Follow" /\ Links(first) # {} /\ u \notin endpoint
      /\ StripDirs(u, g) # {}
      /\ UNCHANGED <<mesh, stripVars, preserve, endpoints, first, strips>>
      /\ curr' = v /\ indexToPrev' = h /\ ids' = start \o es
      /\ prevEntrance' = es[2] /\ entrance' = es[3]
  <2>1. O!StripDir(O!Second, O!IndexOfFirst) = f
    BY <1>1, OutputApplies
  <2>2. O!CoreEntrances(O!Edge(first, O!FirstDir), O!Edge(O!Second, f)) = es
    BY <1>1, <1>3, OutputSees
  <2>3. (IF O!RepeatsFirst(es) THEN <<tip, tip>> ELSE <<tip>>) = start
    BY <1>1, <1>3, OutputSees DEF O!RepeatsFirst
  <2>4. O!Opposite(first, O!FirstDir) = tip
    BY <1>1, <1>3, OutputSees
  <2> QED
    BY <1>1, <2>1, <2>2, <2>3, <2>4, OutputApplies, Zenon
    DEF O!CollectCore, O!mesh, O!stripVars, mesh, stripVars
<1>5. /\ Leads({}, u, g) /\ t \in InUse /\ e \in Links(t) /\ MeshOK /\ Agree(Links)
  BY <1>1, <1>4, LeadsStart DEF CollectOK, StripsOK
<1>6. Leads({} \cup {u}, v, h)
  BY <1>1, <1>4, <1>5, LeadsOn, Zenon
<1>7. /\ u \in InUse /\ u # t /\ e \in Dir /\ g \in Links(u) /\ g \in Dir
  BY <1>2, <1>5, LinkFacts, LinksArePositions
<1>8. v \in InUse /\ v # t /\ v # u
  BY <1>1, <1>6 DEF Leads
<1>9. f \in Dir /\ f # g
  <2>1. f \in {RemainingIndex(g, 0), RemainingIndex(g, 1)} /\ f \in Links(u)
    BY <1>1, <1>4 DEF StripDir, StripDirs
  <2> QED
    BY <1>7, <2>1, Remaining, LinksArePositions
<1>10. Reaches(start \o es, 0, {t, u}, v, h, es[2], es[3])
  <2>1. Reaches(start \o es, 0, {t, u}, neighbours[u][f], indices[u][f], es[2], es[3])
    BY <1>1, <1>2, <1>3, <1>5, <1>7, <1>8, <1>9, CoreReached, Zenon
  <2> QED
    BY <1>1, <2>1
<1>11. Written(Collected)
  BY <1>4 DEF CollectSpells, Writing
<1>12. PICK W : W = {} \cup {u}
  BY Zenon
<1>13. Reaches(start \o es, 0, W \cup {first}, v, h, es[2], es[3])
  <2>1. W \cup {first} = {t, u}
    BY <1>1, <1>12
  <2> QED
    BY <1>10, <2>1
<1>14. W \subseteq InUse /\ Leads(W, v, h)
  BY <1>6, <1>7, <1>12
<1> QED
  BY <1>4, <1>11, <1>13, <1>14, ReachesKept, Zenon

(* One triangle more.                                                      *)
LEMMA FollowStripSpells ==
  ASSUME CollectOK, GoodMesh, CollectSpells, O!FollowStrip
  PROVE  CollectSpells'
<1>1. PICK t, d, e, v, h, c, a, b, list :
        /\ t = curr /\ d = indexToPrev /\ e = StripDir(t, d)
        /\ v = neighbours[t][e] /\ h = indices[t][e] /\ c = Opposite(t, d)
        /\ a = prevEntrance /\ b = entrance /\ list = ids
  OBVIOUS
<1>2. /\ pc = "Follow" /\ pc' = "Follow" /\ t \notin endpoint /\ StripDirs(t, d) # {}
      /\ UNCHANGED <<mesh, stripVars, preserve, endpoints, first, strips>>
      /\ curr' = v /\ indexToPrev' = h /\ entrance' = c
  BY <1>1, OutputApplies, OutputSees DEF O!FollowStrip, O!Completing, O!mesh, O!stripVars, mesh, stripVars
<1>3. /\ ids' = list \o (IF b \in EndsOf(t, e) THEN <<c>> ELSE <<a, c>>)
      /\ prevEntrance' = IF b \in EndsOf(t, e) THEN b ELSE a
  BY <1>1, OutputApplies, OutputSees, Zenon DEF O!FollowStrip, O!Completing, O!Pushed, EndsOf
<1>4. PICK W \in SUBSET InUse : Leads(W, t, d) /\ Reaches(list, 0, W \cup {first}, t, d, a, b)
  BY <1>1, <1>2 DEF CollectSpells
<1>5. Leads(W \cup {t}, v, h)
  BY <1>1, <1>2, <1>4, LeadsOn
<1>6. PICK F, n : F = W \cup {first} /\ n \in Nat /\ n = 0
  BY Zenon
<1>7. /\ MeshOK /\ Agree(Links) /\ t \in InUse /\ d \in Links(t) /\ first \in InUse
      /\ v \in InUse /\ v # t /\ v \notin W /\ v # first
  BY <1>4, <1>5 DEF Leads, CollectOK, StripsOK, Uncollected
<1>8. d \in Dir /\ e \in Dir /\ e # d
  <2>1. e \in {RemainingIndex(d, 0), RemainingIndex(d, 1)} /\ e \in Links(t)
    BY <1>1, <1>2 DEF StripDir, StripDirs
  <2> QED
    BY <1>7, <2>1, Remaining, LinksArePositions
<1>9. IsFiniteSet(F) /\ v \notin F /\ Reaches(list, n, F, t, d, a, b)
  <2>1. F \subseteq InUse
    BY <1>6, <1>7
  <2> QED
    BY <1>4, <1>6, <1>7, <2>1, PartsAreFinite DEF GoodMesh
<1>10. list \in Seq(Nat) /\ a \in Nat /\ c \in Nat
  <2>1. list \in Seq(Nat) /\ Len(list) >= 2 /\ a = list[Len(list) - 1]
    BY <1>9 DEF Reaches, Strand, ListSpells
  <2> QED
    BY <1>1, <1>7, <1>8, <2>1, VerticesAreIds
<1>11. Written(Collected)
  BY <1>2 DEF CollectSpells, Writing
<1>12. PICK X, G : X = W \cup {t} /\ G = X \cup {first}
  BY Zenon
<1>13. G = F \cup {t} /\ X \subseteq InUse /\ Leads(X, v, h)
  BY <1>4, <1>5, <1>6, <1>7, <1>12
<1>16. neighbours[t][e] \in InUse /\ neighbours[t][e] \notin F /\ neighbours[t][e] # t
  BY <1>1, <1>7, <1>9
<1>17. PICK more, near :
         /\ more = (IF b \in EndsOf(t, e) THEN Append(list, c) ELSE Append(Append(list, a), c))
         /\ near = (IF b \in EndsOf(t, e) THEN b ELSE a)
  BY Zenon
<1>14. ids' = more /\ prevEntrance' = near
  <2>1. CASE b \in EndsOf(t, e)
    BY <1>3, <1>10, <1>17, <2>1
  <2>2. CASE b \notin EndsOf(t, e)
    BY <1>3, <1>10, <1>17, <2>2
  <2> QED
    BY <2>1, <2>2
<1>15. Reaches(more, n, F \cup {t}, neighbours[t][e], indices[t][e], near, c)
  <2>1. CASE b \in EndsOf(t, e)
    <3>1. Reaches(Append(list, Opposite(t, d)), n, F \cup {t}, neighbours[t][e], indices[t][e], b, Opposite(t, d))
      BY <1>6, <1>7, <1>8, <1>9, <1>16, <2>1, StrandNear, Zenon
    <3> QED
      BY <1>1, <1>17, <2>1, <3>1, Zenon
  <2>2. CASE b \notin EndsOf(t, e)
    <3>1. Reaches(Append(Append(list, a), Opposite(t, d)), n, F \cup {t}, neighbours[t][e], indices[t][e], a, Opposite(t, d))
      BY <1>6, <1>7, <1>8, <1>9, <1>16, <2>2, StrandFar
    <3> QED
      BY <1>1, <1>17, <2>2, <3>1, Zenon
  <2> QED
    BY <2>1, <2>2
<1>18. Reaches(more, 0, X \cup {first}, v, h, near, c)
  <2>1. F \cup {t} = X \cup {first}
    BY <1>12, <1>13
  <2> QED
    BY <1>1, <1>6, <1>15, <2>1, Zenon
<1>19. /\ UNCHANGED <<mesh, stripVars, preserve, first, endpoints, strips>> /\ pc' = "Follow"
       /\ curr' = v /\ indexToPrev' = h /\ ids' = more /\ prevEntrance' = near /\ entrance' = c
  BY <1>2, <1>14
<1> QED
  BY <1>11, <1>13, <1>18, <1>19, ReachesKept

(* A strand that is completed has an ID more, and still few.               *)
LEMMA StrandEnds ==
  ASSUME GoodMesh, NEW list, NEW turn \in Nat, NEW F, IsFiniteSet(F), NEW t, NEW d, NEW a, NEW b,
         Reaches(list, turn, F, t, d, a, b)
  PROVE  LET more == Append(list, Opposite(t, d))
         IN  /\ ListSpells(more, turn, F \cup {t}) /\ Fits(more, F \cup {t})
             /\ Len(more) = Len(list) + 1 /\ Len(more) >= 3 /\ t \notin F
<1> DEFINE more == Append(list, Opposite(t, d))
<1>1. Strand(list, turn, F, t, d) /\ Fits(list, F)
  BY DEF Reaches
<1>2. /\ list \in Seq(Nat) /\ Len(list) \in Nat /\ Len(list) >= 2 /\ t \in InUse /\ t \notin F /\ d \in Dir
  BY <1>1 DEF Strand, ListSpells
<1>3. ListSpells(more, turn, F \cup {t})
  BY <1>1, StrandCompletes
<1>4. Len(more) = Len(list) + 1
  BY <1>2, VerticesAreIds, OneMoreId
<1>5. /\ Cardinality(F) \in Nat /\ Cardinality(F \cup {t}) = Cardinality(F) + 1
  BY <1>2, FS_CardinalityType, FS_AddElement, Zenon
<1>6. Fits(more, F \cup {t})
  BY <1>1, <1>2, <1>4, <1>5 DEF Fits
<1> QED
  BY <1>2, <1>3, <1>4, <1>6

(* The strip has come to its end.                                          *)
LEMMA FinishStripSpells ==
  ASSUME CollectOK, GoodMesh, CollectSpells, O!FinishStrip
  PROVE  CollectSpells' /\ (pc' = "Output" => Written(InUse)')
<1>1. PICK t, d, c, list : t = curr /\ d = indexToPrev /\ c = Opposite(t, d) /\ list = ids
  OBVIOUS
<1>2. /\ pc = "Follow" /\ t \in endpoint /\ strips' = Append(strips, Append(list, c))
      /\ UNCHANGED <<mesh, preserve>>
  BY <1>1, OutputSees DEF O!FinishStrip, O!Completing, O!FinishedStrip, O!mesh, mesh
<1>3. PICK W \in SUBSET InUse :
        Leads(W, t, d) /\ Reaches(list, 0, W \cup {first}, t, d, prevEntrance, entrance)
  BY <1>1, <1>2, Zenon DEF CollectSpells
<1>4. \/ pc' = "Collect" /\ Collected' = Collected \cup StripOf(first)
      \/ pc' = "Output" /\ InUse = Collected \cup StripOf(first)
  BY <1>1, <1>3, FinishStripStep
<1>5. PICK F : F = W \cup {first}
  BY Zenon
<1>6. StripOf(first) = F \cup {t}
  <2>1. StripOf(first) = W \cup {first, t}
    BY <1>2, <1>3, LeadsToTheEnd
  <2> QED
    BY <1>5, <2>1
<1>7. IsFiniteSet(F)
  <2>1. first \in InUse
    BY DEF CollectOK, StripsOK, Uncollected
  <2>2. F \subseteq InUse
    BY <1>5, <2>1
  <2> QED
    BY <2>2, PartsAreFinite DEF GoodMesh
<1>8. /\ ListSpells(Append(list, c), 0, StripOf(first)) /\ Fits(Append(list, c), StripOf(first))
      /\ Len(Append(list, c)) >= 3
  <2>1. PICK turn, a, b, more : /\ turn \in Nat /\ turn = 0 /\ a = prevEntrance /\ b = entrance
                                /\ more = Append(list, Opposite(t, d))
    BY Zenon
  <2>2. Reaches(list, turn, F, t, d, a, b)
    BY <1>3, <1>5, <2>1
  <2>3. /\ ListSpells(Append(list, Opposite(t, d)), turn, F \cup {t})
        /\ Fits(Append(list, Opposite(t, d)), F \cup {t})
        /\ Len(Append(list, Opposite(t, d))) >= 3
    BY <1>7, <2>1, <2>2, StrandEnds, Zenon
  <2> QED
    BY <1>1, <1>6, <2>1, <2>3
<1>9. Written(Collected)
  BY <1>2 DEF CollectSpells, Writing
<1> QED
  BY <1>2, <1>4, <1>8, <1>9, CollectedMore, Zenon

(* Before the first strip nothing is written, and nothing collected.       *)
LEMMA NothingWritten ==
  ASSUME strips = <<>>
  PROVE  Written({})
<1>1. strips \in Seq(Seq(Nat)) /\ DOMAIN strips = {} /\ StripPlaces = {}
  BY DEF StripPlaces
<1>2. \A tri, wound : InOutput(tri, wound) = 0 /\ InTris({}, tri, wound) = 0
  <2> SUFFICES ASSUME NEW tri, NEW wound
               PROVE  InOutput(tri, wound) = 0 /\ InTris({}, tri, wound) = 0
    OBVIOUS
  <2>1. /\ {place \in StripPlaces : Alike(SpelledAt(strips[place[1]], place[2]), tri, wound)} = {}
        /\ {t \in {} : Alike(Triple(t), tri, wound)} = {}
    BY <1>1
  <2> QED
    BY <2>1, FS_EmptySet DEF InOutput, InTris
<1> QED
  BY <1>1, <1>2 DEF Written

(* Collecting begins with nothing collected.                               *)
LEMMA StartOutputSpells ==
  ASSUME T!CoverInv, strips = <<>>, O!StartOutput
  PROVE  CollectSpells' /\ pc' = "Collect"
<1>1. Collected' = {} /\ pc' = "Collect" /\ UNCHANGED <<mesh, preserve, strips>>
  BY StartOutputStep DEF O!StartOutput, O!mesh, mesh
<1>2. Written({})'
  BY <1>1, NothingWritten, ReadAndWritten
<1>3. Written(Collected)'
  BY <1>1, <1>2 DEF Written
<1> QED
  BY <1>1, <1>3 DEF CollectSpells

(* Collecting the strips keeps what they spell.                            *)
LEMMA CollectingSpells ==
  ASSUME SessionInv, SpellInv, Collecting
  PROVE  SpellInv'
<1> USE DEF Reading, Preparing, Tunneled, Writing, Simply, T!Quiet, T!Digging, T!Cementing
<1>1. /\ pc = "Done" => T!CoverInv /\ strips = <<>>
      /\ pc \in Writing => CollectOK
  BY DEF SessionInv, PhasesOK, UntouchedOK, OutputOK, T!TriedInv
<1>2. /\ pc \in Writing \cup {"Done"} /\ pc' \in Writing \cup {"Output"}
      /\ UNCHANGED <<mesh, preserve, input>>
  <2>1. UNCHANGED <<mesh, preserve>>
    BY DEF Collecting, O!Step, O!StartOutput, O!CollectOne, O!CollectTwo, O!CollectCore, O!FollowStrip,
           O!FinishStrip, O!mesh, mesh
  <2>2. pc \in Writing \cup {"Done"} /\ pc' \in Writing \cup {"Output"}
    BY DEF Collecting, O!Step, O!StartOutput, O!CollectOne, O!CollectTwo, O!CollectCore, O!FollowStrip,
           O!FinishStrip, O!FinishedStrip
  <2> QED
    BY <2>1, <2>2 DEF Collecting, buildVars
<1>3. /\ GoodMesh /\ MeshRead(Len(input)) /\ CollectSpells
  BY <1>2 DEF SpellInv
<1>4. CollectSpells' /\ (pc' = "Output" => Written(InUse)')
  <2>1. CASE O!StartOutput
    <3>1. pc = "Done"
      BY <2>1 DEF O!StartOutput
    <3> QED
      BY <1>1, <2>1, <3>1, StartOutputSpells
  <2>2. CASE O!CollectOne
    <3>1. pc = "Collect"
      BY <2>2 DEF O!CollectOne
    <3> QED
      BY <1>1, <1>3, <2>2, <3>1, CollectOneSpells
  <2>3. CASE O!CollectTwo
    <3>1. pc = "Collect"
      BY <2>3 DEF O!CollectTwo
    <3> QED
      BY <1>1, <1>3, <2>3, <3>1, CollectTwoSpells
  <2>4. CASE O!CollectCore
    <3>1. pc = "Collect" /\ pc' = "Follow"
      BY <2>4 DEF O!CollectCore
    <3> QED
      BY <1>1, <1>3, <2>4, <3>1, CollectCoreSpells
  <2>5. CASE O!FollowStrip
    <3>1. pc = "Follow" /\ pc' = "Follow"
      BY <2>5 DEF O!FollowStrip
    <3> QED
      BY <1>1, <1>3, <2>5, <3>1, FollowStripSpells
  <2>6. CASE O!FinishStrip
    <3>1. pc = "Follow"
      BY <2>6 DEF O!FinishStrip
    <3> QED
      BY <1>1, <1>3, <2>6, <3>1, FinishStripSpells
  <2> QED
    BY <2>1, <2>2, <2>3, <2>4, <2>5, <2>6 DEF Collecting, O!Step
<1>5. GoodMesh'
  BY <1>2, <1>3, MeshKept
<1>6. MeshRead(Len(input))'
  <2>1. PICK n : n = Len(input)
    BY Zenon
  <2>2. MeshRead(n)'
    BY <1>2, <1>3, <2>1, ReadAndWritten
  <2> QED
    BY <1>2, <2>1, <2>2 DEF MeshRead
<1> QED
  BY <1>2, <1>4, <1>5, <1>6 DEF SpellInv

=============================================================================
