--------------------------- MODULE SpellingProofs ---------------------------
(***************************************************************************)
(* For all inputs, settings and numbers of calls, as long as no search is  *)
(* cancelled in the middle of a longer tunnel: the strips that each call   *)
(* returns spell the proper triangles of its list, each as often as the    *)
(* list has it and, where the mesh is oriented and the orientation is to   *)
(* be kept, wound the same way; the verifier accepts them, and the         *)
(* statistics of them are exact.  The invariant SpellInv of SessionInv     *)
(* says in every phase which triangles the IDs so far spell; it holds on   *)
(* top of SessionInv, which SessionProofs proves.                          *)
(***************************************************************************)
EXTENDS SessionProofs

-----------------------------------------------------------------------------
(***************************************************************************)
(* Building the triangles reads the list; preprocessing and tunneling      *)
(* leave what is spelled alone.                                            *)
(***************************************************************************)

(* The array that is handed over holds proper triangles, and neighbours    *)
(* have the vertices of their edge in common.                              *)
LEMMA MeshBuilt ==
  ASSUME B!IInv, B!MeshInv, pc = "Built"
  PROVE  GoodMesh
<1> USE MaxTrisAssumption
<1>1. trisCount \in 0 .. MaxTris /\ vertices \in [Tris -> [Dir -> Nat]] /\ B!TrisProper
  <2>1. trisCount \in Nat /\ trisCount <= MaxTris
    BY DEF B!IInv, B!CountersOK, B!IsInput
  <2> QED
    BY <2>1 DEF B!IInv, B!ArraysOK, Tris, Dir, B!Tris, B!Dir
<1>2. ASSUME NEW t \in Tris, NEW d \in Dir, neighbours[t][d] # Null
      PROVE  EndsOf(neighbours[t][d], indices[t][d]) = EndsOf(t, d)
  <2>1. PICK u, e : u = neighbours[t][d] /\ e = indices[t][d]
    OBVIOUS
  <2>0. /\ neighbours = B!Nb /\ B!Stitched(trisCount, B!Nb, indices) /\ B!UnseenSidesOpen
        /\ B!ArraysOK
    BY DEF B!IInv, B!HandedOver
  <2>2. u \in Tris /\ e \in Dir
    <3>1. t \in B!Tris /\ d \in B!Dir /\ B!Nb[t][d] # B!Null
      BY <1>2, <2>0 DEF Tris, Dir, Null, B!Tris, B!Dir, B!Null
    <3>2. B!Nb[t][d] \in 1 .. trisCount /\ indices[t][d] \in B!Dir
      BY <2>0, <3>1 DEF B!Stitched
    <3> QED
      BY <1>1, <2>0, <2>1, <3>2 DEF Tris, Dir, B!Dir
  <2>3. B!SideKey(u, e) = B!SideKey(t, d)
    <3>1. B!IsSeen(t, d)
      BY <1>2, <2>0 DEF B!UnseenSidesOpen, Tris, Dir, Null, B!Tris, B!Dir, B!Null
    <3> QED
      BY <1>2, <2>1, <3>1 DEF B!MeshInv, B!TwoByTwo, Tris, Dir, Null, B!Tris, B!Dir, B!Null
  <2>4. ASSUME NEW p \in Tris, NEW f \in Dir
        PROVE  \E a \in Nat, b \in Nat : B!SideKey(p, f) = B!EdgeKey(a, b) /\ EndsOf(p, f) = {a, b}
    <3>1. vertices[p][f] \in Nat /\ vertices[p][(f + 1) % 3] \in Nat
      BY <1>1 DEF Dir
    <3>2. B!SideKey(p, f) = B!EdgeKey(vertices[p][f], vertices[p][(f + 1) % 3])
      BY DEF B!SideKey, B!Edge
    <3>3. EndsOf(p, f) = {vertices[p][f], vertices[p][(f + 1) % 3]}
      BY DEF EndsOf, Edge
    <3> QED
      BY <3>1, <3>2, <3>3
  <2>5. PICK a \in Nat, b \in Nat : B!SideKey(t, d) = B!EdgeKey(a, b) /\ EndsOf(t, d) = {a, b}
    BY <2>4
  <2>6. PICK v \in Nat, w \in Nat : B!SideKey(u, e) = B!EdgeKey(v, w) /\ EndsOf(u, e) = {v, w}
    BY <2>2, <2>4
  <2>7. B!EdgeKey(v, w) = B!EdgeKey(a, b)
    BY <2>3, <2>5, <2>6
  <2>8. (v = a /\ w = b) \/ (v = b /\ w = a)
    BY <2>7 DEF B!EdgeKey
  <2>9. {v, w} = {a, b}
    BY <2>8
  <2> QED
    BY <2>1, <2>5, <2>6, <2>9
<1> QED
  BY <1>1, <1>2 DEF GoodMesh

(* A later proper triangle has a later place in the array.                 *)
LEMMA ProperInOrder ==
  ASSUME NEW list, NEW n \in Nat, NEW i \in M!ProperUpTo(list, n), NEW j \in M!ProperUpTo(list, n)
  PROVE  /\ IsFiniteSet(M!ProperUpTo(list, n))
         /\ Cardinality(M!ProperUpTo(list, i)) \in 1 .. Cardinality(M!ProperUpTo(list, n))
         /\ i < j => Cardinality(M!ProperUpTo(list, i)) < Cardinality(M!ProperUpTo(list, j))
<1>1. \A k \in Nat : IsFiniteSet(M!ProperUpTo(list, k)) /\ Cardinality(M!ProperUpTo(list, k)) \in Nat
  <2> SUFFICES ASSUME NEW k \in Nat
               PROVE  IsFiniteSet(M!ProperUpTo(list, k)) /\ Cardinality(M!ProperUpTo(list, k)) \in Nat
    OBVIOUS
  <2>1. IsFiniteSet(1 .. k)
    BY FS_Interval, 1 \in Int, k \in Int
  <2> QED
    BY <2>1, FS_Subset, FS_CardinalityType DEF M!ProperUpTo
<1>2. /\ i \in Nat /\ j \in Nat /\ i <= n /\ i \in M!ProperUpTo(list, i)
      /\ M!ProperUpTo(list, i) \subseteq M!ProperUpTo(list, n)
  BY DEF M!ProperUpTo
<1>3. Cardinality(M!ProperUpTo(list, i)) <= Cardinality(M!ProperUpTo(list, n))
  BY <1>1, <1>2, FS_Subset
<1>4. Cardinality(M!ProperUpTo(list, i)) # 0
  BY <1>1, <1>2, FS_EmptySet
<1>5. ASSUME i < j
      PROVE  Cardinality(M!ProperUpTo(list, i)) < Cardinality(M!ProperUpTo(list, j))
  <2>1. /\ M!ProperUpTo(list, i) \subseteq M!ProperUpTo(list, j)
        /\ j \in M!ProperUpTo(list, j) /\ j \notin M!ProperUpTo(list, i)
    BY <1>5 DEF M!ProperUpTo
  <2>2. /\ Cardinality(M!ProperUpTo(list, i)) <= Cardinality(M!ProperUpTo(list, j))
        /\ Cardinality(M!ProperUpTo(list, i)) # Cardinality(M!ProperUpTo(list, j))
    BY <1>1, <1>2, <2>1, FS_Subset
  <2> QED
    BY <1>1, <1>2, <2>2
<1> QED
  BY <1>1, <1>2, <1>3, <1>4, <1>5

(* The array holds the proper triangles of the list, each of them once.    *)
LEMMA ListBuilt ==
  ASSUME B!IInv, B!MeshInv, pc = "Built"
  PROVE  MeshRead(Len(input))
<1> DEFINE Q == M!ProperUpTo(input, Len(input))
           place(i) == Cardinality(M!ProperUpTo(input, i))
<1> HIDE DEF Q, place
<1>0. \A X : B!Cardinality(X) = Cardinality(X) /\ M!Cardinality(X) = Cardinality(X)
  BY DEF B!Cardinality, M!Cardinality, Cardinality, B!IsFiniteSet, M!IsFiniteSet, IsFiniteSet
<1>1. \A k : B!ProperUpTo(input, k) = M!ProperUpTo(input, k)
  <2>1. ASSUME NEW tri
        PROVE  B!IsProper(tri) = M!IsProper(tri)
    <3>1. {B!Vertex(tri, d) : d \in B!Dir} = {M!Vertex(tri, d) : d \in M!Dir}
      BY DEF B!Vertex, M!Vertex, B!Dir, M!Dir
    <3> QED
      BY <1>0, <3>1 DEF B!IsProper, M!IsProper
  <2> SUFFICES ASSUME NEW k
               PROVE  B!ProperUpTo(input, k) = M!ProperUpTo(input, k)
    OBVIOUS
  <2> QED
    BY <2>1 DEF B!ProperUpTo, M!ProperUpTo
<1>2. Len(input) \in Nat /\ \A i \in Q : i \in Nat /\ input[i] \in Nat \X Nat \X Nat
  BY DEF B!IInv, B!CountersOK, B!IsInput, M!ProperUpTo, Q
<1>3. trisCount = Cardinality(Q) /\ \A t \in InUse : \E i \in Q : place(i) = t
  <2>1. /\ read = Len(input) /\ B!ProperUpTo(input, read) = Q
        /\ \A i : B!Cardinality(B!ProperUpTo(input, i)) = place(i)
    BY <1>0, <1>1 DEF B!MeshInv, B!TrisRead, Q, place
  <2> QED
    BY <1>0, <2>1 DEF B!MeshInv, B!TrisRead, InUse
<1>4. ASSUME NEW i \in Q
      PROVE  Triple(place(i)) = input[i]
  <2>1. \A d \in Dir : vertices[place(i)][d] = M!Vertex(input[i], d)
    <3>1. /\ read = Len(input) /\ B!ProperUpTo(input, read) = Q
          /\ \A k : B!Cardinality(B!ProperUpTo(input, k)) = place(k)
      BY <1>0, <1>1 DEF B!MeshInv, B!TrisRead, Q, place
    <3>2. \A d : B!Vertex(input[i], d) = M!Vertex(input[i], d)
      BY DEF B!Vertex, M!Vertex
    <3> QED
      BY <3>1, <3>2 DEF B!MeshInv, B!TrisRead, B!Dir, Dir
  <2>2. /\ M!Vertex(input[i], 0) = input[i][1] /\ M!Vertex(input[i], 1) = input[i][2]
        /\ M!Vertex(input[i], 2) = input[i][3]
    BY DEF M!Vertex
  <2>3. Triple(place(i)) = <<input[i][1], input[i][2], input[i][3]>>
    BY <2>1, <2>2 DEF Triple, Dir
  <2> QED
    BY <1>2, <2>3
<1>5. /\ \A i \in Q : place(i) \in InUse
      /\ \A i, j \in Q : place(i) = place(j) => i = j
      /\ IsFiniteSet(Q)
  <2>1. \A i, j \in Q : place(i) \in 1 .. Cardinality(Q) /\ (i < j => place(i) < place(j))
    BY <1>2, ProperInOrder DEF Q, place
  <2>2. \A i \in Q : place(i) \in InUse
    BY <1>3, <2>1 DEF InUse
  <2>3. ASSUME NEW i \in Q, NEW j \in Q, place(i) = place(j)
        PROVE  i = j
    <3>1. place(i) \in Int /\ ~(i < j) /\ ~(j < i)
      BY <2>1, <2>3
    <3> QED
      BY <1>2, <3>1
  <2>4. IsFiniteSet(Q)
    <3>1. IsFiniteSet(1 .. Len(input))
      BY <1>2, FS_Interval, 1 \in Int, Len(input) \in Int
    <3> QED
      BY <3>1, FS_Subset DEF M!ProperUpTo, Q
  <2> QED
    BY <2>2, <2>3, <2>4
<1>6. ASSUME NEW wound \in BOOLEAN, NEW tri
      PROVE  Cardinality({i \in Q : Alike(input[i], tri, wound)}) = InTris(InUse, tri, wound)
  <2> DEFINE here == {i \in Q : Alike(input[i], tri, wound)}
             there == {t \in InUse : Alike(Triple(t), tri, wound)}
             f == [i \in here |-> place(i)]
  <2>1. \A i \in here : f[i] \in there
    BY <1>4, <1>5
  <2>2. \A i, j \in here : f[i] = f[j] => i = j
    BY <1>5
  <2>3. \A t \in there : \E i \in here : f[i] = t
    BY <1>3, <1>4
  <2>4. f \in [here -> there] /\ IsFiniteSet(here)
    BY <1>5, <2>1, FS_Subset
  <2> HIDE DEF here, there, f
  <2>5. f \in Bijection(here, there)
    BY <2>2, <2>3, <2>4 DEF Bijection, Injection, Surjection, IsInjective
  <2>6. Cardinality(there) = Cardinality(here)
    BY <2>4, <2>5, FS_Bijection DEF ExistsBijection
  <2> QED
    BY <2>6 DEF here, there, InTris
<1> QED
  BY <1>6 DEF MeshRead, Q

(* Building the triangles keeps what has been read.                        *)
LEMMA BuildingSpells ==
  ASSUME SessionInv, SpellInv, Building
  PROVE  SpellInv'
<1>1. pc \in {"Read", "Stitch"} /\ pc' \in Reading
  BY BuildingFrame
<1>2. pc \in Reading
  BY <1>1 DEF Reading
<1>3. B!MeshInv'
  <2>1. B!IInv /\ B!MeshInv /\ [B!Next]_(B!vars) => B!MeshInv'
    BY PhasesApply, B!NextMeshInv DEF B!MaxTrisAssumption, B!InputsAssumption
  <2> QED
    BY <1>2, <2>1 DEF SessionInv, PhasesOK, SpellInv, Building, B!Next
<1> QED
  BY <1>1, <1>3 DEF SpellInv, CollectSpells, Reading, Writing, Simply

(* An array without triangles spells nothing, and needs no strips.         *)
LEMMA NothingToSpell ==
  ASSUME trisCount = 0, strips = <<>>
  PROVE  Written(InUse)
<1>1. InUse = {}
  BY DEF InUse
<1> QED
  BY <1>1, NothingWritten

(* Nothing has been read yet.                                              *)
LEMMA BlankIsRead ==
  B!Blank /\ pc = "Read" => B!MeshInv
BY PhasesApply, B!BlankMeshInv DEF B!MaxTrisAssumption

(* The call begins.                                                        *)
LEMMA CallSpells ==
  ASSUME SessionInv, ReturnAtOnce \/ StartBuild
  PROVE  SpellInv'
<1> USE DEF Reading, Preparing, Tunneled, Writing, Simply, T!Quiet, T!Digging, T!Cementing
<1>1. /\ pc = "Call" /\ (pc' = "Read" \/ (pc' = "Output" /\ input = <<>>))
      /\ UNCHANGED <<mesh, stripVars, settings, sharedByte, buildVars, strips>>
  BY DEF ReturnAtOnce, StartBuild
<1>2. B!Blank' /\ strips' = <<>> /\ trisCount' = 0
  BY <1>1 DEF SessionInv, UntouchedOK, B!Blank, mesh, stripVars, buildVars
<1>3. pc' = "Read" => B!MeshInv'
  <2>1. (B!Blank /\ pc = "Read" => B!MeshInv)'
    BY BlankIsRead, PTL
  <2> QED
    BY <1>2, <2>1
<1>4. Written(InUse)'
  <2>1. (trisCount = 0 /\ strips = <<>> => Written(InUse))'
    BY NothingToSpell, PTL
  <2> QED
    BY <1>2, <2>1
<1>5. pc' = "Output" => MeshRead(Len(input))'
  <2>1. InUse' = {}
    BY <1>2 DEF InUse
  <2>2. pc' = "Output" => input' = <<>>
    BY <1>1 DEF buildVars
  <2>3. M!ProperUpTo(<<>>, 0) = {} /\ Len(<<>>) = 0
    BY DEF M!ProperUpTo
  <2>4. \A tri, wound : /\ {i \in {} : Alike(input[i], tri, wound)}' = {}
                        /\ {t \in {} : Alike(Triple(t), tri, wound)}' = {}
    OBVIOUS
  <2>5. M!ProperUpTo(<<>>, 0)' = {}
    BY DEF M!ProperUpTo
  <2> QED
    BY <2>1, <2>2, <2>3, <2>4, <2>5 DEF MeshRead, InTris
<1> QED
  BY <1>1, <1>3, <1>4, <1>5 DEF SpellInv, CollectSpells

(* The triangles are handed over.                                          *)
LEMMA DispatchSpells ==
  ASSUME SessionInv, SpellInv, Dispatch
  PROVE  SpellInv'
<1> USE DEF Reading, Preparing, Tunneled, Writing, Simply, T!Quiet, T!Digging, T!Cementing
<1>1. /\ pc = "Built"
      /\ pc' = IF trisCount = 0 THEN "Output" ELSE IF useTunneling THEN "Order" ELSE "SimpleOrder"
      /\ UNCHANGED <<mesh, stripVars, settings, sharedByte, buildVars, adjacencyVars, endpointVars,
                     strips>>
  BY DEF Dispatch
<1>2. /\ B!IInv /\ B!MeshInv /\ NoStrips /\ strips = <<>>
  BY <1>1 DEF SessionInv, PhasesOK, UntouchedOK, SpellInv
<1>3. UNCHANGED <<mesh, preserve>> /\ input' = input
  BY <1>1 DEF settings, buildVars
<1>4. GoodMesh'
  BY <1>1, <1>2, <1>3, MeshBuilt, MeshKept
<1>5. MeshRead(Len(input))'
  <2>1. PICK n : n = Len(input)
    BY Zenon
  <2>2. MeshRead(n)'
    BY <1>1, <1>2, <1>3, <2>1, ListBuilt, ReadAndWritten
  <2> QED
    BY <1>3, <2>1, <2>2 DEF MeshRead
<1>6. pc' = "Output" => Written(InUse)'
  <2>1. (trisCount = 0 /\ strips = <<>> => Written(InUse))'
    BY NothingToSpell, PTL
  <2> QED
    BY <1>1, <1>2, <2>1 DEF mesh
<1>7. pc' = "SimpleOrder" => SimpleOK'
  <2> SUFFICES ASSUME pc' = "SimpleOrder" PROVE SimpleOK'
    OBVIOUS
  <2>1. /\ P!MeshOK /\ MeshOK /\ sharedByte = [t \in P!Tris |-> P!NeighboursCount(t)]
        /\ linkState = [t \in P!Tris |-> {}] /\ endpoint = {}
    BY <1>1, <1>2, BuiltForTheAlgorithms
  <2>2. P!ArraysOK /\ P!CountsOK
    BY <1>2, <2>1, PhasesApply, P!NothingStripped DEF NoStrips, P!Tris, Tris, P!MaxTrisAssumption
  <2>3. P!ArraysOK' /\ P!CountsOK'
    BY <1>1, <2>2 DEF P!ArraysOK, P!CountsOK, P!MeshOK, P!InUse, P!Open, mesh, stripVars, adjacencyVars,
                      endpointVars
  <2>4. MeshOK' /\ stripped' = {}
    BY <1>1, <1>2, <2>1 DEF MeshOK, NoStrips, mesh, adjacencyVars
  <2>5. Written({})'
    BY <1>1, <1>2, <1>3, NothingWritten, ReadAndWritten
  <2>6. Written(stripped)'
    BY <2>4, <2>5 DEF Written
  <2> QED
    BY <2>3, <2>4, <2>6 DEF SimpleOK
<1> QED
  BY <1>1, <1>4, <1>5, <1>6, <1>7 DEF SpellInv, CollectSpells

(* Preprocessing and tunneling leave alone what the mesh spells.           *)
LEMMA UnwrittenSpells ==
  ASSUME SpellInv, pc \in Preparing \cup Tunneled, pc' \in Preparing \cup Tunneled \cup {"Done"},
         UNCHANGED <<mesh, settings, buildVars>>
  PROVE  SpellInv'
<1> USE DEF Reading, Preparing, Tunneled, Writing, Simply, T!Quiet, T!Digging, T!Cementing
<1>1. UNCHANGED <<mesh, preserve>> /\ input' = input
  BY DEF settings, buildVars
<1>2. GoodMesh' /\ MeshRead(Len(input))'
  <2>1. PICK n : n = Len(input)
    BY Zenon
  <2>2. GoodMesh /\ MeshRead(n)
    BY <2>1 DEF SpellInv
  <2>3. GoodMesh' /\ MeshRead(n)'
    BY <1>1, <2>2, MeshKept, ReadAndWritten
  <2> QED
    BY <1>1, <2>1, <2>3 DEF MeshRead
<1> QED
  BY <1>2 DEF SpellInv, CollectSpells

(* Preprocessing comes before the strips are written.                      *)
LEMMA PreprocessingSpells ==
  ASSUME SpellInv, Preprocessing
  PROVE  SpellInv'
<1>1. /\ pc \in Preparing /\ pc' \in Preparing \cup {"Start"}
      /\ UNCHANGED <<mesh, settings, buildVars>>
  BY PreprocessingFrame
<1>2. pc \in Preparing \cup Tunneled /\ pc' \in Preparing \cup Tunneled \cup {"Done"}
  BY <1>1 DEF Tunneled, T!Quiet
<1> QED
  BY <1>1, <1>2, UnwrittenSpells

(* So does tunneling.                                                      *)
LEMMA TunnelingSpells ==
  ASSUME SessionInv, SpellInv, Tunneling
  PROVE  SpellInv'
<1>1. pc \in Tunneled /\ UNCHANGED <<mesh, settings, buildVars>>
  BY TunnelingFrame
<1>2. T!TriedInv'
  BY <1>1, TunnelingKeeps DEF SessionInv, PhasesOK, Tunneling
<1>3. pc' \in Tunneled
  BY <1>2 DEF T!TriedInv, T!CoverInv, T!IInv, T!CountersOK, Tunneled
<1> QED
  BY <1>1, <1>3, UnwrittenSpells

(* The strip that is being built stays as it is.                           *)
LEMMA GrowthKept ==
  ASSUME UNCHANGED vars
  PROVE  /\ \A F, turn : GrowsBackward(turn, F)' <=> GrowsBackward(turn, F)
         /\ \A F : GrowsForward(F)' <=> GrowsForward(F)
<1>1. UNCHANGED <<mesh, preserve>> /\ UNCHANGED <<strips, ids, core, coreDirs, stripped, prefixCount, end>>
  BY DEF vars, settings, adjacencyVars, simpleVars
<1>2. /\ \A a, b, t, d, n : Along(a, b, t, d, n)' <=> Along(a, b, t, d, n)
      /\ \A list, turn, F, t, d : Strand(list, turn, F, t, d)' <=> Strand(list, turn, F, t, d)
      /\ \A F : Written(F)' <=> Written(F)
  BY <1>1, MeshKept, ReadAndWritten
<1>3. \A list, turn, F : GrowsStrand(list, turn, F)' <=> GrowsStrand(list, turn, F)
  BY <1>1, <1>2 DEF GrowsStrand, Reaches, Fits, S!End
<1>4. SimpleEntrances' = SimpleEntrances
  BY <1>1 DEF SimpleEntrances, CoreEntrances, OtherEnd, Edge, mesh
<1>5. Backward(ids)' = Backward(ids)
  BY <1>1, <1>4 DEF Backward
<1>6. PrefixTurned(ids, prefixCount)' = PrefixTurned(ids, prefixCount)
  BY <1>1 DEF PrefixTurned
<1>7. ASSUME NEW F, NEW turn PROVE GrowsBackward(turn, F)' <=> GrowsBackward(turn, F)
  <2>1. GrowsStrand(Backward(ids), turn, F)' <=> GrowsStrand(Backward(ids), turn, F)
    BY <1>3, <1>5 DEF GrowsStrand
  <2>2. Along(SimpleEntrances[2], SimpleEntrances[1], core[1], coreDirs[1], turn + 1)'
          <=> Along(SimpleEntrances[2], SimpleEntrances[1], core[1], coreDirs[1], turn + 1)
    <3>1. PICK a, b, t, d : /\ a = SimpleEntrances[2] /\ b = SimpleEntrances[1]
                            /\ t = core[1] /\ d = coreDirs[1]
      OBVIOUS
    <3>2. Along(a, b, t, d, turn + 1)' <=> Along(a, b, t, d, turn + 1)
      BY <1>2
    <3> QED
      BY <1>1, <1>4, <3>1, <3>2 DEF Along
  <2>3. Written(stripped \ (F \cup {end.tri, core[2], core[3]}))'
          <=> Written(stripped \ (F \cup {end.tri, core[2], core[3]}))
    <3>1. PICK X : X = stripped \ (F \cup {end.tri, core[2], core[3]})
      BY Zenon
    <3>2. Written(X)' <=> Written(X)
      BY <1>2
    <3>3. (stripped \ (F \cup {end.tri, core[2], core[3]}))' = X
      BY <1>1, <3>1
    <3> QED
      BY <3>1, <3>2, <3>3, Zenon DEF Written
  <2> QED
    BY <1>1, <2>1, <2>2, <2>3, Zenon DEF GrowsBackward
<1>8. ASSUME NEW F PROVE GrowsForward(F)' <=> GrowsForward(F)
  <2>1. GrowsStrand(PrefixTurned(ids, prefixCount), 0, F)'
          <=> GrowsStrand(PrefixTurned(ids, prefixCount), 0, F)
    BY <1>3, <1>6 DEF GrowsStrand
  <2>2. Written(stripped \ (F \cup {end.tri}))' <=> Written(stripped \ (F \cup {end.tri}))
    <3>1. PICK X : X = stripped \ (F \cup {end.tri})
      BY Zenon
    <3>2. Written(X)' <=> Written(X)
      BY <1>2
    <3>3. (stripped \ (F \cup {end.tri}))' = X
      BY <1>1, <3>1
    <3> QED
      BY <3>1, <3>2, <3>3, Zenon DEF Written
  <2> QED
    BY <1>1, <2>1, <2>2 DEF GrowsForward
<1> QED
  BY <1>7, <1>8

(* So does what the simple algorithm has done.                             *)
LEMMA SimpleKept ==
  ASSUME UNCHANGED vars, SimpleOK
  PROVE  SimpleOK'
<1>1. /\ UNCHANGED <<mesh, preserve>> /\ UNCHANGED <<mesh, stripVars, endpointVars, pc, sharedByte>>
      /\ UNCHANGED <<strips, lists, core, coreDirs, stripped, isForward>>
  BY DEF vars, settings, adjacencyVars, simpleVars
<1>2. InUse' = InUse /\ (MeshOK' <=> MeshOK) /\ \A F : Written(F)' <=> Written(F)
  BY <1>1, MeshKept, ReadAndWritten
<1>3. P!ArraysOK' /\ P!CountsOK'
  BY <1>1 DEF SimpleOK, P!ArraysOK, P!CountsOK, P!MeshOK, P!InUse, P!Open, mesh, stripVars, endpointVars
<1>4. IF pc' = "SimpleOrder" THEN stripped' = {}
      ELSE P!Sorted(sharedByte', lists', InUse' \ stripped')
  BY <1>1, <1>2 DEF SimpleOK
<1>6. /\ pc' \in {"SimpleOrder", "SimpleCore"} => Written(stripped)'
      /\ pc' = "SimpleSecond" => IsCore(1)' /\ Written(stripped \ {core[1]})'
      /\ pc' = "SimpleThird" => IsCore(2)' /\ Written(stripped \ {core[1], core[2]})'
  <2>1. \A n : IsCore(n)' <=> IsCore(n)
    BY <1>1 DEF IsCore, mesh
  <2>2. PICK X, Y, Z : X = stripped /\ Y = stripped \ {core[1]} /\ Z = stripped \ {core[1], core[2]}
    BY Zenon
  <2>3. /\ Written(X)' <=> Written(X)
        /\ Written(Y)' <=> Written(Y)
        /\ Written(Z)' <=> Written(Z)
    BY <1>2
  <2>4. /\ Written(stripped)' <=> Written(stripped)
        /\ Written(stripped \ {core[1]})' <=> Written(stripped \ {core[1]})
        /\ Written(stripped \ {core[1], core[2]})' <=> Written(stripped \ {core[1], core[2]})
    BY <1>1, <2>2, <2>3, Zenon DEF Written
  <2> QED
    BY <1>1, <2>1, <2>4 DEF SimpleOK
<1>7. pc' = "SimpleGrow" =>
        /\ IsCore(3)' /\ coreDirs'[2] # indices'[core'[1]][coreDirs'[1]]
        /\ IF isForward' THEN \E F \in SUBSET stripped' : GrowsForward(F)'
           ELSE \E F \in SUBSET stripped', turn \in {0, 1} : GrowsBackward(turn, F)'
  <2>1. IsCore(3)' <=> IsCore(3)
    BY <1>1 DEF IsCore, mesh
  <2>2. \A F, turn : /\ GrowsBackward(turn, F)' <=> GrowsBackward(turn, F)
                     /\ GrowsForward(F)' <=> GrowsForward(F)
    BY GrowthKept
  <2> QED
    BY <1>1, <2>1, <2>2 DEF SimpleOK, mesh
<1> QED
  BY <1>1, <1>2, <1>3, <1>4, <1>6, <1>7 DEF SimpleOK

(* And the strips that are being collected.                                *)
LEMMA CollectionKept ==
  ASSUME UNCHANGED vars, CollectSpells
  PROVE  CollectSpells'
<1>1. /\ UNCHANGED <<mesh, preserve>>
      /\ UNCHANGED <<mesh, stripVars, pc, first, endpoints, strips, ids, strandVars>>
  BY DEF vars, settings, endpointVars
<1>2. /\ InUse' = InUse /\ \A t : StripOf(t)' = StripOf(t)
      /\ \A list, turn, F, t, d : Strand(list, turn, F, t, d)' <=> Strand(list, turn, F, t, d)
      /\ \A F : Written(F)' <=> Written(F)
  BY <1>1, SameStrips, MeshKept, ReadAndWritten, Zenon
<1>3. Collected' = Collected
  BY <1>1, <1>2 DEF Collected, Uncollected, Behind
<1>4. Written(Collected)' <=> Written(Collected)
  <2>1. PICK X : X = Collected
    OBVIOUS
  <2>2. Written(X)' <=> Written(X)
    BY <1>2
  <2> QED
    BY <1>3, <2>1, <2>2 DEF Written
<1>5. ASSUME pc = "Follow"
      PROVE  \E W \in SUBSET InUse' :
               /\ Leads(W, curr, indexToPrev)'
               /\ Reaches(ids, 0, W \cup {first}, curr, indexToPrev, prevEntrance, entrance)'
  <2>1. PICK W \in SUBSET InUse :
          /\ Leads(W, curr, indexToPrev)
          /\ Reaches(ids, 0, W \cup {first}, curr, indexToPrev, prevEntrance, entrance)
    BY <1>5 DEF CollectSpells
  <2>2. Leads(W, curr, indexToPrev)'
    BY <1>1, <2>1, SameLeads DEF strandVars
  <2>3. PICK list, F, t, d : list = ids /\ F = W \cup {first} /\ t = curr /\ d = indexToPrev
    BY Zenon
  <2>4. Strand(list, 0, F, t, d) /\ (Strand(list, 0, F, t, d)' <=> Strand(list, 0, F, t, d))
    BY <1>2, <2>1, <2>3 DEF Reaches
  <2>5. Strand(ids, 0, W \cup {first}, curr, indexToPrev)'
    BY <1>1, <2>3, <2>4 DEF Strand, strandVars
  <2>6. Reaches(ids, 0, W \cup {first}, curr, indexToPrev, prevEntrance, entrance)'
    BY <1>1, <2>1, <2>5 DEF Reaches, Fits, strandVars
  <2> QED
    BY <1>2, <2>2, <2>6
<1> QED
  BY <1>1, <1>4, <1>5 DEF CollectSpells

(* What the caller does in between leaves all of it alone.                 *)
LEMMA SpellKept ==
  ASSUME SpellInv, UNCHANGED vars
  PROVE  SpellInv'
<1>1. UNCHANGED <<mesh, preserve>> /\ UNCHANGED <<pc, strips, input, read, edge, openEdges, sharedByte>>
  BY DEF vars, settings, buildVars
<1>2. pc \in Reading => B!MeshInv'
  <2>1. B!MeshInv' <=> B!MeshInv
    <3>1. \A t, d : /\ B!SideKey(t, d)' = B!SideKey(t, d) /\ B!Place(t, d)' = B!Place(t, d)
                    /\ B!IsSeen(t, d)' = B!IsSeen(t, d)
      BY <1>1 DEF B!SideKey, B!Edge, B!EdgeKey, B!SidesTo, B!Place, B!IsSeen, mesh
    <3>2. B!TrisRead' <=> B!TrisRead
      BY <1>1 DEF B!TrisRead, B!ProperUpTo, B!IsProper, B!Vertex, mesh
    <3>3. B!TwoByTwo' <=> B!TwoByTwo
      BY <1>1, <3>1 DEF B!TwoByTwo, mesh
    <3>4. (B!OpenIsLast' <=> B!OpenIsLast) /\ (B!LastOnEdge' <=> B!LastOnEdge)
      BY <1>1, <3>1 DEF B!OpenIsLast, B!LastOnEdge, B!OnSameEdge, mesh
    <3> QED
      BY <3>2, <3>3, <3>4 DEF B!MeshInv
  <2> QED
    BY <2>1 DEF SpellInv
<1>3. (GoodMesh' <=> GoodMesh) /\ (MeshRead(Len(input))' <=> MeshRead(Len(input)))
  <2>1. PICK n : n = Len(input)
    BY Zenon
  <2>2. (GoodMesh' <=> GoodMesh) /\ (MeshRead(n)' <=> MeshRead(n))
    BY <1>1, MeshKept, ReadAndWritten
  <2> QED
    BY <1>1, <2>1, <2>2 DEF MeshRead
<1>4. CollectSpells' /\ (pc \in Simply => SimpleOK')
  BY CollectionKept, SimpleKept DEF SpellInv
<1>5. Written(InUse)' <=> Written(InUse)
  <2>1. PICK X : X = InUse
    OBVIOUS
  <2>2. (Written(X)' <=> Written(X)) /\ InUse' = X
    BY <1>1, <2>1, MeshKept, ReadAndWritten
  <2> QED
    BY <2>1, <2>2 DEF Written
<1> QED
  BY <1>1, <1>2, <1>3, <1>4, <1>5 DEF SpellInv

(* Another call begins as if nothing had been written.                     *)
LEMMA CallAgainSpells ==
  CallAgain => SpellInv'
BY DEF CallAgain, SpellInv, CollectSpells, Reading, Writing, Simply

(* So does the first one.                                                  *)
LEMMA InitSpells ==
  SessionInit => SpellInv
BY DEF SessionInit, Init, SpellInv, CollectSpells, Reading, Writing, Simply

-----------------------------------------------------------------------------
(***************************************************************************)
(* The simple algorithm: from the core triangles forward.                  *)
(***************************************************************************)

(* The simple algorithm has the same adjacency lists as preprocessing, and *)
(* reads the same array.                                                   *)
LEMMA SimpleSees ==
  /\ \A t, d : S!Edge(t, d) = Edge(t, d) /\ S!Opposite(t, d) = Opposite(t, d)
  /\ \A e, f : S!CoreEntrances(e, f) = CoreEntrances(e, f)
  /\ \A t : S!Open(t) = P!Open(t)
  /\ \A t, i : S!RemainingIndex(t, i) = RemainingIndex(t, i)
<1> QED
  BY DEF S!Edge, Edge, S!Opposite, Opposite, S!CoreEntrances, S!OtherEnd, CoreEntrances, OtherEnd,
         S!Open, P!Open, S!Dir, P!Dir, S!Null, P!Null, S!RemainingIndex, RemainingIndex

(* ... the same core triangle ...                                          *)
LEMMA SameLists ==
  /\ S!HasCore <=> P!HasCore
  /\ S!FirstCore = P!FirstCore
  /\ S!LastCore = P!LastCore /\ S!NextCoreDir = P!NextCoreDir /\ S!NextCore = P!NextCore
  /\ S!NotFound = P!NotFound
<1>1. (S!HasCore <=> P!HasCore) /\ S!FirstCore = P!FirstCore
  BY DEF S!HasCore, P!HasCore, S!FirstCore, P!FirstCore
<1>2. S!LastCore = P!LastCore /\ S!NotFound = P!NotFound
  BY DEF S!LastCore, P!LastCore, S!NotFound, P!NotFound
<1>3. S!NextCoreDir = P!NextCoreDir
  BY DEF S!NextCoreDir, P!NextCoreDir, S!LastCore, P!LastCore, S!NotFound, P!NotFound, S!CountAt, P!CountAt,
         S!Open, P!Open, S!Dir, P!Dir, S!Null, P!Null
<1> QED
  BY <1>1, <1>2, <1>3 DEF S!NextCore, P!NextCore

(* ... the same order of the lists ...                                     *)
LEMMA SameOrder ==
  S!OrderedLists = P!OrderedLists
<1>1. \A X : S!Descending(X) = P!Descending(X)
  BY Zenon DEF S!Descending, P!Descending, S!Cardinality, P!Cardinality
<1> QED
  BY <1>1 DEF S!OrderedLists, P!OrderedLists, S!InUse, P!InUse

(* ... and the same triangle taken out of them.                            *)
LEMMA SamePropagation ==
  ASSUME NEW t
  PROVE  S!SetStrippedAndPropagate(t) <=> P!SetStrippedAndPropagate(t)
<1>1. \A u, list : S!RemoveFromList(u, list) = P!RemoveFromList(u, list)
  BY DEF S!RemoveFromList, P!RemoveFromList, S!PlaceIn, P!PlaceIn
<1>2. \A u, a : S!Demote(u, a) = P!Demote(u, a)
  BY <1>1, Zenon DEF S!Demote, P!Demote, S!PrependToList, P!PrependToList
<1>3. \A u, d, a : S!Visit(u, d, a) = P!Visit(u, d, a)
  BY <1>2, SimpleSees DEF S!Visit, P!Visit
<1>4. S!Without(t) = P!Without(t)
  BY <1>1 DEF S!Without, P!Without
<1>5. S!Propagated(t) = P!Propagated(t)
  BY <1>3, <1>4 DEF S!Propagated, P!Propagated
<1> QED
  BY <1>5 DEF S!SetStrippedAndPropagate, P!SetStrippedAndPropagate

(* A triangle that joins a strip leaves the lists and the counts exact.    *)
LEMMA SimpleStrips ==
  ASSUME SimpleOK, pc # "SimpleOrder", NEW t \in InUse \ stripped, S!SetStrippedAndPropagate(t),
         UNCHANGED <<mesh, stripVars, endpointVars>>, core' \in Seq(Tris), coreDirs' \in Seq(Dir)
  PROVE  /\ MeshOK' /\ P!ArraysOK' /\ P!CountsOK' /\ InUse' = InUse
         /\ P!Sorted(sharedByte', lists', InUse' \ stripped')
         /\ stripped' = stripped \cup {t} /\ stripped' \subseteq InUse
<1>1. P!ArraysOK /\ P!AllSorted /\ t \in P!InUse \ stripped
  BY DEF SimpleOK, P!AllSorted, P!InUse, InUse
<1>2. P!SetStrippedAndPropagate(t) /\ UNCHANGED P!mesh
  BY SamePropagation DEF P!mesh, mesh
<1>3. /\ sharedByte' \in [P!Tris -> 0 .. 3] /\ stripped' = stripped \cup {t}
      /\ stripped' \subseteq P!InUse'
      /\ P!Sorted(sharedByte', lists', P!InUse' \ stripped')
      /\ \A u \in P!InUse' \ stripped' : sharedByte'[u] = P!Cardinality(P!Open(u)')
  BY <1>1, <1>2, PhasesApply, P!Propagation DEF P!MaxTrisAssumption
<1>4. InUse' = InUse /\ P!InUse' = InUse
  BY DEF InUse, P!InUse, mesh
<1>5. MeshOK' /\ P!MeshOK'
  BY DEF SimpleOK, P!ArraysOK, P!MeshOK, MeshOK, mesh
<1>6. P!ArraysOK'
  BY <1>1, <1>3, <1>4, <1>5
  DEF P!ArraysOK, stripVars, endpointVars, P!Tris, P!Dir, Tris, Dir, mesh, InUse, P!InUse
<1>7. P!CountsOK'
  BY <1>3 DEF P!CountsOK
<1> QED
  BY <1>3, <1>4, <1>5, <1>6, <1>7

(* The lists are ordered.                                                  *)
LEMMA OrderTrisSpells ==
  ASSUME SimpleOK, S!OrderTris, UNCHANGED endpointVars
  PROVE  SimpleOK'
<1>1. /\ pc = "SimpleOrder" /\ pc' = "SimpleCore" /\ lists' = P!OrderedLists
      /\ UNCHANGED <<mesh, stripVars, stripped, sharedByte, core, coreDirs, preserve, strips>>
  BY SameOrder DEF S!OrderTris, S!mesh, S!stripVars, S!coreVars, mesh, stripVars
<1>2. stripped = {} /\ Written(stripped)
  BY <1>1 DEF SimpleOK
<1>3. P!Sorted(sharedByte, P!OrderedLists, P!InUse)
  BY PhasesApply, P!OrderedAreSorted DEF SimpleOK, P!ArraysOK, P!MaxTrisAssumption
<1>4. P!Sorted(sharedByte', lists', InUse' \ stripped')
  <2>1. InUse' \ stripped' = P!InUse
    BY <1>1, <1>2 DEF InUse, P!InUse, mesh
  <2> QED
    BY <1>1, <1>3, <2>1
<1>5. MeshOK' /\ P!ArraysOK' /\ P!CountsOK'
  BY <1>1 DEF SimpleOK, MeshOK, P!ArraysOK, P!CountsOK, P!MeshOK, P!InUse, P!Open, mesh, stripVars, endpointVars
<1>6. Written(stripped)'
  <2>1. PICK X : X = stripped
    OBVIOUS
  <2>2. Written(X)'
    BY <1>1, <1>2, <2>1, ReadAndWritten
  <2> QED
    BY <1>1, <2>1, <2>2 DEF Written
<1> QED
  BY <1>1, <1>4, <1>5, <1>6 DEF SimpleOK

(* Without a head in any list every triangle is written.                   *)
LEMMA NoCoreLeftSpells ==
  ASSUME SimpleOK, S!NoCoreLeft
  PROVE  Written(InUse)' /\ pc' = "Output"
<1>1. /\ pc = "SimpleCore" /\ pc' = "Output" /\ ~P!HasCore /\ UNCHANGED <<mesh, preserve, strips>>
  BY SameLists DEF S!NoCoreLeft, S!mesh, mesh
<1>2. P!ArraysOK /\ P!AllSorted /\ Written(stripped)
  BY <1>1 DEF SimpleOK, P!AllSorted, P!InUse, InUse
<1>3. stripped = InUse
  BY <1>1, <1>2, PhasesApply, P!AllStripped DEF P!MaxTrisAssumption, P!InUse, InUse
<1>4. PICK X : X = InUse
  OBVIOUS
<1>5. Written(X)' /\ InUse' = X
  BY <1>1, <1>2, <1>3, <1>4, ReadAndWritten, MeshKept
<1> QED
  BY <1>1, <1>4, <1>5 DEF Written

(* What is written stays written.                                          *)
LEMMA StillWritten ==
  ASSUME UNCHANGED <<mesh, preserve, strips>>, NEW X, Written(X), NEW Y, Y = X
  PROVE  Written(Y)'
BY ReadAndWritten

(* The first core triangle is in no strip yet.                             *)
LEMMA BuildFirstSpells ==
  ASSUME SimpleOK, S!BuildFirst, UNCHANGED endpointVars
  PROVE  SimpleOK'
<1>1. PICK t : t = P!FirstCore
  OBVIOUS
<1>2. /\ pc = "SimpleCore" /\ pc' = "SimpleSecond" /\ P!HasCore /\ S!SetStrippedAndPropagate(t)
      /\ core' = <<t>> /\ coreDirs' = <<>>
      /\ UNCHANGED <<mesh, stripVars, preserve, strips>>
  BY <1>1, SameLists DEF S!BuildFirst, S!StripFirst, S!mesh, S!stripVars, mesh, stripVars
<1>3. t \in InUse \ stripped
  <2>1. P!ArraysOK /\ P!AllSorted
    BY <1>2 DEF SimpleOK, P!AllSorted, P!InUse, InUse
  <2> QED
    BY <1>1, <1>2, <2>1, PhasesApply, P!FirstCoreFound DEF P!MaxTrisAssumption, P!InUse, InUse
<1>4. t \in Tris
  BY <1>3, MaxTrisAssumption DEF SimpleOK, MeshOK, IsMesh, InUse, Tris
<1>5. core' \in Seq(Tris) /\ coreDirs' \in Seq(Dir) /\ Len(core') = 1 /\ Len(coreDirs') = 0
  BY <1>2, <1>4
<1>6. /\ MeshOK' /\ P!ArraysOK' /\ P!CountsOK' /\ InUse' = InUse
      /\ P!Sorted(sharedByte', lists', InUse' \ stripped')
      /\ stripped' = stripped \cup {t}
  BY <1>2, <1>3, <1>5, SimpleStrips
<1>7. IsCore(1)'
  <2>1. DOMAIN core' = {1} /\ core'[1] = t
    BY <1>2
  <2>2. ElementsOf(core') = {t} /\ IsInjectiveList(core')
    BY <2>1 DEF ElementsOf, IsInjectiveList
  <2> QED
    BY <1>5, <1>6, <2>2 DEF IsCore
<1>8. Written(stripped \ {core[1]})'
  <2>1. PICK X : X = stripped
    OBVIOUS
  <2>2. Written(X)'
    BY <1>2, <2>1, StillWritten DEF SimpleOK
  <2>3. stripped' \ {core'[1]} = X
    BY <1>2, <1>3, <1>6, <2>1
  <2> QED
    BY <2>2, <2>3, Zenon DEF Written
<1> QED
  BY <1>2, <1>6, <1>7, <1>8 DEF SimpleOK

(* The next core triangle is a neighbour in no strip.                      *)
LEMMA NextCoreIs ==
  ASSUME SimpleOK, NEW n \in {1, 2}, IsCore(n)
  PROVE  /\ core[n] \in InUse /\ S!LastCore = core[n]
         /\ S!NextCoreDir # S!NotFound =>
              /\ S!NextCoreDir \in Dir
              /\ S!NextCore = neighbours[core[n]][S!NextCoreDir] /\ S!NextCore \in InUse \ stripped
<1>1. Len(core) = n /\ core \in Seq(Tris) /\ n \in DOMAIN core /\ ElementsOf(core) \subseteq stripped
  BY DEF IsCore, SimpleOK, P!ArraysOK, P!Tris, Tris
<1>2. core[n] \in ElementsOf(core) /\ S!LastCore = core[n]
  BY <1>1 DEF ElementsOf, S!LastCore
<1>3. core[n] \in InUse
  BY <1>1, <1>2 DEF SimpleOK, P!ArraysOK, P!InUse, InUse
<1>4. ASSUME S!NextCoreDir # S!NotFound
      PROVE  /\ S!NextCoreDir \in Dir
             /\ S!NextCore = neighbours[core[n]][S!NextCoreDir] /\ S!NextCore \in InUse \ stripped
  <2>1. P!NextCoreDir \in P!Open(P!LastCore)
    <3>1. P!ArraysOK /\ P!LastCore \in P!InUse
      BY <1>2, <1>3, SameLists DEF SimpleOK, P!InUse, InUse
    <3> QED
      BY <1>4, <3>1, SameLists, PhasesApply, P!NextCoreFound DEF P!MaxTrisAssumption
  <2>2. PICK d, t : d = S!NextCoreDir /\ t = core[n]
    OBVIOUS
  <2>3. d \in Dir /\ neighbours[t][d] # Null /\ neighbours[t][d] \notin stripped
    BY <1>2, <2>1, <2>2, SameLists DEF P!Open, P!Dir, Dir, P!Null, Null
  <2>4. neighbours[t][d] \in InUse
    BY <1>3, <2>2, <2>3, MaxTrisAssumption DEF SimpleOK, MeshOK, IsMesh, Stitched, InUse, Tris
  <2> QED
    BY <1>2, <2>2, <2>3, <2>4 DEF S!NextCore
<1> QED
  BY <1>2, <1>3, <1>4

(* The core grows by it.                                                   *)
LEMMA CoreGrows ==
  ASSUME SimpleOK, pc # "SimpleOrder", NEW n \in {1, 2}, IsCore(n), S!StripNext,
         UNCHANGED <<mesh, stripVars, endpointVars>>
  PROVE  LET u == S!NextCore
             d == S!NextCoreDir
         IN  /\ u \in InUse \ stripped /\ d \in Dir /\ d # S!NotFound /\ u = neighbours[core[n]][d]
             /\ core' = Append(core, u) /\ coreDirs' = Append(coreDirs, d) /\ IsCore(n + 1)'
             /\ \A i \in 1 .. n : core'[i] = core[i]
             /\ core'[n + 1] = u /\ coreDirs'[n] = d /\ (n = 2 => coreDirs'[1] = coreDirs[1])
             /\ MeshOK' /\ P!ArraysOK' /\ P!CountsOK' /\ InUse' = InUse
             /\ P!Sorted(sharedByte', lists', InUse' \ stripped')
             /\ stripped' = stripped \cup {u}
<1>1. PICK u, d : u = S!NextCore /\ d = S!NextCoreDir
  OBVIOUS
<1>2. /\ d # S!NotFound /\ S!SetStrippedAndPropagate(u) /\ core' = Append(core, u)
      /\ coreDirs' = Append(coreDirs, d)
  BY <1>1 DEF S!StripNext
<1>3. core[n] \in InUse /\ d \in Dir /\ u = neighbours[core[n]][d] /\ u \in InUse \ stripped
  BY <1>1, <1>2, NextCoreIs
<1>4. core \in Seq(Tris) /\ coreDirs \in Seq(Dir) /\ u \in Tris
  BY <1>3, MaxTrisAssumption
  DEF SimpleOK, P!ArraysOK, P!Tris, Tris, P!Dir, Dir, MeshOK, IsMesh, InUse
<1>5. /\ core' \in Seq(Tris) /\ coreDirs' \in Seq(Dir)
      /\ Len(core) = n /\ Len(coreDirs) = n - 1 /\ Len(core') = n + 1 /\ Len(coreDirs') = n
      /\ \A i \in 1 .. n : core'[i] = core[i]
      /\ \A i \in 1 .. n - 1 : coreDirs'[i] = coreDirs[i]
      /\ core'[n + 1] = u /\ coreDirs'[n] = d
  BY <1>2, <1>3, <1>4 DEF IsCore
<1>6. /\ MeshOK' /\ P!ArraysOK' /\ P!CountsOK' /\ InUse' = InUse
      /\ P!Sorted(sharedByte', lists', InUse' \ stripped')
      /\ stripped' = stripped \cup {u}
  BY <1>2, <1>3, <1>5, SimpleStrips
<1>7. IsCore(n + 1)'
  <2>1. DOMAIN core = 1 .. n /\ DOMAIN core' = 1 .. n + 1
    BY <1>4, <1>5
  <2>2. \A i \in 1 .. n : core[i] \in stripped
    BY <2>1 DEF IsCore, ElementsOf
  <2>3. \A i \in 1 .. n + 1 : i = n + 1 \/ i \in 1 .. n
    OBVIOUS
  <2>4. ElementsOf(core') \subseteq stripped'
    BY <1>5, <1>6, <2>1, <2>2, <2>3 DEF ElementsOf
  <2>5. IsInjectiveList(core')
    <3>1. \A i, j \in 1 .. n : core[i] = core[j] => i = j
      BY <2>1 DEF IsCore, IsInjectiveList
    <3>2. \A i \in 1 .. n : core'[i] # u
      BY <1>3, <1>5, <2>2
    <3> QED
      BY <1>5, <2>1, <2>3, <3>1, <3>2 DEF IsInjectiveList
  <2>6. \A i \in 1 .. n : coreDirs'[i] \in Dir /\ core'[i + 1] = neighbours[core'[i]][coreDirs'[i]]
    <3> SUFFICES ASSUME NEW i \in 1 .. n
                 PROVE  coreDirs'[i] \in Dir /\ core'[i + 1] = neighbours[core'[i]][coreDirs'[i]]
      OBVIOUS
    <3>1. CASE i = n
      BY <1>3, <1>5, <3>1
    <3>2. CASE i # n
      <4>1. i \in 1 .. n - 1 /\ i + 1 \in 1 .. n
        BY <3>2
      <4> QED
        BY <1>5, <4>1, Zenon DEF IsCore
    <3> QED
      BY <3>1, <3>2
  <2>7. neighbours' = neighbours /\ (n + 1) - 1 = n
    BY DEF mesh
  <2> QED
    BY <1>5, <2>4, <2>5, <2>6, <2>7 DEF IsCore
<1> QED
  BY <1>1, <1>2, <1>3, <1>5, <1>6, <1>7

(* The second one.                                                         *)
LEMMA BuildSecondSpells ==
  ASSUME SimpleOK, S!BuildSecond, UNCHANGED endpointVars
  PROVE  SimpleOK'
<1>1. /\ pc = "SimpleSecond" /\ pc' = "SimpleThird" /\ S!StripNext
      /\ UNCHANGED <<mesh, stripVars, preserve, strips>>
  BY DEF S!BuildSecond, S!mesh, S!stripVars, mesh, stripVars
<1>2. IsCore(1) /\ Written(stripped \ {core[1]})
  BY <1>1 DEF SimpleOK
<1>3. PICK n : n = 1
  OBVIOUS
<1>4. PICK u : u = S!NextCore
  OBVIOUS
<1>5. /\ u \in InUse \ stripped /\ core'[1] = core[1] /\ core'[2] = u /\ IsCore(2)'
      /\ MeshOK' /\ P!ArraysOK' /\ P!CountsOK'
      /\ P!Sorted(sharedByte', lists', InUse' \ stripped')
      /\ stripped' = stripped \cup {u}
  <2>1. IsCore(n) /\ n \in {1, 2}
    BY <1>2, <1>3
  <2>2. /\ u \in InUse \ stripped /\ \A i \in 1 .. n : core'[i] = core[i]
        /\ core'[n + 1] = u /\ IsCore(n + 1)'
        /\ MeshOK' /\ P!ArraysOK' /\ P!CountsOK'
        /\ P!Sorted(sharedByte', lists', InUse' \ stripped')
        /\ stripped' = stripped \cup {u}
    BY <1>1, <1>4, <2>1, CoreGrows
  <2>3. IsCore(2)'
    BY <1>3, <2>2 DEF IsCore
  <2> QED
    BY <1>3, <2>2, <2>3
<1>6. Written(stripped \ {core[1], core[2]})'
  <2>1. PICK X : X = stripped \ {core[1]}
    BY Zenon
  <2>2. Written(X)'
    BY <1>1, <1>2, <2>1, StillWritten
  <2>3. stripped' \ {core'[1], core'[2]} = X
    BY <1>5, <2>1
  <2> QED
    BY <2>2, <2>3, Zenon DEF Written
<1> QED
  BY <1>1, <1>5, <1>6 DEF SimpleOK

(* A few IDs are no more than a strip can have.                            *)
LEMMA FewAreFew ==
  ASSUME NEW k \in Nat, k = 3 \/ k = 4, NEW most \in Nat, most >= 1
  PROVE  k \in 3 .. 2 * most + 2
OBVIOUS

(* A strip of one core triangle or of two.                                 *)
LEMMA ShortStripSpells ==
  ASSUME SimpleOK, GoodMesh, NEW n \in {1, 2}, IsCore(n), NEW C, NEW F,
         C = stripped \ F, F = ElementsOf(core), Written(C),
         strips' = Append(strips, S!ShortStrip), UNCHANGED <<mesh, preserve>>, stripped' = stripped
  PROVE  Written(stripped)'
<1>1. core[1] \in InUse /\ ElementsOf(core) \subseteq stripped /\ stripped \subseteq InUse
  <2>1. stripped \subseteq InUse /\ ElementsOf(core) \subseteq stripped
    BY DEF SimpleOK, P!ArraysOK, P!InUse, InUse, IsCore
  <2>2. core \in Seq(Tris) /\ Len(core) = n
    BY DEF SimpleOK, P!ArraysOK, P!Tris, Tris, IsCore
  <2>3. core[1] \in ElementsOf(core)
    BY <2>2 DEF ElementsOf
  <2> QED
    BY <2>1, <2>3
<1>2. IsFiniteSet(C) /\ IsFiniteSet(F) /\ C \cap F = {} /\ C \cup F = stripped
  <2>1. C \in SUBSET InUse /\ F \in SUBSET InUse
    BY <1>1
  <2> QED
    BY <1>1, <2>1, PartsAreFinite DEF GoodMesh
<1>3. ListSpells(S!ShortStrip, 0, F) /\ Len(S!ShortStrip) \in {3, 4}
  <2>1. core \in Seq(Tris) /\ Len(core) = n /\ DOMAIN core = 1 .. n
    BY DEF SimpleOK, P!ArraysOK, P!Tris, Tris, IsCore
  <2>2. CASE n = 1
    <3>1. PICK t, list : t = core[1] /\ list = S!ShortStrip
      OBVIOUS
    <3>2. list = [i \in 1 .. 3 |-> vertices[t][i - 1]]
      BY <2>1, <2>2, <3>1 DEF S!ShortStrip
    <3>3. F = {t}
      BY <2>1, <2>2, <3>1 DEF ElementsOf
    <3> QED
      BY <1>1, <3>1, <3>2, <3>3, OneSpelled
  <2>3. CASE n = 2
    <3>1. PICK t, e : t = core[1] /\ e = coreDirs[1]
      OBVIOUS
    <3>2. /\ core[2] = neighbours[t][e] /\ e \in Dir /\ DOMAIN core = {1, 2}
      BY <2>1, <2>3, <3>1 DEF IsCore
    <3>3. F = {t, neighbours[t][e]}
      BY <3>1, <3>2 DEF ElementsOf
    <3>4. neighbours[t][e] \in InUse /\ neighbours[t][e] # t
      <4>1. core[1] # core[2]
        BY <3>2 DEF IsCore, IsInjectiveList
      <4> QED
        BY <1>1, <3>1, <3>2, <3>3, <4>1
    <3>5. S!ShortStrip = <<Opposite(t, e)>> \o Edge(t, e) \o <<Opposite(neighbours[t][e], indices[t][e])>>
      BY <2>1, <2>3, <3>1, <3>2, SimpleSees DEF S!ShortStrip
    <3>6. /\ ListSpells(<<Opposite(t, e)>> \o Edge(t, e) \o <<Opposite(neighbours[t][e], indices[t][e])>>,
                        0, {t, neighbours[t][e]})
          /\ Len(<<Opposite(t, e)>> \o Edge(t, e) \o <<Opposite(neighbours[t][e], indices[t][e])>>) = 4
      BY <1>1, <3>1, <3>2, <3>4, TwoSpelled, Zenon DEF SimpleOK
    <3> QED
      BY <3>3, <3>5, <3>6
  <2> QED
    BY <2>2, <2>3
<1>4. Len(S!ShortStrip) \in 3 .. 2 * MaxTris + 2
  <2>1. PICK k \in Nat : k = Len(S!ShortStrip) /\ (k = 3 \/ k = 4)
    BY <1>3, Zenon
  <2>2. PICK most \in Nat : most = MaxTris /\ most >= 1
    BY MaxTrisAssumption
  <2>3. k \in 3 .. 2 * most + 2
    BY <2>1, <2>2, FewAreFew, Zenon
  <2> QED
    BY <2>1, <2>2, <2>3
<1>5. Written(C \cup F)'
  BY <1>2, <1>3, <1>4, WrittenMore
<1>6. stripped' = C \cup F
  BY <1>2
<1> QED
  BY <1>5, <1>6, Zenon DEF Written

(* It is written with the ones before it.                                  *)
LEMMA FinishShortStripSpells ==
  ASSUME SimpleOK, GoodMesh, S!FinishShortStrip, UNCHANGED endpointVars
  PROVE  SimpleOK'
<1>1. /\ pc \in {"SimpleSecond", "SimpleThird"} /\ pc' = "SimpleCore"
      /\ strips' = Append(strips, S!ShortStrip)
      /\ UNCHANGED <<mesh, stripVars, stripped, sharedByte, lists, core, coreDirs, preserve>>
  BY DEF S!FinishShortStrip, S!mesh, S!stripVars, S!adjVars, S!coreVars, mesh, stripVars
<1>2. PICK n \in {1, 2} : IsCore(n) /\ Written(stripped \ ElementsOf(core))
  <2>1. ASSUME NEW n \in {1, 2}, IsCore(n)
        PROVE  ElementsOf(core) = {core[i] : i \in 1 .. n}
    <3>1. DOMAIN core = 1 .. n
      BY <2>1 DEF IsCore, SimpleOK, P!ArraysOK
    <3> QED
      BY <3>1 DEF ElementsOf
  <2>2. CASE pc = "SimpleSecond"
    <3>1. IsCore(1) /\ Written(stripped \ {core[1]})
      BY <2>2 DEF SimpleOK
    <3>2. ElementsOf(core) = {core[1]}
      BY <2>1, <3>1
    <3> QED
      BY <3>1, <3>2
  <2>3. CASE pc = "SimpleThird"
    <3>1. IsCore(2) /\ Written(stripped \ {core[1], core[2]})
      BY <2>3 DEF SimpleOK
    <3>2. ElementsOf(core) = {core[1], core[2]}
      BY <2>1, <3>1
    <3> QED
      BY <3>1, <3>2
  <2> QED
    BY <1>1, <2>2, <2>3
<1>3. Written(stripped)'
  BY <1>1, <1>2, ShortStripSpells
<1>4. MeshOK' /\ P!ArraysOK' /\ P!CountsOK' /\ P!Sorted(sharedByte', lists', InUse' \ stripped')
  BY <1>1 DEF SimpleOK, MeshOK, P!ArraysOK, P!CountsOK, P!MeshOK, P!InUse, InUse, P!Open, mesh, stripVars,
              endpointVars
<1> QED
  BY <1>1, <1>3, <1>4 DEF SimpleOK

(* A strand of a mesh that stays is one of the next state.                 *)
LEMMA ReachesStays ==
  ASSUME UNCHANGED <<mesh, preserve>>, NEW list, NEW turn, NEW F, NEW t, NEW d, NEW a, NEW b,
         Reaches(list, turn, F, t, d, a, b)
  PROVE  Reaches(list, turn, F, t, d, a, b)'
<1>1. Strand(list, turn, F, t, d)'
  BY MeshKept DEF Reaches
<1> QED
  BY <1>1 DEF Reaches, Fits

(* What the next step finds of the end that it grows.                      *)
LEMMA EndIs ==
  ASSUME UNCHANGED <<mesh, preserve>>, NEW list, NEW turn, NEW F, NEW t, NEW d, NEW a, NEW b, NEW o,
         end' = S!End(t, d, a, b, o), Reaches(list, turn, F, t, d, a, b), F \cup {t} \subseteq stripped'
  PROVE  GrowsStrand(list, turn, F)' /\ end'.tri = t /\ end'.isOriented = o
<1>1. /\ end'.tri = t /\ end'.indexToPrev = d /\ end'.prevEntrance = a /\ end'.entrance = b
      /\ end'.isOriented = o
  BY DEF S!End
<1>2. Reaches(list, turn, F, t, d, a, b)'
  BY ReachesStays
<1> QED
  BY <1>1, <1>2 DEF GrowsStrand, S!End

(* The backward end, as the next step finds it.                            *)
LEMMA BackwardIs ==
  ASSUME UNCHANGED <<mesh, preserve, strips>>, NEW turn \in {0, 1}, NEW F, NEW list,
         NEW t, NEW d, NEW a, NEW b, NEW o,
         Backward(ids)' = list, end' = S!End(t, d, a, b, o), Reaches(list, turn, F, t, d, a, b),
         F \cup {t} \subseteq stripped', ids' \in Seq(Nat),
         {core'[2], core'[3]} \cap (F \cup {t}) = {}, o <=> (Len(ids') + turn) % 2 = 1,
         NEW e1, NEW e2, NEW c, NEW e, SimpleEntrances'[1] = e1, SimpleEntrances'[2] = e2,
         core'[1] = c, coreDirs'[1] = e, Along(e2, e1, c, e, turn + 1),
         NEW X, Written(X), X = stripped' \ (F \cup {t, core'[2], core'[3]})
  PROVE  GrowsBackward(turn, F)'
<1>1. GrowsStrand(list, turn, F)' /\ end'.tri = t /\ end'.isOriented = o
  BY EndIs
<1>2. GrowsStrand(Backward(ids), turn, F)'
  BY <1>1 DEF GrowsStrand
<1>3. Along(e2, e1, c, e, turn + 1)'
  BY MeshKept
<1>4. Along(SimpleEntrances[2], SimpleEntrances[1], core[1], coreDirs[1], turn + 1)'
  BY <1>3 DEF Along
<1>5. Written(stripped \ (F \cup {end.tri, core[2], core[3]}))'
  <2>1. Written(X)'
    BY StillWritten
  <2>2. stripped' \ (F \cup {end'.tri, core'[2], core'[3]}) = X
    BY <1>1
  <2> QED
    BY <2>1, <2>2, ZenonT(40) DEF Written
<1> QED
  BY <1>1, <1>2, <1>4, <1>5 DEF GrowsBackward

(* The forward end.                                                        *)
LEMMA ForwardIs ==
  ASSUME UNCHANGED <<mesh, preserve, strips>>, NEW F, NEW list,
         NEW t, NEW d, NEW a, NEW b, NEW o,
         PrefixTurned(ids, prefixCount)' = list, end' = S!End(t, d, a, b, o),
         Reaches(list, 0, F, t, d, a, b),
         F \cup {t} \subseteq stripped', ids' \in Seq(Nat), prefixCount' \in 0 .. Len(ids') - 3,
         NEW X, Written(X), X = stripped' \ (F \cup {t})
  PROVE  GrowsForward(F)'
<1>1. GrowsStrand(list, 0, F)' /\ end'.tri = t
  BY EndIs
<1>2. GrowsStrand(PrefixTurned(ids, prefixCount), 0, F)'
  BY <1>1 DEF GrowsStrand
<1>3. Written(stripped \ (F \cup {end.tri}))'
  <2>1. Written(X)'
    BY StillWritten
  <2> QED
    BY <1>1, <2>1, Zenon DEF Written
<1> QED
  BY <1>2, <1>3 DEF GrowsForward

(* The first IDs of a strip, and the turn that they are right for.         *)
LEMMA FirstEnd ==
  ASSUME GoodMesh, NEW t \in InUse, NEW d \in Dir, NEW a, NEW b, {a, b} = EndsOf(t, d),
         NEW list, list = <<b, a>>, NEW turn \in {0, 1}, turn = 1 <=> Edge(t, d)[1] = a
  PROVE  Along(b, a, t, d, turn + 1) /\ Reaches(list, turn, {}, t, d, b, a)
<1>1. /\ a \in Nat /\ b \in Nat /\ a # b
      /\ a # Edge(t, d)[1] => b = Edge(t, d)[1]
  BY SeenFrom, Zenon
<1>2. list \in Seq(Nat) /\ Len(list) = 2 /\ list[1] = b /\ list[2] = a
  BY <1>1
<1>3. (turn + 1) % 2 = 1 <=> ~(turn = 1)
  OBVIOUS
<1>4. Along(b, a, t, d, turn + 1)
  <2>1. {b, a} = EndsOf(t, d)
    OBVIOUS
  <2>2. b = Edge(t, d)[1] <=> (turn + 1) % 2 = 1
    BY <1>1, <1>3
  <2> QED
    BY <2>1, <2>2 DEF Along
<1>5. ListSpells(list, turn, {})
  <2>1. Spells(list) = {}
    <3>1. \A i : i \in Spells(list) => i \in Nat /\ 1 <= i /\ i + 2 <= 2
      BY <1>2, SpellsAre, Zenon
    <3>2. \A i \in Nat : ~(1 <= i /\ i + 2 <= 2)
      OBVIOUS
    <3> QED
      BY <3>1, <3>2
  <2> QED
    BY <1>2, <2>1, NothingSpelled, Zenon
<1>6. Fits(list, {})
  <2>1. Cardinality({}) = 0
    BY FS_EmptySet
  <2> QED
    BY <1>2, <2>1 DEF Fits
<1>7. Len(list) - 1 + turn = turn + 1 /\ Len(list) - 1 = 1
  BY <1>2
<1>8. Strand(list, turn, {}, t, d)
  BY <1>2, <1>4, <1>5, <1>7 DEF Strand
<1> QED
  BY <1>2, <1>4, <1>6, <1>8, <1>7 DEF Reaches

(* Two core triangles, and the edge between them.                          *)
LEMMA CorePair ==
  ASSUME SimpleOK, NEW n \in {2, 3}, IsCore(n), NEW t, t = core[1], NEW e, e = coreDirs[1],
         NEW u, u = core[2]
  PROVE  /\ t \in InUse /\ u \in InUse /\ e \in Dir /\ u = neighbours[t][e] /\ t # u
         /\ t \in stripped /\ u \in stripped
         /\ neighbours[u][indices[t][e]] = t
<1>1. /\ core \in Seq(Tris) /\ Len(core) = n /\ DOMAIN core = 1 .. n /\ 1 \in 1 .. n /\ 2 \in 1 .. n
      /\ 1 \in 1 .. n - 1
  BY DEF SimpleOK, P!ArraysOK, P!Tris, Tris, IsCore
<1>2. t \in stripped /\ u \in stripped
  <2>1. t \in ElementsOf(core) /\ u \in ElementsOf(core)
    BY <1>1 DEF ElementsOf
  <2> QED
    BY <2>1 DEF IsCore
<1>3. t \in InUse /\ u \in InUse
  BY <1>2 DEF SimpleOK, P!ArraysOK, P!InUse, InUse
<1>4. e \in Dir /\ u = neighbours[t][e]
  <2>1. coreDirs[1] \in Dir /\ core[1 + 1] = neighbours[core[1]][coreDirs[1]]
    BY <1>1 DEF IsCore
  <2> QED
    BY <2>1
<1>5. t # u
  <2>1. 1 # 2
    OBVIOUS
  <2> QED
    BY <1>1, <2>1 DEF IsCore, IsInjectiveList
<1>6. t \in Tris /\ u \in Tris /\ u # Null
  BY <1>3, MaxTrisAssumption DEF SimpleOK, MeshOK, IsMesh, InUse, Tris, Null
<1>7. neighbours[u][indices[t][e]] = t
  BY <1>4, <1>6 DEF SimpleOK, MeshOK, IsMesh, Stitched
<1> QED
  BY <1>2, <1>3, <1>4, <1>5, <1>7

(* The third core triangle: the core entrances are known, and the strip    *)

(* grows backward from the first one.                                      *)
LEMMA BuildThirdSpells ==
  ASSUME SimpleOK, GoodMesh, S!BuildThird, UNCHANGED endpointVars
  PROVE  SimpleOK'
<1>1. PICK t, e, c, f, u : t = core[1] /\ e = coreDirs[1] /\ c = core[2] /\ f = S!NextCoreDir /\ u = S!NextCore
  OBVIOUS
<1>2. PICK es : es = CoreEntrances(Edge(t, e), Edge(c, f))
  OBVIOUS
<1>3. PICK o : o = (Edge(t, e)[1] = es[1])
  OBVIOUS
<1>4. /\ pc = "SimpleThird" /\ pc' = "SimpleGrow" /\ S!StripNext
      /\ ids' = <<>> /\ prefixCount' = 0 /\ isForward' = FALSE
      /\ end' = S!End(t, e, es[2], es[1], o)
      /\ UNCHANGED <<mesh, stripVars, preserve, strips>>
  BY <1>1, <1>2, <1>3, SimpleSees DEF S!BuildThird, S!mesh, S!stripVars, mesh, stripVars
<1>5. IsCore(2) /\ Written(stripped \ {t, c})
  BY <1>1, <1>4 DEF SimpleOK
<1>6. PICK n : n = 2
  OBVIOUS
<1>7. /\ t \in InUse /\ c \in InUse /\ e \in Dir /\ c = neighbours[t][e] /\ t # c
      /\ t \in stripped /\ c \in stripped /\ neighbours[c][indices[t][e]] = t
  BY <1>1, <1>5, <1>6, CorePair
<1>8. /\ u \in InUse \ stripped /\ f \in Dir /\ u = neighbours[c][f] /\ IsCore(3)'
      /\ core'[1] = t /\ core'[2] = c /\ core'[3] = u /\ coreDirs'[1] = e /\ coreDirs'[2] = f
      /\ MeshOK' /\ P!ArraysOK' /\ P!CountsOK'
      /\ P!Sorted(sharedByte', lists', InUse' \ stripped')
      /\ stripped' = stripped \cup {u}
  <2>1. IsCore(n) /\ n \in {1, 2}
    BY <1>5, <1>6
  <2>2. /\ u \in InUse \ stripped /\ f \in Dir /\ u = neighbours[core[n]][f] /\ IsCore(n + 1)'
        /\ \A i \in 1 .. n : core'[i] = core[i]
        /\ core'[n + 1] = u /\ coreDirs'[n] = f /\ (n = 2 => coreDirs'[1] = coreDirs[1])
        /\ MeshOK' /\ P!ArraysOK' /\ P!CountsOK'
        /\ P!Sorted(sharedByte', lists', InUse' \ stripped')
        /\ stripped' = stripped \cup {u}
    BY <1>1, <1>4, <2>1, CoreGrows
  <2>3. IsCore(3)'
    BY <1>6, <2>2 DEF IsCore
  <2> QED
    BY <1>1, <1>6, <2>2, <2>3
<1>9. f # indices[t][e]
  BY <1>7, <1>8
<1>10. PICK a \in Nat, b \in Nat, z \in Nat : es = <<a, b, z>> /\ {a, b} = EndsOf(t, e)
  BY <1>2, <1>7, <1>8, <1>9, CoreEntrancesAre DEF SimpleOK
<1>11. es[1] = a /\ es[2] = b
  BY <1>10
<1>12. PICK list : list = <<b, a>>
  BY Zenon
<1>13. PICK turn \in {0, 1} : turn = 1 <=> Edge(t, e)[1] = a
  <2>1. CASE Edge(t, e)[1] = a
    BY <2>1
  <2>2. CASE Edge(t, e)[1] # a
    BY <2>2
  <2> QED
    BY <2>1, <2>2
<1>14. Along(b, a, t, e, turn + 1) /\ Reaches(list, turn, {}, t, e, b, a)
  BY <1>7, <1>10, <1>12, <1>13, FirstEnd
<1>15. SimpleEntrances' = es
  BY <1>2, <1>4, <1>8 DEF SimpleEntrances, CoreEntrances, OtherEnd, Edge, mesh
<1>16. Backward(ids)' = list
  <2>1. Backward(ids)' = <<SimpleEntrances'[2], SimpleEntrances'[1]>> \o <<>>
    BY <1>4 DEF Backward
  <2>2. <<b, a>> \o <<>> = <<b, a>>
    OBVIOUS
  <2> QED
    BY <1>11, <1>12, <1>15, <2>1, <2>2
<1>17. GrowsBackward(turn, {})'
  <2>1. PICK F : F = {}
    BY Zenon
  <2>2. PICK X : X = stripped \ {t, c}
    BY Zenon
  <2>3. Written(X) /\ X = stripped' \ (F \cup {t, core'[2], core'[3]})
    BY <1>5, <1>7, <1>8, <2>1, <2>2
  <2>4. F \cup {t} \subseteq stripped' /\ {core'[2], core'[3]} \cap (F \cup {t}) = {}
    BY <1>7, <1>8, <2>1
  <2>5. o <=> (Len(ids') + turn) % 2 = 1
    <3>1. Len(ids') = 0
      BY <1>4
    <3>2. (0 + turn) % 2 = 1 <=> turn = 1
      OBVIOUS
    <3> QED
      BY <1>3, <1>11, <1>13, <3>1, <3>2, Zenon
  <2>6. ids' \in Seq(Nat)
    BY <1>4
  <2>7. end' = S!End(t, e, b, a, o)
    BY <1>4, <1>11
  <2>8. Reaches(list, turn, F, t, e, b, a)
    BY <1>14, <2>1
  <2>9. SimpleEntrances'[1] = a /\ SimpleEntrances'[2] = b
    BY <1>11, <1>15
  <2>10. GrowsBackward(turn, F)'
    <3>1. UNCHANGED <<mesh, preserve, strips>> /\ core'[1] = t /\ coreDirs'[1] = e
      BY <1>4, <1>8
    <3>2. Along(b, a, t, e, turn + 1) /\ Backward(ids)' = list
      BY <1>14, <1>16
    <3> QED
      BY <2>3, <2>4, <2>5, <2>6, <2>7, <2>8, <2>9, <3>1, <3>2, BackwardIs, Zenon
  <2> QED
    BY <2>1, <2>10
<1>18. coreDirs'[2] # indices'[core'[1]][coreDirs'[1]]
  BY <1>4, <1>8, <1>9 DEF mesh
<1> QED
  BY <1>4, <1>8, <1>17, <1>18 DEF SimpleOK

-----------------------------------------------------------------------------
(***************************************************************************)
(* The simple algorithm: the strip grows at one of its ends.               *)
(***************************************************************************)

(* Where a strip grows to is one of the two other positions, if there a    *)
(* neighbour is in no strip.                                               *)
LEMMA GrowToIs ==
  ASSUME end.indexToPrev \in Dir, S!GrowTo # S!NotFound
  PROVE  S!GrowTo \in S!Open(end.tri) /\ S!GrowTo \in Dir /\ S!GrowTo # end.indexToPrev
<1>1. PICK d : d = end.indexToPrev
  OBVIOUS
<1>2. PICK e, f : e = RemainingIndex(d, 0) /\ f = RemainingIndex(d, 1)
  OBVIOUS
<1>3. e \in Dir /\ f \in Dir /\ e # d /\ f # d
  BY <1>1, <1>2 DEF RemainingIndex, Dir
<1>4. S!RemainingIndex(d, 0) = e /\ S!RemainingIndex(d, 1) = f
  BY <1>2 DEF S!RemainingIndex, RemainingIndex
<1>5. PICK open : open = S!Open(end.tri)
  OBVIOUS
<1>6. S!GrowTo = S!GrowDir(end.tri, d, end.entrance)
  BY <1>1 DEF S!GrowTo
<1>7. S!GrowTo \in {e, f} /\ S!GrowTo \in open
  <2>1. CASE open \cap {e, f} = {}
    BY <1>4, <1>5, <1>6, <2>1 DEF S!GrowDir
  <2>2. CASE open \cap {e, f} # {} /\ e \notin open
    BY <1>4, <1>5, <1>6, <2>2 DEF S!GrowDir
  <2>3. CASE open \cap {e, f} # {} /\ e \in open
    <3>1. CASE f \notin open
      BY <1>4, <1>5, <1>6, <2>3, <3>1 DEF S!GrowDir
    <3>2. CASE f \in open
      BY <1>4, <1>5, <1>6, <2>3, <3>2 DEF S!GrowDir
    <3> QED
      BY <3>1, <3>2
  <2> QED
    BY <2>1, <2>2, <2>3
<1> QED
  BY <1>1, <1>3, <1>5, <1>7

(* One triangle more, with a swap or without: what the strand becomes.     *)
LEMMA StrandGrows ==
  ASSUME SimpleOK, GoodMesh, NEW list, NEW turn \in Nat, NEW F, F \subseteq stripped, NEW t, t \in stripped, NEW d,
         NEW a, NEW b, Reaches(list, turn, F, t, d, a, b),
         NEW g \in Dir, g # d, NEW v, v = neighbours[t][g], v \in InUse \ stripped, NEW x, x = Opposite(t, d)
  PROVE  /\ b \in EndsOf(t, g) =>
              Reaches(Append(list, x), turn, F \cup {t}, v, indices[t][g], b, x)
         /\ b \notin EndsOf(t, g) =>
              Reaches(Append(Append(list, a), x), turn, F \cup {t}, v, indices[t][g], a, x)
<1>1. IsFiniteSet(F)
  <2>1. F \in SUBSET InUse
    BY DEF SimpleOK, P!ArraysOK, P!InUse, InUse
  <2> QED
    BY <2>1, PartsAreFinite DEF GoodMesh
<1>2. neighbours[t][g] \in InUse /\ neighbours[t][g] \notin F /\ neighbours[t][g] # t
  OBVIOUS
<1>3. MeshOK
  BY DEF SimpleOK
<1>4. ASSUME b \in EndsOf(t, g)
      PROVE  Reaches(Append(list, x), turn, F \cup {t}, neighbours[t][g], indices[t][g], b, x)
  BY <1>1, <1>2, <1>3, <1>4, StrandNear
<1>5. ASSUME b \notin EndsOf(t, g)
      PROVE  Reaches(Append(Append(list, a), x), turn, F \cup {t}, neighbours[t][g], indices[t][g], a, x)
  BY <1>1, <1>2, <1>3, <1>5, StrandFar
<1> QED
  BY <1>4, <1>5

(* One ID more or two.                                                     *)
LEMMA IdsAdded ==
  ASSUME NEW s \in Seq(Nat), NEW x \in Nat, NEW y \in Nat
  PROVE  /\ s \o <<x>> = Append(s, x) /\ s \o <<y, x>> = Append(Append(s, y), x)
         /\ s \o <<x>> \in Seq(Nat) /\ Len(s \o <<x>>) = Len(s) + 1
         /\ s \o <<y, x>> \in Seq(Nat) /\ Len(s \o <<y, x>>) = Len(s) + 2
<1>1. s \o <<x>> \in Seq(Nat) /\ Len(s \o <<x>>) = Len(s) + 1 /\ s \o <<x>> = Append(s, x)
  OBVIOUS
<1>2. s \o <<y, x>> \in Seq(Nat) /\ Len(s \o <<y, x>>) = Len(s) + 2
  OBVIOUS
<1>3. <<y, x>> = Append(<<y>>, x)
  OBVIOUS
<1>4. PICK v : v = <<y>>
  BY Zenon
<1>5. v \in Seq(Nat) /\ s \o v = Append(s, y)
  BY <1>4
<1>6. s \o Append(v, x) = Append(s \o v, x)
  BY <1>5
<1> QED
  BY <1>1, <1>2, <1>3, <1>4, <1>5, <1>6

(* An ID behind IDs behind others.                                         *)
LEMMA IdsBehind ==
  ASSUME NEW h \in Seq(Nat), NEW s \in Seq(Nat), NEW x \in Nat
  PROVE  h \o Append(s, x) = Append(h \o s, x) /\ Append(s, x) \in Seq(Nat)
OBVIOUS

(* The prefix is read in reverse, whatever comes behind.                   *)
LEMMA PrefixBehind ==
  ASSUME NEW s \in Seq(Nat), NEW n \in 0 .. Len(s), NEW x \in Nat
  PROVE  /\ PrefixTurned(s, n) \in Seq(Nat) /\ Len(PrefixTurned(s, n)) = Len(s)
         /\ PrefixTurned(Append(s, x), n) = Append(PrefixTurned(s, n), x)
<1>1. PICK l \in Nat : l = Len(s)
  OBVIOUS
<1>2. DOMAIN s = 1 .. l
  BY <1>1
<1>3. PICK turned : turned = PrefixTurned(s, n)
  OBVIOUS
<1>4. turned = [i \in 1 .. l |-> IF i <= n THEN s[n + 1 - i] ELSE s[i]]
  BY <1>2, <1>3 DEF PrefixTurned
<1>5. \A i \in 1 .. l : (IF i <= n THEN s[n + 1 - i] ELSE s[i]) \in Nat
  BY <1>1
<1>6. turned \in Seq(Nat) /\ Len(turned) = l
  BY <1>1, <1>4, <1>5
<1>7. PICK more : more = Append(s, x) /\ more \in Seq(Nat)
  <2>1. Append(s, x) \in Seq(Nat)
    OBVIOUS
  <2> QED
    BY <2>1, Zenon
<1>8. Len(more) = l + 1 /\ more[l + 1] = x /\ \A i \in 1 .. l : more[i] = s[i]
  BY <1>1, <1>7
<1>9. PICK long : long = PrefixTurned(more, n)
  OBVIOUS
<1>10. long = [i \in 1 .. l + 1 |-> IF i <= n THEN more[n + 1 - i] ELSE more[i]]
  BY <1>8, <1>9 DEF PrefixTurned
<1>11. \A i \in 1 .. l + 1 : (IF i <= n THEN more[n + 1 - i] ELSE more[i]) \in Nat
  BY <1>1, <1>8, SMTT(30)
<1>12. long \in Seq(Nat) /\ Len(long) = l + 1
  BY <1>10, <1>11
<1>13. Append(turned, x) \in Seq(Nat) /\ Len(Append(turned, x)) = l + 1
  BY <1>6
<1>14. \A i \in 1 .. l + 1 : long[i] = Append(turned, x)[i]
  <2> SUFFICES ASSUME NEW i \in 1 .. l + 1
               PROVE  long[i] = Append(turned, x)[i]
    BY Zenon
  <2>1. CASE i = l + 1
    <3>1. ~(i <= n)
      BY <1>1, <2>1
    <3> QED
      BY <1>6, <1>8, <1>10, <2>1, <3>1
  <2>2. CASE i # l + 1
    <3>1. i \in 1 .. l
      BY <2>2
    <3>2. Append(turned, x)[i] = turned[i]
      BY <1>6, <3>1
    <3>3. long[i] = turned[i]
      <4>1. CASE i <= n
        <5>1. n + 1 - i \in 1 .. l
          BY <1>1, <3>1, <4>1
        <5> QED
          BY <1>4, <1>8, <1>10, <3>1, <4>1, <5>1
      <4>2. CASE ~(i <= n)
        BY <1>4, <1>8, <1>10, <3>1, <4>2
      <4> QED
        BY <4>1, <4>2
    <3> QED
      BY <3>2, <3>3
  <2> QED
    BY <2>1, <2>2, Zenon
<1>15. long = Append(turned, x)
  BY <1>12, <1>13, <1>14, SameIds
<1> QED
  BY <1>1, <1>3, <1>6, <1>7, <1>9, <1>15

(* The core triangles, from their entrances on.                            *)
LEMMA CoreIs ==
  ASSUME SimpleOK, GoodMesh, IsCore(3), coreDirs[2] # indices[core[1]][coreDirs[1]]
  PROVE  \E a, b, c \in Nat :
           /\ SimpleEntrances = <<a, b, c>> /\ {a, b} = EndsOf(core[1], coreDirs[1])
           /\ b \in EndsOf(core[2], coreDirs[2]) /\ coreDirs[2] \in Dir
           /\ c = Opposite(core[2], indices[core[1]][coreDirs[1]])
           /\ core[3] = neighbours[core[2]][coreDirs[2]]
           /\ core[3] \in InUse /\ core[3] \in stripped /\ core[3] # core[1] /\ core[3] # core[2]
<1>1. PICK n : n = 3
  OBVIOUS
<1>2. PICK t, e, u, f, v :
        t = core[1] /\ e = coreDirs[1] /\ u = core[2] /\ f = coreDirs[2] /\ v = core[3]
  OBVIOUS
<1>3. t \in InUse /\ u \in InUse /\ e \in Dir /\ u = neighbours[t][e]
  BY <1>1, <1>2, CorePair
<1>4. Len(core) = 3 /\ DOMAIN core = 1 .. 3
  BY DEF SimpleOK, P!ArraysOK, IsCore
<1>5. f \in Dir /\ v = neighbours[u][f]
  <2>1. coreDirs[2] \in Dir /\ core[2 + 1] = neighbours[core[2]][coreDirs[2]]
    BY DEF IsCore
  <2> QED
    BY <1>2, <2>1
<1>6. v \in stripped /\ v \in InUse
  <2>1. v \in ElementsOf(core)
    BY <1>2, <1>4 DEF ElementsOf
  <2> QED
    BY <2>1, Zenon DEF IsCore, SimpleOK, P!ArraysOK, P!InUse, InUse
<1>7. v # t /\ v # u
  BY <1>2, <1>4 DEF IsCore, IsInjectiveList
<1>8. PICK a \in Nat, b \in Nat, c \in Nat :
           /\ CoreEntrances(Edge(t, e), Edge(u, f)) = <<a, b, c>>
           /\ {a, b} = EndsOf(t, e) /\ b \in EndsOf(u, f) /\ c = Opposite(u, indices[t][e])
  BY <1>2, <1>3, <1>5, CoreEntrancesAre DEF SimpleOK
<1>9. SimpleEntrances = <<a, b, c>>
  BY <1>2, <1>8 DEF SimpleEntrances
<1> QED
  BY <1>2, <1>5, <1>6, <1>7, <1>8, <1>9

(* Whether the first triangle comes out right, after one ID more or two.   *)
LEMMA TurnsOver ==
  ASSUME NEW n \in Nat, NEW turn \in {0, 1}
  PROVE  /\ (n + 1 + turn) % 2 = 1 <=> ~((n + turn) % 2 = 1)
         /\ (n + 2 + turn) % 2 = 1 <=> (n + turn) % 2 = 1
<1>1. PICK k \in Nat : k = n + turn
  OBVIOUS
<1>2. (k + 1) % 2 = 1 <=> ~(k % 2 = 1)
  BY OddAndEven
<1>3. (k + 2) % 2 = 1 <=> k % 2 = 1
  OBVIOUS
<1>4. n + 1 + turn = k + 1 /\ n + 2 + turn = k + 2
  BY <1>1
<1> QED
  BY <1>1, <1>2, <1>3, <1>4

(* The strip grows by a triangle that is in no strip.                      *)
LEMMA GrowOnFinds ==
  ASSUME SimpleOK, NEW t, t = end.tri, NEW d \in Dir, d = end.indexToPrev, NEW g, g = S!GrowTo,
         S!GrowTo # S!NotFound, t \in InUse
  PROVE  g \in Dir /\ g # d /\ neighbours[t][g] \in InUse \ stripped
<1>1. g \in S!Open(t) /\ g \in Dir /\ g # d
  BY GrowToIs
<1>2. neighbours[t][g] # Null /\ neighbours[t][g] \notin stripped
  BY <1>1, SimpleSees DEF P!Open, P!Null, Null
<1>3. neighbours[t][g] \in InUse
  BY <1>1, <1>2, MaxTrisAssumption DEF SimpleOK, MeshOK, IsMesh, Stitched, InUse, Tris
<1> QED
  BY <1>1, <1>2, <1>3

(* A strip that is being built grows by a triangle.                        *)
LEMMA GrowOnIs ==
  ASSUME S!GrowOn, NEW t, t = end.tri, NEW g, g = S!GrowTo, NEW x, x = Opposite(t, end.indexToPrev),
         NEW a, a = end.prevEntrance, NEW b, b = end.entrance
  PROVE  /\ pc = "SimpleGrow" /\ g # S!NotFound /\ S!SetStrippedAndPropagate(neighbours[t][g])
         /\ UNCHANGED <<mesh, stripVars, core, coreDirs, preserve, pc, strips, prefixCount, isForward>>
         /\ b \in EndsOf(t, g) =>
              ids' = ids \o <<x>> /\ end' = S!End(neighbours[t][g], indices[t][g], b, x, ~end.isOriented)
         /\ b \notin EndsOf(t, g) =>
              ids' = ids \o <<a, x>> /\ end' = S!End(neighbours[t][g], indices[t][g], a, x, end.isOriented)
<1>1. S!IsNear(t, g, b) <=> b \in EndsOf(t, g)
  BY SimpleSees DEF S!IsNear, EndsOf
<1>2. S!Completing = x
  BY SimpleSees DEF S!Completing
<1>3. /\ pc = "SimpleGrow" /\ g # S!NotFound /\ S!SetStrippedAndPropagate(neighbours[t][g])
      /\ UNCHANGED <<mesh, stripVars, core, coreDirs, preserve, pc, strips, prefixCount, isForward>>
  BY DEF S!GrowOn, S!mesh, S!stripVars, S!coreVars, mesh, stripVars
<1>4. ids' = ids \o (IF S!IsNear(t, g, b) THEN <<x>> ELSE <<a, x>>)
  BY <1>2 DEF S!GrowOn
<1>5. end' = S!End(neighbours[t][g], indices[t][g], IF S!IsNear(t, g, b) THEN b ELSE a, x,
                   S!Turned(end.isOriented, S!IsNear(t, g, b)))
  BY <1>2 DEF S!GrowOn
<1>6. ASSUME b \in EndsOf(t, g)
      PROVE  ids' = ids \o <<x>> /\ end' = S!End(neighbours[t][g], indices[t][g], b, x, ~end.isOriented)
  BY <1>1, <1>4, <1>5, <1>6 DEF S!Turned
<1>7. ASSUME b \notin EndsOf(t, g)
      PROVE  ids' = ids \o <<a, x>> /\ end' = S!End(neighbours[t][g], indices[t][g], a, x, end.isOriented)
  BY <1>1, <1>4, <1>5, <1>7 DEF S!Turned
<1> QED
  BY <1>3, <1>6, <1>7, Zenon

(* Growing forward.                                                        *)
LEMMA GrowsOnForward ==
  ASSUME SimpleOK, GoodMesh, S!GrowOn, UNCHANGED endpointVars, NEW F, F \subseteq stripped, GrowsForward(F),
         NEW t, t = end.tri, NEW v, v = neighbours[t][S!GrowTo], v \in InUse \ stripped,
         stripped' = stripped \cup {v}
  PROVE  GrowsForward(F \cup {t})'
<1>1. PICK d, a, b, g, x, n :
        /\ d = end.indexToPrev /\ a = end.prevEntrance /\ b = end.entrance
        /\ g = S!GrowTo /\ x = Opposite(t, d) /\ n = prefixCount
  OBVIOUS
<1>2. PICK list : list = PrefixTurned(ids, n)
  OBVIOUS
<1>3. /\ Reaches(list, 0, F, t, d, a, b) /\ F \cup {t} \subseteq stripped
      /\ ids \in Seq(Nat) /\ n \in 0 .. Len(ids) - 3
  BY <1>1, <1>2 DEF GrowsForward, GrowsStrand
<1>4. PICK X : X = stripped \ (F \cup {t})
  BY Zenon
<1>5. Written(X)
  BY <1>4 DEF GrowsForward
<1>6. d \in Dir /\ t \in InUse
  BY <1>3 DEF Reaches, Strand
<1>7. /\ g # S!NotFound
      /\ UNCHANGED <<mesh, preserve, strips, prefixCount>>
      /\ b \in EndsOf(t, g) =>
           ids' = ids \o <<x>> /\ end' = S!End(v, indices[t][g], b, x, ~end.isOriented)
      /\ b \notin EndsOf(t, g) =>
           ids' = ids \o <<a, x>> /\ end' = S!End(v, indices[t][g], a, x, end.isOriented)
  BY <1>1, GrowOnIs
<1>8. g \in Dir /\ g # d
  BY <1>1, <1>6, <1>7, GrowOnFinds
<1>9. /\ b \in EndsOf(t, g) => Reaches(Append(list, x), 0, F \cup {t}, v, indices[t][g], b, x)
      /\ b \notin EndsOf(t, g) =>
           Reaches(Append(Append(list, a), x), 0, F \cup {t}, v, indices[t][g], a, x)
  <2>1. t \in stripped /\ 0 \in Nat /\ v = neighbours[t][g]
    BY <1>1, <1>3
  <2> QED
    BY <1>1, <1>3, <1>8, <2>1, StrandGrows, Zenon
<1>10. a \in Nat /\ x \in Nat
  <2>1. Along(a, b, t, d, Len(list) - 1 + 0)
    BY <1>3 DEF Reaches, Strand
  <2> QED
    BY <1>1, <1>6, <2>1, SeenAlong
<1>11. PICK G : G = F \cup {t}
  BY Zenon
<1>12. X = stripped' \ (G \cup {v}) /\ G \cup {v} \subseteq stripped'
  BY <1>3, <1>4, <1>11
<1>13. PICK l \in Nat : l = Len(ids) /\ n \in 0 .. l
  BY <1>3
<1>14. CASE b \in EndsOf(t, g)
  <2>1. ids' = ids \o <<x>> /\ end' = S!End(v, indices[t][g], b, x, ~end.isOriented)
    BY <1>7, <1>14
  <2>2. ids' = Append(ids, x) /\ ids' \in Seq(Nat) /\ Len(ids') = Len(ids) + 1
    BY <1>3, <1>10, <2>1, IdsAdded
  <2>3. PrefixTurned(Append(ids, x), n) = Append(list, x)
    BY <1>2, <1>3, <1>10, <1>13, PrefixBehind, Zenon
  <2>4. PrefixTurned(ids, prefixCount)' = Append(list, x)
    BY <1>1, <1>7, <2>2, <2>3, Zenon DEF PrefixTurned
  <2>5. prefixCount' \in 0 .. Len(ids') - 3
    BY <1>1, <1>3, <1>7, <2>2
  <2>6. PICK i : i = indices[t][g]
    OBVIOUS
  <2>7. Reaches(Append(list, x), 0, G, v, i, b, x)
    BY <1>9, <1>11, <1>14, <2>6
  <2>8. GrowsForward(G)'
    BY <1>5, <1>7, <1>12, <2>1, <2>2, <2>4, <2>5, <2>6, <2>7, ForwardIs, Zenon
  <2> QED
    BY <1>11, <2>8
<1>15. CASE b \notin EndsOf(t, g)
  <2>1. ids' = ids \o <<a, x>> /\ end' = S!End(v, indices[t][g], a, x, end.isOriented)
    BY <1>7, <1>15
  <2>2. PICK mid : mid = Append(ids, a)
    BY Zenon
  <2>3. mid \in Seq(Nat) /\ Len(mid) = l + 1
    BY <1>3, <1>10, <1>13, <2>2
  <2>4. ids' = Append(mid, x) /\ ids' \in Seq(Nat) /\ Len(ids') = Len(ids) + 2
    <3>1. PICK w : w = ids \o <<a, x>>
      BY Zenon
    <3>2. w = Append(Append(ids, a), x) /\ w \in Seq(Nat) /\ Len(w) = Len(ids) + 2
      BY <1>3, <1>10, <3>1, IdsAdded, Zenon
    <3> QED
      BY <2>1, <2>2, <3>1, <3>2
  <2>5. n \in 0 .. Len(mid)
    BY <1>13, <2>3
  <2>6. PrefixTurned(Append(ids, a), n) = Append(list, a)
    BY <1>2, <1>3, <1>10, <1>13, PrefixBehind, Zenon
  <2>7. PrefixTurned(Append(mid, x), n) = Append(PrefixTurned(mid, n), x)
    BY <1>10, <2>3, <2>5, PrefixBehind, Zenon
  <2>8. PICK more : more = Append(Append(list, a), x)
    BY Zenon
  <2>9. PrefixTurned(ids, prefixCount)' = more
    <3>1. PrefixTurned(ids, prefixCount)' = PrefixTurned(Append(mid, x), n)
      BY <1>1, <1>7, <2>4 DEF PrefixTurned
    <3> QED
      BY <2>2, <2>6, <2>7, <2>8, <3>1
  <2>10. prefixCount' \in 0 .. Len(ids') - 3
    BY <1>1, <1>3, <1>7, <2>4
  <2>11. PICK i : i = indices[t][g]
    OBVIOUS
  <2>12. Reaches(more, 0, G, v, i, a, x)
    BY <1>9, <1>11, <1>15, <2>8, <2>11
  <2>13. GrowsForward(G)'
    BY <1>5, <1>7, <1>12, <2>1, <2>4, <2>9, <2>10, <2>11, <2>12, ForwardIs, Zenon
  <2> QED
    BY <1>11, <2>13
<1> QED
  BY <1>14, <1>15

(* Growing backward.                                                       *)
LEMMA GrowsOnBackward ==
  ASSUME SimpleOK, GoodMesh, S!GrowOn, UNCHANGED endpointVars,
         IsCore(3), coreDirs[2] # indices[core[1]][coreDirs[1]],
         NEW F, F \subseteq stripped, NEW turn \in {0, 1}, GrowsBackward(turn, F),
         NEW t, t = end.tri, NEW v, v = neighbours[t][S!GrowTo], v \in InUse \ stripped,
         stripped' = stripped \cup {v}
  PROVE  GrowsBackward(turn, F \cup {t})'
<1>1. PICK d, a, b, g, x, o :
        /\ d = end.indexToPrev /\ a = end.prevEntrance /\ b = end.entrance
        /\ g = S!GrowTo /\ x = Opposite(t, d) /\ o = end.isOriented
  OBVIOUS
<1>2. PICK e1 \in Nat, e2 \in Nat, e3 \in Nat : SimpleEntrances = <<e1, e2, e3>>
  BY CoreIs
<1>3. PICK head : head = <<e2, e1>>
  BY Zenon
<1>4. head \in Seq(Nat)
  BY <1>3
<1>5. Backward(ids) = head \o ids
  <2>1. SimpleEntrances[1] = e1 /\ SimpleEntrances[2] = e2
    BY <1>2
  <2> QED
    BY <1>3, <2>1 DEF Backward
<1>6. PICK list : list = head \o ids
  BY Zenon
<1>7. PICK c, u, w, e : c = core[1] /\ u = core[2] /\ w = core[3] /\ e = coreDirs[1]
  OBVIOUS
<1>8. PICK X : X = stripped \ (F \cup {t, u, w})
  BY Zenon
<1>9. /\ Reaches(list, turn, F, t, d, a, b) /\ F \cup {t} \subseteq stripped
      /\ ids \in Seq(Nat) /\ {u, w} \cap (F \cup {t}) = {} /\ Written(X)
      /\ o <=> (Len(ids) + turn) % 2 = 1
      /\ Along(e2, e1, c, e, turn + 1)
  <2>1. SimpleEntrances[1] = e1 /\ SimpleEntrances[2] = e2
    BY <1>2
  <2> QED
    BY <1>1, <1>5, <1>6, <1>7, <1>8, <2>1 DEF GrowsBackward, GrowsStrand
<1>10. d \in Dir /\ t \in InUse
  BY <1>9 DEF Reaches, Strand
<1>11. /\ g # S!NotFound
       /\ UNCHANGED <<mesh, core, coreDirs, preserve, strips>>
       /\ b \in EndsOf(t, g) =>
            ids' = ids \o <<x>> /\ end' = S!End(v, indices[t][g], b, x, ~o)
       /\ b \notin EndsOf(t, g) =>
            ids' = ids \o <<a, x>> /\ end' = S!End(v, indices[t][g], a, x, o)
  BY <1>1, GrowOnIs, Zenon
<1>12. g \in Dir /\ g # d
  BY <1>1, <1>10, <1>11, GrowOnFinds
<1>13. PICK i : i = indices[t][g]
  OBVIOUS
<1>14. PICK G : G = F \cup {t}
  BY Zenon
<1>15. /\ b \in EndsOf(t, g) => Reaches(Append(list, x), turn, G, v, i, b, x)
       /\ b \notin EndsOf(t, g) => Reaches(Append(Append(list, a), x), turn, G, v, i, a, x)
  <2>1. t \in stripped /\ turn \in Nat /\ v = neighbours[t][g]
    BY <1>1, <1>9
  <2> QED
    BY <1>1, <1>9, <1>12, <1>13, <1>14, <2>1, StrandGrows, Zenon
<1>16. a \in Nat /\ x \in Nat
  <2>1. Along(a, b, t, d, Len(list) - 1 + turn)
    BY <1>9 DEF Reaches, Strand
  <2> QED
    BY <1>1, <1>10, <2>1, SeenAlong
<1>17. /\ X = stripped' \ (G \cup {v, core'[2], core'[3]}) /\ G \cup {v} \subseteq stripped'
       /\ {core'[2], core'[3]} \cap (G \cup {v}) = {}
  <2>1. u \in stripped /\ w \in stripped
    <3>1. PICK n : n = 3
      OBVIOUS
    <3> QED
      BY <1>7, <3>1, CorePair, CoreIs
  <2>2. core'[2] = u /\ core'[3] = w
    BY <1>7, <1>11
  <2> QED
    BY <1>8, <1>9, <1>14, <2>1, <2>2
<1>18. core'[1] = c /\ coreDirs'[1] = e /\ SimpleEntrances'[1] = e1 /\ SimpleEntrances'[2] = e2
  <2>1. SimpleEntrances' = SimpleEntrances
    BY <1>11 DEF SimpleEntrances, CoreEntrances, OtherEnd, Edge, mesh
  <2> QED
    BY <1>2, <1>7, <1>11, <2>1
<1>19. Backward(ids)' = head \o ids'
  BY <1>3, <1>18 DEF Backward
<1>20. CASE b \in EndsOf(t, g)
  <2>1. ids' = ids \o <<x>> /\ end' = S!End(v, i, b, x, ~o)
    BY <1>11, <1>13, <1>20, Zenon
  <2>2. ids' = Append(ids, x) /\ ids' \in Seq(Nat) /\ Len(ids') = Len(ids) + 1
    BY <1>9, <1>16, <2>1, IdsAdded
  <2>3. head \o Append(ids, x) = Append(list, x)
    BY <1>4, <1>6, <1>9, <1>16, IdsBehind, Zenon
  <2>4. PICK more : more = Append(list, x)
    BY Zenon
  <2>5. Backward(ids)' = more
    BY <1>19, <2>2, <2>3, <2>4
  <2>6. Reaches(more, turn, G, v, i, b, x)
    BY <1>15, <1>20, <2>4
  <2>7. ~o <=> (Len(ids') + turn) % 2 = 1
    <3>1. PICK n \in Nat : n = Len(ids)
      BY <1>9
    <3>2. (n + 1 + turn) % 2 = 1 <=> ~((n + turn) % 2 = 1)
      BY TurnsOver
    <3>3. Len(ids') = n + 1 /\ (o <=> (n + turn) % 2 = 1)
      BY <1>9, <2>2, <3>1
    <3> QED
      BY <3>2, <3>3
  <2>8. PICK no : no = ~o
    OBVIOUS
  <2>9. end' = S!End(v, i, b, x, no) /\ (no <=> (Len(ids') + turn) % 2 = 1)
    BY <2>1, <2>7, <2>8, Zenon
  <2>10. GrowsBackward(turn, G)'
    BY <1>9, <1>11, <1>17, <1>18, <2>2, <2>5, <2>6, <2>9, BackwardIs, Zenon
  <2> QED
    BY <1>14, <2>10
<1>21. CASE b \notin EndsOf(t, g)
  <2>1. ids' = ids \o <<a, x>> /\ end' = S!End(v, i, a, x, o)
    BY <1>11, <1>13, <1>21
  <2>2. ids' = Append(Append(ids, a), x) /\ ids' \in Seq(Nat) /\ Len(ids') = Len(ids) + 2
    <3>1. PICK z : z = ids \o <<a, x>>
      BY Zenon
    <3>2. z = Append(Append(ids, a), x) /\ z \in Seq(Nat) /\ Len(z) = Len(ids) + 2
      BY <1>9, <1>16, <3>1, IdsAdded
    <3> QED
      BY <2>1, <3>1, <3>2
  <2>3. head \o Append(Append(ids, a), x) = Append(Append(list, a), x)
    <3>1. PICK mid : mid = Append(ids, a)
      BY Zenon
    <3>2. head \o mid = Append(list, a) /\ mid \in Seq(Nat)
      BY <1>4, <1>6, <1>9, <1>16, <3>1, IdsBehind, Zenon
    <3>3. head \o Append(mid, x) = Append(head \o mid, x)
      BY <1>4, <1>16, <3>2, IdsBehind, Zenon
    <3> QED
      BY <3>1, <3>2, <3>3
  <2>4. PICK more : more = Append(Append(list, a), x)
    BY Zenon
  <2>5. Backward(ids)' = more
    BY <1>19, <2>2, <2>3, <2>4
  <2>6. Reaches(more, turn, G, v, i, a, x)
    BY <1>15, <1>21, <2>4
  <2>7. o <=> (Len(ids') + turn) % 2 = 1
    <3>1. PICK n \in Nat : n = Len(ids)
      BY <1>9
    <3>2. (n + 2 + turn) % 2 = 1 <=> (n + turn) % 2 = 1
      BY TurnsOver
    <3>3. Len(ids') = n + 2 /\ (o <=> (n + turn) % 2 = 1)
      BY <1>9, <2>2, <3>1
    <3> QED
      BY <3>2, <3>3
  <2>8. GrowsBackward(turn, G)'
    BY <1>9, <1>11, <1>17, <1>18, <2>1, <2>2, <2>5, <2>6, <2>7, BackwardIs, Zenon
  <2> QED
    BY <1>14, <2>8
<1> QED
  BY <1>20, <1>21

(* What the strip that is being built has come to.                         *)
LEMMA EndInUse ==
  ASSUME NEW list, NEW turn, NEW F, GrowsStrand(list, turn, F)
  PROVE  end.tri \in InUse /\ end.tri \in stripped /\ end.tri \notin F /\ end.indexToPrev \in Dir
BY DEF GrowsStrand, Reaches, Strand

(* The core stays.                                                         *)
LEMMA CoreKept ==
  ASSUME IsCore(3), UNCHANGED <<mesh, core, coreDirs>>, stripped \subseteq stripped'
  PROVE  IsCore(3)' /\ coreDirs'[2] = coreDirs[2]
         /\ indices'[core'[1]][coreDirs'[1]] = indices[core[1]][coreDirs[1]]
<1>1. PICK n : n = 3
  OBVIOUS
<1>2. IsCore(n)
  BY <1>1
<1>3. IsCore(n)'
  BY <1>2 DEF IsCore, IsInjectiveList, ElementsOf, mesh
<1>4. IsCore(3)'
  BY <1>1, <1>3 DEF IsCore
<1> QED
  BY <1>4 DEF mesh

(* The strip that is being built grows.                                    *)
LEMMA GrowOnSpells ==
  ASSUME SimpleOK, GoodMesh, S!GrowOn, UNCHANGED endpointVars
  PROVE  SimpleOK'
<1>1. /\ pc = "SimpleGrow" /\ pc' = "SimpleGrow" /\ S!GrowTo # S!NotFound
      /\ S!SetStrippedAndPropagate(neighbours[end.tri][S!GrowTo])
      /\ UNCHANGED <<mesh, stripVars, core, coreDirs, isForward>>
  BY DEF S!GrowOn, S!mesh, S!stripVars, S!coreVars, mesh, stripVars
<1>2. PICK t, v : t = end.tri /\ v = neighbours[t][S!GrowTo]
  OBVIOUS
<1>3. IsCore(3) /\ coreDirs[2] # indices[core[1]][coreDirs[1]]
  BY <1>1 DEF SimpleOK
<1>4. t \in InUse /\ t \in stripped /\ end.indexToPrev \in Dir
  <2>1. CASE isForward
    <3>1. PICK F : GrowsForward(F)
      BY <1>1, <2>1 DEF SimpleOK
    <3>2. GrowsStrand(PrefixTurned(ids, prefixCount), 0, F)
      BY <3>1 DEF GrowsForward
    <3> QED
      BY <1>2, <3>2, EndInUse
  <2>2. CASE ~isForward
    <3>1. PICK F, turn : GrowsBackward(turn, F)
      BY <1>1, <2>2 DEF SimpleOK
    <3>2. GrowsStrand(Backward(ids), turn, F)
      BY <3>1 DEF GrowsBackward
    <3> QED
      BY <1>2, <3>2, EndInUse
  <2> QED
    BY <2>1, <2>2
<1>5. v \in InUse \ stripped
  BY <1>1, <1>2, <1>4, GrowOnFinds
<1>6. core' \in Seq(Tris) /\ coreDirs' \in Seq(Dir)
  BY <1>1 DEF SimpleOK, P!ArraysOK, P!Tris, Tris, P!Dir, Dir
<1>7. /\ MeshOK' /\ P!ArraysOK' /\ P!CountsOK'
      /\ P!Sorted(sharedByte', lists', InUse' \ stripped')
      /\ stripped' = stripped \cup {v}
  BY <1>1, <1>2, <1>5, <1>6, SimpleStrips
<1>8. IsCore(3)' /\ coreDirs'[2] # indices'[core'[1]][coreDirs'[1]]
  BY <1>1, <1>3, <1>7, CoreKept
<1>9. CASE isForward
  <2>1. PICK F : F \subseteq stripped /\ GrowsForward(F)
    BY <1>1, <1>9 DEF SimpleOK
  <2>2. PICK G : G = F \cup {t}
    BY Zenon
  <2>3. GrowsForward(G)'
    <3>1. GrowsForward(F \cup {t})'
      BY <1>2, <1>5, <1>7, <2>1, GrowsOnForward
    <3> QED
      BY <2>2, <3>1
  <2>4. isForward' /\ G \in SUBSET stripped'
    BY <1>1, <1>4, <1>7, <1>9, <2>1, <2>2
  <2> QED
    BY <1>1, <1>7, <1>8, <2>3, <2>4 DEF SimpleOK
<1>10. CASE ~isForward
  <2>1. PICK F \in SUBSET stripped, turn \in {0, 1} : GrowsBackward(turn, F)
    BY <1>1, <1>10 DEF SimpleOK
  <2>2. PICK G : G = F \cup {t}
    BY Zenon
  <2>3. GrowsBackward(turn, G)'
    <3>1. GrowsBackward(turn, F \cup {t})'
      BY <1>2, <1>3, <1>5, <1>7, <2>1, GrowsOnBackward
    <3> QED
      BY <2>2, <3>1
  <2>4. ~isForward' /\ G \in SUBSET stripped'
    BY <1>1, <1>4, <1>7, <1>10, <2>1, <2>2
  <2> QED
    BY <1>1, <1>7, <1>8, <2>3, <2>4 DEF SimpleOK
<1> QED
  BY <1>9, <1>10

-----------------------------------------------------------------------------
(***************************************************************************)
(* The simple algorithm: the strip is turned, and its prefix read in       *)
(* reverse.                                                                *)
(***************************************************************************)

(* A strip that fits its triangles is not too long.                        *)
LEMMA FittingIsShort ==
  ASSUME GoodMesh, NEW F \in SUBSET InUse, NEW list, NEW k \in Nat, k = Len(list), k >= 3, Fits(list, F)
  PROVE  k \in 3 .. 2 * MaxTris + 2
<1>1. PICK n : n = Cardinality(F)
  OBVIOUS
<1>2. n \in Nat /\ n <= MaxTris
  BY <1>1, PartsAreFinite DEF GoodMesh
<1>3. k <= 2 * n + 2
  BY <1>1 DEF Fits
<1>4. PICK most \in Nat : most = MaxTris
  BY MaxTrisAssumption
<1>5. k \in 3 .. 2 * most + 2
  BY <1>2, <1>3, <1>4
<1> QED
  BY <1>4, <1>5

(* The forward end ends, and with it the strip.                            *)
LEMMA FinishForwardSpells ==
  ASSUME SimpleOK, GoodMesh, S!FinishForward, UNCHANGED endpointVars
  PROVE  SimpleOK'
<1>1. PICK t, d, a, b, x, n :
        /\ t = end.tri /\ d = end.indexToPrev /\ a = end.prevEntrance /\ b = end.entrance
        /\ x = Opposite(t, d) /\ n = prefixCount
  OBVIOUS
<1>2. PICK list, more : list = PrefixTurned(ids, n) /\ more = Append(list, x)
  BY Zenon
<1>3. /\ pc = "SimpleGrow" /\ isForward /\ pc' = "SimpleCore"
      /\ strips' = Append(strips, PrefixTurned(Append(ids, x), n))
      /\ UNCHANGED <<mesh, stripVars, stripped, sharedByte, lists, core, coreDirs, preserve>>
  <2>1. S!Completing = x
    BY <1>1, SimpleSees DEF S!Completing
  <2> QED
    BY <1>1, <2>1 DEF S!FinishForward, PrefixTurned, S!mesh, S!stripVars, S!adjVars, S!coreVars, mesh, stripVars
<1>4. PICK F : F \subseteq stripped /\ GrowsForward(F)
  BY <1>3 DEF SimpleOK
<1>5. PICK G : G = F \cup {t}
  BY Zenon
<1>6. PICK C : C = stripped \ G
  BY Zenon
<1>7. /\ Reaches(list, 0, F, t, d, a, b) /\ G \subseteq stripped
      /\ ids \in Seq(Nat) /\ n \in 0 .. Len(ids) - 3 /\ Written(C)
  BY <1>1, <1>2, <1>4, <1>5, <1>6 DEF GrowsForward, GrowsStrand
<1>8. F \in SUBSET InUse /\ G \in SUBSET InUse /\ C \in SUBSET InUse
  BY <1>4, <1>6, <1>7 DEF SimpleOK, P!ArraysOK, P!InUse, InUse
<1>9. IsFiniteSet(F) /\ IsFiniteSet(G) /\ IsFiniteSet(C)
  BY <1>8, PartsAreFinite DEF GoodMesh
<1>10. x \in Nat
  <2>1. Along(a, b, t, d, Len(list) - 1 + 0) /\ t \in InUse /\ d \in Dir
    BY <1>7 DEF Reaches, Strand
  <2> QED
    BY <1>1, <2>1, SeenAlong
<1>11. PrefixTurned(Append(ids, x), n) = more
  <2>1. n \in 0 .. Len(ids)
    BY <1>7
  <2> QED
    BY <1>2, <1>7, <1>10, <2>1, PrefixBehind, Zenon
<1>12. ListSpells(more, 0, G) /\ Fits(more, G) /\ Len(more) >= 3
  <2>1. 0 \in Nat
    OBVIOUS
  <2> QED
    BY <1>1, <1>2, <1>5, <1>7, <1>9, <2>1, StrandEnds, Zenon
<1>13. Len(more) \in 3 .. 2 * MaxTris + 2
  <2>1. PICK k : k = Len(more)
    BY Zenon
  <2>2. k \in Nat /\ k >= 3
    <3>1. more \in Seq(Nat)
      BY <1>12 DEF ListSpells
    <3> QED
      BY <1>12, <2>1, <3>1
  <2>3. k \in 3 .. 2 * MaxTris + 2
    BY <1>8, <1>12, <2>1, <2>2, FittingIsShort
  <2> QED
    BY <2>1, <2>3
<1>14. Written(C \cup G)'
  <2>1. C \cap G = {}
    BY <1>6
  <2>2. strips' = Append(strips, more) /\ UNCHANGED <<mesh, preserve>>
    BY <1>3, <1>11
  <2> QED
    BY <1>7, <1>9, <1>12, <1>13, <2>1, <2>2, WrittenMore, Zenon
<1>15. Written(stripped)'
  <2>1. stripped' = C \cup G
    BY <1>3, <1>6, <1>7
  <2> QED
    BY <1>14, <2>1, Zenon DEF Written
<1>16. MeshOK' /\ P!ArraysOK' /\ P!CountsOK' /\ P!Sorted(sharedByte', lists', InUse' \ stripped')
  BY <1>3 DEF SimpleOK, MeshOK, P!ArraysOK, P!CountsOK, P!MeshOK, P!InUse, InUse, P!Open, mesh, stripVars,
              endpointVars
<1> QED
  BY <1>3, <1>15, <1>16 DEF SimpleOK

(* IDs along an edge lie along the neighbour's side of it in reverse.      *)
LEMMA AlongTheOther ==
  ASSUME GoodMesh, MeshOK, NEW t \in InUse, NEW d \in Dir, NEW u \in InUse, u = neighbours[t][d],
         NEW a, NEW b, NEW n \in Nat, Along(a, b, t, d, n), NEW i, i = indices[t][d],
         NEW m \in Nat, preserve /\ IsOriented => (m % 2 = 1 <=> n % 2 = 1)
  PROVE  Along(b, a, u, i, m)
<1>1. u # Null /\ t \in Tris
  BY MaxTrisAssumption DEF MeshOK, IsMesh, InUse, Tris, Null
<1>2. EndsOf(u, i) = EndsOf(t, d)
  BY <1>1 DEF GoodMesh
<1>3. PICK c : c = Opposite(t, d)
  OBVIOUS
<1>4. /\ a # b
      /\ a = Edge(t, d)[1] => b = Edge(t, d)[2]
      /\ a # Edge(t, d)[1] => b = Edge(t, d)[1] /\ a = Edge(t, d)[2]
  BY <1>3, SeenAlong
<1>5. {b, a} = EndsOf(u, i)
  BY <1>2 DEF Along
<1>6. ASSUME preserve, IsOriented PROVE b = Edge(u, i)[1] <=> m % 2 = 1
  <2>1. Edge(u, i)[1] = Edge(t, d)[2]
    <3>1. t \in 1 .. trisCount
      BY DEF InUse
    <3>2. Edge(u, i) = <<Edge(t, d)[2], Edge(t, d)[1]>>
      BY <1>1, <1>6, <3>1 DEF IsOriented
    <3> QED
      BY <3>2
  <2>2. a = Edge(t, d)[1] <=> n % 2 = 1
    BY <1>6 DEF Along
  <2> QED
    BY <1>4, <1>6, <2>1, <2>2
<1> QED
  BY <1>5, <1>6 DEF Along

(* A number is even, or the next one is.                                   *)
LEMMA MadeEven ==
  ASSUME NEW m \in Nat
  PROVE  \E other \in {0, 1} : (m + other) % 2 = 0
<1>1. CASE m % 2 = 0
  <2>1. (m + 0) % 2 = 0
    BY <1>1
  <2> QED
    BY <2>1
<1>2. CASE m % 2 # 0
  <2>1. (m + 1) % 2 = 0
    BY <1>2
  <2> QED
    BY <2>1
<1> QED
  BY <1>1, <1>2

(* The last ID of the prefix is x, once more to fix the orientation of n   *)
(* IDs; the prefix is in its final length m, with two IDs before it.       *)
PrefixIs(list, x, n, turn, more, m) ==
  IF preserve /\ ~((n + turn) % 2 = 1) THEN more = Append(Append(list, x), x) /\ m = n + 2
                                       ELSE more = Append(list, x) /\ m = n + 1
PrefixRight(list, n, turn, other, F) ==
  /\ list \in Seq(Nat) /\ n \in Nat /\ Len(list) = n + 2 /\ Fits(list, F)
  /\ other \in {0, 1} /\ ListSpells(list, other, F) /\ (n + other) % 2 = 0
  /\ preserve /\ IsOriented => other = turn

(* It is right for an even number of IDs before it, read from its end.     *)
LEMMA PrefixEnds ==
  ASSUME GoodMesh, NEW list \in Seq(Nat), NEW n \in Nat, Len(list) = n + 2, NEW turn \in {0, 1},
         NEW F, IsFiniteSet(F), NEW t, NEW d, NEW a, NEW b, Reaches(list, turn, F, t, d, a, b),
         NEW more, NEW m, PrefixIs(list, Opposite(t, d), n, turn, more, m)
  PROVE  \E other : PrefixRight(more, m, turn, other, F \cup {t})
<1> SUFFICES ASSUME NEW x, x = Opposite(t, d), NEW repeats, repeats <=> preserve /\ ~((n + turn) % 2 = 1),
                    IF repeats THEN more = Append(Append(list, x), x) /\ m = n + 2
                               ELSE more = Append(list, x) /\ m = n + 1
             PROVE  \E other : PrefixRight(more, m, turn, other, F \cup {t})
  BY Zenon DEF PrefixIs
<1>1. PICK G : G = F \cup {t}
  BY Zenon
<1>2. PICK short : short = Append(list, x)
  BY Zenon
<1>3. /\ ListSpells(short, turn, G) /\ Fits(short, G) /\ Len(short) = Len(list) + 1 /\ t \notin F
      /\ Len(list) <= 2 * Cardinality(F) + 2
  <2>1. turn \in Nat
    OBVIOUS
  <2>2. LET long == Append(list, Opposite(t, d))
        IN  /\ ListSpells(long, turn, F \cup {t}) /\ Fits(long, F \cup {t})
            /\ Len(long) = Len(list) + 1 /\ t \notin F
    BY <2>1, StrandEnds
  <2> QED
    BY <1>1, <1>2, <2>2 DEF Reaches, Fits
<1>4. x \in Nat
  <2>1. Along(a, b, t, d, Len(list) - 1 + turn) /\ t \in InUse /\ d \in Dir
    BY DEF Reaches, Strand
  <2> QED
    BY <2>1, SeenAlong
<1>5. IsFiniteSet(G) /\ Cardinality(G) = Cardinality(F) + 1 /\ Cardinality(F) \in Nat
  BY <1>1, <1>3, FS_AddElement, FS_CardinalityType
<1>6. short \in Seq(Nat) /\ Len(short) = n + 3 /\ short[n + 3] = x
  BY <1>2, <1>3, <1>4
<1>7. PICK k \in Nat : k = Cardinality(F) /\ Cardinality(G) = k + 1
  BY <1>5
<1>8. n + 2 <= 2 * k + 2
  BY <1>3, <1>7
<1>9. /\ more \in Seq(Nat) /\ m \in Nat /\ Len(more) = m + 2 /\ Fits(more, G)
      /\ ListSpells(more, turn, G)
  <2>1. CASE repeats
    <3>1. more = Append(short, x) /\ m = n + 2
      BY <1>2, <2>1
    <3>2. more \in Seq(Nat) /\ Len(more) = n + 4
      BY <1>4, <1>6, <3>1
    <3>3. ListSpells(more, turn, G)
      <4>1. turn \in Nat /\ x = short[Len(short)]
        BY <1>6
      <4> QED
        BY <1>3, <1>4, <1>5, <3>1, <4>1, ListPadded, Zenon
    <3>4. n + 4 <= 2 * (k + 1) + 2
      BY <1>8
    <3>5. Fits(more, G)
      BY <1>7, <3>2, <3>4 DEF Fits
    <3> QED
      BY <3>1, <3>2, <3>3, <3>5
  <2>2. CASE ~repeats
    <3>1. more = short /\ m = n + 1
      BY <1>2, <2>2
    <3> QED
      BY <1>3, <1>6, <3>1
  <2> QED
    BY <2>1, <2>2
<1>10. \E other \in {0, 1} :
         /\ ListSpells(more, other, G) /\ (m + other) % 2 = 0
         /\ preserve /\ IsOriented => other = turn
  <2>1. CASE preserve /\ IsOriented
    <3>1. (m + turn) % 2 = 0
      <4>1. CASE repeats
        <5>1. m = n + 2 /\ ~((n + turn) % 2 = 1)
          BY <4>1
        <5> QED
          BY <5>1
      <4>2. CASE ~repeats
        <5>1. m = n + 1 /\ (n + turn) % 2 = 1
          BY <2>1, <4>2
        <5> QED
          BY <5>1
      <4> QED
        BY <4>1, <4>2
    <3> QED
      BY <1>9, <3>1
  <2>2. CASE ~(preserve /\ IsOriented)
    <3>1. PICK other \in {0, 1} : (m + other) % 2 = 0
      BY <1>9, MadeEven
    <3>2. ListSpells(more, other, G)
      BY <1>9, <2>2, TurnsAlike
    <3> QED
      BY <2>2, <3>1, <3>2
  <2> QED
    BY <2>1, <2>2
<1> QED
  BY <1>1, <1>9, <1>10 DEF PrefixRight

(* IDs before others.                                                      *)
LEMMA IdsJoined ==
  ASSUME NEW h \in Seq(Nat), NEW s \in Seq(Nat)
  PROVE  /\ h \o s \in Seq(Nat) /\ Len(h \o s) = Len(h) + Len(s)
         /\ \A i \in 1 .. Len(h) : (h \o s)[i] = h[i]
         /\ \A i \in 1 .. Len(s) : (h \o s)[i + Len(h)] = s[i]
<1>1. PICK both, k, n : both = h \o s /\ k = Len(h) /\ n = Len(s)
  BY Zenon
<1>2. k \in Nat /\ n \in Nat
  BY <1>1
<1>3. /\ both \in Seq(Nat) /\ Len(both) = k + n
      /\ \A j \in 1 .. k + n : both[j] = IF j <= k THEN h[j] ELSE s[j - k]
  BY <1>1, ConcatProperties
<1>4. ASSUME NEW i \in 1 .. k PROVE both[i] = h[i]
  BY <1>2, <1>3
<1>5. ASSUME NEW i \in 1 .. n PROVE both[i + k] = s[i]
  <2>1. PICK j : j = i + k
    OBVIOUS
  <2>2. j \in 1 .. k + n /\ ~(j <= k) /\ j - k = i
    BY <1>2, <2>1
  <2>3. both[j] = s[j - k]
    BY <1>3, <2>2
  <2> QED
    BY <2>1, <2>2, <2>3
<1> QED
  BY <1>1, <1>3, <1>4, <1>5

(* Two IDs before others.                                                  *)
LEMMA TwoBefore ==
  ASSUME NEW head \in Seq(Nat), Len(head) = 2, NEW s \in Seq(Nat)
  PROVE  /\ head \o s \in Seq(Nat) /\ Len(head \o s) = Len(s) + 2
         /\ (head \o s)[1] = head[1] /\ (head \o s)[2] = head[2]
         /\ \A i \in 1 .. Len(s) : (head \o s)[i + 2] = s[i]
<1>1. /\ head \o s \in Seq(Nat) /\ Len(head \o s) = Len(head) + Len(s)
      /\ \A i \in 1 .. Len(head) : (head \o s)[i] = head[i]
      /\ \A i \in 1 .. Len(s) : (head \o s)[i + Len(head)] = s[i]
  BY IdsJoined, Zenon
<1>2. PICK k, n \in Nat : k = Len(head) /\ k = 2 /\ n = Len(s)
  OBVIOUS
<1>3. 1 \in 1 .. k /\ 2 \in 1 .. k /\ k + n = n + 2
  BY <1>2
<1> QED
  BY <1>1, <1>2, <1>3

(* Three behind others.                                                    *)
LEMMA ThreeBehind ==
  ASSUME NEW tail \in Seq(Nat), Len(tail) = 3, NEW s \in Seq(Nat)
  PROVE  /\ s \o tail \in Seq(Nat) /\ Len(s \o tail) = Len(s) + 3
         /\ (s \o tail)[Len(s) + 1] = tail[1] /\ (s \o tail)[Len(s) + 2] = tail[2]
         /\ (s \o tail)[Len(s) + 3] = tail[3]
         /\ \A i \in 1 .. Len(s) : (s \o tail)[i] = s[i]
<1>1. /\ s \o tail \in Seq(Nat) /\ Len(s \o tail) = Len(s) + Len(tail)
      /\ \A i \in 1 .. Len(s) : (s \o tail)[i] = s[i]
      /\ \A i \in 1 .. Len(tail) : (s \o tail)[i + Len(s)] = tail[i]
  BY IdsJoined, Zenon
<1>2. PICK k, n \in Nat : k = Len(tail) /\ k = 3 /\ n = Len(s)
  OBVIOUS
<1>3. 1 \in 1 .. k /\ 2 \in 1 .. k /\ 3 \in 1 .. k /\ 1 + n = n + 1 /\ 2 + n = n + 2 /\ 3 + n = n + 3
  BY <1>2
<1> QED
  BY <1>1, <1>2, <1>3

(* Places of a list, counted from its end.                                 *)
LEMMA Mirrored ==
  ASSUME NEW n \in Nat, NEW i \in 1 .. n, NEW j, j = n + 1 - i
  PROVE  j \in 1 .. n /\ j + 2 = n + 3 - i /\ i \in 1 .. n + 2
OBVIOUS

(* Those of its last three.                                                *)
LEMMA LastThree ==
  ASSUME NEW n \in Nat, NEW l, l = n + 3, NEW i \in 1 .. l, i \notin 1 .. n
  PROVE  (i = n + 1 \/ i = n + 2 \/ i = n + 3) /\ i \in n + 1 .. l
OBVIOUS

(* The first IDs are read in reverse.                                      *)
LEMMA TurnedIs ==
  ASSUME NEW s \in Seq(Nat), NEW l \in Nat, l = Len(s), NEW n \in 0 .. l
  PROVE  /\ PrefixTurned(s, n) \in Seq(Nat) /\ Len(PrefixTurned(s, n)) = l
         /\ \A i \in 1 .. n : PrefixTurned(s, n)[i] = s[n + 1 - i]
         /\ \A i \in n + 1 .. l : PrefixTurned(s, n)[i] = s[i]
<1>1. PrefixTurned(s, n) = [i \in 1 .. l |-> IF i <= n THEN s[n + 1 - i] ELSE s[i]]
  BY DEF PrefixTurned
<1>2. \A i \in 1 .. l : (IF i <= n THEN s[n + 1 - i] ELSE s[i]) \in Nat
  OBVIOUS
<1>3. PICK turned : turned = PrefixTurned(s, n)
  OBVIOUS
<1>4. turned \in Seq(Nat) /\ Len(turned) = l
  BY <1>1, <1>2, <1>3
<1>5. ASSUME NEW i \in 1 .. n PROVE turned[i] = s[n + 1 - i]
  BY <1>1, <1>3
<1>6. ASSUME NEW i \in n + 1 .. l PROVE turned[i] = s[i]
  BY <1>1, <1>3
<1> QED
  BY <1>3, <1>4, <1>5, <1>6

(* A list in reverse; the core entrances, forward and backward.            *)
ReverseOf(rev, list) ==
  rev \in Seq(Nat) /\ Len(rev) = Len(list) /\ \A i \in 1 .. Len(list) : rev[i] = list[Len(list) + 1 - i]
EntrancesAre(head, tail, x, y, z) ==
  /\ x \in Nat /\ y \in Nat /\ z \in Nat
  /\ head \in Seq(Nat) /\ Len(head) = 2 /\ head[1] = y /\ head[2] = x
  /\ tail \in Seq(Nat) /\ Len(tail) = 3 /\ tail[1] = x /\ tail[2] = y /\ tail[3] = z

(* The prefix is turned round in front of the core entrances.              *)
LEMMA PrefixRead ==
  ASSUME NEW head, NEW tail, NEW x, NEW y, NEW z, EntrancesAre(head, tail, x, y, z),
         NEW s \in Seq(Nat), NEW rev, ReverseOf(rev, head \o s)
  PROVE  /\ PrefixTurned(s \o tail, Len(s)) = Append(rev, z) /\ rev[Len(s) + 1] = x /\ rev[Len(s) + 2] = y
         /\ s \o tail \in Seq(Nat) /\ Len(s \o tail) = Len(s) + 3
<1> SUFFICES ASSUME NEW n, n = Len(s), NEW list, list = head \o s, NEW all, all = s \o tail
             PROVE  /\ PrefixTurned(all, n) = Append(rev, z) /\ rev[n + 1] = x /\ rev[n + 2] = y
                    /\ all \in Seq(Nat) /\ Len(all) = n + 3
  BY Zenon
<1>1. n \in Nat
  OBVIOUS
<1>2. /\ x \in Nat /\ y \in Nat /\ z \in Nat
      /\ head \in Seq(Nat) /\ Len(head) = 2 /\ head[1] = y /\ head[2] = x
      /\ tail \in Seq(Nat) /\ Len(tail) = 3 /\ tail[1] = x /\ tail[2] = y /\ tail[3] = z
  BY DEF EntrancesAre
<1>3. /\ list \in Seq(Nat) /\ Len(list) = n + 2 /\ list[1] = y /\ list[2] = x
      /\ \A i \in 1 .. n : list[i + 2] = s[i]
  <2>1. /\ head \o s \in Seq(Nat) /\ Len(head \o s) = Len(s) + 2
        /\ (head \o s)[1] = head[1] /\ (head \o s)[2] = head[2]
        /\ \A i \in 1 .. Len(s) : (head \o s)[i + 2] = s[i]
    BY <1>2, TwoBefore, Zenon
  <2> QED
    BY <1>2, <2>1, Zenon
<1>4. /\ s \o tail \in Seq(Nat) /\ Len(s \o tail) = n + 3
      /\ (s \o tail)[n + 1] = tail[1] /\ (s \o tail)[n + 2] = tail[2] /\ (s \o tail)[n + 3] = tail[3]
      /\ \A i \in 1 .. n : (s \o tail)[i] = s[i]
  <2>1. /\ s \o tail \in Seq(Nat) /\ Len(s \o tail) = Len(s) + 3
        /\ (s \o tail)[Len(s) + 1] = tail[1] /\ (s \o tail)[Len(s) + 2] = tail[2]
        /\ (s \o tail)[Len(s) + 3] = tail[3]
        /\ \A i \in 1 .. Len(s) : (s \o tail)[i] = s[i]
    BY <1>2, ThreeBehind, Zenon
  <2> QED
    BY <1>2, <2>1
<1>5. /\ all \in Seq(Nat) /\ Len(all) = n + 3
      /\ all[n + 1] = x /\ all[n + 2] = y /\ all[n + 3] = z
      /\ \A i \in 1 .. n : all[i] = s[i]
  BY <1>4, <1>2
<1>6. rev \in Seq(Nat) /\ Len(rev) = n + 2 /\ \A i \in 1 .. n + 2 : rev[i] = list[n + 3 - i]
  <2>1. Len(list) = n + 2 /\ Len(list) + 1 = n + 3
    BY <1>1, <1>3
  <2> QED
    BY <2>1 DEF ReverseOf
<1>7. rev[n + 1] = x /\ rev[n + 2] = y
  <2>1. n + 1 \in 1 .. n + 2 /\ n + 2 \in 1 .. n + 2 /\ n + 3 - (n + 1) = 2 /\ n + 3 - (n + 2) = 1
    BY <1>1
  <2> QED
    BY <1>3, <1>6, <2>1, Zenon
<1>8. PICK turned : turned = PrefixTurned(all, n)
  OBVIOUS
<1>9. PICK l \in Nat : l = n + 3
  BY <1>1
<1>10. /\ turned \in Seq(Nat) /\ Len(turned) = l
       /\ \A i \in 1 .. n : turned[i] = all[n + 1 - i]
       /\ \A i \in n + 1 .. l : turned[i] = all[i]
  <2>1. l = Len(all) /\ n \in 0 .. l
    BY <1>1, <1>5, <1>9
  <2> QED
    BY <1>5, <1>8, <2>1, TurnedIs, Zenon
<1>11. PICK more : more = Append(rev, z)
  BY Zenon
<1>12. /\ more \in Seq(Nat) /\ Len(more) = l /\ more[n + 3] = z
       /\ \A i \in 1 .. n + 2 : more[i] = rev[i]
  BY <1>1, <1>9, <1>11, <1>2, <1>6
<1>13. ASSUME NEW i \in 1 .. l PROVE turned[i] = more[i]
  <2>1. CASE i \in 1 .. n
    <3>1. PICK j : j = n + 1 - i
      OBVIOUS
    <3>2. j \in 1 .. n /\ j + 2 = n + 3 - i /\ i \in 1 .. n + 2
      BY <1>1, <2>1, <3>1, Mirrored
    <3>3. turned[i] = s[j]
      BY <1>5, <1>10, <2>1, <3>1, <3>2, Zenon
    <3>4. more[i] = list[j + 2]
      BY <1>12, <1>6, <3>2, Zenon
    <3> QED
      BY <1>3, <3>2, <3>3, <3>4, Zenon
  <2>2. CASE i \notin 1 .. n
    <3>1. /\ i = n + 1 \/ i = n + 2 \/ i = n + 3
          /\ i \in n + 1 .. l
      BY <1>1, <1>9, <2>2, LastThree
    <3>2. turned[i] = all[i]
      BY <1>10, <3>1, Zenon
    <3>3. n + 1 \in 1 .. n + 2 /\ n + 2 \in 1 .. n + 2
      BY <1>1
    <3>4. more[n + 1] = x /\ more[n + 2] = y
      BY <1>7, <1>12, <3>3, Zenon
    <3> QED
      BY <1>5, <1>12, <3>1, <3>2, <3>4, Zenon
  <2> QED
    BY <2>1, <2>2
<1>14. turned = more
  BY <1>10, <1>12, <1>13, SameIds
<1> QED
  BY <1>5, <1>7, <1>8, <1>11, <1>14

(* A list can be reversed.                                                 *)
LEMMA ReverseIs ==
  ASSUME NEW list \in Seq(Nat)
  PROVE  \E rev : ReverseOf(rev, list)
<1>1. PICK n \in Nat : n = Len(list)
  OBVIOUS
<1>2. \A i \in 1 .. n : list[n + 1 - i] \in Nat
  BY <1>1
<1>3. PICK rev : rev = [i \in 1 .. n |-> list[n + 1 - i]]
  BY Zenon
<1>4. rev \in Seq(Nat) /\ Len(rev) = n /\ \A i \in 1 .. n : rev[i] = list[n + 1 - i]
  BY <1>1, <1>2, <1>3
<1> QED
  BY <1>1, <1>4 DEF ReverseOf

(* Three IDs and two, as lists.                                            *)
LEMMA CoreLists ==
  ASSUME NEW x \in Nat, NEW y \in Nat, NEW z \in Nat
  PROVE  /\ <<y, x>> \in Seq(Nat) /\ Len(<<y, x>>) = 2 /\ <<y, x>>[1] = y /\ <<y, x>>[2] = x
         /\ <<x, y, z>> \in Seq(Nat) /\ Len(<<x, y, z>>) = 3
         /\ <<x, y, z>>[1] = x /\ <<x, y, z>>[2] = y /\ <<x, y, z>>[3] = z
OBVIOUS

(* Three core triangles, and the core entrances x, y, z.                   *)
CorePath(t, e, u, f, v, x, y, z) ==
  /\ t \in InUse /\ e \in Dir /\ u \in InUse /\ u = neighbours[t][e]
  /\ f \in Dir /\ f # indices[t][e] /\ v \in InUse /\ v = neighbours[u][f] /\ v # u
  /\ x \in Nat /\ y \in Nat /\ z \in Nat /\ {x, y} = EndsOf(t, e) /\ y \in EndsOf(u, f)
  /\ z = Opposite(u, indices[t][e])

(* The prefix is right, read from its end: the strip goes on across the    *)

(* edge of the first two core triangles, and from there to the third one.  *)
LEMMA PrefixGoesOn ==
  ASSUME GoodMesh, MeshOK,
         NEW t, NEW e, NEW u, NEW f, NEW v, NEW x, NEW y, NEW z, CorePath(t, e, u, f, v, x, y, z),
         NEW F \in SUBSET InUse, u \notin F, v \notin F,
         NEW list, NEW n, NEW turn \in {0, 1}, NEW other, PrefixRight(list, n, turn, other, F),
         Along(y, x, t, e, turn + 1), list[1] = y, list[2] = x,
         NEW rev, ReverseOf(rev, list), rev[n + 1] = x, rev[n + 2] = y
  PROVE  Reaches(Append(rev, z), 0, F \cup {u}, v, indices[u][f], y, z)
<1>8. /\ t \in InUse /\ e \in Dir /\ u \in InUse /\ u = neighbours[t][e]
      /\ f \in Dir /\ f # indices[t][e] /\ v \in InUse /\ v = neighbours[u][f] /\ v # u
      /\ x \in Nat /\ y \in Nat /\ z \in Nat /\ y \in EndsOf(u, f)
      /\ z = Opposite(u, indices[t][e])
  BY DEF CorePath
<1>9. /\ list \in Seq(Nat) /\ n \in Nat /\ Len(list) = n + 2 /\ Fits(list, F)
      /\ other \in {0, 1} /\ ListSpells(list, other, F) /\ (n + other) % 2 = 0
      /\ preserve /\ IsOriented => other = turn
  BY DEF PrefixRight
<1>10. /\ rev \in Seq(Nat) /\ Len(rev) = Len(list) /\ Len(rev) = n + 2
       /\ \A i \in 1 .. Len(list) : rev[i] = list[Len(list) + 1 - i]
  BY <1>9 DEF ReverseOf
<1>1. PICK i : i = indices[t][e]
  OBVIOUS
<1>2. t \in Tris /\ u # Null /\ i \in Dir
  <2>1. t \in Tris /\ u # Null
    BY <1>8, MaxTrisAssumption DEF MeshOK, IsMesh, InUse, Tris, Null
  <2> QED
    BY <1>1, <1>8, <2>1 DEF MeshOK, IsMesh, Stitched
<1>3. IsFiniteSet(F)
  BY PartsAreFinite DEF GoodMesh
<1>4. ListSpells(rev, 0, F)
  <2>1. IsEven(Len(list) + other + 0)
    BY <1>9 DEF IsEven
  <2>2. other \in Nat /\ 0 \in Nat
    BY <1>9
  <2> QED
    BY <1>9, <1>10, <2>1, <2>2, ListReversed, Zenon
<1>5. Along(x, y, u, i, n + 1)
  <2>1. PICK k \in Nat, m \in Nat : k = turn + 1 /\ m = n + 1
    BY <1>9
  <2>2. preserve /\ IsOriented => (m % 2 = 1 <=> k % 2 = 1)
    <3>1. ASSUME other = turn PROVE m % 2 = 1 <=> k % 2 = 1
      <4>1. CASE turn = 0
        <5>1. n % 2 = 0
          BY <1>9, <3>1, <4>1
        <5>2. (n + 1) % 2 = 1
          BY <1>9, <5>1, OddAndEven
        <5> QED
          BY <2>1, <4>1, <5>2
      <4>2. CASE turn = 1
        <5>1. (n + 1) % 2 = 0
          BY <1>9, <3>1, <4>2
        <5> QED
          BY <2>1, <4>2, <5>1
      <4> QED
        BY <4>1, <4>2
    <3> QED
      BY <1>9, <3>1
  <2>3. Along(y, x, t, e, k)
    BY <2>1
  <2>4. Along(x, y, u, i, m)
    BY <1>1, <1>8, <2>2, <2>3, AlongTheOther
  <2> QED
    BY <2>1, <2>4
<1>6. Reaches(rev, 0, F, u, i, x, y)
  <2>1. Len(rev) - 1 = n + 1 /\ Len(rev) >= 2 /\ Len(rev) - 1 + 0 = n + 1
    BY <1>9, <1>10
  <2>2. Along(rev[Len(rev) - 1], rev[Len(rev)], u, i, Len(rev) - 1 + 0)
    BY <1>5, <1>10, <2>1
  <2>3. Strand(rev, 0, F, u, i)
    BY <1>2, <1>4, <1>8, <2>1, <2>2 DEF Strand
  <2>4. Fits(rev, F)
    BY <1>9, <1>10 DEF Fits
  <2> QED
    BY <1>10, <2>1, <2>3, <2>4 DEF Reaches
<1>7. Reaches(Append(rev, Opposite(u, i)), 0, F \cup {u}, neighbours[u][f], indices[u][f], y, Opposite(u, i))
  <2>1. f # i /\ neighbours[u][f] \in InUse /\ neighbours[u][f] \notin F /\ neighbours[u][f] # u /\ 0 \in Nat
    BY <1>1, <1>8
  <2> QED
    BY <1>3, <1>6, <1>8, <2>1, StrandNear
<1> QED
  BY <1>1, <1>7, <1>8

(* What the prefix becomes.                                                *)
LEMMA FinishBackwardIs ==
  ASSUME S!FinishBackward, Opposite(end.tri, end.indexToPrev) \in Nat, ids \in Seq(Nat),
         NEW F, NEW turn, GrowsBackward(turn, F), NEW head \in Seq(Nat)
  PROVE  \E prefix \in Seq(Nat) :
           /\ PrefixIs(head \o ids, Opposite(end.tri, end.indexToPrev), Len(ids), turn,
                       head \o prefix, Len(prefix))
           /\ ids' = prefix \o SimpleEntrances /\ prefixCount' = Len(prefix)
           /\ end' = S!End(core[3], indices[core[2]][coreDirs[2]], SimpleEntrances[2], SimpleEntrances[3], FALSE)
<1>1. PICK x, list : x = Opposite(end.tri, end.indexToPrev) /\ list = head \o ids
  BY Zenon
<1>2. PICK prefix : prefix = ids \o (IF preserve /\ ~end.isOriented THEN <<x, x>> ELSE <<x>>)
  BY Zenon
<1>3. /\ ids' = prefix \o SimpleEntrances /\ prefixCount' = Len(prefix)
      /\ end' = S!End(core[3], indices[core[2]][coreDirs[2]], SimpleEntrances[2], SimpleEntrances[3], FALSE)
  BY <1>1, <1>2, SimpleSees, Zenon DEF S!FinishBackward, S!Completing, SimpleEntrances
<1>4. /\ x \in Nat /\ Append(ids, x) \in Seq(Nat) /\ head \o Append(ids, x) = Append(list, x)
  BY <1>1, IdsBehind
<1>5. end.isOriented <=> (Len(ids) + turn) % 2 = 1
  BY DEF GrowsBackward
<1>6. prefix \in Seq(Nat) /\ PrefixIs(list, x, Len(ids), turn, head \o prefix, Len(prefix))
  <2>1. CASE preserve /\ ~end.isOriented
    <3>1. prefix = ids \o <<x, x>>
      BY <1>2, <2>1
    <3>2. prefix = Append(Append(ids, x), x) /\ prefix \in Seq(Nat) /\ Len(prefix) = Len(ids) + 2
      BY <1>4, <3>1, IdsAdded
    <3>3. PICK mid : mid = Append(ids, x)
      BY Zenon
    <3>4. head \o Append(mid, x) = Append(head \o mid, x)
      BY <1>4, <3>3, IdsBehind, Zenon
    <3> QED
      BY <1>4, <1>5, <2>1, <3>2, <3>3, <3>4, Zenon DEF PrefixIs
  <2>2. CASE ~(preserve /\ ~end.isOriented)
    <3>1. prefix = ids \o <<x>>
      BY <1>2, <2>2
    <3>2. prefix = Append(ids, x) /\ prefix \in Seq(Nat) /\ Len(prefix) = Len(ids) + 1
      BY <1>4, <3>1, IdsAdded
    <3> QED
      BY <1>4, <1>5, <2>2, <3>2, Zenon DEF PrefixIs
  <2> QED
    BY <2>1, <2>2
<1> QED
  BY <1>1, <1>3, <1>6, Zenon

(* The backward end ends: the prefix is complete, and the strip grows      *)

(* forward from the third core triangle.                                   *)
LEMMA GrowsForwardNow ==
  ASSUME SimpleOK, GoodMesh, S!FinishBackward, UNCHANGED endpointVars,
         IsCore(3), coreDirs[2] # indices[core[1]][coreDirs[1]],
         NEW F, F \subseteq stripped, NEW turn \in {0, 1}, GrowsBackward(turn, F)
  PROVE  \E G \in SUBSET stripped : GrowsForward(G)'
<1>1. PICK t, d, a, b, x, o :
        /\ t = end.tri /\ d = end.indexToPrev /\ a = end.prevEntrance /\ b = end.entrance
        /\ x = Opposite(t, d) /\ o = end.isOriented
  OBVIOUS
<1>2. PICK c, u, v, e, f : c = core[1] /\ u = core[2] /\ v = core[3] /\ e = coreDirs[1] /\ f = coreDirs[2]
  OBVIOUS
<1>3. PICK e1 \in Nat, e2 \in Nat, e3 \in Nat :
        /\ SimpleEntrances = <<e1, e2, e3>> /\ {e1, e2} = EndsOf(c, e)
        /\ e2 \in EndsOf(u, f) /\ f \in Dir /\ e3 = Opposite(u, indices[c][e])
        /\ v = neighbours[u][f] /\ v \in InUse /\ v \in stripped /\ v # c /\ v # u
  BY <1>2, CoreIs
<1>4. /\ c \in InUse /\ u \in InUse /\ e \in Dir /\ u = neighbours[c][e] /\ c # u
      /\ c \in stripped /\ u \in stripped
  <2>1. PICK n : n = 3
    OBVIOUS
  <2> QED
    BY <1>2, <2>1, CorePair
<1>5. PICK head, tail : head = <<e2, e1>> /\ tail = <<e1, e2, e3>>
  BY Zenon
<1>6. /\ head \in Seq(Nat) /\ Len(head) = 2 /\ head[1] = e2 /\ head[2] = e1
      /\ tail \in Seq(Nat) /\ Len(tail) = 3 /\ tail[1] = e1 /\ tail[2] = e2 /\ tail[3] = e3
  BY <1>5, CoreLists
<1>7. SimpleEntrances = tail /\ Backward(ids) = head \o ids
  BY <1>3, <1>5, <1>6 DEF Backward
<1>8. PICK list : list = head \o ids
  BY Zenon
<1>9. PICK X : X = stripped \ (F \cup {t, u, v})
  BY Zenon
<1>10. /\ Reaches(list, turn, F, t, d, a, b) /\ F \cup {t} \subseteq stripped
       /\ ids \in Seq(Nat) /\ {u, v} \cap (F \cup {t}) = {} /\ Written(X)
       /\ o <=> (Len(ids) + turn) % 2 = 1
       /\ Along(e2, e1, c, e, turn + 1)
  BY <1>1, <1>2, <1>6, <1>7, <1>8, <1>9, Zenon DEF GrowsBackward, GrowsStrand
<1>11. d \in Dir /\ t \in InUse
  BY <1>10 DEF Reaches, Strand
<1>12. x \in Nat
  <2>1. Along(a, b, t, d, Len(list) - 1 + turn)
    BY <1>10 DEF Reaches, Strand
  <2> QED
    BY <1>1, <1>11, <2>1, SeenAlong
<1>13. PICK prefix \in Seq(Nat) :
         /\ PrefixIs(list, x, Len(ids), turn, head \o prefix, Len(prefix))
         /\ ids' = prefix \o tail /\ prefixCount' = Len(prefix)
         /\ end' = S!End(v, indices[u][f], e2, e3, FALSE)
  <2>1. SimpleEntrances[2] = e2 /\ SimpleEntrances[3] = e3
    BY <1>6, <1>7
  <2>2. Opposite(end.tri, end.indexToPrev) \in Nat
    BY <1>1, <1>12
  <2>3. PICK prefix \in Seq(Nat) :
           /\ PrefixIs(head \o ids, Opposite(end.tri, end.indexToPrev), Len(ids), turn,
                       head \o prefix, Len(prefix))
           /\ ids' = prefix \o SimpleEntrances /\ prefixCount' = Len(prefix)
           /\ end' = S!End(core[3], indices[core[2]][coreDirs[2]], SimpleEntrances[2], SimpleEntrances[3], FALSE)
    BY <1>6, <1>10, <2>2, FinishBackwardIs, Zenon
  <2> QED
    BY <1>1, <1>2, <1>7, <1>8, <2>1, <2>3, Zenon
<1>14. PICK n \in Nat : n = Len(ids)
  BY <1>10
<1>15. PICK more, m : more = head \o prefix /\ m = Len(prefix)
  BY Zenon
<1>16. PICK G : G = F \cup {t}
  BY Zenon
<1>17. F \in SUBSET InUse /\ G \in SUBSET InUse /\ G \subseteq stripped /\ IsFiniteSet(F)
  <2>1. F \in SUBSET InUse /\ G \in SUBSET InUse /\ G \subseteq stripped
    BY <1>10, <1>16, Zenon DEF SimpleOK, P!ArraysOK, P!InUse, InUse
  <2> QED
    BY <2>1, PartsAreFinite DEF GoodMesh
<1>18. PICK other : PrefixRight(more, m, turn, other, G)
  <2>1. list \in Seq(Nat) /\ Len(list) = n + 2
    BY <1>6, <1>8, <1>10, <1>14, TwoBefore
  <2>2. PrefixIs(list, Opposite(t, d), n, turn, more, m)
    BY <1>1, <1>13, <1>14, <1>15
  <2> QED
    BY <1>10, <1>16, <1>17, <2>1, <2>2, PrefixEnds, Zenon
<1>19. more \in Seq(Nat) /\ m \in Nat /\ Len(more) = m + 2
  BY <1>18 DEF PrefixRight
<1>20. more[1] = e2 /\ more[2] = e1
  BY <1>6, <1>15, TwoBefore, Zenon
<1>21. PICK rev : ReverseOf(rev, more)
  BY <1>19, ReverseIs
<1>22. /\ PrefixTurned(prefix \o tail, m) = Append(rev, e3) /\ rev[m + 1] = e1 /\ rev[m + 2] = e2
       /\ prefix \o tail \in Seq(Nat) /\ Len(prefix \o tail) = m + 3
  <2>1. EntrancesAre(head, tail, e1, e2, e3)
    BY <1>3, <1>6 DEF EntrancesAre
  <2> QED
    BY <1>15, <1>21, <2>1, PrefixRead
<1>23. PICK H, i, longer : H = G \cup {u} /\ i = indices[u][f] /\ longer = Append(rev, e3)
  BY Zenon
<1>24. Reaches(longer, 0, H, v, i, e2, e3)
  <2>1. MeshOK /\ u \notin G /\ v \notin G
    BY <1>10, <1>16, Zenon DEF SimpleOK
  <2>2. CorePath(c, e, u, f, v, e1, e2, e3)
    BY <1>2, <1>3, <1>4 DEF CorePath
  <2>3. Reaches(Append(rev, e3), 0, G \cup {u}, v, indices[u][f], e2, e3)
    BY <1>10, <1>17, <1>18, <1>20, <1>21, <1>22, <2>1, <2>2, PrefixGoesOn, Zenon
  <2> QED
    BY <1>23, <2>3
<1>25. UNCHANGED <<mesh, preserve, strips>> /\ stripped' = stripped
  BY DEF S!FinishBackward, S!mesh, S!adjVars, mesh
<1>26. PrefixTurned(ids, prefixCount)' = longer
  <2>1. PrefixTurned(ids, prefixCount)' = PrefixTurned(prefix \o tail, m)
    BY <1>13, <1>15 DEF PrefixTurned
  <2> QED
    BY <1>22, <1>23, <2>1
<1>27. H \cup {v} \subseteq stripped' /\ X = stripped' \ (H \cup {v}) /\ H \in SUBSET stripped
  BY <1>3, <1>4, <1>9, <1>16, <1>17, <1>23, <1>25
<1>28. ids' \in Seq(Nat) /\ prefixCount' \in 0 .. Len(ids') - 3
  <2>1. m \in 0 .. m + 3 - 3
    BY <1>19
  <2> QED
    BY <1>13, <1>15, <1>22, <2>1
<1>29. GrowsForward(H)'
  <2>1. PICK no : no = FALSE
    BY Zenon
  <2>2. end' = S!End(v, i, e2, e3, no)
    BY <1>13, <1>23, <2>1, Zenon
  <2> QED
    BY <1>10, <1>24, <1>25, <1>26, <1>27, <1>28, <2>2, ForwardIs, Zenon
<1> QED
  BY <1>27, <1>29

(* The backward end ends.                                                  *)
LEMMA FinishBackwardSpells ==
  ASSUME SimpleOK, GoodMesh, S!FinishBackward, UNCHANGED endpointVars
  PROVE  SimpleOK'
<1>1. /\ pc = "SimpleGrow" /\ pc' = "SimpleGrow" /\ ~isForward /\ isForward'
      /\ UNCHANGED <<mesh, stripVars, stripped, sharedByte, lists, core, coreDirs>>
  BY DEF S!FinishBackward, S!mesh, S!stripVars, S!adjVars, S!coreVars, mesh, stripVars
<1>2. IsCore(3) /\ coreDirs[2] # indices[core[1]][coreDirs[1]]
  BY <1>1 DEF SimpleOK
<1>3. PICK F \in SUBSET stripped, turn \in {0, 1} : GrowsBackward(turn, F)
  BY <1>1 DEF SimpleOK
<1>4. \E G \in SUBSET stripped : GrowsForward(G)'
  BY <1>2, <1>3, GrowsForwardNow
<1>5. IsCore(3)' /\ coreDirs'[2] # indices'[core'[1]][coreDirs'[1]]
  BY <1>1, <1>2, CoreKept
<1>6. MeshOK' /\ P!ArraysOK' /\ P!CountsOK' /\ P!Sorted(sharedByte', lists', InUse' \ stripped')
  BY <1>1 DEF SimpleOK, MeshOK, P!ArraysOK, P!CountsOK, P!MeshOK, P!InUse, InUse, P!Open, mesh, stripVars,
              endpointVars
<1>7. \E G \in SUBSET stripped' : GrowsForward(G)'
  BY <1>1, <1>4
<1> QED
  BY <1>1, <1>5, <1>6, <1>7 DEF SimpleOK

(* Writing the strips of the simple algorithm keeps what they spell.       *)
LEMMA BuildingSimpleSpells ==
  ASSUME SpellInv, BuildingSimple
  PROVE  SpellInv'
<1> USE DEF Reading, Preparing, Tunneled, Writing, Simply, T!Quiet, T!Digging, T!Cementing
<1>1. /\ pc \in Simply /\ pc' \in Simply \cup {"Output"}
      /\ UNCHANGED <<mesh, preserve, input, endpointVars>> /\ S!Step
  BY BuildingSimpleFrame, Zenon DEF BuildingSimple, buildVars, settings, S!Step, S!OrderTris, S!NoCoreLeft, S!BuildFirst,
     S!BuildSecond, S!BuildThird, S!FinishShortStrip, S!GrowOn, S!FinishBackward, S!FinishForward
<1>2. /\ GoodMesh /\ MeshRead(Len(input)) /\ SimpleOK
  BY <1>1 DEF SpellInv
<1>3. \/ SimpleOK' /\ pc' \in Simply
      \/ Written(InUse)' /\ pc' = "Output"
  <2>1. CASE S!OrderTris
    <3>1. SimpleOK'
      BY <1>1, <1>2, <2>1, OrderTrisSpells
    <3> QED
      BY <2>1, <3>1 DEF S!OrderTris
  <2>2. CASE S!NoCoreLeft
    BY <1>2, <2>2, NoCoreLeftSpells
  <2>3. CASE S!BuildFirst
    <3>1. SimpleOK'
      BY <1>1, <1>2, <2>3, BuildFirstSpells
    <3> QED
      BY <2>3, <3>1 DEF S!BuildFirst
  <2>4. CASE S!BuildSecond
    <3>1. SimpleOK'
      BY <1>1, <1>2, <2>4, BuildSecondSpells
    <3> QED
      BY <2>4, <3>1 DEF S!BuildSecond
  <2>5. CASE S!BuildThird
    <3>1. SimpleOK'
      BY <1>1, <1>2, <2>5, BuildThirdSpells
    <3> QED
      BY <2>5, <3>1 DEF S!BuildThird
  <2>6. CASE S!FinishShortStrip
    <3>1. SimpleOK'
      BY <1>1, <1>2, <2>6, FinishShortStripSpells
    <3> QED
      BY <2>6, <3>1 DEF S!FinishShortStrip
  <2>7. CASE S!GrowOn
    <3>1. SimpleOK'
      BY <1>1, <1>2, <2>7, GrowOnSpells
    <3> QED
      BY <2>7, <3>1 DEF S!GrowOn
  <2>8. CASE S!FinishBackward
    <3>1. SimpleOK'
      BY <1>1, <1>2, <2>8, FinishBackwardSpells
    <3> QED
      BY <2>8, <3>1 DEF S!FinishBackward
  <2>9. CASE S!FinishForward
    <3>1. SimpleOK'
      BY <1>1, <1>2, <2>9, FinishForwardSpells
    <3> QED
      BY <2>9, <3>1 DEF S!FinishForward
  <2> QED
    BY <1>1, <2>1, <2>2, <2>3, <2>4, <2>5, <2>6, <2>7, <2>8, <2>9 DEF S!Step
<1>4. GoodMesh'
  BY <1>1, <1>2, MeshKept
<1>5. MeshRead(Len(input))'
  <2>1. PICK n : n = Len(input)
    BY Zenon
  <2>2. MeshRead(n)'
    BY <1>1, <1>2, <2>1, ReadAndWritten
  <2> QED
    BY <1>1, <2>1, <2>2 DEF MeshRead
<1>6. CollectSpells'
  BY <1>3 DEF CollectSpells
<1> QED
  BY <1>3, <1>4, <1>5, <1>6 DEF SpellInv

-----------------------------------------------------------------------------
(***************************************************************************)
(* What the caller relies on: the output ...                               *)
(***************************************************************************)

(* A step of a session keeps what is spelled.                              *)
LEMMA NextSpellInv ==
  ASSUME SessionInv, SpellInv, [Next]_sessionVars
  PROVE  SpellInv'
<1>1. CASE Calling
  <2>1. Step
    BY <1>1 DEF Calling
  <2> QED
    BY <2>1, CallSpells, DispatchSpells, BuildingSpells, PreprocessingSpells, TunnelingSpells,
       CollectingSpells, BuildingSimpleSpells DEF Step
<1>2. CASE Measure \/ CountList \/ VerifyStrips \/ Verifying \/ UNCHANGED sessionVars
  <2>1. UNCHANGED vars
    BY <1>2 DEF Measure, CountList, VerifyStrips, Verifying, sessionVars
  <2> QED
    BY <2>1, SpellKept
<1>3. CASE CallAgain
  BY <1>3, CallAgainSpells
<1> QED
  BY <1>1, <1>2, <1>3 DEF Next

(* In every phase the strips, as far as they go, spell their triangles.    *)
THEOREM SpellInvHolds ==
  ASSUME CancelsCleanly
  PROVE  Spec => []SpellInv
<1>1. SessionInit => SpellInv
  BY InitSpells
<1>2. SessionInv /\ SpellInv /\ [Next]_sessionVars => SpellInv'
  BY NextSpellInv
<1> QED
  BY <1>1, <1>2, SessionInvHolds, PTL DEF Spec

(* A proper triangle has three corners ...                                 *)
LEMMA CornersProper ==
  ASSUME NEW tri
  PROVE  M!IsProper(tri) <=> Cardinality({tri[1], tri[2], tri[3]}) = 3
<1>1. {M!Vertex(tri, d) : d \in M!Dir} = {tri[1], tri[2], tri[3]}
  <2>1. \A d \in M!Dir : d = 0 \/ d = 1 \/ d = 2
    BY DEF M!Dir
  <2>2. 0 \in M!Dir /\ 1 \in M!Dir /\ 2 \in M!Dir
    BY DEF M!Dir
  <2>3. M!Vertex(tri, 0) = tri[1] /\ M!Vertex(tri, 1) = tri[2] /\ M!Vertex(tri, 2) = tri[3]
    BY DEF M!Vertex
  <2> QED
    BY <2>1, <2>2, <2>3
<1>2. \A X : M!Cardinality(X) = Cardinality(X)
  BY DEF M!Cardinality, Cardinality, M!IsFiniteSet, IsFiniteSet
<1> QED
  BY <1>1, <1>2 DEF M!IsProper

(* ... which are different IDs.                                            *)
LEMMA ProperDiffer ==
  ASSUME NEW tri
  PROVE  M!IsProper(tri) <=> tri[1] # tri[2] /\ tri[2] # tri[3] /\ tri[3] # tri[1]
<1>1. Cardinality({tri[1], tri[2], tri[3]}) = 3 <=> Differ(tri[1], tri[2], tri[3])
  BY ThreeDiffer, Zenon
<1>2. M!IsProper(tri) <=> Cardinality({tri[1], tri[2], tri[3]}) = 3
  BY CornersProper
<1> QED
  BY <1>1, <1>2 DEF Differ

(* Triples that are alike have the same corners.                           *)
LEMMA AlikeCorners ==
  ASSUME NEW a, NEW b, NEW wound, Alike(a, b, wound)
  PROVE  {a[1], a[2], a[3]} = {b[1], b[2], b[3]}
<1>1. CASE wound
  <2>1. SameWinding(a, b)
    BY <1>1 DEF Alike
  <2> QED
    BY <2>1, WindingIs
<1>2. CASE ~wound
  BY <1>2, CornersAre, Zenon DEF Alike, SameCorners
<1> QED
  BY <1>1, <1>2

(* ... and are both proper or both degenerated.                            *)
LEMMA AlikeProper ==
  ASSUME NEW a, NEW b, NEW wound, Alike(a, b, wound), M!IsProper(b)
  PROVE  M!IsProper(a)
<1>1. /\ M!IsProper(a) <=> Cardinality({a[1], a[2], a[3]}) = 3
      /\ M!IsProper(b) <=> Cardinality({b[1], b[2], b[3]}) = 3
  BY CornersProper
<1>2. {a[1], a[2], a[3]} = {b[1], b[2], b[3]}
  BY AlikeCorners
<1> QED
  BY <1>1, <1>2

(* What comes out right for the triples of the list and of the array comes *)

(* out right for every triple.                                             *)
LEMMA MeshReadEvery ==
  ASSUME NEW n, MeshRead(n), NEW wound \in BOOLEAN, NEW tri
  PROVE  Cardinality({i \in M!ProperUpTo(input, n) : Alike(input[i], tri, wound)}) =
           InTris(InUse, tri, wound)
<1> DEFINE Q == M!ProperUpTo(input, n)
           Known == {Triple(t) : t \in InUse} \cup {input[i] : i \in Q}
<1>1. \A k \in Known : Cardinality({i \in Q : Alike(input[i], k, wound)}) = InTris(InUse, k, wound)
  BY DEF MeshRead
<1>2. \A t \in InUse : Triple(t) \in Known
  OBVIOUS
<1>3. \A i \in Q : input[i] \in Known
  OBVIOUS
<1> HIDE DEF Known, Q
<1>4. CASE \E k \in Known : Alike(k, tri, wound)
  <2>1. PICK k \in Known : Alike(k, tri, wound)
    BY <1>4
  <2>2. \A c : Alike(c, k, wound) <=> Alike(c, tri, wound)
    BY <2>1, AlikeIsAlike
  <2>3. {t \in InUse : Alike(Triple(t), tri, wound)} = {t \in InUse : Alike(Triple(t), k, wound)}
    BY <2>2
  <2>4. {i \in Q : Alike(input[i], tri, wound)} = {i \in Q : Alike(input[i], k, wound)}
    BY <2>2
  <2> QED
    BY <1>1, <2>3, <2>4 DEF InTris, Q
<1>5. CASE ~ \E k \in Known : Alike(k, tri, wound)
  <2>1. {t \in InUse : Alike(Triple(t), tri, wound)} = {}
    BY <1>2, <1>5
  <2>2. {i \in Q : Alike(input[i], tri, wound)} = {}
    BY <1>3, <1>5
  <2> QED
    BY <2>1, <2>2 DEF InTris, Q
<1> QED
  BY <1>4, <1>5

(* The strips that are returned spell as many triangles that are alike to  *)

(* a proper one as the list has.                                           *)
LEMMA OutputCounts ==
  ASSUME SessionInv, SpellInv, pc = "Output", NEW wound \in Kinds, NEW tri, M!IsProper(tri)
  PROVE  Cardinality({i \in DOMAIN input : Alike(input[i], tri, wound)}) = InOutput(tri, wound)
<1>1. MeshRead(Len(input)) /\ Written(InUse)
  BY DEF SpellInv, Reading
<1>2. wound \in BOOLEAN
  BY DEF Kinds
<1>3. DOMAIN input = 1 .. Len(input)
  BY DEF SessionInv, SettingsOK, B!IsInput
<1>4. {i \in DOMAIN input : Alike(input[i], tri, wound)} =
      {i \in M!ProperUpTo(input, Len(input)) : Alike(input[i], tri, wound)}
  <2>1. \A i : Alike(input[i], tri, wound) => M!IsProper(input[i])
    BY AlikeProper
  <2>2. \A i : i \in M!ProperUpTo(input, Len(input)) <=> i \in 1 .. Len(input) /\ M!IsProper(input[i])
    BY DEF M!ProperUpTo
  <2> QED
    BY <1>3, <2>1, <2>2
<1>5. InOutput(tri, wound) = InTris(InUse, tri, wound)
  BY <1>1, WrittenEvery
<1> QED
  BY <1>1, <1>2, <1>4, <1>5, MeshReadEvery

(* A triangle that is spelled is a proper one.                             *)
LEMMA SpelledIsProper ==
  ASSUME strips \in Seq(Seq(Nat)), NEW tri \in Spelled
  PROVE  M!IsProper(tri)
<1>1. PICK k \in DOMAIN strips : tri \in {SpelledAt(strips[k], i) : i \in Spells(strips[k])}
  BY DEF Spelled
<1>2. PICK i \in Spells(strips[k]) : tri = SpelledAt(strips[k], i)
  BY <1>1
<1>3. strips[k] \in Seq(Nat)
  OBVIOUS
<1>4. PICK a, b, c : a = strips[k][i] /\ b = strips[k][i + 1] /\ c = strips[k][i + 2]
  OBVIOUS
<1>5. a # b /\ b # c /\ c # a
  BY <1>3, <1>4, SpellsAre
<1>6. tri = <<a, b, c>> \/ tri = <<b, a, c>>
  BY <1>2, <1>4, Zenon DEF SpelledAt
<1>7. \/ tri[1] = a /\ tri[2] = b /\ tri[3] = c
      \/ tri[1] = b /\ tri[2] = a /\ tri[3] = c
  BY <1>6
<1>8. tri[1] # tri[2] /\ tri[2] # tri[3] /\ tri[3] # tri[1]
  BY <1>5, <1>7
<1> QED
  BY <1>8, ProperDiffer

(* The invariant contains what the caller relies on ...                    *)
LEMMA InvOutputSpells ==
  ASSUME SessionInv, SpellInv
  PROVE  OutputSpells
<1> SUFFICES ASSUME pc = "Output",
                    NEW tri \in {input[i] : i \in {j \in DOMAIN input : M!IsProper(input[j])}} \cup Spelled
             PROVE  InInput(tri, SameCorners) = InStrips(tri, SameCorners)
  BY DEF OutputSpells
<1>1. strips \in Seq(Seq(Nat))
  BY DEF SpellInv, Written
<1>2. M!IsProper(tri)
  BY <1>1, SpelledIsProper
<1>3. FALSE \in Kinds
  BY DEF Kinds
<1>4. Cardinality({i \in DOMAIN input : Alike(input[i], tri, FALSE)}) = InOutput(tri, FALSE)
  BY <1>2, <1>3, OutputCounts, Zenon
<1> QED
  BY <1>4 DEF InInput, InStrips, InOutput, StripPlaces, Alike

(* The strips of every call spell every proper triangle of its list, as    *)
(* often as the list has it, and no other.                                 *)
THEOREM OutputIsExact ==
  ASSUME CancelsCleanly
  PROVE  Spec => []OutputSpells
<1>1. SessionInv /\ SpellInv => OutputSpells
  BY InvOutputSpells
<1> QED
  BY <1>1, SessionInvHolds, SpellInvHolds, PTL

(* ... and the winding of the triangles.                                   *)
LEMMA InvOrientationKept ==
  ASSUME SessionInv, SpellInv
  PROVE  OrientationKept
<1> SUFFICES ASSUME pc = "Output", preserve, IsOriented, NEW tri \in Spelled
             PROVE  InInput(tri, SameWinding) = InStrips(tri, SameWinding)
  BY DEF OrientationKept
<1>1. strips \in Seq(Seq(Nat))
  BY DEF SpellInv, Written
<1>2. M!IsProper(tri)
  BY <1>1, SpelledIsProper
<1>3. TRUE \in Kinds
  BY DEF Kinds
<1>4. Cardinality({i \in DOMAIN input : Alike(input[i], tri, TRUE)}) = InOutput(tri, TRUE)
  BY <1>2, <1>3, OutputCounts, Zenon
<1> QED
  BY <1>4 DEF InInput, InStrips, InOutput, StripPlaces, Alike

(* With preserve_orientation the strips of every call wind each triangle   *)
(* of an oriented surface as its list does.                                *)
THEOREM OrientationIsKept ==
  ASSUME CancelsCleanly
  PROVE  Spec => []OrientationKept
<1>1. SessionInv /\ SpellInv => OrientationKept
  BY InvOrientationKept
<1> QED
  BY <1>1, SessionInvHolds, SpellInvHolds, PTL

-----------------------------------------------------------------------------
(***************************************************************************)
(* ... is what the verifier accepts ...                                    *)
(***************************************************************************)

(* What the theorems about the verifier assume of its constants.           *)
LEMMA VerifierApplies ==
  V!ListsAssumption /\ V!StripSetsAssumption /\ V!SizesAssumption
<1>1. \A tri \in Nat \X Nat \X Nat : tri \in [1 .. 3 -> Nat]
  OBVIOUS
<1>2. Seq(Nat \X Nat \X Nat) \subseteq Seq([1 .. 3 -> Nat])
  BY <1>1
<1>3. V!ListsAssumption
  BY <1>2, InputsAssumption, FollowUpsAssumption DEF V!ListsAssumption, B!InputsAssumption, B!IsInput
<1>4. V!StripSetsAssumption
  BY DEF V!StripSetsAssumption
<1>5. V!SizesAssumption
  BY FollowUpsAssumption DEF V!SizesAssumption
<1> QED
  BY <1>3, <1>4, <1>5

(* The verifier keeps its invariant ...                                    *)
LEMMA VerifyingKeeps ==
  V!IInv /\ [V!Next]_(V!vars) => V!IInv'
BY VerifierApplies, V!InvStep

(* No step of create_strips begins after the output.                       *)
LEMMA NoStepAtOutput ==
  ASSUME Step
  PROVE  pc # "Output"
<1> USE DEF Reading, Preparing, Tunneled, Writing, Simply, T!Quiet, T!Digging, T!Cementing
<1>1. CASE ReturnAtOnce \/ StartBuild \/ Dispatch
  BY <1>1 DEF ReturnAtOnce, StartBuild, Dispatch
<1>2. CASE Building
  BY <1>2, BuildingFrame
<1>3. CASE Preprocessing
  BY <1>3, PreprocessingFrame
<1>4. CASE Tunneling
  BY <1>4, TunnelingFrame
<1>5. CASE Collecting
  BY <1>5 DEF Collecting, O!Step, O!StartOutput, O!CollectOne, O!CollectTwo, O!CollectCore, O!FollowStrip,
              O!FinishStrip
<1>6. CASE BuildingSimple
  BY <1>6, BuildingSimpleFrame
<1> QED
  BY <1>1, <1>2, <1>3, <1>4, <1>5, <1>6 DEF Step

(* ... and has the list and the strips of the call.                        *)
LEMMA NextVerifierOK ==
  ASSUME SessionInv, VerifierOK, [Next]_sessionVars
  PROVE  VerifierOK'
<1>0. stage # "None" => pc = "Output"
  BY DEF SessionInv, PhaseOK
<1>1. CASE Calling \/ Measure \/ UNCHANGED sessionVars
  <2>1. UNCHANGED verifierVars
    BY <1>1 DEF Calling, Measure, sessionVars
  <2>2. UNCHANGED V!vars
    BY <2>1 DEF verifierVars, V!vars, V!verifierVars, V!callVars
  <2>3. V!IInv'
    BY <2>2, VerifyingKeeps DEF VerifierOK
  <2>4. stage # "None" => UNCHANGED <<input, strips>>
    <3>1. CASE Calling
      BY <1>0, <3>1, NoStepAtOutput DEF Calling
    <3>2. CASE Measure \/ UNCHANGED sessionVars
      BY <3>2 DEF Measure, sessionVars, vars, buildVars
    <3> QED
      BY <1>1, <3>1, <3>2
  <2>5. UNCHANGED <<stage, counted, given>>
    BY <2>1 DEF verifierVars
  <2> QED
    BY <2>3, <2>4, <2>5 DEF VerifierOK
<1>2. CASE CountList
  <2>1. V!Next /\ stage' = "Count" /\ counted' = input /\ input' = input
    BY <1>2 DEF CountList, V!Next, V!InitVerifier, vars, buildVars
  <2>2. V!IInv'
    BY <2>1, VerifyingKeeps DEF VerifierOK
  <2> QED
    BY <2>1, <2>2 DEF VerifierOK
<1>3. CASE VerifyStrips
  <2>1. /\ V!Next /\ stage = "Ready" /\ stage' = "Compare" /\ given' = strips
        /\ UNCHANGED <<counted, input, strips>>
    BY <1>3 DEF VerifyStrips, V!Next, V!StartVerify, V!verifierVars, vars, buildVars
  <2>2. V!IInv'
    BY <2>1, VerifyingKeeps DEF VerifierOK
  <2> QED
    BY <2>1, <2>2 DEF VerifierOK
<1>4. CASE Verifying
  <2>1. V!Next /\ UNCHANGED <<input, strips>>
    BY <1>4 DEF Verifying, V!Next, vars, buildVars
  <2>2. /\ stage # "None" /\ UNCHANGED <<counted, given>>
        /\ stage' \in {"Compare", "Answered"} => stage = "Compare"
    <3>1. CASE V!Counting
      BY <3>1 DEF V!Counting, V!SkipDegenerated, V!CountTri, V!EndCount, V!verifierVars, V!callVars
    <3>2. CASE V!Comparing
      BY <3>2 DEF V!Comparing, V!SkipTriple, V!UnknownTriple, V!KnownTriple, V!NextStrip, V!EndVerify,
                  V!ReadsTriple, V!verifierVars
    <3> QED
      BY <1>4, <3>1, <3>2 DEF Verifying
  <2>3. V!IInv'
    BY <2>1, VerifyingKeeps DEF VerifierOK
  <2> QED
    BY <2>1, <2>2, <2>3 DEF VerifierOK
<1>5. CASE CallAgain
  <2>1. V!Next /\ stage' = "None"
    BY <1>5 DEF CallAgain, V!Next, V!DisposeVerifier
  <2>2. V!IInv'
    BY <2>1, VerifyingKeeps DEF VerifierOK
  <2> QED
    BY <2>1, <2>2 DEF VerifierOK
<1> QED
  BY <1>1, <1>2, <1>3, <1>4, <1>5 DEF Next

(* In every call the verifier counts its list and compares its strips.     *)
LEMMA VerifierInSession ==
  ASSUME CancelsCleanly
  PROVE  Spec => []VerifierOK
<1>1. SessionInit => VerifierOK
  <2> SUFFICES ASSUME SessionInit PROVE VerifierOK
    OBVIOUS
  <2>1. V!Init /\ stage = "None"
    BY DEF SessionInit, V!Init
  <2>2. V!IInv
    BY <2>1, VerifierApplies, V!InitInv
  <2> QED
    BY <2>1, <2>2 DEF VerifierOK
<1>2. SessionInv /\ VerifierOK /\ [Next]_sessionVars => VerifierOK'
  BY NextVerifierOK
<1> QED
  BY <1>1, <1>2, SessionInvHolds, PTL DEF Spec

(* The verifier reads the strips at the places at which triangles are      *)

(* spelled, and finds those.                                               *)
LEMMA VerifierReads ==
  ASSUME VerifierOK, stage = "Answered", strips \in Seq(Seq(Nat))
  PROVE  /\ \A place : place \in StripPlaces <=>
              place \in V!Places /\ V!IsProper(V!TripleAt(place[1], place[2]))
         /\ \A place \in StripPlaces :
              V!Corners(V!TripleAt(place[1], place[2])) =
                Corners(SpelledAt(strips[place[1]], place[2]))
<1>1. given = strips /\ V!TypeOK /\ V!StripsLong
  BY DEF VerifierOK, V!IInv
<1>2. \A k \in DOMAIN strips : V!WindowsCount(strips[k]) = Len(strips[k]) - 2 /\ strips[k] \in Seq(Nat)
  BY <1>1, VerifierApplies, V!WindowsInside
<1>3. \A k : \A w \in Nat : /\ V!TripleAt(k, w)[1] = strips[k][w]
                            /\ V!TripleAt(k, w)[2] = strips[k][w + 1]
                            /\ V!TripleAt(k, w)[3] = strips[k][w + 2]
  <2> SUFFICES ASSUME NEW k, NEW w \in Nat
               PROVE  /\ V!TripleAt(k, w)[1] = strips[k][w]
                      /\ V!TripleAt(k, w)[2] = strips[k][w + 1]
                      /\ V!TripleAt(k, w)[3] = strips[k][w + 2]
    BY Zenon
  <2>1. V!TripleAt(k, w) = [i \in 1 .. 3 |-> strips[k][w + i - 1]]
    BY <1>1 DEF V!TripleAt
  <2>2. w + 1 - 1 = w /\ w + 2 - 1 = w + 1 /\ w + 3 - 1 = w + 2
    OBVIOUS
  <2>3. 1 \in 1 .. 3 /\ 2 \in 1 .. 3 /\ 3 \in 1 .. 3
    OBVIOUS
  <2> QED
    BY <2>1, <2>2, <2>3
<1>4. \A place : place \in V!Places <=>
        \E k \in DOMAIN strips : \E w \in 1 .. Len(strips[k]) - 2 : place = <<k, w>>
  BY <1>1, <1>2 DEF V!Places
<1>5. ASSUME NEW k \in DOMAIN strips, NEW w \in 1 .. Len(strips[k]) - 2
      PROVE  /\ w \in Spells(strips[k]) <=> V!IsProper(V!TripleAt(k, w))
             /\ V!Corners(V!TripleAt(k, w)) = Corners(SpelledAt(strips[k], w))
  <2>1. PICK list \in Seq(Nat) : list = strips[k]
    BY <1>2
  <2>2. w \in Nat /\ 1 <= w /\ w + 2 <= Len(list)
    BY <2>1
  <2>3. PICK a, b, c : a = list[w] /\ b = list[w + 1] /\ c = list[w + 2]
    OBVIOUS
  <2>4. V!TripleAt(k, w)[1] = a /\ V!TripleAt(k, w)[2] = b /\ V!TripleAt(k, w)[3] = c
    BY <1>3, <2>1, <2>2, <2>3, Zenon
  <2>5. w \in Spells(list) <=> a # b /\ b # c /\ c # a
    BY <2>2, <2>3, SpellsAre, Zenon
  <2>6. V!IsProper(V!TripleAt(k, w)) <=> a # b /\ b # c /\ c # a
    BY <2>4 DEF V!IsProper, V!IsDegenerated
  <2>7. V!Corners(V!TripleAt(k, w)) = {a, b, c}
    BY <2>4 DEF V!Corners
  <2>8. Corners(SpelledAt(list, w)) = {a, b, c}
    <3>1. PICK tri : tri = SpelledAt(list, w)
      OBVIOUS
    <3>2. tri = <<a, b, c>> \/ tri = <<b, a, c>>
      BY <2>3, <3>1, Zenon DEF SpelledAt
    <3>3. \/ tri[1] = a /\ tri[2] = b /\ tri[3] = c
          \/ tri[1] = b /\ tri[2] = a /\ tri[3] = c
      BY <3>2
    <3>4. {tri[1], tri[2], tri[3]} = {a, b, c}
      BY <3>3
    <3> QED
      BY <3>1, <3>4, CornersAre, Zenon
  <2> QED
    BY <2>1, <2>5, <2>6, <2>7, <2>8
<1>6. \A place : place \in StripPlaces <=>
        \E k \in DOMAIN strips : \E w \in Spells(strips[k]) : place = <<k, w>>
  BY PlacesSpelled
<1>7. \A k \in DOMAIN strips : \A w \in Spells(strips[k]) : w \in 1 .. Len(strips[k]) - 2
  BY DEF Spells
<1>8. \A k, w : <<k, w>>[1] = k /\ <<k, w>>[2] = w
  OBVIOUS
<1>9. ASSUME NEW place
      PROVE  place \in StripPlaces <=> place \in V!Places /\ V!IsProper(V!TripleAt(place[1], place[2]))
  BY <1>4, <1>5, <1>6, <1>7, <1>8
<1>10. ASSUME NEW place \in StripPlaces
       PROVE  V!Corners(V!TripleAt(place[1], place[2])) = Corners(SpelledAt(strips[place[1]], place[2]))
  BY <1>5, <1>6, <1>7, <1>8
<1> QED
  BY <1>9, <1>10

(* Each three corners are those of as many proper triangles of the list as *)

(* of triangles that are spelled.                                          *)
LEMMA OutputAgrees ==
  ASSUME SessionInv, SpellInv, pc = "Output", NEW corners
  PROVE  Cardinality({i \in DOMAIN input : M!IsProper(input[i]) /\ Corners(input[i]) = corners}) =
         Cardinality({place \in StripPlaces :
                        Corners(SpelledAt(strips[place[1]], place[2])) = corners})
<1> DEFINE Listed == {i \in DOMAIN input : M!IsProper(input[i]) /\ Corners(input[i]) = corners}
           Placed == {place \in StripPlaces :
                        Corners(SpelledAt(strips[place[1]], place[2])) = corners}
<1>1. strips \in Seq(Seq(Nat))
  BY DEF SpellInv, Written
<1>2. CASE \E tri : M!IsProper(tri) /\ Corners(tri) = corners
  <2>1. PICK tri : M!IsProper(tri) /\ Corners(tri) = corners
    BY <1>2
  <2>2. FALSE \in Kinds
    BY DEF Kinds
  <2>3. \A a : /\ Alike(a, tri, FALSE) <=> Corners(a) = corners
               /\ Alike(a, tri, FALSE) => M!IsProper(a)
    BY <2>1, AlikeProper DEF Alike, SameCorners
  <2>4. Listed = {i \in DOMAIN input : Alike(input[i], tri, FALSE)}
    BY <2>3, Zenon
  <2>5. Cardinality(Placed) = InOutput(tri, FALSE)
    BY <2>3, Zenon DEF InOutput
  <2> QED
    BY <2>1, <2>2, <2>4, <2>5, OutputCounts, Zenon
<1>3. CASE ~ \E tri : M!IsProper(tri) /\ Corners(tri) = corners
  <2>1. Listed = {}
    BY <1>3
  <2>2. \A place \in StripPlaces : M!IsProper(SpelledAt(strips[place[1]], place[2]))
    <3> SUFFICES ASSUME NEW place \in StripPlaces
                 PROVE  SpelledAt(strips[place[1]], place[2]) \in Spelled
      BY <1>1, SpelledIsProper
    <3>1. PICK k \in DOMAIN strips : \E i \in Spells(strips[k]) : place = <<k, i>>
      BY <1>1, PlacesSpelled
    <3>2. PICK i \in Spells(strips[k]) : place = <<k, i>>
      BY <3>1
    <3> QED
      BY <3>2 DEF Spelled
  <2>3. Placed = {}
    BY <1>3, <2>2
  <2> QED
    BY <2>1, <2>3, Zenon
<1> QED
  BY <1>2, <1>3

(* The numbers that the verifier compares are those of the output.         *)
LEMMA VerifierAgrees ==
  ASSUME SessionInv, SpellInv, VerifierOK, stage = "Answered", NEW corners
  PROVE  Cardinality(V!InList(corners)) = Cardinality(V!InStrips(corners))
<1>1. pc = "Output" /\ counted = input
  BY DEF SessionInv, PhaseOK, VerifierOK
<1>2. strips \in Seq(Seq(Nat))
  BY <1>1 DEF SpellInv, Written
<1>3. \A tri : /\ V!IsProper(tri) <=> M!IsProper(tri)
               /\ V!Corners(tri) = Corners(tri)
  BY ProperDiffer, CornersAre DEF V!IsProper, V!IsDegenerated, V!Corners
<1>4. V!InList(corners) = {i \in DOMAIN input : M!IsProper(input[i]) /\ Corners(input[i]) = corners}
  BY <1>1, <1>3 DEF V!InList
<1>5. V!InStrips(corners) =
        {place \in StripPlaces : Corners(SpelledAt(strips[place[1]], place[2])) = corners}
  <2>1. V!InStrips(corners) =
          {place \in V!Places : /\ V!IsProper(V!TripleAt(place[1], place[2]))
                                /\ V!Corners(V!TripleAt(place[1], place[2])) = corners}
    BY DEF V!InStrips
  <2> QED
    BY <1>2, <2>1, VerifierReads
<1> QED
  BY <1>1, <1>4, <1>5, OutputAgrees, Zenon

(* The verifier accepts the strips of every call: its verdict is exact,    *)
(* and what it compares is what the caller got.                            *)
THEOREM EveryCallIsAccepted ==
  ASSUME CancelsCleanly
  PROVE  Spec => []AcceptedByVerifier
<1>1. SessionInv /\ SpellInv /\ VerifierOK => AcceptedByVerifier
  <2> SUFFICES ASSUME SessionInv, SpellInv, VerifierOK, stage = "Answered" PROVE verdict
    BY DEF AcceptedByVerifier
  <2>1. V!VerdictExact
    BY VerifierApplies, V!AnswerIsExact DEF VerifierOK
  <2>2. \A X : V!Cardinality(X) = Cardinality(X)
    BY DEF V!Cardinality, Cardinality, V!IsFiniteSet, IsFiniteSet
  <2>3. \A corners : V!Cardinality(V!InList(corners)) = V!Cardinality(V!InStrips(corners))
    BY <2>2, VerifierAgrees
  <2> QED
    BY <2>1, <2>3 DEF V!VerdictExact
<1> QED
  BY <1>1, SessionInvHolds, SpellInvHolds, VerifierInSession, PTL

-----------------------------------------------------------------------------
(***************************************************************************)
(* ... and what the statistics measure.                                    *)
(***************************************************************************)
(* The elements of U with key k.                                           *)
OfKey(U, h, k) == {u \in U : h[u] = k}

(* Two finite sets that have each key equally often are equally large: a   *)

(* smallest pair of parts of them that are not would have, without the     *)
(* elements of one key, a smaller one.                                     *)
LEMMA AsManyOfEach ==
  ASSUME NEW X, IsFiniteSet(X), NEW Y, IsFiniteSet(Y), NEW f, NEW g,
         \A k : Cardinality(OfKey(X, f, k)) = Cardinality(OfKey(Y, g, k))
  PROVE  Cardinality(X) = Cardinality(Y)
<1> DEFINE AsMany(U, W) == \A k : Cardinality(OfKey(U, f, k)) = Cardinality(OfKey(W, g, k))
           Bad(m) == \E U \in SUBSET X, W \in SUBSET Y :
                       AsMany(U, W) /\ Cardinality(U) = m /\ Cardinality(W) # m
           BadOnes == {m \in Nat : Bad(m)}
<1>1. ASSUME NEW U, IsFiniteSet(U), NEW h, NEW k
      PROVE  /\ Cardinality(OfKey(U, h, k)) \in Nat /\ Cardinality(U \ OfKey(U, h, k)) \in Nat
             /\ Cardinality(U) = Cardinality(OfKey(U, h, k)) + Cardinality(U \ OfKey(U, h, k))
             /\ (OfKey(U, h, k) # {} => Cardinality(OfKey(U, h, k)) > 0)
             /\ (Cardinality(OfKey(U, h, k)) = 0 => OfKey(U, h, k) = {})
  <2> DEFINE Part == OfKey(U, h, k)
             Rest == U \ Part
  <2>1. IsFiniteSet(Part) /\ IsFiniteSet(Rest) /\ U = Part \cup Rest /\ Part \cap Rest = {}
    BY <1>1, FS_Subset DEF OfKey
  <2> HIDE DEF Part, Rest
  <2>2. Cardinality(Part \cup Rest) = Cardinality(Part) + Cardinality(Rest) - Cardinality({})
    BY <2>1, FS_Union
  <2>3. Cardinality(Part) \in Nat /\ Cardinality(Rest) \in Nat /\ Cardinality({}) = 0
    BY <2>1, FS_CardinalityType, FS_EmptySet
  <2>4. Cardinality(Part) = 0 <=> Part = {}
    BY <2>1, FS_EmptySet
  <2>5. Cardinality(U) = Cardinality(Part) + Cardinality(Rest)
    BY <2>1, <2>2, <2>3
  <2>6. Part # {} => Cardinality(Part) > 0
    BY <2>3, <2>4
  <2> QED
    BY <2>3, <2>4, <2>5, <2>6 DEF Part, Rest
<1>2. BadOnes = {}
  <2> SUFFICES ASSUME BadOnes # {} PROVE FALSE
    OBVIOUS
  <2>1. BadOnes \in SUBSET Nat
    OBVIOUS
  <2>2. PICK m \in BadOnes : \A l \in BadOnes : m <= l
    <3> HIDE DEF BadOnes
    <3> QED
      BY <2>1, LeastNumber
  <2>3. m \in Nat /\ Bad(m)
    OBVIOUS
  <2>4. PICK U \in SUBSET X, W \in SUBSET Y :
          AsMany(U, W) /\ Cardinality(U) = m /\ Cardinality(W) # m
    BY <2>3
  <2>5. IsFiniteSet(U) /\ IsFiniteSet(W)
    BY <2>4, FS_Subset
  <2> HIDE DEF BadOnes
  <2>6. CASE U = {}
    <3>1. Cardinality(U) = 0
      BY <2>6, FS_EmptySet
    <3>2. ASSUME NEW b \in W PROVE FALSE
      <4>1. OfKey(U, f, g[b]) = {} /\ b \in OfKey(W, g, g[b])
        BY <2>6 DEF OfKey
      <4>2. Cardinality(OfKey(U, f, g[b])) = 0
        BY <4>1, FS_EmptySet
      <4>3. Cardinality(OfKey(W, g, g[b])) > 0
        BY <1>1, <2>5, <4>1, Zenon
      <4>4. Cardinality(OfKey(U, f, g[b])) = Cardinality(OfKey(W, g, g[b]))
        BY <2>4
      <4> QED
        BY <4>2, <4>3, <4>4
    <3>3. Cardinality(W) = 0
      BY <3>2, FS_EmptySet
    <3> QED
      BY <2>4, <3>1, <3>3
  <2>7. CASE U # {}
    <3>1. PICK a \in U : TRUE
      BY <2>7
    <3>2. PICK k : k = f[a]
      OBVIOUS
    <3> DEFINE UU == U \ OfKey(U, f, k)
               WW == W \ OfKey(W, g, k)
    <3>3. a \in OfKey(U, f, k)
      BY <3>2 DEF OfKey
    <3>4. /\ Cardinality(U) = Cardinality(OfKey(U, f, k)) + Cardinality(UU)
          /\ Cardinality(OfKey(U, f, k)) \in Nat /\ Cardinality(UU) \in Nat
          /\ Cardinality(OfKey(U, f, k)) > 0
      BY <1>1, <2>5, <3>3
    <3>5. Cardinality(W) = Cardinality(OfKey(W, g, k)) + Cardinality(WW) /\ Cardinality(WW) \in Nat
      BY <1>1, <2>5
    <3>6. Cardinality(OfKey(U, f, k)) = Cardinality(OfKey(W, g, k))
      BY <2>4
    <3>7. AsMany(UU, WW)
      <4> SUFFICES ASSUME NEW j PROVE Cardinality(OfKey(UU, f, j)) = Cardinality(OfKey(WW, g, j))
        OBVIOUS
      <4>1. CASE j = k
        <5>1. OfKey(UU, f, j) = {} /\ OfKey(WW, g, j) = {}
          BY <4>1 DEF OfKey
        <5> QED
          BY <5>1
      <4>2. CASE j # k
        <5>1. OfKey(UU, f, j) = OfKey(U, f, j) /\ OfKey(WW, g, j) = OfKey(W, g, j)
          BY <4>2 DEF OfKey
        <5> QED
          BY <2>4, <5>1
      <4> QED
        BY <4>1, <4>2
    <3>8. UU \in SUBSET X /\ WW \in SUBSET Y
      OBVIOUS
    <3>9. Cardinality(UU) < m /\ Cardinality(WW) # Cardinality(UU)
      BY <2>4, <3>4, <3>5, <3>6
    <3>10. Cardinality(UU) \in BadOnes
      BY <3>4, <3>7, <3>8, <3>9, Zenon DEF BadOnes
    <3> QED
      BY <2>2, <2>3, <3>4, <3>9, <3>10
  <2> QED
    BY <2>6, <2>7
<1>3. Cardinality(X) \in Nat /\ AsMany(X, Y)
  BY FS_CardinalityType
<1> QED
  BY <1>2, <1>3

(* What is so for 1, and for each number after one for which it is so.     *)
LEMMA UpFromOne ==
  ASSUME NEW n \in Nat, NEW Good, 1 \in Good, \A i \in Nat : i >= 1 /\ i < n /\ i \in Good => i + 1 \in Good
  PROVE  \A i \in 1 .. n : i \in Good
<1> DEFINE Bad == {i \in Nat : i >= 1 /\ i <= n /\ i \notin Good}
<1>1. Bad = {}
  <2> SUFFICES ASSUME Bad # {} PROVE FALSE
    OBVIOUS
  <2>1. Bad \in SUBSET Nat
    OBVIOUS
  <2>2. PICK m \in Bad : \A l \in Bad : m <= l
    <3> HIDE DEF Bad
    <3> QED
      BY <2>1, LeastNumber
  <2>3. m \in Nat /\ m >= 1 /\ m <= n /\ m \notin Good
    OBVIOUS
  <2>4. m # 1
    BY <2>3
  <2>5. m - 1 \in Nat /\ m - 1 >= 1 /\ m - 1 < n
    BY <2>3, <2>4
  <2>6. m - 1 \notin Bad
    BY <2>2, <2>3, <2>5
  <2>7. m - 1 \in Good
    BY <2>3, <2>5, <2>6
  <2>8. (m - 1) + 1 \in Good
    BY <2>5, <2>7
  <2> QED
    BY <2>3, <2>8
<1> QED
  BY <1>1

(* FlattenSeq's recursive function exists: as far as it goes it can be     *)

(* carried on by one sequence.                                             *)
LEMMA Flattened ==
  ASSUME NEW seqs, NEW n \in Nat \ {0}, Len(seqs) = n
  PROVE  \E f : /\ FlattenSeq(seqs) = f[n]
                /\ f = [i \in 1 .. n |-> IF i = 1 THEN seqs[i] ELSE f[i - 1] \o seqs[i]]
<1> DEFINE UpTo(m, f) == f = [i \in 1 .. m |-> IF i = 1 THEN seqs[i] ELSE f[i - 1] \o seqs[i]]
           Reached == {m \in Nat : \E f : UpTo(m, f)}
<1>1. 1 \in Reached
  <2> DEFINE g == [i \in 1 .. 1 |-> seqs[1]]
  <2>1. UpTo(1, g)
    OBVIOUS
  <2> QED
    BY <2>1, Zenon
<1>2. ASSUME NEW m \in Nat, m >= 1, m \in Reached PROVE m + 1 \in Reached
  <2>1. PICK f : UpTo(m, f)
    BY <1>2, Zenon
  <2>2. PICK v : v = f[m] \o seqs[m + 1]
    BY Zenon
  <2> DEFINE g == [i \in 1 .. m + 1 |-> IF i = m + 1 THEN v ELSE f[i]]
  <2>3. ASSUME NEW i \in 1 .. m + 1
        PROVE  g[i] = IF i = 1 THEN seqs[i] ELSE g[i - 1] \o seqs[i]
    <3>1. CASE i = m + 1
      <4>1. i # 1 /\ i - 1 \in 1 .. m + 1 /\ i - 1 # m + 1 /\ i - 1 = m
        BY <1>2, <3>1
      <4>2. g[i - 1] = f[m] /\ g[i] = v
        BY <3>1, <4>1
      <4> QED
        BY <2>2, <3>1, <4>1, <4>2, Zenon
    <3>2. CASE i # m + 1
      <4>1. i \in 1 .. m /\ g[i] = f[i]
        BY <3>2
      <4>2. f[i] = IF i = 1 THEN seqs[i] ELSE f[i - 1] \o seqs[i]
        BY <2>1, <4>1, Zenon
      <4>3. i # 1 => g[i - 1] = f[i - 1]
        BY <4>1
      <4> QED
        BY <4>1, <4>2, <4>3
    <3> QED
      BY <3>1, <3>2
  <2>4. UpTo(m + 1, g)
    <3> DEFINE h == [i \in 1 .. m + 1 |-> IF i = 1 THEN seqs[i] ELSE g[i - 1] \o seqs[i]]
    <3>1. \A i \in 1 .. m + 1 : g[i] = h[i]
      BY <2>3
    <3>2. DOMAIN g = 1 .. m + 1 /\ DOMAIN h = 1 .. m + 1
      OBVIOUS
    <3>3. g = h
      BY <3>1, <3>2
    <3> QED
      BY <3>3
  <2>5. \E h : UpTo(m + 1, h)
    <3> HIDE DEF g
    <3> QED
      BY <2>4, Zenon
  <2> HIDE DEF UpTo
  <2> QED
    BY <2>5
<1>3. n \in Reached
  <2> HIDE DEF Reached
  <2>1. \A i \in 1 .. n : i \in Reached
    BY <1>1, <1>2, UpFromOne, Zenon
  <2> QED
    BY <2>1
<1>4. PICK h : UpTo(n, h)
  BY <1>3
<1>5. PICK f : f = CHOOSE k : UpTo(n, k)
  OBVIOUS
<1>6. UpTo(n, f)
  BY <1>4, <1>5, Zenon
<1>7. FlattenSeq(seqs) = f[n]
  BY <1>5 DEF FlattenSeq
<1> QED
  BY <1>6, <1>7, Zenon

(* The statistics change between the calls only.                           *)
LEMMA NextStatsOK ==
  ASSUME SessionInv, StatsOK, [Next]_sessionVars
  PROVE  StatsOK'
<1>1. CASE Calling
  BY <1>1, NoStepAtOutput DEF Calling, StatsOK
<1>2. CASE Measure
  BY <1>2 DEF Measure, StatsOK, vars, buildVars
<1>3. CASE CountList \/ VerifyStrips \/ Verifying \/ UNCHANGED sessionVars
  <2>1. UNCHANGED <<pc, strips, stats>>
    BY <1>3 DEF CountList, VerifyStrips, Verifying, sessionVars, vars, buildVars
  <2> QED
    BY <2>1, Zenon DEF StatsOK, St!CalculateStats, St!Windows, St!WindowsCount, St!IsSwap, St!RestartsCount
<1>4. CASE CallAgain
  BY <1>4 DEF CallAgain, StatsOK
<1> QED
  BY <1>1, <1>2, <1>3, <1>4 DEF Next

(* In every call the statistics are those of its strips.                   *)
LEMMA StatsInSession ==
  ASSUME CancelsCleanly
  PROVE  Spec => []StatsOK
<1>1. SessionInit => StatsOK
  BY DEF SessionInit, StatsOK
<1>2. SessionInv /\ StatsOK /\ [Next]_sessionVars => StatsOK'
  BY NextStatsOK
<1> QED
  BY <1>1, <1>2, SessionInvHolds, PTL DEF Spec

(* Three IDs are a swap unless they are different.                         *)
LEMMA SwapsAre ==
  ASSUME NEW list, NEW j
  PROVE  ~St!IsSwap(list, j) <=> Cardinality({list[j], list[j + 1], list[j + 2]}) = 3
<1>1. PICK a, b, c : a = list[j] /\ b = list[j + 1] /\ c = list[j + 2]
  OBVIOUS
<1>2. \A X : St!Cardinality(X) = Cardinality(X)
  BY DEF St!Cardinality, Cardinality, St!IsFiniteSet, IsFiniteSet
<1>3. Cardinality({a, b, c}) \in 0 .. 3
  <2>1. IsFiniteSet({a}) /\ Cardinality({a}) = 1
    BY FS_Singleton, Zenon
  <2>2. IsFiniteSet({a} \cup {b}) /\ Cardinality({a} \cup {b}) \in 1 .. 2
    BY <2>1, FS_AddElement
  <2>3. Cardinality(({a} \cup {b}) \cup {c}) \in 1 .. 3
    BY <2>2, FS_AddElement
  <2>4. {a, b, c} = ({a} \cup {b}) \cup {c}
    OBVIOUS
  <2> QED
    BY <2>3, <2>4
<1>4. St!IsSwap(list, j) <=> Cardinality({a, b, c}) < 3
  BY <1>1, <1>2 DEF St!IsSwap
<1>5. ~(Cardinality({a, b, c}) < 3) <=> Cardinality({a, b, c}) = 3
  BY <1>3
<1> QED
  BY <1>1, <1>4, <1>5

(* The statistics look at every three consecutive IDs of the output: no    *)

(* strip is so short or so long that their number wraps.                   *)
LEMMA WindowsAre ==
  ASSUME SessionInv, SpellInv, pc = "Output", 2 * MaxTris < Sizes
  PROVE  /\ strips \in Seq(Seq(Nat))
         /\ \A k \in DOMAIN strips : strips[k] \in Seq(Nat) /\ Len(strips[k]) \in Nat /\ Len(strips[k]) >= 3
         /\ \A place : place \in St!Windows(strips) <=>
              \E k \in DOMAIN strips : \E j \in 1 .. Len(strips[k]) - 2 : place = <<k, j>>
<1>1. /\ strips \in Seq(Seq(Nat))
      /\ \A k \in DOMAIN strips : Len(strips[k]) \in 3 .. 2 * MaxTris + 2
  BY DEF SpellInv, Written
<1>2. MaxTris \in Nat /\ Sizes \in Nat
  BY MaxTrisAssumption, FollowUpsAssumption
<1>3. \A k \in DOMAIN strips : St!WindowsCount(strips[k]) = Len(strips[k]) - 2
  <2> SUFFICES ASSUME NEW k \in DOMAIN strips PROVE St!WindowsCount(strips[k]) = Len(strips[k]) - 2
    OBVIOUS
  <2>1. Len(strips[k]) - 2 \in Nat /\ Len(strips[k]) - 2 < Sizes
    BY <1>1, <1>2
  <2>2. (Len(strips[k]) - 2) % Sizes = Len(strips[k]) - 2
    BY <1>2, <2>1
  <2> QED
    BY <2>2 DEF St!WindowsCount
<1>4. \A place : place \in St!Windows(strips) <=>
        \E k \in DOMAIN strips : \E j \in 1 .. Len(strips[k]) - 2 : place = <<k, j>>
  BY <1>3 DEF St!Windows
<1>5. \A k \in DOMAIN strips : strips[k] \in Seq(Nat) /\ Len(strips[k]) \in Nat /\ Len(strips[k]) >= 3
  BY <1>1
<1> QED
  BY <1>1, <1>4, <1>5

(* Those that are no swap are the places at which triangles are spelled.   *)
LEMMA ValidAre ==
  ASSUME SessionInv, SpellInv, pc = "Output", 2 * MaxTris < Sizes
  PROVE  {w \in St!Windows(strips) : ~St!IsSwap(strips[w[1]], w[2])} = StripPlaces
<1>1. \A place : place \in StripPlaces <=>
        \E k \in DOMAIN strips : \E i \in Spells(strips[k]) : place = <<k, i>>
  BY WindowsAre, PlacesSpelled
<1>2. ASSUME NEW k, NEW j
      PROVE  j \in Spells(strips[k]) <=> j \in 1 .. Len(strips[k]) - 2 /\ ~St!IsSwap(strips[k], j)
  BY SwapsAre DEF Spells
<1>3. ASSUME NEW place
      PROVE  place \in StripPlaces <=>
               place \in St!Windows(strips) /\ ~St!IsSwap(strips[place[1]], place[2])
  <2>1. ASSUME place \in StripPlaces
        PROVE  place \in St!Windows(strips) /\ ~St!IsSwap(strips[place[1]], place[2])
    <3>1. PICK k \in DOMAIN strips : \E i \in Spells(strips[k]) : place = <<k, i>>
      BY <1>1, <2>1
    <3>2. PICK i \in Spells(strips[k]) : place = <<k, i>>
      BY <3>1
    <3>3. i \in 1 .. Len(strips[k]) - 2 /\ ~St!IsSwap(strips[k], i)
      BY <1>2
    <3>4. place \in St!Windows(strips)
      BY <3>2, <3>3, WindowsAre
    <3>5. place[1] = k /\ place[2] = i
      BY <3>2
    <3> QED
      BY <3>3, <3>4, <3>5
  <2>2. ASSUME place \in St!Windows(strips), ~St!IsSwap(strips[place[1]], place[2])
        PROVE  place \in StripPlaces
    <3>1. PICK k \in DOMAIN strips : \E j \in 1 .. Len(strips[k]) - 2 : place = <<k, j>>
      BY <2>2, WindowsAre
    <3>2. PICK j \in 1 .. Len(strips[k]) - 2 : place = <<k, j>>
      BY <3>1
    <3>3. place[1] = k /\ place[2] = j
      BY <3>2
    <3>4. j \in Spells(strips[k])
      BY <1>2, <2>2, <3>3, Zenon
    <3> QED
      BY <1>1, <3>2, <3>4
  <2> QED
    BY <2>1, <2>2
<1> QED
  BY <1>3

(* They are as many as the proper triangles of the list.                   *)
LEMMA AsManySpelled ==
  ASSUME SessionInv, SpellInv, pc = "Output"
  PROVE  Cardinality(StripPlaces) = Cardinality({i \in DOMAIN input : M!IsProper(input[i])})
<1> DEFINE Listed == {i \in DOMAIN input : M!IsProper(input[i])}
           f == [i \in Listed |-> Corners(input[i])]
           g == [place \in StripPlaces |-> Corners(SpelledAt(strips[place[1]], place[2]))]
<1>1. IsFiniteSet(Listed)
  <2>1. DOMAIN input = 1 .. Len(input) /\ Len(input) \in Nat
    BY DEF SessionInv, SettingsOK, B!IsInput
  <2>2. IsFiniteSet(DOMAIN input)
    BY <2>1, FS_Interval
  <2> QED
    BY <2>2, FS_Subset
<1>2. IsFiniteSet(StripPlaces)
  BY PlacesSpelled DEF SpellInv, Written
<1>3. \A k : Cardinality(OfKey(Listed, f, k)) = Cardinality(OfKey(StripPlaces, g, k))
  <2> SUFFICES ASSUME NEW k
               PROVE  Cardinality(OfKey(Listed, f, k)) = Cardinality(OfKey(StripPlaces, g, k))
    OBVIOUS
  <2>1. OfKey(Listed, f, k) = {i \in DOMAIN input : M!IsProper(input[i]) /\ Corners(input[i]) = k}
    BY DEF OfKey
  <2>2. OfKey(StripPlaces, g, k) =
        {place \in StripPlaces : Corners(SpelledAt(strips[place[1]], place[2])) = k}
    BY DEF OfKey
  <2> QED
    BY <2>1, <2>2, OutputAgrees, Zenon
<1> HIDE DEF Listed, f, g
<1>4. Cardinality(Listed) = Cardinality(StripPlaces)
  BY <1>1, <1>2, <1>3, AsManyOfEach
<1> QED
  BY <1>4 DEF Listed

(* A window is in the first n strips.                                      *)
FirstWindows(n) == {w \in St!Windows(strips) : w[1] <= n}

(* One strip more has two windows less than it has IDs.                    *)
LEMMA MoreWindows ==
  ASSUME SessionInv, SpellInv, pc = "Output", 2 * MaxTris < Sizes,
         NEW n \in Nat, n + 1 \in DOMAIN strips, IsFiniteSet(FirstWindows(n))
  PROVE  /\ IsFiniteSet(FirstWindows(n + 1))
         /\ Cardinality(FirstWindows(n)) \in Nat
         /\ Cardinality(FirstWindows(n + 1)) =
              Cardinality(FirstWindows(n)) + (Len(strips[n + 1]) - 2)
<1> DEFINE More == {n + 1} \X (1 .. Len(strips[n + 1]) - 2)
<1>1. DOMAIN strips \subseteq Nat /\ Len(strips[n + 1]) \in Nat /\ Len(strips[n + 1]) >= 3
  BY WindowsAre
<1>2. IsFiniteSet(More) /\ Cardinality(More) = Len(strips[n + 1]) - 2
  <2>1. IsFiniteSet({n + 1}) /\ Cardinality({n + 1}) = 1
    BY FS_Singleton, Zenon
  <2>2. /\ IsFiniteSet(1 .. Len(strips[n + 1]) - 2)
        /\ Cardinality(1 .. Len(strips[n + 1]) - 2) = Len(strips[n + 1]) - 2
    BY <1>1, FS_Interval
  <2>3. /\ IsFiniteSet(More)
        /\ Cardinality(More) = Cardinality({n + 1}) * Cardinality(1 .. Len(strips[n + 1]) - 2)
    BY <2>1, <2>2, FS_Product, Zenon
  <2> QED
    BY <1>1, <2>1, <2>2, <2>3
<1>3. FirstWindows(n + 1) = FirstWindows(n) \cup More
  <2> SUFFICES ASSUME NEW place
               PROVE  place \in FirstWindows(n + 1) <=> place \in FirstWindows(n) \/ place \in More
    OBVIOUS
  <2>1. ASSUME place \in FirstWindows(n + 1) PROVE place \in FirstWindows(n) \/ place \in More
    <3>1. PICK k \in DOMAIN strips : \E j \in 1 .. Len(strips[k]) - 2 : place = <<k, j>>
      BY <2>1, WindowsAre DEF FirstWindows
    <3>2. PICK j \in 1 .. Len(strips[k]) - 2 : place = <<k, j>>
      BY <3>1
    <3>3. k \in Nat /\ k <= n + 1 /\ place[1] = k
      BY <1>1, <2>1, <3>2 DEF FirstWindows
    <3> QED
      BY <2>1, <3>2, <3>3 DEF FirstWindows
  <2>2. ASSUME place \in FirstWindows(n) PROVE place \in FirstWindows(n + 1)
    <3>1. PICK k \in DOMAIN strips : \E j \in 1 .. Len(strips[k]) - 2 : place = <<k, j>>
      BY <2>2, WindowsAre DEF FirstWindows
    <3>2. k \in Nat /\ k <= n /\ place[1] = k
      BY <1>1, <2>2, <3>1 DEF FirstWindows
    <3> QED
      BY <2>2, <3>2 DEF FirstWindows
  <2>3. ASSUME place \in More PROVE place \in FirstWindows(n + 1)
    <3>1. PICK j \in 1 .. Len(strips[n + 1]) - 2 : place = <<n + 1, j>>
      BY <2>3
    <3>2. place \in St!Windows(strips) /\ place[1] = n + 1
      BY <3>1, WindowsAre
    <3> QED
      BY <3>2 DEF FirstWindows
  <2> QED
    BY <2>1, <2>2, <2>3
<1>4. FirstWindows(n) \cap More = {}
  <2> SUFFICES ASSUME NEW place \in FirstWindows(n), place \in More PROVE FALSE
    OBVIOUS
  <2>1. place[1] = n + 1 /\ place[1] <= n
    BY DEF FirstWindows
  <2> QED
    BY <2>1
<1> HIDE DEF More
<1>5. IsFiniteSet(FirstWindows(n) \cup More)
  BY <1>2, FS_Union, Zenon
<1>6. Cardinality(FirstWindows(n) \cup More) =
        Cardinality(FirstWindows(n)) + Cardinality(More) - Cardinality({})
  BY <1>2, <1>4, FS_Union
<1>7. Cardinality({}) = 0 /\ Cardinality(FirstWindows(n)) \in Nat
  BY FS_EmptySet, FS_CardinalityType
<1>8. Cardinality(FirstWindows(n) \cup More) =
        Cardinality(FirstWindows(n)) + (Len(strips[n + 1]) - 2)
  BY <1>1, <1>2, <1>6, <1>7
<1> QED
  BY <1>3, <1>5, <1>7, <1>8, Zenon

(* A restart more for each strip but the first one.                        *)
LEMMA RestartsAdd ==
  ASSUME NEW r \in 0 .. 2, NEW n \in Nat
  PROVE  r * n = r * (n - 1) + r
<1>1. CASE r = 0
  BY <1>1
<1>2. CASE r = 1
  BY <1>2
<1>3. CASE r = 2
  BY <1>3
<1> QED
  BY <1>1, <1>2, <1>3

(* The provers are not told that a product of two unknowns can be turned.  *)
LEMMA ProductTurned ==
  ASSUME NEW m \in Int, NEW n \in Int
  PROVE  m * n = n * m /\ m * n \in Int
OBVIOUS

(* The strips in a row have two IDs for each strip, one for each window    *)

(* and one for each restart.                                               *)
LEMMA JoinedLength ==
  ASSUME SessionInv, SpellInv, pc = "Output", 2 * MaxTris < Sizes, NEW r \in 0 .. 2, strips # <<>>
  PROVE  /\ IsFiniteSet(St!Windows(strips))
         /\ Len(Joined(r)) =
              Cardinality(St!Windows(strips)) + 2 * Len(strips) + r * (Len(strips) - 1)
<1>1. PICK n : n = Len(strips)
  OBVIOUS
<1>2. /\ n \in Nat \ {0} /\ DOMAIN strips = 1 .. n
      /\ \A k \in 1 .. n : strips[k] \in Seq(Nat) /\ Len(strips[k]) \in Nat /\ Len(strips[k]) >= 3
  <2>1. strips \in Seq(Seq(Nat))
    BY WindowsAre
  <2>2. n \in Nat \ {0} /\ DOMAIN strips = 1 .. n
    BY <1>1, <2>1, EmptySeq
  <2> QED
    BY <2>2, WindowsAre, Zenon
<1>3. PICK seqs : seqs = [k \in DOMAIN strips |->
                            IF k = 1 THEN strips[k] ELSE [i \in 1 .. r |-> 0] \o strips[k]]
  BY Zenon
<1>4. Joined(r) = FlattenSeq(seqs)
  BY <1>3 DEF Joined
<1>5. Len(seqs) = n
  BY <1>2, <1>3
<1>6. ASSUME NEW k \in 1 .. n
      PROVE  /\ seqs[k] \in Seq(Nat)
             /\ Len(seqs[k]) = IF k = 1 THEN Len(strips[k]) ELSE r + Len(strips[k])
  <2>1. PICK gap : gap = [i \in 1 .. r |-> 0]
    BY Zenon
  <2>2. gap \in Seq(Nat) /\ Len(gap) = r
    BY <2>1
  <2>3. seqs[k] = IF k = 1 THEN strips[k] ELSE gap \o strips[k]
    BY <1>2, <1>3, <2>1
  <2>4. strips[k] \in Seq(Nat) /\ Len(strips[k]) \in Nat
    BY <1>2
  <2>5. gap \o strips[k] \in Seq(Nat) /\ Len(gap \o strips[k]) = r + Len(strips[k])
    BY <2>2, <2>4, ConcatProperties, Zenon
  <2> QED
    BY <2>3, <2>4, <2>5
<1>7. PICK f : /\ FlattenSeq(seqs) = f[n]
               /\ f = [i \in 1 .. n |-> IF i = 1 THEN seqs[i] ELSE f[i - 1] \o seqs[i]]
  BY <1>2, <1>5, Flattened, Zenon
<1> DEFINE Right(m) == /\ f[m] \in Seq(Nat) /\ IsFiniteSet(FirstWindows(m))
                       /\ Len(f[m]) = Cardinality(FirstWindows(m)) + 2 * m + r * (m - 1)
           Good == {m \in Nat : Right(m)}
<1>8. FirstWindows(0) = {} /\ FirstWindows(n) = St!Windows(strips)
  <2>1. \A place \in St!Windows(strips) : place[1] \in 1 .. n
    BY <1>2, WindowsAre
  <2> QED
    BY <1>2, <2>1 DEF FirstWindows
<1>9. 1 \in Good
  <2>1. IsFiniteSet(FirstWindows(0)) /\ Cardinality(FirstWindows(0)) = 0
    BY <1>8, FS_EmptySet
  <2>2. 0 + 1 \in DOMAIN strips /\ 0 \in Nat
    BY <1>2
  <2>3. /\ IsFiniteSet(FirstWindows(0 + 1))
        /\ Cardinality(FirstWindows(0 + 1)) = 0 + (Len(strips[0 + 1]) - 2)
    BY <2>1, <2>2, MoreWindows
  <2>4. 1 \in 1 .. n /\ 0 + 1 = 1
    BY <1>2
  <2>5. f[1] = seqs[1]
    BY <1>7, <2>4
  <2>6. f[1] \in Seq(Nat) /\ Len(f[1]) = Len(strips[1]) /\ Len(strips[1]) \in Nat
    BY <1>2, <1>6, <2>4, <2>5
  <2>7. IsFiniteSet(FirstWindows(1)) /\ Cardinality(FirstWindows(1)) = Len(strips[1]) - 2
    BY <2>3, <2>4, <2>6
  <2>8. Len(f[1]) = Cardinality(FirstWindows(1)) + 2 * 1 + r * (1 - 1)
    BY <2>6, <2>7
  <2> QED
    BY <2>6, <2>7, <2>8
<1>10. ASSUME NEW m \in Nat, m >= 1, m < n, m \in Good PROVE m + 1 \in Good
  <2>1. Right(m)
    BY <1>10
  <2>2. m + 1 \in 1 .. n /\ m + 1 # 1 /\ m + 1 \in DOMAIN strips
    BY <1>2, <1>10
  <2>3. /\ IsFiniteSet(FirstWindows(m + 1)) /\ Cardinality(FirstWindows(m)) \in Nat
        /\ Cardinality(FirstWindows(m + 1)) =
             Cardinality(FirstWindows(m)) + (Len(strips[m + 1]) - 2)
    BY <2>1, <2>2, MoreWindows
  <2>4. f[m + 1] = f[m] \o seqs[m + 1]
    <3>1. f[m + 1] = IF m + 1 = 1 THEN seqs[m + 1] ELSE f[(m + 1) - 1] \o seqs[m + 1]
      BY <1>7, <2>2, Zenon
    <3>2. (m + 1) - 1 = m
      OBVIOUS
    <3> QED
      BY <2>2, <3>1, <3>2, Zenon
  <2>5. /\ seqs[m + 1] \in Seq(Nat) /\ Len(seqs[m + 1]) = r + Len(strips[m + 1])
        /\ Len(strips[m + 1]) \in Nat
    BY <1>2, <1>6, <2>2, Zenon
  <2>6. f[m + 1] \in Seq(Nat) /\ Len(f[m + 1]) = Len(f[m]) + Len(seqs[m + 1])
    <3>1. f[m] \in Seq(Nat)
      BY <2>1
    <3>2. /\ f[m] \o seqs[m + 1] \in Seq(Nat)
          /\ Len(f[m] \o seqs[m + 1]) = Len(f[m]) + Len(seqs[m + 1])
      BY <2>5, <3>1, ConcatProperties, Zenon
    <3> QED
      BY <2>4, <3>2
  <2>7. r * m = r * (m - 1) + r /\ (m + 1) - 1 = m /\ r * (m - 1) \in Int /\ r * m \in Int
    BY RestartsAdd
  <2>8. Len(f[m + 1]) = Cardinality(FirstWindows(m + 1)) + 2 * (m + 1) + r * m
    BY <2>1, <2>3, <2>5, <2>6, <2>7
  <2>9. Right(m + 1)
    BY <2>3, <2>6, <2>7, <2>8, Zenon
  <2> HIDE DEF Right
  <2> QED
    BY <2>9
<1>11. n \in Good
  <2> HIDE DEF Good
  <2>1. \A i \in 1 .. n : i \in Good
    BY <1>2, <1>9, <1>10, UpFromOne, Zenon
  <2> QED
    BY <1>2, <2>1
<1>12. Right(n)
  BY <1>11
<1> QED
  BY <1>1, <1>4, <1>7, <1>8, <1>12, Zenon

(* The statistics of the output: the triangles and the IDs of the strips.  *)
LEMMA StatsAreExact ==
  ASSUME SessionInv, SpellInv, StatsOK, 2 * MaxTris < Sizes
  PROVE  StatsExact
<1> SUFFICES ASSUME stats # NoStats
             PROVE  /\ stats.validTris = Cardinality({i \in DOMAIN input : M!IsProper(input[i])})
                    /\ stats.cost[1] = [r \in 0 .. 2 |-> Len(Joined(r))]
  BY DEF StatsExact
<1>1. pc = "Output" /\ stats = St!CalculateStats(strips)
  BY DEF StatsOK
<1> DEFINE Swaps == {w \in St!Windows(strips) : St!IsSwap(strips[w[1]], w[2])}
           Valid == {w \in St!Windows(strips) : ~St!IsSwap(strips[w[1]], w[2])}
<1>2. \A X : St!Cardinality(X) = Cardinality(X)
  BY DEF St!Cardinality, Cardinality, St!IsFiniteSet, IsFiniteSet
<1>3. PICK swaps : swaps = Cardinality(Swaps)
  OBVIOUS
<1>4. PICK valid : valid = Cardinality(Valid)
  OBVIOUS
<1>5. /\ stats.validTris = valid
      /\ stats.cost[1] = [r \in 0 .. 2 |-> Len(strips) * 2 + valid + swaps * 1
                                              + St!RestartsCount(strips) * r]
  BY <1>1, <1>2, <1>3, <1>4 DEF St!CalculateStats
<1>6. valid = Cardinality({i \in DOMAIN input : M!IsProper(input[i])})
  BY <1>1, <1>4, ValidAre, AsManySpelled
<1>7. strips \in Seq(Seq(Nat))
  BY <1>1, WindowsAre
<1>8. ASSUME IsFiniteSet(St!Windows(strips))
      PROVE  swaps \in Nat /\ valid \in Nat /\ swaps + valid = Cardinality(St!Windows(strips))
  <2>1. IsFiniteSet(Swaps) /\ IsFiniteSet(Valid)
    BY <1>8, FS_Subset
  <2>2. St!Windows(strips) = Swaps \cup Valid /\ Swaps \cap Valid = {}
    OBVIOUS
  <2> HIDE DEF Swaps, Valid
  <2>3. Cardinality(Swaps \cup Valid) = Cardinality(Swaps) + Cardinality(Valid) - Cardinality({})
    BY <2>1, <2>2, FS_Union
  <2>4. swaps \in Nat /\ valid \in Nat /\ Cardinality({}) = 0
    BY <1>3, <1>4, <2>1, FS_CardinalityType, FS_EmptySet
  <2> QED
    BY <1>3, <1>4, <2>2, <2>3, <2>4
<1> HIDE DEF Swaps, Valid
<1>9. ASSUME NEW r \in 0 .. 2
      PROVE  Len(strips) * 2 + valid + swaps * 1 + St!RestartsCount(strips) * r = Len(Joined(r))
  <2>1. CASE strips = <<>>
    <3>1. St!Windows(strips) = {}
      BY <2>1 DEF St!Windows
    <3>2. IsFiniteSet(St!Windows(strips)) /\ Cardinality(St!Windows(strips)) = 0
      BY <3>1, FS_EmptySet
    <3>3. swaps = 0 /\ valid = 0
      BY <1>8, <3>2
    <3>4. Len(strips) = 0 /\ St!RestartsCount(strips) = 0
      BY <2>1 DEF St!RestartsCount
    <3>5. PICK seqs : seqs = [k \in DOMAIN strips |->
                                IF k = 1 THEN strips[k] ELSE [i \in 1 .. r |-> 0] \o strips[k]]
      BY Zenon
    <3>6. DOMAIN strips = 1 .. 0
      BY <1>7, <3>4
    <3>7. Len(seqs) = 0
      BY <3>5, <3>6
    <3>8. Joined(r) = seqs
      BY <3>5, <3>7 DEF Joined, FlattenSeq
    <3> QED
      BY <3>3, <3>4, <3>7, <3>8
  <2>2. CASE strips # <<>>
    <3>1. /\ IsFiniteSet(St!Windows(strips))
          /\ Len(Joined(r)) =
               Cardinality(St!Windows(strips)) + 2 * Len(strips) + r * (Len(strips) - 1)
      BY <1>1, <2>2, JoinedLength
    <3>2. swaps \in Nat /\ valid \in Nat /\ swaps + valid = Cardinality(St!Windows(strips))
      BY <1>8, <3>1
    <3>3. Len(strips) \in Nat \ {0}
      BY <1>7, <2>2, EmptySeq
    <3>4. St!RestartsCount(strips) = Len(strips) - 1
      BY <2>2 DEF St!RestartsCount
    <3>5. (Len(strips) - 1) * r = r * (Len(strips) - 1) /\ r * (Len(strips) - 1) \in Int
      <4>1. Len(strips) - 1 \in Int /\ r \in Int
        BY <3>3
      <4> QED
        BY <4>1, ProductTurned
    <3> QED
      BY <3>1, <3>2, <3>3, <3>4, <3>5
  <2> QED
    BY <2>1, <2>2
<1>10. stats.cost[1] = [r \in 0 .. 2 |-> Len(Joined(r))]
  BY <1>5, <1>9
<1> QED
  BY <1>5, <1>6, <1>10, Zenon

(* The statistics count each proper triangle of the list, and their cost   *)
(* is the number of IDs that a renderer is sent.  The code's size_t counts *)
(* the IDs of every strip: no array of triangles fills the address space.  *)
THEOREM StatisticsAreExact ==
  ASSUME CancelsCleanly, 2 * MaxTris < Sizes
  PROVE  Spec => []StatsExact
<1>1. SessionInv /\ SpellInv /\ StatsOK => StatsExact
  BY StatsAreExact
<1> QED
  BY <1>1, SessionInvHolds, SpellInvHolds, StatsInSession, PTL

==============================================================================
