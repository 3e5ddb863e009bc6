--------------------------- MODULE TunnelingProofs --------------------------
(***************************************************************************)
(* For all meshes, of any size, and all configurations that cancel no      *)
(* search in the middle: the invariant of TunnelingInv, and with it that   *)
(* the types hold, no assertion fires, the links agree, the endpoint list  *)
(* follows the flags, the visited flags are the tunnel and the tunnel      *)
(* alternates.  On top of it the invariant of the circle check: the check  *)
(* reports a circle exactly if there is one, with the largest index on it, *)
(* so what stays flipped is a cover by paths, and tunneling implements     *)
(* PathCover.  Last, the account of the paths that have been tried: which  *)
(* tunnels an unlimited search may overlook, and that no others are left.  *)
(***************************************************************************)
EXTENDS TunnelingInv, TriLemmas

-----------------------------------------------------------------------------
(***************************************************************************)
(* The tunnel state.                                                       *)
(***************************************************************************)
(* A stack selects one of its positions; without it, it is depleted or     *)
(* still a stack of them.                                                  *)
LEMMA StackSelects ==
  ASSUME NEW D \in SUBSET Dir, NEW s \in Stacks(D)
  PROVE  /\ s \in Byte /\ s # TunnelStateDepleted
         /\ s % 4 \in D
         /\ SelectNextTunnelState(s) \in Byte
         /\ \/ SelectNextTunnelState(s) = TunnelStateDepleted
            \/ SelectNextTunnelState(s) \in Stacks(D)
<1> USE DEF TunnelStateDepleted, SelectNextTunnelState
<1>0. \A d \in D : d \in 0 .. 2
  BY DEF Dir
<1>1. CASE \E d \in D : s = 12 + d
  <2>1. PICK d \in D : s = 12 + d
    BY <1>1
  <2>2. s % 4 = d /\ s \div 4 = 3
    BY <1>0, <2>1
  <2> QED
    BY <1>0, <2>1, <2>2 DEF Byte
<1>2. CASE \E d, e \in D : s = 48 + 4 * d + e
  <2>1. PICK d \in D, e \in D : s = 48 + 4 * d + e
    BY <1>2
  <2>2. s % 4 = e /\ s \div 4 = 12 + d
    BY <1>0, <2>1
  <2>3. s \div 4 \in Stacks(D)
    BY <2>1, <2>2 DEF Stacks
  <2> QED
    BY <1>0, <2>1, <2>2, <2>3 DEF Byte
<1>3. CASE \E d, e, f \in D : s = 192 + 16 * d + 4 * e + f
  <2>1. PICK d \in D, e \in D, f \in D : s = 192 + 16 * d + 4 * e + f
    BY <1>3
  <2>2. s % 4 = f /\ s \div 4 = 48 + 4 * d + e
    BY <1>0, <2>1
  <2>3. s \div 4 \in Stacks(D)
    BY <2>1, <2>2 DEF Stacks
  <2>4. s \in 0 .. 255 /\ s # 3 /\ s \div 4 \in 0 .. 255
    BY <1>0, <2>1, <2>2
  <2> QED
    BY <2>1, <2>2, <2>3, <2>4 DEF Byte
<1> QED
  BY <1>1, <1>2, <1>3 DEF Stacks

(* Adding positions to a depleted state builds a stack: no digit, not even *)
(* the sentinel below three positions, leaves the byte.                    *)
LEMMA StackGrows ==
  ASSUME NEW D \in SUBSET Dir, NEW d \in D, NEW e \in D, NEW f \in D
  PROVE  LET one == AddTunnelState(TunnelStateDepleted, d)
             two == AddTunnelState(one, e)
         IN  /\ one \in Stacks(D) /\ two \in Stacks(D)
             /\ AddTunnelState(two, f) \in Stacks(D)
<1>1. d \in 0 .. 2 /\ e \in 0 .. 2 /\ f \in 0 .. 2
  BY DEF Dir
<1>2. /\ AddTunnelState(3, d) = 12 + d
      /\ AddTunnelState(12 + d, e) = 48 + 4 * d + e
      /\ AddTunnelState(48 + 4 * d + e, f) = 192 + 16 * d + 4 * e + f
  BY <1>1 DEF AddTunnelState
<1> QED
  BY <1>2 DEF Stacks, TunnelStateDepleted

(* A step of opening: d is pushed if it is permitted.                      *)
LEMMA StackAdds ==
  ASSUME NEW D \in SUBSET Dir, NEW d \in Dir, NEW e \in Dir, NEW f \in Dir
  PROVE  LET add(s, c) == IF c \in D THEN AddTunnelState(s, c) ELSE s
             two == add(add(TunnelStateDepleted, d), e)
         IN  /\ two = TunnelStateDepleted \/ two \in Stacks(D)
             /\ add(two, f) = TunnelStateDepleted \/ add(two, f) \in Stacks(D)
<1> DEFINE add(s, c) == IF c \in D THEN AddTunnelState(s, c) ELSE s
           one == add(TunnelStateDepleted, d)
           two == add(one, e)
<1>1. one = TunnelStateDepleted \/ (d \in D /\ one = AddTunnelState(TunnelStateDepleted, d))
  OBVIOUS
<1>2. CASE one = TunnelStateDepleted
  <2>1. two = TunnelStateDepleted \/ (e \in D /\ two = AddTunnelState(TunnelStateDepleted, e))
    BY <1>2
  <2> QED
    BY <2>1, StackGrows
<1>3. CASE d \in D /\ one = AddTunnelState(TunnelStateDepleted, d)
  <2>1. two = one \/ (e \in D /\ two = AddTunnelState(one, e))
    OBVIOUS
  <2> QED
    BY <1>3, <2>1, StackGrows
<1> QED
  BY <1>1, <1>2, <1>3

(* The first triangle is red: it may be left across every unlinked edge.   *)
LEMMA FirstOpened ==
  ASSUME NEW t \in Tris
  PROVE  \/ OpenedFirst(t) = TunnelStateDepleted
         \/ OpenedFirst(t) \in Stacks({d \in Dir : neighbours[t][d] # Null /\ d \notin Links(t)})
<1> DEFINE D == {d \in Dir : neighbours[t][d] # Null /\ d \notin Links(t)}
<1>1. 0 \in Dir /\ 1 \in Dir /\ 2 \in Dir
  BY DEF Dir
<1>2. \A d \in Dir : d \in D <=> neighbours[t][d] # Null /\ d \notin Links(t)
  OBVIOUS
<1> DEFINE add(s, c) == IF c \in D THEN AddTunnelState(s, c) ELSE s
<1>3. OpenedFirst(t) = add(add(add(TunnelStateDepleted, 0), 1), 2)
  BY <1>1 DEF OpenedFirst
<1>4. D \in SUBSET Dir
  OBVIOUS
<1> HIDE DEF D
<1> QED
  BY <1>1, <1>3, <1>4, StackAdds DEF D

(* Any other triangle may be left by the positions other than the one it   *)
(* was entered by, to triangles that are not visited.                      *)
LEMMA TriOpened ==
  ASSUME NEW t \in Tris, NEW back \in Byte, NEW isRed \in BOOLEAN
  PROVE  \/ OpenedTri(t, back, isRed) = TunnelStateDepleted
         \/ OpenedTri(t, back, isRed) \in
              Stacks({d \in Dir : /\ neighbours[t][d] # Null
                                  /\ isRed # (d \in Links(t))
                                  /\ neighbours[t][d] \notin visited})
<1> DEFINE D == {d \in Dir : /\ neighbours[t][d] # Null
                             /\ isRed # (d \in Links(t))
                             /\ neighbours[t][d] \notin visited}
           a == RemainingIndex(back, 0)
           b == RemainingIndex(back, 1)
           add(s, c) == IF c \in D THEN AddTunnelState(s, c) ELSE s
<1>1. a \in Dir /\ b \in Dir
  BY DEF Dir, RemainingIndex, Byte
<1>2. OpenedTri(t, back, isRed) = add(add(TunnelStateDepleted, a), b)
  BY <1>1 DEF OpenedTri
<1>3. D \in SUBSET Dir
  OBVIOUS
<1> HIDE DEF D, a, b
<1> QED
  BY <1>1, <1>2, <1>3, StackAdds DEF D

(* A number that fits.                                                     *)
LEMMA FitsUInt16 ==
  ASSUME NEW n \in Nat, n <= 65535
  PROVE  n \in UInt16
<1> DEFINE largest == 65535
<1>1. largest \in Nat /\ n <= largest
  OBVIOUS
<1>2. UInt16 = 0 .. largest
  BY DEF UInt16
<1> HIDE DEF largest
<1> QED
  BY <1>1, <1>2

(* The tunnel length of a configuration is a natural number.               *)
LEMMA ConfigFields ==
  ASSUME NEW c \in ConfigSet
  PROVE  c.maxCount \in Nat
  BY DEF ConfigSet

(* A pass over the configuration changes its tunnel length only.           *)
LEMMA ConfigSetMaxCount ==
  ASSUME NEW c \in ConfigSet, NEW n \in Nat
  PROVE  /\ [c EXCEPT !.maxCount = n] \in ConfigSet
         /\ [c EXCEPT !.maxCount = n].maxCount = n
         /\ [c EXCEPT !.maxCount = n].loopLimit = c.loopLimit
  BY DEF ConfigSet

(* ... and leaves alone what happens at the loop limit.                    *)
LEMMA ConfigSetBacktrack ==
  ASSUME NEW c \in ConfigSet, NEW n \in Nat
  PROVE  [c EXCEPT !.maxCount = n].backtrackAfterLoopLimit = c.backtrackAfterLoopLimit
  BY DEF ConfigSet

-----------------------------------------------------------------------------
(***************************************************************************)
(* Outside of cementing.                                                   *)
(***************************************************************************)
(* No step outside of cementing changes a link or an endpoint.             *)
LEMMA LinksFrame ==
  ASSUME IInv, pc \notin Cementing, pc' \notin Cementing,
         UNCHANGED <<mesh, stripVars>>
  PROVE  /\ LinksOK' /\ FlipOK' /\ CheckOK'
         /\ Endpoints = endpoint /\ Endpoints' = endpoint
<1>1. /\ pc \notin {"Check", "Walk", "Undo"} /\ ~IsFlipped
      /\ pc' \notin {"Check", "Walk", "Undo"} /\ ~IsFlipped'
  BY DEF Cementing, IsFlipped
<1>2. Endpoints = endpoint /\ Endpoints' = endpoint
  BY <1>1 DEF Endpoints, stripVars
<1>3. FlipOK' /\ CheckOK'
  BY <1>1 DEF FlipOK, CheckOK, Cementing
<1>4. trisCount' = trisCount /\ neighbours' = neighbours /\ indices' = indices
      /\ linkState' = linkState /\ endpoint' = endpoint
  BY DEF mesh, stripVars
<1>5. LinksOK
  BY DEF IInv
<1>6. Agree(SettledLinks)' /\ LinksAgree'
  BY <1>4, <1>5 DEF LinksOK, Agree, SettledLinks, IsSaved, Links, LinksAgree
<1>7. (Endpoints = Ends(SettledLinks))'
  <2>1. endpoint = {t \in InUse : AtMostOne(Links(t))}
    BY <1>2, <1>5 DEF LinksOK, Ends, SettledLinks, IsSaved, Links
  <2>2. (Ends(SettledLinks) = {t \in InUse : AtMostOne(Links(t))})'
    BY DEF Ends, SettledLinks, IsSaved
  <2>3. {t \in InUse : AtMostOne(Links(t))}' = {t \in InUse : AtMostOne(Links(t))}
    BY <1>4 DEF InUse, AtMostOne, Links
  <2> QED
    BY <1>2, <2>1, <2>2, <2>3
<1> QED
  BY <1>2, <1>3, <1>6, <1>7 DEF LinksOK

(* The places of the tunnel hold triangles in use, each its own.           *)
LEMMA PathFacts ==
  ASSUME IInv, InTunnel
  PROVE  /\ Len(tunnel) \in Nat /\ Len(tunnel) >= 1
         /\ Top \in Nat /\ Len(tunnel) = Top + 1
         /\ \A k \in 0 .. Top : At(k) \in InUse /\ At(k) \in Tris /\ tunnelIndex[At(k)] = k
         /\ \A j, k \in 0 .. Top : At(j) = At(k) => j = k
         /\ \A k \in 0 .. Top : At(k) \in ElementsOf(tunnel)
         /\ \A t \in ElementsOf(tunnel) : \E k \in 0 .. Top : t = At(k)
<1>1. PathOK /\ trisCount \in Tris
  BY DEF IInv, ArraysOK, MeshOK, IsMesh
<1>2. InUse \subseteq Tris
  BY <1>1, MaxTrisAssumption DEF InUse, Tris
<1>3. /\ tunnel \in Seq(Tris) /\ Len(tunnel) >= 1
      /\ \A k \in 0 .. Top : At(k) \in InUse /\ tunnelIndex[At(k)] = k
  BY <1>1 DEF PathOK
<1>4. Len(tunnel) \in Nat /\ DOMAIN tunnel = 1 .. Len(tunnel)
  BY <1>3
<1>5. Top \in Nat /\ Len(tunnel) = Top + 1
  BY <1>3, <1>4 DEF Top
<1>6. \A k \in 0 .. Top : At(k) \in ElementsOf(tunnel)
  <2> SUFFICES ASSUME NEW k \in 0 .. Top PROVE At(k) \in ElementsOf(tunnel)
    OBVIOUS
  <2>1. k + 1 \in DOMAIN tunnel
    BY <1>4, <1>5
  <2> QED
    BY <2>1 DEF At, ElementsOf
<1>7. ASSUME NEW t \in ElementsOf(tunnel)
      PROVE  \E k \in 0 .. Top : t = At(k)
  <2>1. PICK i \in DOMAIN tunnel : t = tunnel[i]
    BY <1>7 DEF ElementsOf
  <2>2. i - 1 \in 0 .. Top /\ t = At(i - 1)
    BY <1>4, <1>5, <2>1 DEF At
  <2> QED
    BY <2>2
<1> QED
  BY <1>2, <1>3, <1>4, <1>5, <1>6, <1>7

-----------------------------------------------------------------------------
(***************************************************************************)
(* The steps between two tunnels.                                          *)
(***************************************************************************)
(* A step that ends outside of a tunnel: nothing is visited any more.      *)
LEMMA QuietStep ==
  ASSUME IInv, pc \notin Cementing, pc' \in Quiet, pc' # "Start",
         UNCHANGED <<mesh, stripVars, endpoints, stripsCount, tunnel, tunnelIndex, checkVars>>,
         ConfigOK', Len(tunnel) <= config'.maxCount,
         tunnelState' \in [Tris -> Byte], visited' = {},
         hasFound' \in BOOLEAN, loopCount' \in Nat, first' \in Tris \cup {Null},
         pc' = "Endpoint" => first' \in endpoint
  PROVE  IInv'
<1>1. /\ pc' \notin Cementing /\ pc' \notin Digging
      /\ ~InTunnel' /\ ~IsSelected' /\ ~IsFlipped'
      /\ pc' \notin {"Expand", "Cement", "Flip", "Check"}
  BY DEF Quiet, Cementing, Digging, InTunnel, IsSelected, IsFlipped
<1>2. LinksOK' /\ FlipOK' /\ CheckOK' /\ Endpoints = endpoint /\ Endpoints' = endpoint
  BY <1>1, LinksFrame
<1>3. ArraysOK'
  <2>1. ArraysOK
    BY DEF IInv
  <2> QED
    BY <2>1 DEF ArraysOK, MeshOK, InUse, mesh, stripVars, checkVars
<1>4. CountersOK'
  <2>1. CountersOK
    BY DEF IInv
  <2> QED
    BY <2>1 DEF CountersOK, checkVars
<1>5. ListOK'
  <2>1. ListOK
    BY DEF IInv
  <2>2. endpoint' = endpoint /\ ~IsFlipped
    BY DEF stripVars, IsFlipped, Cementing
  <2> QED
    BY <1>1, <1>2, <2>1, <2>2 DEF ListOK, ElementsOf
<1>6. PathOK'
  <2>1. PathOK
    BY DEF IInv
  <2>2. (tunnel \in Seq(Tris) /\ Len(tunnel) <= config.maxCount)'
    BY <2>1 DEF PathOK
  <2> QED
    BY <1>1, <2>2 DEF PathOK
<1>7. StatesOK' /\ VisitedOK'
  BY <1>1 DEF StatesOK, VisitedOK
<1> QED
  BY <1>2, <1>3, <1>4, <1>5, <1>6, <1>7 DEF IInv

(* A step that gives up the search of an endpoint.                         *)
LEMMA DigFailedStep ==
  ASSUME IInv, pc \in Digging \cup {"Endpoint"}, DigFailed,
         UNCHANGED <<mesh, stripVars, tunnel, tunnelIndex, checkVars>>,
         tunnelState' \in [Tris -> Byte], visited' = {}, loopCount' \in Nat
  PROVE  IInv'
<1>1. pc \notin Cementing /\ ~IsFlipped /\ (InTunnel \/ pc = "Endpoint")
  BY DEF Digging, Cementing, InTunnel, IsFlipped
<1>2. ListOK /\ PathOK /\ ConfigOK /\ CountersOK
  BY DEF IInv
<1>3. Endpoints = endpoint /\ first \in Endpoints /\ ElementsOf(endpoints) = endpoint
  BY <1>1, <1>2 DEF ListOK, Endpoints
<1>4. first' \in endpoint \cup {Null}
  BY <1>2, <1>3, NextElement DEF ListOK, DigFailed, ContinueWith
<1>5. endpoint \subseteq Tris
  BY MaxTrisAssumption DEF IInv, ArraysOK, MeshOK, IsMesh, InUse, Tris
<1>6. ConfigOK' /\ Len(tunnel) <= config'.maxCount
  BY <1>2 DEF DigFailed, ConfigOK, PathOK
<1>7. /\ pc' \in {"Endpoint", "PassEnd"} /\ (pc' = "Endpoint" => first' # Null)
  BY DEF DigFailed, ContinueWith
<1>8. hasFound' \in BOOLEAN /\ endpoints' = endpoints /\ stripsCount' = stripsCount
  BY <1>2 DEF DigFailed, CountersOK
<1>9. pc' \in Quiet /\ pc' # "Start" /\ (pc' = "Endpoint" => first' \in endpoint)
      /\ first' \in Tris \cup {Null}
  BY <1>4, <1>5, <1>7 DEF Quiet
<1> QED
  BY <1>1, <1>6, <1>8, <1>9, QuietStep

(* Tunneling starts on a cover whose endpoints are all listed.             *)
LEMMA StartTunnelingIInv ==
  ASSUME IInv, StartTunneling
  PROVE  IInv'
<1>1. pc = "Start" /\ pc' = "Pass" /\ limit' = config.maxCount
      /\ config' = IF config.incremental THEN [config EXCEPT !.maxCount = 2] ELSE config
  BY DEF StartTunneling
<1>2. ArraysOK /\ PathOK /\ ConfigOK /\ CountersOK /\ VisitedOK
  BY DEF IInv
<1>3. tunnel = <<>> /\ visited = {}
  BY <1>1, <1>2 DEF PathOK, VisitedOK, Quiet
<1>4. ConfigOK'
  <2>1. config \in ConfigSet /\ config.maxCount \in Nat
    BY <1>2, ConfigFields DEF ConfigOK
  <2>2. CASE config' = config
    BY <1>1, <1>2, <2>1, <2>2 DEF ConfigOK
  <2>3. CASE config' = [config EXCEPT !.maxCount = 2]
    <3>1. /\ config' \in ConfigSet /\ config'.maxCount = 2
          /\ config'.loopLimit = config.loopLimit
          /\ config'.backtrackAfterLoopLimit = config.backtrackAfterLoopLimit
      BY <2>1, <2>3, 2 \in Nat, ConfigSetMaxCount, ConfigSetBacktrack
    <3> QED
      BY <1>1, <1>2, <2>1, <3>1 DEF ConfigOK
  <2> QED
    BY <1>1, <2>2, <2>3
<1>5. Len(tunnel) <= config'.maxCount
  BY <1>3, <1>4, ConfigFields DEF ConfigOK
<1> QED
  BY <1>1, <1>2, <1>3, <1>4, <1>5, QuietStep
     DEF StartTunneling, Quiet, Cementing, ArraysOK, CountersOK, searchVars

(* A pass takes the head of the list, which is an endpoint.                *)
LEMMA StartPassIInv ==
  ASSUME IInv, StartPass
  PROVE  IInv'
<1>1. ArraysOK /\ PathOK /\ ConfigOK /\ CountersOK /\ VisitedOK /\ ListOK
  BY DEF IInv
<1>2. pc = "Pass" /\ pc' = "Endpoint" /\ first' = HeadOf(endpoints) /\ hasFound' = FALSE
      /\ UNCHANGED <<mesh, stripVars, config, limit, endpoints, stripsCount, searchVars, checkVars>>
  BY DEF StartPass
<1>3. ElementsOf(endpoints) = endpoint /\ endpoint # {} /\ endpoints \in Seq(Tris)
  BY <1>1, <1>2 DEF ListOK, Endpoints, IsFlipped
<1>4. first' \in endpoint
  <2>1. PICK i \in DOMAIN endpoints : TRUE
    BY <1>3 DEF ElementsOf
  <2>2. endpoints # <<>> /\ 1 \in DOMAIN endpoints
    BY <1>3, <2>1
  <2> QED
    BY <1>2, <1>3, <2>2 DEF HeadOf, ElementsOf
<1>5. first' \in Tris
  BY <1>3, <1>4 DEF ElementsOf
<1>6. visited = {} /\ ConfigOK' /\ Len(tunnel) <= config'.maxCount
  BY <1>1, <1>2 DEF VisitedOK, Quiet, ConfigOK, PathOK
<1> QED
  BY <1>1, <1>2, <1>4, <1>5, <1>6, QuietStep
     DEF Quiet, Cementing, ArraysOK, CountersOK, searchVars

(* The end of a pass leaves the cover alone and lengthens the tunnels.     *)
LEMMA EndPassIInv ==
  ASSUME IInv, EndPass
  PROVE  IInv'
<1>1. ArraysOK /\ PathOK /\ ConfigOK /\ CountersOK /\ VisitedOK
  BY DEF IInv
<1>2. pc = "PassEnd" /\ pc' \in {"Pass", "Done"} /\ first' = first /\ hasFound' = hasFound
      /\ UNCHANGED <<mesh, stripVars, limit, endpoints, stripsCount, searchVars, checkVars>>
      /\ \/ config' = config
         \/ config.maxCount + 2 <= limit /\ config' = [config EXCEPT !.maxCount = @ + 2]
  BY DEF EndPass
<1>3. visited = {} /\ config \in ConfigSet /\ config.maxCount \in Nat /\ limit \in Nat
  BY <1>1, <1>2, ConfigFields DEF VisitedOK, Quiet, ConfigOK
<1>4. ConfigOK' /\ Len(tunnel) <= config'.maxCount
  <2>1. CASE config' = config
    BY <1>1, <1>2, <2>1 DEF ConfigOK, PathOK
  <2>2. CASE config.maxCount + 2 <= limit /\ config' = [config EXCEPT !.maxCount = @ + 2]
    <3>1. /\ config' \in ConfigSet /\ config'.maxCount = config.maxCount + 2
          /\ config'.loopLimit = config.loopLimit
          /\ config'.backtrackAfterLoopLimit = config.backtrackAfterLoopLimit
      BY <1>3, <2>2, ConfigSetMaxCount, ConfigSetBacktrack
    <3>2. Len(tunnel) \in Nat /\ Len(tunnel) <= config.maxCount
      BY <1>1 DEF PathOK
    <3> QED
      BY <1>1, <1>2, <1>3, <2>2, <3>1, <3>2 DEF ConfigOK
  <2> QED
    BY <1>2, <2>1, <2>2
<1> QED
  BY <1>1, <1>2, <1>3, <1>4, QuietStep
     DEF Quiet, Cementing, ArraysOK, CountersOK, searchVars

(* Stopping at the destination count leaves everything but pc alone.       *)
LEMMA StopAtDestCountIInv ==
  ASSUME IInv, StopAtDestCount
  PROVE  IInv'
<1>1. ArraysOK /\ PathOK /\ ConfigOK /\ CountersOK /\ VisitedOK
  BY DEF IInv
<1>2. pc = "Endpoint" /\ pc' = "PassEnd" /\ first' = first /\ hasFound' = FALSE
      /\ UNCHANGED <<mesh, stripVars, config, limit, endpoints, stripsCount, searchVars, checkVars>>
  BY DEF StopAtDestCount
<1>3. visited = {} /\ ConfigOK' /\ Len(tunnel) <= config'.maxCount
  BY <1>1, <1>2 DEF VisitedOK, Quiet, ConfigOK, PathOK
<1> QED
  BY <1>1, <1>2, <1>3, QuietStep
     DEF Quiet, Cementing, ArraysOK, CountersOK, searchVars

-----------------------------------------------------------------------------
(***************************************************************************)
(* The steps of a search.                                                  *)
(***************************************************************************)
(* What a triangle may be left by depends on the tunnel up to it, and on   *)
(* the settled links.                                                      *)
LEMMA PermittedFrame ==
  ASSUME UNCHANGED mesh, NEW k \in Nat, \A j \in 0 .. k : At(j)' = At(j), At(k) \in Tris,
         \A t \in Tris : SettledLinks(t)' = SettledLinks(t)
  PROVE  Permitted(k)' = Permitted(k)
<1>1. At(k)' = At(k) /\ neighbours' = neighbours
  BY DEF mesh
<1>2. SettledLinks(At(k))' = SettledLinks(At(k))
  BY <1>1
<1> QED
  BY <1>1, <1>2 DEF Permitted

(* A prefix of the tunnel is a tunnel.                                     *)
LEMMA PrefixPath ==
  ASSUME IInv, InTunnel, NEW m \in 1 .. Len(tunnel), tunnel' = SubSeq(tunnel, 1, m),
         IsSelected', m < config.maxCount,
         UNCHANGED <<mesh, config, first>>,
         \A t \in Tris : SettledLinks(t)' = SettledLinks(t),
         \A k \in 0 .. m - 1 : tunnelIndex'[At(k)] = k,
         \A k \in 0 .. m - 2 : tunnelState'[At(k)] = tunnelState[At(k)],
         tunnelState'[At(m - 1)] \in Stacks(Permitted(m - 1))
  PROVE  /\ PathOK' /\ StatesOK'
         /\ ElementsOf(tunnel)' = {At(k) : k \in 0 .. m - 1}
<1>1. PathOK /\ StatesOK
  BY DEF IInv
<1>2. /\ Len(tunnel) \in Nat /\ Top \in Nat /\ Len(tunnel) = Top + 1
      /\ \A k \in 0 .. Top : At(k) \in InUse /\ At(k) \in Tris
  BY PathFacts
<1>3. tunnel \in Seq(Tris)
  BY <1>1 DEF PathOK
<1>4. /\ tunnel' \in Seq(Tris) /\ Len(tunnel') = m /\ DOMAIN (tunnel') = 1 .. m
      /\ \A i \in 1 .. m : tunnel'[i] = tunnel[i]
  BY <1>2, <1>3
<1>5. Top' = m - 1 /\ m \in Nat
  BY <1>2, <1>4 DEF Top
<1>6. \A k \in 0 .. m - 1 : At(k)' = At(k)
  BY <1>2, <1>4 DEF At
<1>7. pc' \in {"Dig", "Push", "Backtrack", "Retreat"}
  BY DEF IsSelected
<1>8. pc' # "Start" /\ pc' # "Expand" /\ pc' \notin Cementing \cup {"Cement"}
  BY <1>7 DEF Cementing
<1>9. PathOK'
  <2>1. At(0)' = first'
    BY <1>1, <1>6 DEF PathOK
  <2>2. \A k \in 0 .. m - 1 : At(k)' \in InUse' /\ tunnelIndex'[At(k)'] = k
    BY <1>2, <1>6 DEF InUse, mesh
  <2>3. ASSUME NEW k \in 0 .. m - 2
        PROVE  neighbours'[At(k)'][Out(k)'] = At(k + 1)'
    <3>1. k \in 0 .. Top - 1 /\ k \in 0 .. m - 1 /\ k + 1 \in 0 .. m - 1
      BY <1>2
    <3>2. neighbours[At(k)][Out(k)] = At(k + 1)
      BY <1>1, <3>1 DEF PathOK
    <3>3. Out(k)' = Out(k)
      BY <1>6, <3>1 DEF Out, SuccessorIndex
    <3> QED
      BY <1>6, <3>1, <3>2, <3>3 DEF mesh
  <2>4. tunnel' \in Seq(Tris) /\ Len(tunnel') <= config'.maxCount /\ Len(tunnel') < config'.maxCount
        /\ Len(tunnel') >= 1
    <3>1. config'.maxCount \in Nat
      BY ConfigFields DEF IInv, ConfigOK
    <3> QED
      BY <1>4, <3>1
  <2>5. \A k \in 0 .. Top' - 1 : neighbours'[At(k)'][Out(k)'] = At(k + 1)'
    BY <1>5, <2>3
  <2>6. \A k \in 0 .. Top' : At(k)' \in InUse' /\ tunnelIndex'[At(k)'] = k
    BY <1>5, <2>2
  <2> QED
    BY <1>8, <2>1, <2>4, <2>5, <2>6 DEF PathOK
<1>10. StatesOK'
  <2>1. ASSUME NEW k \in 0 .. m - 1
        PROVE  tunnelState'[At(k)'] \in Stacks(Permitted(k)')
    <3>1. At(k) \in Tris /\ At(k)' = At(k) /\ k \in Nat
      BY <1>2, <1>6
    <3>2. Permitted(k)' = Permitted(k)
      <4>1. \A j \in 0 .. k : At(j)' = At(j)
        BY <1>6
      <4> QED
        BY <3>1, <4>1, PermittedFrame
    <3>3. CASE k = m - 1
      BY <3>1, <3>2, <3>3
    <3>4. CASE k # m - 1
      <4>1. k \in 0 .. m - 2 /\ k \in 0 .. Top /\ k < Top
        BY <1>2, <3>4
      <4>2. tunnelState[At(k)] \in Stacks(Permitted(k))
        BY <1>1, <4>1 DEF StatesOK
      <4> QED
        BY <3>1, <3>2, <4>1, <4>2
    <3> QED
      BY <3>3, <3>4
  <2> QED
    BY <1>5, <2>1 DEF StatesOK
<1>11. ElementsOf(tunnel)' = {At(k) : k \in 0 .. m - 1}
  <2>1. ASSUME NEW i \in 1 .. m PROVE i - 1 \in 0 .. m - 1 /\ tunnel'[i] = At(i - 1)
    BY <1>4 DEF At
  <2>2. ASSUME NEW k \in 0 .. m - 1 PROVE k + 1 \in 1 .. m /\ tunnel'[k + 1] = At(k)
    BY <1>4, <1>5 DEF At
  <2>3. ElementsOf(tunnel)' = {tunnel'[i] : i \in 1 .. m}
    BY <1>4 DEF ElementsOf
  <2>4. \A x \in ElementsOf(tunnel)' : \E k \in 0 .. m - 1 : x = At(k)
    BY <2>1, <2>3
  <2>5. \A k \in 0 .. m - 1 : At(k) \in ElementsOf(tunnel)'
    BY <2>2, <2>3
  <2> QED
    BY <2>4, <2>5
<1> QED
  BY <1>9, <1>10, <1>11

(* Outside of cementing the settled links do not change.                   *)
LEMMA SettledFrame ==
  ASSUME pc \notin Cementing, pc' \notin Cementing, linkState' = linkState
  PROVE  /\ \A t \in Tris : SettledLinks(t)' = SettledLinks(t)
         /\ \A t \in Tris : SettledLinks(t) = Links(t)
BY DEF SettledLinks, IsSaved, Links

(* A step back to a prefix of the tunnel, which is what stays visited.     *)
LEMMA PrefixStep ==
  ASSUME IInv, pc \in Digging, NEW m \in 1 .. Len(tunnel), tunnel' = SubSeq(tunnel, 1, m),
         pc' \in {"Dig", "Push", "Backtrack", "Retreat"}, m < config.maxCount,
         UNCHANGED <<mesh, stripVars, passVars, tunnelIndex, checkVars>>,
         visited' = {At(k) : k \in 0 .. m - 1}, loopCount' \in Nat,
         tunnelState' \in [Tris -> Byte],
         \A k \in 0 .. m - 2 : tunnelState'[At(k)] = tunnelState[At(k)],
         tunnelState'[At(m - 1)] \in Stacks(Permitted(m - 1))
  PROVE  IInv'
<1>1. /\ pc \notin Cementing /\ pc' \notin Cementing /\ pc' \in Digging /\ pc' \notin Quiet
      /\ InTunnel /\ InTunnel' /\ IsSelected' /\ ~IsFlipped /\ ~IsFlipped'
      /\ pc' \notin {"Flip", "Endpoint"}
  BY DEF Digging, Cementing, Quiet, InTunnel, IsSelected, IsFlipped
<1>2. LinksOK' /\ FlipOK' /\ CheckOK' /\ Endpoints = endpoint /\ Endpoints' = endpoint
  BY <1>1, LinksFrame
<1>3. /\ Len(tunnel) \in Nat /\ Top \in Nat /\ Len(tunnel) = Top + 1
      /\ \A k \in 0 .. Top : At(k) \in Tris /\ tunnelIndex[At(k)] = k
  BY <1>1, PathFacts
<1>4. PathOK' /\ StatesOK' /\ ElementsOf(tunnel)' = {At(k) : k \in 0 .. m - 1}
  <2>1. \A t \in Tris : SettledLinks(t)' = SettledLinks(t)
    BY <1>1, SettledFrame DEF stripVars
  <2>2. \A k \in 0 .. m - 1 : tunnelIndex'[At(k)] = k
    BY <1>3
  <2> QED
    BY <1>1, <2>1, <2>2, PrefixPath DEF passVars
<1>5. ArraysOK'
  <2>1. ArraysOK
    BY DEF IInv
  <2>2. visited' \subseteq Tris
    BY <1>3
  <2> QED
    BY <2>1, <2>2 DEF ArraysOK, MeshOK, InUse, mesh, stripVars, checkVars
<1>6. CountersOK' /\ ConfigOK'
  BY <1>1 DEF IInv, CountersOK, ConfigOK, passVars, checkVars
<1>7. ListOK'
  <2>1. ListOK
    BY DEF IInv
  <2> QED
    BY <1>1, <1>2, <2>1 DEF ListOK, ElementsOf, passVars, stripVars
<1>8. VisitedOK'
  BY <1>1, <1>4 DEF VisitedOK
<1> QED
  BY <1>2, <1>4, <1>5, <1>6, <1>7, <1>8 DEF IInv

(* Dropping the upper part of the tunnel unvisits just that part.          *)
LEMMA BacktrackedVisits ==
  ASSUME IInv, InTunnel, visited = ElementsOf(tunnel), NEW k \in 0 .. Top
  PROVE  /\ visited \ {At(j) : j \in k + 1 .. Top} = {At(j) : j \in 0 .. k}
         /\ SubSeq(tunnel, 1, MinOf(k, Top) + 1) = SubSeq(tunnel, 1, k + 1)
         /\ k + 1 \in 1 .. Len(tunnel)
<1>1. /\ Len(tunnel) \in Nat /\ Top \in Nat /\ Len(tunnel) = Top + 1
      /\ \A i, j \in 0 .. Top : At(i) = At(j) => i = j
      /\ \A j \in 0 .. Top : At(j) \in ElementsOf(tunnel)
      /\ \A t \in ElementsOf(tunnel) : \E j \in 0 .. Top : t = At(j)
  BY PathFacts
<1>2. MinOf(k, Top) = k
  BY <1>1 DEF MinOf
<1>3. ASSUME NEW t \in visited, t \notin {At(j) : j \in k + 1 .. Top}
      PROVE  t \in {At(j) : j \in 0 .. k}
  <2>1. PICK j \in 0 .. Top : t = At(j)
    BY <1>1
  <2>2. j \notin k + 1 .. Top
    BY <1>3, <2>1
  <2>3. j \in 0 .. k
    BY <1>1, <2>2
  <2> QED
    BY <2>1, <2>3
<1>4. ASSUME NEW j \in 0 .. k
      PROVE  At(j) \in visited /\ At(j) \notin {At(i) : i \in k + 1 .. Top}
  <2>1. j \in 0 .. Top /\ j \notin k + 1 .. Top /\ k + 1 .. Top \subseteq 0 .. Top
    BY <1>1
  <2> QED
    BY <1>1, <2>1
<1> QED
  BY <1>1, <1>2, <1>3, <1>4

(* Without backtracking, the search is given up when the loop limit is     *)
(* reached: the tunnel has one triangle, whose flag is cleared.            *)
LEMMA CancelDigIInv ==
  ASSUME IInv, CancelDig
  PROVE  IInv'
<1>1. ArraysOK /\ PathOK /\ ConfigOK /\ CountersOK /\ VisitedOK
  BY DEF IInv
<1>2. /\ pc = "Dig" /\ LoopLimitReached /\ ~config.backtrackAfterLoopLimit
      /\ visited' = visited \ {At(Top)} /\ DigFailed /\ loopCount' = loopCount + 1
      /\ UNCHANGED <<mesh, stripVars, tunnel, tunnelState, tunnelIndex, checkVars>>
  BY DEF CancelDig
<1>3. InTunnel /\ IsSelected /\ pc \in Digging
  BY <1>2 DEF InTunnel, IsSelected, Digging
<1>4. config.loopLimit # 0
  BY <1>2 DEF LoopLimitReached
<1>5. config.maxCount = 2
  BY <1>1, <1>2, <1>4 DEF ConfigOK
<1>6. Len(tunnel) < config.maxCount
  BY <1>1, <1>3 DEF PathOK
<1>7. Top = 0
  BY <1>3, <1>5, <1>6, PathFacts
<1>8. visited' = {}
  <2>1. visited = ElementsOf(tunnel)
    BY <1>1, <1>3 DEF VisitedOK
  <2>2. \A t \in ElementsOf(tunnel) : \E k \in 0 .. Top : t = At(k)
    BY <1>3, PathFacts
  <2> QED
    BY <1>2, <1>7, <2>1, <2>2
<1>9. tunnelState' \in [Tris -> Byte] /\ loopCount' \in Nat
  BY <1>1, <1>2 DEF ArraysOK, CountersOK
<1> QED
  BY <1>2, <1>3, <1>8, <1>9, DigFailedStep

(* At the loop limit the tunnel is taken back to its last choice.          *)
LEMMA RetreatDigIInv ==
  ASSUME IInv, RetreatDig
  PROVE  IInv'
<1>1. ArraysOK /\ PathOK /\ ConfigOK /\ CountersOK /\ VisitedOK /\ StatesOK
  BY DEF IInv
<1>2. /\ pc = "Dig" /\ pc' = "Retreat" /\ loopCount' = loopCount + 1
      /\ visited' = visited \ {At(j) : j \in 0 + 1 .. Top}
      /\ tunnel' = SubSeq(tunnel, 1, MinOf(0, Top) + 1)
      /\ UNCHANGED <<mesh, stripVars, passVars, tunnelState, tunnelIndex, checkVars>>
  BY DEF RetreatDig, BacktrackTo
<1>3. InTunnel /\ IsSelected /\ pc \in Digging
  BY <1>2 DEF InTunnel, IsSelected, Digging
<1>4. Top \in Nat /\ 0 \in 0 .. Top
  BY <1>3, PathFacts
<1>5. visited = ElementsOf(tunnel)
  BY <1>1, <1>3 DEF VisitedOK
<1>6. /\ visited' = {At(j) : j \in 0 .. 0} /\ tunnel' = SubSeq(tunnel, 1, 0 + 1)
      /\ 0 + 1 \in 1 .. Len(tunnel)
  BY <1>2, <1>3, <1>4, <1>5, BacktrackedVisits
<1>7. tunnelState[At(0)] \in Stacks(Permitted(0))
  BY <1>1, <1>3, <1>4 DEF StatesOK
<1>8. 1 < config.maxCount
  BY <1>1, ConfigFields DEF ConfigOK
<1>9. tunnelState' \in [Tris -> Byte] /\ loopCount' \in Nat
  BY <1>1, <1>2 DEF ArraysOK, CountersOK
<1>10. 1 \in 1 .. Len(tunnel) /\ tunnel' = SubSeq(tunnel, 1, 1) /\ visited' = {At(k) : k \in 0 .. 1 - 1}
       /\ tunnelState' = tunnelState
  <2>1. 0 + 1 = 1 /\ 1 - 1 = 0
    OBVIOUS
  <2> QED
    BY <1>2, <1>6, <2>1
<1>11. tunnelState'[At(1 - 1)] \in Stacks(Permitted(1 - 1))
  BY <1>7, <1>10
<1>12. \A k \in 0 .. 1 - 2 : tunnelState'[At(k)] = tunnelState[At(k)]
  BY <1>10
<1> QED
  BY <1>2, <1>3, <1>8, <1>9, <1>10, <1>11, <1>12, PrefixStep

(* A new triangle on top: it is full, or closes a tunnel, or is opened.    *)
LEMMA ExpandTunnelIInv ==
  ASSUME IInv, ExpandTunnel
  PROVE  IInv'
<1>1. ArraysOK /\ PathOK /\ ConfigOK /\ CountersOK /\ VisitedOK /\ StatesOK
  BY DEF IInv
<1> DEFINE curr == At(Top)
           opened == OpenedTri(curr, IndexToPrev, Top % 2 = 0)
<1>2. /\ pc = "Expand"
      /\ tunnelState' = IF TunnelIsFull THEN tunnelState ELSE
                          [tunnelState EXCEPT ![curr] = opened]
      /\ IF TunnelIsFull \/ opened = TunnelStateDepleted
         THEN BacktrackTo(Top - 1, visited, "Backtrack")
         ELSE pc' = "Dig" /\ UNCHANGED <<tunnel, visited>>
      /\ UNCHANGED <<mesh, stripVars, passVars, tunnelIndex, loopCount, checkVars>>
  BY DEF ExpandTunnel
<1>3. InTunnel /\ pc \in Digging /\ pc \notin Cementing
  BY <1>2 DEF InTunnel, Digging, Cementing
<1>4. /\ Len(tunnel) \in Nat /\ Top \in Nat /\ Len(tunnel) = Top + 1 /\ Top >= 1
      /\ \A k \in 0 .. Top : At(k) \in InUse /\ At(k) \in Tris /\ tunnelIndex[At(k)] = k
      /\ \A j, k \in 0 .. Top : At(j) = At(k) => j = k
      /\ \A k \in 0 .. Top : At(k) \in ElementsOf(tunnel)
      /\ \A t \in ElementsOf(tunnel) : \E k \in 0 .. Top : t = At(k)
  BY <1>1, <1>2, <1>3, PathFacts DEF PathOK
<1>5. visited = ElementsOf(tunnel) /\ loopCount \in Nat /\ config.maxCount \in Nat
  BY <1>1, <1>3, ConfigFields DEF VisitedOK, CountersOK, ConfigOK
<1>6. opened = TunnelStateDepleted \/ opened \in Stacks(Permitted(Top))
  <2> DEFINE D == {d \in Dir : /\ neighbours[curr][d] # Null
                               /\ (Top % 2 = 0) # (d \in Links(curr))
                               /\ neighbours[curr][d] \notin visited}
  <2>1. IndexToPrev \in Byte
    <3>1. tunnelState[At(Top - 1)] \in Stacks(Permitted(Top - 1))
      BY <1>1, <1>3, <1>4 DEF StatesOK
    <3>2. SuccessorIndex(At(Top - 1)) \in Permitted(Top - 1) /\ Permitted(Top - 1) \in SUBSET Dir
      BY <3>1, StackSelects DEF SuccessorIndex, Permitted
    <3>3. indices \in [Tris -> [Dir -> Byte]] /\ At(Top - 1) \in Tris
      BY <1>1, <1>4 DEF ArraysOK, MeshOK, IsMesh
    <3> QED
      BY <3>2, <3>3 DEF IndexToPrev
  <2>2. opened = TunnelStateDepleted \/ opened \in Stacks(D)
    <3>1. curr \in Tris /\ (Top % 2 = 0) \in BOOLEAN
      BY <1>4
    <3> QED
      BY <2>1, <3>1, TriOpened
  <2>3. D = Permitted(Top)
    <3>1. SettledLinks(curr) = Links(curr)
      BY <1>3 DEF SettledLinks, IsSaved
    <3>2. \A t : t \notin visited <=> \A j \in 0 .. Top : At(j) # t
      BY <1>4, <1>5
    <3>3. Top % 2 = 0 <=> ~(Top % 2 = 1)
      BY <1>4
    <3>4. ASSUME NEW d \in Dir PROVE d \in D <=> d \in Permitted(Top)
      <4>1. ((Top % 2 = 0) # (d \in Links(curr))) <=> (d \in Links(curr) <=> Top % 2 = 1)
        BY <3>3
      <4> QED
        BY <3>1, <3>2, <4>1 DEF Permitted
    <3> QED
      BY <3>4 DEF Permitted
  <2> QED
    BY <2>2, <2>3
<1>7. tunnelState' \in [Tris -> Byte]
  <2>1. opened \in Byte
    <3>1. Permitted(Top) \in SUBSET Dir
      BY DEF Permitted
    <3> QED
      BY <1>6, <3>1, StackSelects DEF TunnelStateDepleted, Byte
  <2> QED
    BY <1>1, <1>2, <2>1 DEF ArraysOK
<1> HIDE DEF opened
<1>8. \A k \in 0 .. Top - 1 : tunnelState'[At(k)] = tunnelState[At(k)]
  <2>1. ASSUME NEW k \in 0 .. Top - 1 PROVE At(k) # curr /\ At(k) \in Tris
    BY <1>4
  <2> QED
    BY <1>1, <1>2, <2>1 DEF ArraysOK
<1>9. CASE TunnelIsFull \/ opened = TunnelStateDepleted
  <2> DEFINE m == Top
  <2>1. /\ pc' = "Backtrack" /\ visited' = visited \ {At(j) : j \in Top - 1 + 1 .. Top}
        /\ tunnel' = SubSeq(tunnel, 1, MinOf(Top - 1, Top) + 1)
    BY <1>2, <1>9 DEF BacktrackTo
  <2>2. Top - 1 \in 0 .. Top
    BY <1>4
  <2>3. /\ visited' = {At(j) : j \in 0 .. Top - 1} /\ tunnel' = SubSeq(tunnel, 1, Top - 1 + 1)
        /\ Top - 1 + 1 \in 1 .. Len(tunnel)
    BY <1>3, <1>5, <2>1, <2>2, BacktrackedVisits
  <2>4. tunnelState'[At(Top - 1)] \in Stacks(Permitted(Top - 1))
    <3>1. Top - 1 \in 0 .. Top /\ Top - 1 \in 0 .. Top - 1 /\ Top - 1 < Top
      BY <1>4
    <3> QED
      BY <1>1, <1>3, <1>8, <3>1 DEF StatesOK
  <2>5. Top - 1 + 1 = Top /\ Top < config.maxCount /\ \A k \in 0 .. Top - 2 : k \in 0 .. Top - 1
    BY <1>1, <1>4, <1>5 DEF PathOK
  <2>6. \A k \in 0 .. Top - 2 : tunnelState'[At(k)] = tunnelState[At(k)]
    BY <1>8, <2>5
  <2>7. pc' \in {"Dig", "Push", "Backtrack", "Retreat"} /\ loopCount' \in Nat
    BY <1>2, <1>5, <2>1
  <2>8. Top \in 1 .. Len(tunnel) /\ tunnel' = SubSeq(tunnel, 1, Top)
    BY <2>3, <2>5
  <2> QED
    BY <1>2, <1>3, <1>7, <2>3, <2>4, <2>5, <2>6, <2>7, <2>8, PrefixStep
<1>10. CASE ~(TunnelIsFull \/ opened = TunnelStateDepleted)
  <2>1. /\ pc' = "Dig" /\ tunnel' = tunnel /\ visited' = visited
        /\ tunnelState' = [tunnelState EXCEPT ![curr] = opened]
    BY <1>2, <1>10
  <2> DEFINE m == Top + 1
  <2>2. m \in 1 .. Len(tunnel) /\ m = Len(tunnel) /\ m - 1 = Top /\ m - 2 = Top - 1
    BY <1>4
  <2>3. m < config.maxCount
    BY <1>1, <1>4, <1>5, <1>10 DEF TunnelIsFull, PathOK
  <2> HIDE DEF m
  <2>4. tunnel' = SubSeq(tunnel, 1, m)
    BY <1>1, <2>1, <2>2 DEF PathOK
  <2>5. visited' = {At(k) : k \in 0 .. m - 1}
    BY <1>4, <1>5, <2>1, <2>2
  <2>6. tunnelState'[At(m - 1)] \in Stacks(Permitted(m - 1))
    BY <1>1, <1>4, <1>6, <1>10, <2>1, <2>2 DEF ArraysOK
  <2>7. \A k \in 0 .. m - 2 : tunnelState'[At(k)] = tunnelState[At(k)]
    BY <1>8, <2>2
  <2>8. pc' \in {"Dig", "Push", "Backtrack", "Retreat"} /\ loopCount' \in Nat
    BY <1>2, <1>5, <2>1
  <2> QED
    BY <1>2, <1>3, <1>7, <2>2, <2>3, <2>4, <2>5, <2>6, <2>7, <2>8, PrefixStep
<1> QED
  BY <1>9, <1>10

(* One round of either backtracking loop: the top is resumed with its next *)
(* successor, or leaves the tunnel, or was the last one.                   *)
LEMMA BacktrackIInv ==
  ASSUME IInv, NEW label \in {"Backtrack", "Retreat"}, NEW resume \in {"Dig", "Push"},
         Backtrack(label, resume), loopCount' \in Nat
  PROVE  IInv'
<1>1. ArraysOK /\ PathOK /\ ConfigOK /\ CountersOK /\ VisitedOK /\ StatesOK
  BY DEF IInv
<1> DEFINE curr == At(Top)
           next == SelectNextTunnelState(tunnelState[curr])
<1>2. /\ pc = label /\ tunnelState' = [tunnelState EXCEPT ![curr] = next]
      /\ IF next # TunnelStateDepleted
         THEN pc' = resume /\ UNCHANGED <<tunnel, visited, passVars>>
         ELSE /\ visited' = visited \ {curr}
              /\ IF Top = 0
                 THEN DigFailed /\ UNCHANGED tunnel
                 ELSE tunnel' = SubSeq(tunnel, 1, Top) /\ UNCHANGED <<pc, passVars>>
      /\ UNCHANGED <<mesh, stripVars, tunnelIndex, checkVars>>
  BY DEF Backtrack
<1>3. InTunnel /\ IsSelected /\ pc \in Digging /\ pc \in {"Dig", "Push", "Backtrack", "Retreat"}
  BY <1>2 DEF InTunnel, Digging, IsSelected
<1>4. /\ Len(tunnel) \in Nat /\ Top \in Nat /\ Len(tunnel) = Top + 1
      /\ \A k \in 0 .. Top : At(k) \in InUse /\ At(k) \in Tris /\ tunnelIndex[At(k)] = k
      /\ \A j, k \in 0 .. Top : At(j) = At(k) => j = k
      /\ \A k \in 0 .. Top : At(k) \in ElementsOf(tunnel)
      /\ \A t \in ElementsOf(tunnel) : \E k \in 0 .. Top : t = At(k)
  BY <1>3, PathFacts
<1>5. /\ visited = ElementsOf(tunnel) /\ config.maxCount \in Nat /\ Len(tunnel) < config.maxCount
      /\ tunnel \in Seq(Tris) /\ curr \in Tris
  BY <1>1, <1>3, <1>4, ConfigFields DEF VisitedOK, ConfigOK, PathOK
<1>6. next \in Byte /\ (next = TunnelStateDepleted \/ next \in Stacks(Permitted(Top)))
  <2>1. tunnelState[curr] \in Stacks(Permitted(Top)) /\ Permitted(Top) \in SUBSET Dir
    BY <1>1, <1>3, <1>4 DEF StatesOK, Permitted
  <2> QED
    BY <2>1, StackSelects
<1>7. tunnelState' \in [Tris -> Byte]
  BY <1>1, <1>2, <1>6 DEF ArraysOK
<1>8. tunnelState'[curr] = next
  BY <1>1, <1>2, <1>5 DEF ArraysOK
<1> HIDE DEF next
<1>9. \A k \in 0 .. Top - 1 : tunnelState'[At(k)] = tunnelState[At(k)]
  <2>1. ASSUME NEW k \in 0 .. Top - 1 PROVE At(k) # curr /\ At(k) \in Tris
    BY <1>4
  <2> QED
    BY <1>1, <1>2, <2>1 DEF ArraysOK
<1> DEFINE m == Top + 1
<1>10. m \in 1 .. Len(tunnel) /\ m = Len(tunnel) /\ m - 1 = Top /\ m - 2 = Top - 1 /\ m < config.maxCount
  BY <1>4, <1>5
<1> HIDE DEF m
<1>11. CASE next # TunnelStateDepleted
  <2>1. pc' = resume /\ UNCHANGED <<tunnel, visited, passVars>>
    BY <1>2, <1>11
  <2>2. tunnel' = SubSeq(tunnel, 1, m)
    BY <1>5, <1>10, <2>1
  <2>3. visited' = {At(k) : k \in 0 .. m - 1}
    BY <1>4, <1>5, <1>10, <2>1
  <2>4. tunnelState'[At(m - 1)] \in Stacks(Permitted(m - 1))
    BY <1>6, <1>8, <1>10, <1>11
  <2>5. \A k \in 0 .. m - 2 : tunnelState'[At(k)] = tunnelState[At(k)]
    BY <1>9, <1>10
  <2> QED
    BY <1>2, <1>3, <1>7, <1>10, <2>1, <2>2, <2>3, <2>4, <2>5, PrefixStep
<1>12. CASE next = TunnelStateDepleted /\ Top = 0
  <2>1. DigFailed /\ UNCHANGED tunnel /\ visited' = visited \ {At(0)}
    BY <1>2, <1>12
  <2>2. visited' = {}
    BY <1>4, <1>5, <1>12, <2>1
  <2> QED
    BY <1>2, <1>3, <1>7, <2>1, <2>2, DigFailedStep
<1>13. CASE next = TunnelStateDepleted /\ Top # 0
  <2>1. /\ tunnel' = SubSeq(tunnel, 1, Top) /\ UNCHANGED <<pc, passVars>>
        /\ visited' = visited \ {curr}
    BY <1>2, <1>13
  <2>2. Top \in 1 .. Len(tunnel) /\ Top < config.maxCount
    BY <1>4, <1>5, <1>13
  <2>3. visited' = {At(k) : k \in 0 .. Top - 1}
    <3>1. ASSUME NEW t \in visited, t # curr PROVE \E k \in 0 .. Top - 1 : t = At(k)
      <4>1. PICK k \in 0 .. Top : t = At(k)
        BY <1>4, <1>5, <3>1
      <4>2. k \in 0 .. Top - 1
        BY <1>4, <3>1, <4>1
      <4> QED
        BY <4>1, <4>2
    <3>2. ASSUME NEW k \in 0 .. Top - 1 PROVE At(k) \in visited /\ At(k) # curr
      BY <1>4, <1>5
    <3> QED
      BY <2>1, <3>1, <3>2
  <2>4. tunnelState'[At(Top - 1)] \in Stacks(Permitted(Top - 1))
    <3>1. Top - 1 \in 0 .. Top - 1 /\ Top - 1 \in 0 .. Top
      BY <1>4, <1>13
    <3> QED
      BY <1>1, <1>3, <1>9, <3>1 DEF StatesOK
  <2>5. \A k \in 0 .. Top - 2 : tunnelState'[At(k)] = tunnelState[At(k)]
    BY <1>4, <1>9
  <2>6. pc' \in {"Dig", "Push", "Backtrack", "Retreat"}
    BY <1>3, <2>1
  <2> QED
    BY <1>2, <1>3, <1>7, <2>1, <2>2, <2>3, <2>4, <2>5, <2>6, PrefixStep
<1> QED
  BY <1>11, <1>12, <1>13

(* Out of the top triangle of the tunnel no way is left.                   *)
LEMMA BacktrackTunnelIInv ==
  ASSUME IInv, BacktrackTunnel
  PROVE  IInv'
<1>1. Backtrack("Backtrack", "Dig") /\ loopCount' = loopCount
  BY DEF BacktrackTunnel
<1>2. loopCount' \in Nat
  BY <1>1 DEF IInv, CountersOK
<1> QED
  BY <1>1, <1>2, BacktrackIInv

(* The same step taken after the loop limit.                               *)
LEMMA RetreatTunnelIInv ==
  ASSUME IInv, RetreatTunnel
  PROVE  IInv'
<1>1. Backtrack("Retreat", "Push") /\ loopCount' \in {0, loopCount}
  BY DEF RetreatTunnel
<1>2. loopCount' \in Nat
  BY <1>1 DEF IInv, CountersOK
<1> QED
  BY <1>1, <1>2, BacktrackIInv

(* The first triangle of a tunnel is an endpoint, opened by hand.          *)
LEMMA StartDigIInv ==
  ASSUME IInv, StartDig
  PROVE  IInv'
<1>1. ArraysOK /\ PathOK /\ ConfigOK /\ CountersOK /\ VisitedOK /\ ListOK
  BY DEF IInv
<1> DEFINE opened == OpenedFirst(first)
<1>2. /\ pc = "Endpoint" /\ tunnelState' = [tunnelState EXCEPT ![first] = opened]
      /\ IF opened = TunnelStateDepleted
         THEN /\ DigFailed
              /\ UNCHANGED <<tunnel, tunnelIndex, visited, loopCount>>
         ELSE /\ pc' = "Dig" /\ tunnel' = <<first>> /\ visited' = visited \cup {first}
              /\ tunnelIndex' = [tunnelIndex EXCEPT ![first] = 0]
              /\ loopCount' = 0 /\ UNCHANGED passVars
      /\ UNCHANGED <<mesh, stripVars, checkVars>>
  BY DEF StartDig
<1>3. /\ first \in endpoint /\ first \in InUse /\ first \in Tris /\ visited = {}
      /\ pc \notin Cementing /\ config.maxCount \in Nat /\ 2 <= config.maxCount
  <2>1. first \in Endpoints /\ Endpoints = endpoint
    BY <1>1, <1>2 DEF ListOK, Endpoints, IsFlipped
  <2>2. endpoint \subseteq InUse /\ InUse \subseteq Tris
    BY <1>1, MaxTrisAssumption DEF ArraysOK, MeshOK, IsMesh, InUse, Tris
  <2> QED
    BY <1>1, <1>2, <2>1, <2>2, ConfigFields DEF VisitedOK, Quiet, Cementing, ConfigOK
<1> DEFINE D == {d \in Dir : neighbours[first][d] # Null /\ d \notin Links(first)}
<1>4. opened = TunnelStateDepleted \/ opened \in Stacks(D)
  BY <1>3, FirstOpened
<1>5. opened \in Byte
  <2>1. D \in SUBSET Dir
    OBVIOUS
  <2> HIDE DEF D, opened
  <2> QED
    BY <1>4, <2>1, StackSelects DEF TunnelStateDepleted, Byte
<1>6. tunnelState' \in [Tris -> Byte] /\ tunnelState'[first] = opened
  BY <1>1, <1>2, <1>3, <1>5 DEF ArraysOK
<1> HIDE DEF opened
<1>7. CASE opened = TunnelStateDepleted
  <2>1. DigFailed /\ UNCHANGED <<tunnel, tunnelIndex, visited, loopCount>>
    BY <1>2, <1>7
  <2>2. visited' = {} /\ loopCount' \in Nat /\ pc \in Digging \cup {"Endpoint"}
    BY <1>1, <1>2, <1>3, <2>1 DEF CountersOK
  <2> QED
    BY <1>2, <1>6, <2>1, <2>2, DigFailedStep
<1>8. CASE opened # TunnelStateDepleted
  <2>1. /\ pc' = "Dig" /\ tunnel' = <<first>> /\ visited' = {first}
        /\ tunnelIndex' = [tunnelIndex EXCEPT ![first] = 0]
        /\ loopCount' = 0 /\ UNCHANGED passVars
    BY <1>2, <1>3, <1>8
  <2>2. /\ pc' \notin Cementing /\ pc' \in Digging /\ pc' \notin Quiet
        /\ InTunnel' /\ IsSelected' /\ ~IsFlipped /\ ~IsFlipped'
        /\ pc' \notin {"Start", "Expand", "Flip", "Cement", "Endpoint"}
    BY <1>2, <2>1 DEF Digging, Cementing, Quiet, InTunnel, IsSelected, IsFlipped
  <2>3. LinksOK' /\ FlipOK' /\ CheckOK' /\ Endpoints = endpoint /\ Endpoints' = endpoint
    BY <1>2, <1>3, <2>2, LinksFrame
  <2>4. /\ tunnel' \in Seq(Tris) /\ Len(tunnel') = 1 /\ tunnel'[1] = first /\ Top' = 0
        /\ DOMAIN tunnel' = 1 .. 1
    BY <1>3, <2>1 DEF Top
  <2>5. At(0)' = first
    BY <2>4 DEF At
  <2>6. tunnelIndex' \in [Tris -> UInt16] /\ tunnelIndex'[first] = 0
    BY <1>1, <1>3, <2>1, 0 \in Nat, 0 <= 65535, FitsUInt16 DEF ArraysOK
  <2>7. ArraysOK'
    BY <1>1, <1>2, <1>3, <1>6, <2>1, <2>6
       DEF ArraysOK, MeshOK, InUse, mesh, stripVars, checkVars
  <2>8. CountersOK' /\ ConfigOK'
    BY <1>1, <1>2, <2>1, <2>2 DEF CountersOK, ConfigOK, passVars, checkVars
  <2>9. ListOK'
    BY <1>1, <1>2, <1>3, <2>1, <2>2, <2>3 DEF ListOK, ElementsOf, passVars, stripVars
  <2>10. PathOK'
    <3>1. first' = first /\ config' = config /\ InUse' = InUse
      BY <1>2, <2>1 DEF passVars, mesh, InUse
    <3>2. \A k \in 0 .. Top' : At(k)' \in InUse' /\ tunnelIndex'[At(k)'] = k
      <4> SUFFICES ASSUME NEW k \in 0 .. Top' PROVE At(k)' \in InUse' /\ tunnelIndex'[At(k)'] = k
        OBVIOUS
      <4>1. k = 0
        BY <2>4
      <4> QED
        BY <1>3, <2>5, <2>6, <3>1, <4>1
    <3>3. \A k \in 0 .. Top' - 1 : FALSE
      BY <2>4
    <3> QED
      BY <1>3, <2>2, <2>4, <2>5, <3>1, <3>2, <3>3 DEF PathOK
  <2>11. StatesOK'
    <3>1. Permitted(0)' = D
      <4>2. SettledLinks(At(0))' = Links(first)
        BY <1>2, <2>2, <2>5 DEF SettledLinks, IsSaved, Links, stripVars
      <4>3. neighbours' = neighbours /\ Stitched(trisCount, neighbours, indices)
        BY <1>1, <1>2 DEF mesh, ArraysOK, MeshOK, IsMesh
      <4>4. \A d \in Dir : neighbours[first][d] # Null => neighbours[first][d] # first
        BY <1>3, <4>3 DEF Stitched
      <4>5. \A d \in Dir : (d \in Links(first) <=> 0 % 2 = 1) <=> d \notin Links(first)
        OBVIOUS
      <4>6. Permitted(0)' = {d \in Dir : /\ neighbours[first][d] # Null
                                         /\ d \in Links(first) <=> 0 % 2 = 1
                                         /\ \A j \in 0 .. 0 : At(j)' # neighbours[first][d]}
        BY <2>5, <4>2, <4>3 DEF Permitted
      <4>7. \A d \in Dir : (\A j \in 0 .. 0 : At(j)' # neighbours[first][d])
                             <=> first # neighbours[first][d]
        BY <2>5
      <4> QED
        BY <4>4, <4>5, <4>6, <4>7
    <3>2. ASSUME NEW k \in 0 .. Top'
          PROVE  tunnelState'[At(k)'] \in Stacks(Permitted(k)')
      <4>1. k = 0
        BY <2>4
      <4> QED
        BY <1>4, <1>6, <1>8, <2>5, <3>1, <4>1
    <3> QED
      BY <3>2 DEF StatesOK
  <2>12. VisitedOK'
    <3>1. ElementsOf(tunnel)' = {first}
      BY <2>4 DEF ElementsOf
    <3> QED
      BY <2>1, <2>2, <3>1 DEF VisitedOK
  <2> QED
    BY <2>3, <2>7, <2>8, <2>9, <2>10, <2>11, <2>12 DEF IInv
<1> QED
  BY <1>7, <1>8

(* The selected successor is pushed: it was not on the tunnel yet.         *)
LEMMA PushIInv ==
  ASSUME IInv, Push
  PROVE  IInv'
<1>1. ArraysOK /\ PathOK /\ ConfigOK /\ CountersOK /\ VisitedOK /\ StatesOK /\ ListOK
  BY DEF IInv
<1> DEFINE curr == neighbours[At(Top)][Out(Top)]
<1>0. PICK n : n = Len(tunnel)
  OBVIOUS
<1>2. /\ pc \in {"Dig", "Push"} /\ loopCount' \in {loopCount, loopCount + 1}
      /\ tunnel' = Append(tunnel, curr) /\ visited' = visited \cup {curr}
      /\ tunnelIndex' = [tunnelIndex EXCEPT ![curr] = n]
      /\ pc' = IF n % 2 # 0 /\ curr \in endpoint THEN "Cement" ELSE "Expand"
      /\ UNCHANGED <<mesh, stripVars, passVars, tunnelState, checkVars>>
  BY <1>0 DEF Push, Out
<1>3. /\ InTunnel /\ IsSelected /\ pc \in Digging /\ pc \notin Cementing
      /\ pc' \notin Cementing /\ pc' \in Digging /\ pc' \notin Quiet
      /\ InTunnel' /\ ~IsSelected' /\ ~IsFlipped /\ ~IsFlipped'
      /\ pc' \notin {"Start", "Flip", "Endpoint"} /\ pc' \in {"Cement", "Expand"}
  BY <1>2 DEF Digging, Cementing, Quiet, InTunnel, IsSelected, IsFlipped
<1>4. /\ n \in Nat /\ n >= 1 /\ Top \in Nat /\ n = Top + 1
      /\ \A k \in 0 .. Top : At(k) \in InUse /\ At(k) \in Tris /\ tunnelIndex[At(k)] = k
      /\ \A k \in 0 .. Top : At(k) \in ElementsOf(tunnel)
      /\ \A t \in ElementsOf(tunnel) : \E k \in 0 .. Top : t = At(k)
  BY <1>0, <1>3, PathFacts
<1>5. /\ config.maxCount \in Nat /\ n < config.maxCount /\ config.maxCount <= 65535
      /\ tunnel \in Seq(Tris) /\ visited = ElementsOf(tunnel)
  BY <1>0, <1>1, <1>3, ConfigFields DEF VisitedOK, ConfigOK, PathOK
<1>6. Out(Top) \in Permitted(Top)
  <2>1. tunnelState[At(Top)] \in Stacks(Permitted(Top)) /\ Permitted(Top) \in SUBSET Dir
    BY <1>1, <1>3, <1>4 DEF StatesOK, Permitted
  <2> QED
    BY <2>1, StackSelects DEF Out, SuccessorIndex
<1>7. curr \in InUse /\ curr \in Tris /\ \A k \in 0 .. Top : At(k) # curr
  <2>1. Stitched(trisCount, neighbours, indices) /\ InUse \subseteq Tris
    BY <1>1, MaxTrisAssumption DEF ArraysOK, MeshOK, IsMesh, InUse, Tris
  <2> QED
    BY <1>4, <1>6, <2>1 DEF Permitted, Stitched, InUse
<1>8. /\ tunnel' \in Seq(Tris) /\ Len(tunnel') = n + 1 /\ DOMAIN tunnel' = 1 .. n + 1
      /\ \A i \in 1 .. n : tunnel'[i] = tunnel[i]
      /\ tunnel'[n + 1] = curr
  BY <1>0, <1>2, <1>5, <1>7
<1> HIDE DEF curr
<1>9. Top' = n /\ At(n)' = curr /\ \A k \in 0 .. Top : At(k)' = At(k)
  <2>1. Top' = n /\ At(n)' = curr
    BY <1>4, <1>8 DEF Top, At
  <2>2. ASSUME NEW k \in 0 .. Top PROVE At(k)' = At(k)
    BY <1>4, <1>8 DEF At
  <2> QED
    BY <2>1, <2>2
<1>10. tunnelIndex' \in [Tris -> UInt16] /\ tunnelIndex'[curr] = n
       /\ \A k \in 0 .. Top : tunnelIndex'[At(k)] = k
  <2>1. n \in UInt16
    BY <1>4, <1>5, FitsUInt16
  <2> QED
    BY <1>1, <1>2, <1>4, <1>7, <2>1 DEF ArraysOK
<1>11. LinksOK' /\ FlipOK' /\ CheckOK' /\ Endpoints = endpoint /\ Endpoints' = endpoint
  BY <1>2, <1>3, LinksFrame
<1>12. ArraysOK'
  BY <1>1, <1>2, <1>7, <1>10 DEF ArraysOK, MeshOK, InUse, mesh, stripVars, checkVars
<1>13. CountersOK' /\ ConfigOK'
  BY <1>1, <1>2, <1>3 DEF CountersOK, ConfigOK, passVars, checkVars
<1>14. ListOK'
  BY <1>1, <1>2, <1>3, <1>11 DEF ListOK, ElementsOf, passVars, stripVars
<1>15. PathOK'
  <2>1. first' = first /\ config' = config /\ InUse' = InUse /\ neighbours' = neighbours
        /\ tunnelState' = tunnelState
    BY <1>2 DEF passVars, mesh, InUse
  <2>2. \A k \in 0 .. Top' : At(k)' \in InUse' /\ tunnelIndex'[At(k)'] = k
    <3> SUFFICES ASSUME NEW k \in 0 .. Top' PROVE At(k)' \in InUse' /\ tunnelIndex'[At(k)'] = k
      OBVIOUS
    <3>1. CASE k = n
      BY <1>7, <1>9, <1>10, <2>1, <3>1
    <3>2. CASE k # n
      <4>1. k \in 0 .. Top
        BY <1>4, <1>9, <3>2
      <4> QED
        BY <1>4, <1>9, <1>10, <2>1, <4>1
    <3> QED
      BY <3>1, <3>2
  <2>3. ASSUME NEW k \in 0 .. Top' - 1
        PROVE  neighbours'[At(k)'][Out(k)'] = At(k + 1)'
    <3>1. k \in 0 .. Top /\ k + 1 \in 0 .. n
      BY <1>4, <1>9
    <3>2. Out(k)' = Out(k) /\ At(k)' = At(k)
      BY <1>9, <2>1, <3>1 DEF Out, SuccessorIndex
    <3>3. CASE k = Top
      <4>1. k + 1 = n
        BY <1>4, <3>3
      <4> QED
        BY <1>9, <2>1, <3>2, <3>3, <4>1 DEF curr
    <3>4. CASE k # Top
      <4>1. k \in 0 .. Top - 1 /\ k + 1 \in 0 .. Top
        BY <1>4, <3>1, <3>4
      <4>2. neighbours[At(k)][Out(k)] = At(k + 1)
        BY <1>1, <1>3, <4>1 DEF PathOK
      <4> QED
        BY <1>9, <2>1, <3>2, <4>1, <4>2
    <3> QED
      BY <3>3, <3>4
  <2>4. pc' = "Cement" => Top' % 2 = 1 /\ At(Top)' \in Endpoints'
    <3>1. ASSUME pc' = "Cement" PROVE n % 2 # 0 /\ curr \in endpoint
      BY <1>2, <3>1
    <3>2. At(Top)' = curr
      BY <1>9
    <3> QED
      BY <1>4, <1>9, <1>11, <3>1, <3>2
  <2>5. Len(tunnel') >= 2 /\ Len(tunnel') <= config'.maxCount
    BY <1>4, <1>5, <1>8, <2>1
  <2>6. At(0)' = first'
    BY <1>1, <1>3, <1>4, <1>9, <2>1 DEF PathOK
  <2>7. tunnel' \in Seq(Tris) /\ pc' # "Start" /\ (pc' \in Cementing \cup {"Cement"} => pc' = "Cement")
    BY <1>3, <1>8
  <2>8. Len(tunnel') >= 1
    BY <1>4, <1>8
  <2> QED
    BY <1>3, <2>2, <2>3, <2>4, <2>5, <2>6, <2>7, <2>8 DEF PathOK
<1>16. StatesOK'
  <2>1. tunnelState' = tunnelState
    BY <1>2
  <2>2. \A t \in Tris : SettledLinks(t)' = SettledLinks(t)
    BY <1>2, <1>3, SettledFrame DEF stripVars
  <2>3. ASSUME NEW k \in 0 .. Top', k < Top'
        PROVE  tunnelState'[At(k)'] \in Stacks(Permitted(k)')
    <3>1. k \in 0 .. Top /\ k \in Nat /\ \A j \in 0 .. k : j \in 0 .. Top
      BY <1>4, <1>9, <2>3
    <3>2. At(k)' = At(k) /\ Permitted(k)' = Permitted(k)
      BY <1>2, <1>4, <1>9, <2>2, <3>1, PermittedFrame
    <3>3. tunnelState[At(k)] \in Stacks(Permitted(k))
      BY <1>1, <1>3, <3>1 DEF StatesOK
    <3> QED
      BY <2>1, <3>2, <3>3
  <2> QED
    BY <1>3, <2>3 DEF StatesOK
<1>17. VisitedOK'
  <2>1. ElementsOf(tunnel)' = ElementsOf(tunnel) \cup {curr}
    <3>1. DOMAIN tunnel = 1 .. n
      BY <1>0, <1>5
    <3>5. \A i \in 1 .. n + 1 : i \in 1 .. n \/ i = n + 1
      BY <1>4
    <3>2. \A i \in 1 .. n : i \in 1 .. n + 1
      BY <1>4
    <3>3. n + 1 \in 1 .. n + 1
      BY <1>4
    <3>4. ElementsOf(tunnel)' = {tunnel'[i] : i \in 1 .. n + 1} /\ ElementsOf(tunnel) = {tunnel[i] : i \in 1 .. n}
      BY <1>8, <3>1 DEF ElementsOf
    <3> QED
      BY <1>8, <3>2, <3>3, <3>4, <3>5
  <2> QED
    BY <1>2, <1>3, <1>5, <2>1 DEF VisitedOK
<1> QED
  BY <1>11, <1>12, <1>13, <1>14, <1>15, <1>16, <1>17 DEF IInv

-----------------------------------------------------------------------------
(***************************************************************************)
(* Cementing.                                                              *)
(***************************************************************************)
(* Links are positions of neighbours.                                      *)
LEMMA LinksAreDirs ==
  /\ \A t : Links(t) \in SUBSET Dir
  /\ \A t : SettledLinks(t) \in SUBSET Dir
BY DEF Links, SettledLinks, LinksOf

(* While the settled links stay, they stay symmetric.                      *)
LEMMA AgreeFrame ==
  ASSUME MeshOK, UNCHANGED mesh, Agree(SettledLinks),
         \A t \in Tris : SettledLinks(t)' = SettledLinks(t)
  PROVE  Agree(SettledLinks)'
<1>1. neighbours' = neighbours /\ indices' = indices
  BY DEF mesh
<1>2. ASSUME NEW t \in Tris, NEW d \in SettledLinks(t)'
      PROVE  /\ neighbours'[t][d] # Null
             /\ indices'[t][d] \in SettledLinks(neighbours[t][d])'
  <2>1. d \in SettledLinks(t) /\ d \in Dir
    BY <1>2, LinksAreDirs
  <2>2. neighbours[t][d] # Null /\ indices[t][d] \in SettledLinks(neighbours[t][d])
    BY <2>1 DEF Agree
  <2>3. neighbours[t][d] \in Tris
    BY <2>1, <2>2, EdgeFacts
  <2>4. PICK u \in Tris : u = neighbours[t][d]
    BY <2>3
  <2>5. SettledLinks(u)' = SettledLinks(u)
    BY <2>4
  <2>6. neighbours[t][d]' = u
    BY <1>1, <2>4
  <2> QED
    BY <1>1, <2>2, <2>4, <2>5, <2>6
<1> QED
  BY <1>2 DEF Agree

(* What the steps of cementing leave alone.                                *)
LEMMA CementFrame ==
  ASSUME IInv, pc \in Cementing \cup {"Cement"}, pc' \in Cementing,
         UNCHANGED <<mesh, passVars, tunnel, tunnelState, tunnelIndex>>,
         Endpoints' = Endpoints, endpoint' # {} \/ (IsFlipped' /\ step' = 0),
         \A t \in Tris : SettledLinks(t)' = SettledLinks(t)
  PROVE  /\ PathOK' /\ StatesOK' /\ ConfigOK' /\ ListOK'
         /\ Agree(SettledLinks)' /\ (Endpoints = Ends(SettledLinks))'
<1>1. ArraysOK /\ PathOK /\ StatesOK /\ ConfigOK /\ ListOK /\ LinksOK
  BY DEF IInv
<1>2. /\ InTunnel /\ InTunnel' /\ ~IsSelected /\ ~IsSelected'
      /\ pc' \notin {"Start", "Expand", "Endpoint"}
  BY DEF InTunnel, IsSelected, Cementing, Digging
<1>3. /\ tunnel' = tunnel /\ tunnelState' = tunnelState /\ tunnelIndex' = tunnelIndex
      /\ first' = first /\ config' = config /\ endpoints' = endpoints /\ limit' = limit
      /\ trisCount' = trisCount /\ neighbours' = neighbours /\ indices' = indices
  BY DEF passVars, mesh
<1>4. Top' = Top /\ \A k : At(k)' = At(k) /\ Out(k)' = Out(k)
  BY <1>3 DEF Top, At, Out, SuccessorIndex
<1>5. At(Top)' = At(Top)
  BY <1>3, <1>4 DEF Top, At
<1>6. PathOK'
  BY <1>1, <1>2, <1>3, <1>4, <1>5 DEF PathOK, InUse
<1>7. StatesOK'
  <2>1. ASSUME NEW k \in 0 .. Top, k < Top
        PROVE  tunnelState'[At(k)'] \in Stacks(Permitted(k)')
    <3>1. Top \in Nat /\ k \in Nat /\ At(k) \in Tris
      BY <1>2, PathFacts
    <3>2. Permitted(k)' = Permitted(k)
      BY <1>4, <3>1, PermittedFrame
    <3>3. tunnelState[At(k)] \in Stacks(Permitted(k))
      BY <1>1, <1>2, <2>1 DEF StatesOK
    <3> QED
      BY <1>3, <1>4, <3>2, <3>3
  <2> QED
    BY <1>2, <1>4, <2>1 DEF StatesOK
<1>8. ConfigOK' /\ ListOK'
  BY <1>1, <1>2, <1>3 DEF ConfigOK, ListOK, ElementsOf
<1>9. Agree(SettledLinks)'
  BY <1>1, AgreeFrame DEF ArraysOK, LinksOK
<1>10. (Endpoints = Ends(SettledLinks))'
  <2>1. InUse' = InUse /\ InUse \subseteq Tris
    BY <1>1, <1>3, MaxTrisAssumption DEF ArraysOK, MeshOK, IsMesh, InUse, Tris
  <2>2. \A t \in InUse : AtMostOne(SettledLinks(t))' <=> AtMostOne(SettledLinks(t))
    BY <2>1 DEF AtMostOne
  <2>3. Ends(SettledLinks)' = Ends(SettledLinks)
    BY <2>1, <2>2 DEF Ends
  <2> QED
    BY <1>1, <2>3 DEF LinksOK
<1> QED
  BY <1>6, <1>7, <1>8, <1>9, <1>10

(* An edge of the tunnel, from both of its sides: the settled links have   *)
(* it if and only if it leaves a black triangle.                           *)
LEMMA TunnelEdge ==
  ASSUME IInv, InTunnel, NEW k \in 0 .. Top - 1
  PROVE  /\ Out(k) \in Dir /\ neighbours[At(k)][Out(k)] = At(k + 1)
         /\ Back(k + 1) \in Dir /\ neighbours[At(k + 1)][Back(k + 1)] = At(k)
         /\ Back(k + 1) = indices[At(k)][Out(k)] /\ indices[At(k + 1)][Back(k + 1)] = Out(k)
         /\ Out(k) \in SettledLinks(At(k)) <=> k % 2 = 1
         /\ Back(k + 1) \in SettledLinks(At(k + 1)) <=> k % 2 = 1
         /\ k > 0 => Back(k) # Out(k)
<1>1. ArraysOK /\ PathOK /\ StatesOK /\ LinksOK
  BY DEF IInv
<1>2. /\ Top \in Nat /\ \A j \in 0 .. Top : At(j) \in Tris
      /\ \A i, j \in 0 .. Top : At(i) = At(j) => i = j
  BY PathFacts
<1>3. k \in 0 .. Top /\ k < Top /\ k + 1 \in 0 .. Top /\ k \in Nat
  BY <1>2
<1>4. ASSUME NEW j \in 0 .. Top - 1
      PROVE  /\ Out(j) \in Permitted(j) /\ Out(j) \in Dir /\ neighbours[At(j)][Out(j)] = At(j + 1)
             /\ neighbours[At(j + 1)][indices[At(j)][Out(j)]] = At(j)
             /\ indices[At(j + 1)][indices[At(j)][Out(j)]] = Out(j)
             /\ indices[At(j)][Out(j)] \in Dir
  <2>1. j \in 0 .. Top /\ j < Top
    BY <1>2
  <2>2. tunnelState[At(j)] \in Stacks(Permitted(j)) /\ Permitted(j) \in SUBSET Dir
    BY <1>1, <2>1 DEF StatesOK, Permitted
  <2>3. Out(j) \in Permitted(j)
    BY <2>2, StackSelects DEF Out, SuccessorIndex
  <2>4. neighbours[At(j)][Out(j)] = At(j + 1)
    BY <1>1 DEF PathOK
  <2>5. neighbours[At(j)][Out(j)] # Null /\ At(j) \in Tris
    BY <1>2, <2>1, <2>3 DEF Permitted
  <2> QED
    BY <1>1, <2>2, <2>3, <2>4, <2>5, EdgeFacts DEF ArraysOK
<1>5. (k + 1) - 1 = k
  BY <1>3
<1>6. Back(k + 1) = indices[At(k)][Out(k)]
  BY <1>5 DEF Back
<1>7. Out(k) \in SettledLinks(At(k)) <=> k % 2 = 1
  BY <1>4 DEF Permitted
<1>8. Back(k + 1) \in SettledLinks(At(k + 1)) <=> Out(k) \in SettledLinks(At(k))
  <2>1. At(k) \in Tris /\ At(k + 1) \in Tris
    BY <1>2, <1>3
  <2>2. Agree(SettledLinks)
    BY <1>1 DEF LinksOK
  <2>3. ASSUME Out(k) \in SettledLinks(At(k)) PROVE Back(k + 1) \in SettledLinks(At(k + 1))
    BY <1>4, <1>6, <2>1, <2>2, <2>3 DEF Agree
  <2>4. ASSUME Back(k + 1) \in SettledLinks(At(k + 1)) PROVE Out(k) \in SettledLinks(At(k))
    <3>1. indices[At(k + 1)][Back(k + 1)] \in SettledLinks(neighbours[At(k + 1)][Back(k + 1)])
      BY <2>1, <2>2, <2>4 DEF Agree
    <3> QED
      BY <1>4, <1>6, <3>1
  <2> QED
    BY <2>3, <2>4
<1>9. ASSUME k > 0 PROVE Back(k) # Out(k)
  <2>1. k - 1 \in 0 .. Top - 1 /\ (k - 1) + 1 = k /\ k - 1 # k + 1 /\ k - 1 \in 0 .. Top
    BY <1>2, <1>3, <1>9
  <2>2. neighbours[At(k)][Back(k)] = At(k - 1)
    BY <1>4, <2>1 DEF Back
  <2>3. At(k - 1) # At(k + 1)
    BY <1>2, <1>3, <2>1
  <2> QED
    BY <1>4, <2>2, <2>3
<1> QED
  BY <1>4, <1>6, <1>7, <1>8, <1>9

(* Cementing begins by saving the links of the first triangle.             *)
LEMMA StartCementIInv ==
  ASSUME IInv, StartCement
  PROVE  IInv' /\ \A t \in Tris : SettledLinks(t)' = SettledLinks(t)
<1>1. ArraysOK /\ PathOK /\ CountersOK /\ VisitedOK /\ ListOK /\ LinksOK
  BY DEF IInv
<1>2. /\ pc = "Cement" /\ pc' = "Flip" /\ step' = 0
      /\ isolated' = {t \in {At(0), At(Top)} : IsIsolated(t)}
      /\ linkState' = [linkState EXCEPT ![At(0)] = SaveLinkState(@)]
      /\ UNCHANGED <<mesh, endpoint, passVars, searchVars, walker, backIndex, circleIndex>>
  BY DEF StartCement
<1>3. /\ InTunnel /\ pc \notin Cementing /\ pc' \in Cementing /\ pc' \notin Quiet
      /\ ~IsFlipped /\ ~IsFlipped' /\ pc' \notin {"Check", "Walk"} /\ pc \in Digging
  BY <1>2 DEF InTunnel, Cementing, Digging, Quiet, IsFlipped
<1>4. /\ Top \in Nat /\ \A k \in 0 .. Top : At(k) \in Tris
      /\ 0 \in 0 .. Top /\ Top \in 0 .. Top
  BY <1>3, PathFacts
<1> DEFINE a == At(0)
<1>5. linkState \in [Tris -> SUBSET (0 .. 7)] /\ a \in Tris
  BY <1>1, <1>4 DEF ArraysOK
<1>6. tunnel' = tunnel /\ Top' = Top /\ \A k : At(k)' = At(k)
  BY <1>2 DEF searchVars, Top, At
<1>7. /\ linkState' \in [Tris -> SUBSET (0 .. 7)]
      /\ \A t \in Tris : Links(t)' = Links(t)
  BY <1>2, <1>5, SavedLinks DEF Links
<1>8. \A t \in Tris : SettledLinks(t) = Links(t) /\ SettledLinks(t)' = Links(t)
  <2> SUFFICES ASSUME NEW t \in Tris
               PROVE  SettledLinks(t) = Links(t) /\ SettledLinks(t)' = Links(t)
    OBVIOUS
  <2>1. IsSaved(t)' <=> t = a
    <3>1. IsSaved(t)' <=> \E k \in 0 .. 0 : At(k) = t
      BY <1>2, <1>3, <1>6 DEF IsSaved
    <3> QED
      BY <3>1
  <2>2. SettledLinks(t) = Links(t)
    BY <1>3 DEF SettledLinks, IsSaved
  <2>3. CASE t = a
    <3>1. linkState'[t] = SaveLinkState(linkState[t])
      BY <1>2, <1>5, <2>3
    <3> QED
      BY <1>5, <2>1, <2>2, <2>3, <3>1, SavedLinks DEF SettledLinks, Links
  <2>4. CASE t # a
    BY <1>7, <2>1, <2>2, <2>4 DEF SettledLinks
  <2> QED
    BY <2>3, <2>4
<1>9. Endpoints' = Endpoints /\ endpoint' # {}
  BY <1>1, <1>2, <1>3 DEF Endpoints, ListOK
<1>10. /\ PathOK' /\ StatesOK' /\ ConfigOK' /\ ListOK'
       /\ Agree(SettledLinks)' /\ (Endpoints = Ends(SettledLinks))'
  BY <1>2, <1>3, <1>8, <1>9, CementFrame DEF searchVars
<1>11. ArraysOK'
  <2>1. isolated' \subseteq Tris
    BY <1>2, <1>4
  <2> QED
    BY <1>1, <1>2, <1>7, <2>1 DEF ArraysOK, MeshOK, InUse, mesh, searchVars
<1>12. CountersOK'
  BY <1>1, <1>2, <1>3 DEF CountersOK, passVars, searchVars
<1>13. LinksAgree'
  <2>1. LinksAgree
    BY <1>1 DEF LinksOK
  <2>2. \A t \in Tris : \A d \in Links(t) : neighbours[t][d] \in Tris
    BY <1>1, <2>1, EdgeFacts, LinksAreDirs DEF LinksAgree, ArraysOK
  <2> QED
    BY <1>2, <1>7, <2>1, <2>2 DEF LinksAgree, mesh
<1>14. VisitedOK'
  BY <1>1, <1>2, <1>3 DEF VisitedOK, ElementsOf, searchVars
<1>15. FlipOK'
  <2>1. isolated' = {t \in {At(0), At(Top)} : SettledLinks(t) = {}}
    BY <1>2, <1>4, <1>8 DEF IsIsolated
  <2>4. At(0)' = At(0) /\ At(Top)' = At(Top) /\ At(0) \in Tris /\ At(Top) \in Tris
    BY <1>4, <1>6 DEF At
  <2>2. isolated' = {t \in {At(0)', At(Top)'} : SettledLinks(t)' = {}}
    BY <1>8, <2>1, <2>4
  <2>3. Flipped' = 0
    BY <1>2 DEF Flipped
  <2>5. ASSUME NEW k \in 0 .. Flipped', NEW d \in Dir
        PROVE  d \in Links(At(k))' <=>
                 IF k > 0 /\ d = Back(k)' THEN k % 2 = 1
                 ELSE IF k < Flipped' /\ d = Out(k)' THEN k % 2 = 0
                 ELSE d \in SettledLinks(At(k))'
    <3>1. k = 0 /\ ~(k > 0) /\ ~(k < Flipped')
      BY <2>3
    <3>2. Links(At(0))' = SettledLinks(At(0))'
      BY <1>7, <1>8, <2>4
    <3> QED
      BY <3>1, <3>2
  <2>6. step' <= Top'
    BY <1>2, <1>4, <1>6
  <2> QED
    BY <1>2, <2>2, <2>5, <2>6 DEF FlipOK
<1>16. CheckOK'
  BY <1>3 DEF CheckOK
<1> QED
  BY <1>8, <1>10, <1>11, <1>12, <1>13, <1>14, <1>15, <1>16 DEF IInv, LinksOK

(* The other side of a position: it has the position as its other side.    *)
LEMMA OtherSide ==
  ASSUME MeshOK, NEW t \in Tris, NEW d \in Dir, neighbours[t][d] # Null,
         NEW u \in Tris, NEW e \in Dir, neighbours[t][d] = u, indices[t][d] = e
  PROVE  neighbours[u][e] = t /\ indices[u][e] = d
BY EdgeFacts

(* An edge is flipped on both of its sides, so that the links still agree; *)
(* what was saved is left alone, so that the settled links stay.           *)
LEMMA FlipEdgeIInv ==
  ASSUME IInv, FlipEdge
  PROVE  IInv' /\ \A t \in Tris : SettledLinks(t)' = SettledLinks(t)
<1>1. ArraysOK /\ PathOK /\ CountersOK /\ VisitedOK /\ ListOK /\ LinksOK /\ FlipOK
  BY DEF IInv
<1>2. PICK i : i = step
  OBVIOUS
<1> DEFINE curr == At(i)
           next == At(i + 1)
           d == Out(i)
           e == indices[curr][d]
           flip(s, b) == IF i % 2 = 0 THEN s \cup {b} ELSE s \ {b}
<1>3. /\ pc = "Flip" /\ pc' = "Flip" /\ i < Top /\ step' = i + 1
      /\ linkState' = [linkState EXCEPT ![curr] = flip(@, d),
                                        ![next] = flip(SaveLinkState(@), e)]
      /\ UNCHANGED <<mesh, endpoint, passVars, searchVars, isolated, walker, backIndex, circleIndex>>
  BY <1>2 DEF FlipEdge, Out
<1>4. /\ InTunnel /\ pc \in Cementing /\ pc' \in Cementing /\ pc' \notin Quiet
      /\ ~IsFlipped /\ ~IsFlipped' /\ pc' \notin {"Check", "Walk"}
  BY <1>3 DEF InTunnel, Cementing, Quiet, IsFlipped
<1>5. /\ Top \in Nat /\ \A k \in 0 .. Top : At(k) \in Tris
      /\ \A j, k \in 0 .. Top : At(j) = At(k) => j = k
  BY <1>4, PathFacts
<1>6. /\ i \in Nat /\ i \in 0 .. Top - 1 /\ i \in 0 .. Top /\ i + 1 \in 0 .. Top
      /\ curr \in Tris /\ next \in Tris /\ curr # next /\ i + 1 # i
  BY <1>1, <1>2, <1>3, <1>5 DEF CountersOK
<1>7. /\ d \in Dir /\ neighbours[curr][d] = next /\ e \in Dir /\ neighbours[next][e] = curr
      /\ indices[curr][d] = e /\ indices[next][e] = d /\ e = Back(i + 1)
      /\ i > 0 => Back(i) # d
  BY <1>4, <1>6, TunnelEdge
<1>8. /\ tunnel' = tunnel /\ Top' = Top /\ \A k : At(k)' = At(k) /\ Out(k)' = Out(k) /\ Back(k)' = Back(k)
  BY <1>3 DEF searchVars, Top, At, Out, Back, SuccessorIndex, mesh
<1> HIDE DEF d, e, curr, next
<1>9. linkState \in [Tris -> SUBSET (0 .. 7)]
  BY <1>1 DEF ArraysOK
<1>10. \A s \in SUBSET (0 .. 7), b \in Dir :
         /\ flip(s, b) \in SUBSET (0 .. 7) /\ LinksOf(flip(s, b)) = flip(LinksOf(s), b)
         /\ RestoreLinkState(flip(s, b), 1) = RestoreLinkState(s, 1)
  BY FlippedBit
<1> HIDE DEF flip
<1>11. /\ linkState' \in [Tris -> SUBSET (0 .. 7)]
       /\ linkState'[curr] = flip(linkState[curr], d)
       /\ linkState'[next] = flip(SaveLinkState(linkState[next]), e)
       /\ \A t \in Tris \ {curr, next} : linkState'[t] = linkState[t]
  <2>1. /\ flip(linkState[curr], d) \in SUBSET (0 .. 7)
        /\ flip(SaveLinkState(linkState[next]), e) \in SUBSET (0 .. 7)
    BY <1>6, <1>7, <1>9, <1>10, SavedLinks
  <2> QED
    BY <1>3, <1>6, <1>9, <2>1
<1>12. /\ Links(curr)' = flip(Links(curr), d) /\ Links(next)' = flip(Links(next), e)
       /\ \A t \in Tris \ {curr, next} : Links(t)' = Links(t)
  <2>1. curr' = curr /\ next' = next
    BY <1>8 DEF curr, next
  <2>2. LinksOf(linkState'[curr]) = flip(LinksOf(linkState[curr]), d)
    BY <1>6, <1>7, <1>9, <1>10, <1>11
  <2>3. LinksOf(linkState'[next]) = flip(LinksOf(linkState[next]), e)
    BY <1>6, <1>7, <1>9, <1>10, <1>11, SavedLinks
  <2> QED
    BY <1>11, <2>1, <2>2, <2>3 DEF Links
<1>13. \A t \in Tris : /\ IsSaved(t) <=> \E k \in 0 .. i : At(k) = t
                       /\ IsSaved(t)' <=> \E k \in 0 .. i + 1 : At(k) = t
  BY <1>2, <1>3, <1>4, <1>8 DEF IsSaved
<1>14. IsSaved(curr) /\ IsSaved(curr)' /\ ~IsSaved(next) /\ IsSaved(next)'
       /\ \A t \in Tris \ {next} : IsSaved(t)' <=> IsSaved(t)
  <2>1. curr' = curr /\ next' = next
    BY <1>8 DEF curr, next
  <2>2. IsSaved(curr) /\ IsSaved(curr)' /\ IsSaved(next)'
    <3>1. i \in 0 .. i /\ i \in 0 .. i + 1 /\ i + 1 \in 0 .. i + 1
      BY <1>6
    <3>2. \A t \in Tris : t = At(i) => IsSaved(t) /\ IsSaved(t)'
      BY <1>13, <3>1
    <3>3. \A t \in Tris : t = At(i + 1) => IsSaved(t)'
      BY <1>13, <3>1
    <3>4. PICK c \in Tris, n \in Tris : c = curr /\ n = next
      BY <1>6
    <3>5. IsSaved(c) /\ IsSaved(c)' /\ IsSaved(n)'
      BY <3>2, <3>3, <3>4 DEF curr, next
    <3> QED
      BY <2>1, <3>4, <3>5
  <2>3. ~IsSaved(next)
    <3>1. \A k \in 0 .. i : k \in 0 .. Top /\ k # i + 1
      BY <1>5, <1>6
    <3> QED
      BY <1>5, <1>6, <1>13, <3>1 DEF next
  <2>4. ASSUME NEW t \in Tris, t # next PROVE IsSaved(t)' <=> IsSaved(t)
    <3>1. \A k \in 0 .. i + 1 : k \in 0 .. i \/ k = i + 1
      BY <1>6
    <3>2. \A k \in 0 .. i : k \in 0 .. i + 1
      BY <1>6
    <3> QED
      BY <1>13, <2>4, <3>1, <3>2 DEF next
  <2> QED
    BY <2>2, <2>3, <2>4
<1>15. \A t \in Tris : SettledLinks(t)' = SettledLinks(t)
  <2> SUFFICES ASSUME NEW t \in Tris PROVE SettledLinks(t)' = SettledLinks(t)
    OBVIOUS
  <2>1. CASE t = curr
    <3>1. IsSaved(t) /\ IsSaved(t)'
      <4>1. curr' = curr
        BY <1>8 DEF curr
      <4> QED
        BY <1>14, <2>1, <4>1
    <3>2. RestoreLinkState(linkState'[t], 1) = RestoreLinkState(linkState[t], 1)
      BY <1>7, <1>9, <1>10, <1>11, <2>1
    <3> QED
      BY <3>1, <3>2 DEF SettledLinks
  <2>2. CASE t = next
    <3>1. ~IsSaved(t) /\ IsSaved(t)'
      <4>1. next' = next
        BY <1>8 DEF next
      <4> QED
        BY <1>14, <2>2, <4>1
    <3>2. LinksOf(RestoreLinkState(linkState'[t], 1)) = LinksOf(linkState[t])
      BY <1>7, <1>9, <1>10, <1>11, <2>2, SavedLinks
    <3> QED
      BY <3>1, <3>2 DEF SettledLinks, Links
  <2>3. CASE t # curr /\ t # next
    BY <1>11, <1>14, <2>3 DEF SettledLinks, Links
  <2> QED
    BY <2>1, <2>2, <2>3
<1>16. Endpoints' = Endpoints /\ endpoint' # {}
  BY <1>1, <1>3, <1>4 DEF Endpoints, ListOK
<1>17. /\ PathOK' /\ StatesOK' /\ ConfigOK' /\ ListOK'
       /\ Agree(SettledLinks)' /\ (Endpoints = Ends(SettledLinks))'
  BY <1>3, <1>4, <1>15, <1>16, CementFrame DEF searchVars
<1>18. ArraysOK'
  BY <1>1, <1>3, <1>11 DEF ArraysOK, MeshOK, InUse, mesh, searchVars
<1>19. CountersOK'
  BY <1>1, <1>3, <1>4, <1>6 DEF CountersOK, passVars, searchVars
<1>20. VisitedOK'
  BY <1>1, <1>3, <1>4 DEF VisitedOK, ElementsOf, searchVars
<1>21. CheckOK'
  BY <1>4 DEF CheckOK
<1>22. PICK c \in Tris, n \in Tris : c = curr /\ n = next
  BY <1>6
<1>23. ASSUME NEW t \in Tris, NEW x \in Dir
       PROVE  x \in Links(t)' <=> IF (t = c /\ x = d) \/ (t = n /\ x = e) THEN i % 2 = 0
                                  ELSE x \in Links(t)
  <2>1. c # n /\ Links(c)' = flip(Links(c), d) /\ Links(n)' = flip(Links(n), e)
    <3>1. curr' = curr /\ next' = next
      BY <1>8 DEF curr, next
    <3> QED
      BY <1>6, <1>12, <1>22, <3>1
  <2>2. CASE t = c
    BY <2>1, <2>2 DEF flip
  <2>3. CASE t = n
    BY <2>1, <2>3 DEF flip
  <2>4. CASE t # c /\ t # n
    BY <1>12, <1>22, <2>4
  <2> QED
    BY <2>2, <2>3, <2>4
<1>24. LinksAgree'
  <2>1. neighbours' = neighbours /\ indices' = indices
    BY <1>3 DEF mesh
  <2>2. ASSUME NEW t \in Tris, NEW x \in Links(t)'
        PROVE  neighbours[t][x] # Null /\ indices[t][x] \in Links(neighbours[t][x])'
    <3>1. x \in Dir /\ \A u \in Tris : Links(u)' \in SUBSET Dir
      BY DEF Links, LinksOf
    <3>2. CASE t = c /\ x = d
      <4>1. neighbours[t][x] = n /\ indices[t][x] = e /\ n # Null /\ i % 2 = 0
        BY <1>7, <1>22, <1>23, <2>2, <3>1, <3>2 DEF Tris, Null
      <4>2. e \in Links(n)'
        BY <1>7, <1>23, <4>1
      <4>3. Links(neighbours[t][x])' = Links(n)'
        BY <2>1, <4>1
      <4> QED
        BY <4>1, <4>2, <4>3
    <3>3. CASE t = n /\ x = e
      <4>1. neighbours[t][x] = c /\ indices[t][x] = d /\ c # Null /\ i % 2 = 0
        BY <1>7, <1>22, <1>23, <2>2, <3>1, <3>3 DEF Tris, Null
      <4>2. d \in Links(c)'
        BY <1>7, <1>23, <4>1
      <4>3. Links(neighbours[t][x])' = Links(c)'
        BY <2>1, <4>1
      <4> QED
        BY <4>1, <4>2, <4>3
    <3>4. CASE ~(t = c /\ x = d) /\ ~(t = n /\ x = e)
      <4>1. x \in Links(t)
        BY <1>23, <2>2, <3>1, <3>4
      <4>2. neighbours[t][x] # Null /\ indices[t][x] \in Links(neighbours[t][x])
        BY <1>1, <4>1 DEF LinksOK, LinksAgree
      <4>3. PICK u \in Tris, y \in Dir : u = neighbours[t][x] /\ y = indices[t][x]
        BY <1>1, <3>1, <4>2, EdgeFacts DEF ArraysOK
      <4>4. neighbours[u][y] = t /\ indices[u][y] = x
        BY <1>1, <3>1, <4>2, <4>3, OtherSide DEF ArraysOK
      <4>5. ~(u = c /\ y = d) /\ ~(u = n /\ y = e)
        BY <1>7, <1>22, <3>4, <4>4
      <4>6. y \in Links(u)'
        BY <1>23, <4>2, <4>3, <4>5
      <4>7. Links(neighbours[t][x])' = Links(u)'
        BY <2>1, <4>3
      <4> QED
        BY <4>2, <4>3, <4>6, <4>7
    <3> QED
      BY <3>2, <3>3, <3>4
  <2>3. ASSUME NEW t \in Tris, NEW x \in Links(t)'
        PROVE  neighbours'[t][x] # Null /\ indices'[t][x] \in Links(neighbours[t][x])'
    BY <2>1, <2>2
  <2> QED
    BY <2>3 DEF LinksAgree
<1>25. FlipOK'
  <2>1. Flipped = i /\ Flipped' = i + 1
    BY <1>2, <1>3 DEF Flipped
  <2>2. ASSUME NEW k \in 0 .. i + 1, NEW x \in Dir
        PROVE  x \in Links(At(k))' <=>
                 IF k > 0 /\ x = Back(k) THEN k % 2 = 1
                 ELSE IF k < i + 1 /\ x = Out(k) THEN k % 2 = 0
                 ELSE x \in SettledLinks(At(k))
    <3>1. PICK t \in Tris : t = At(k)
      BY <1>5, <1>6
    <3>2. Links(At(k))' = Links(t)'
      BY <1>8, <3>1
    <3>3. CASE k = i + 1
      <4>1. t = n /\ t # c /\ k > 0 /\ Back(k) = e /\ ~(k < i + 1)
        BY <1>6, <1>7, <1>22, <3>1, <3>3 DEF next
      <4>2. SettledLinks(t) = Links(t)
        BY <1>14, <1>22, <4>1 DEF SettledLinks
      <4>3. i % 2 = 0 <=> k % 2 = 1
        BY <1>6, <3>3
      <4> QED
        BY <1>23, <3>1, <3>2, <4>1, <4>2, <4>3
    <3>4. CASE k # i + 1
      <4>1. /\ k \in 0 .. i /\ k < i + 1
            /\ x \in Links(t) <=> IF k > 0 /\ x = Back(k) THEN k % 2 = 1
                                  ELSE IF k < i /\ x = Out(k) THEN k % 2 = 0
                                  ELSE x \in SettledLinks(t)
        BY <1>1, <1>4, <1>6, <2>1, <3>1, <3>4 DEF FlipOK
      <4>2. t # n
        <5>1. k \in 0 .. Top
          BY <1>5, <1>6, <4>1
        <5> QED
          BY <1>5, <1>6, <1>22, <3>1, <3>4, <5>1 DEF next
      <4>3. CASE k = i
        <5>1. t = c /\ Out(k) = d
          BY <1>22, <3>1, <4>3 DEF curr, d
        <5> QED
          BY <1>7, <1>23, <3>1, <3>2, <4>1, <4>2, <4>3, <5>1
      <4>4. CASE k # i
        <5>1. k < i /\ k \in 0 .. Top
          BY <1>5, <1>6, <4>1, <4>4
        <5>2. t # c
          BY <1>5, <1>6, <1>22, <3>1, <4>4, <5>1 DEF curr
        <5> QED
          BY <1>23, <3>1, <3>2, <4>1, <4>2, <5>1, <5>2
      <4> QED
        BY <4>3, <4>4
    <3> QED
      BY <3>3, <3>4
  <2>3. step' <= Top'
    BY <1>3, <1>5, <1>6, <1>8
  <2>4. /\ isolated' = {t \in {At(0), At(Top)} : SettledLinks(t) = {}}
        /\ At(0)' = At(0) /\ At(Top)' = At(Top) /\ At(0) \in Tris /\ At(Top) \in Tris
    BY <1>1, <1>3, <1>4, <1>5, <1>8 DEF FlipOK, At
  <2>5. isolated' = {t \in {At(0)', At(Top)'} : SettledLinks(t)' = {}}
    BY <1>15, <2>4
  <2>6. ASSUME NEW k \in 0 .. Flipped', NEW x \in Dir
        PROVE  x \in Links(At(k))' <=>
                 IF k > 0 /\ x = Back(k)' THEN k % 2 = 1
                 ELSE IF k < Flipped' /\ x = Out(k)' THEN k % 2 = 0
                 ELSE x \in SettledLinks(At(k))'
    <3>1. k \in 0 .. i + 1 /\ Back(k)' = Back(k) /\ Out(k)' = Out(k)
      BY <1>8, <2>1
    <3>2. SettledLinks(At(k))' = SettledLinks(At(k))
      <4>1. PICK t \in Tris : t = At(k)
        BY <1>5, <1>6, <3>1
      <4>2. At(k)' = t
        BY <1>8, <4>1
      <4> QED
        BY <1>15, <4>1, <4>2
    <3> QED
      BY <2>1, <2>2, <3>1, <3>2
  <2> QED
    BY <2>3, <2>5, <2>6 DEF FlipOK
<1> QED
  BY <1>15, <1>17, <1>18, <1>19, <1>20, <1>21, <1>24, <1>25 DEF IInv, LinksOK

-----------------------------------------------------------------------------
(***************************************************************************)
(* The circle check.                                                       *)
(***************************************************************************)
(* What a step of the circle check leaves alone: all edges stay flipped.   *)
LEMMA CheckFrame ==
  ASSUME IInv, pc \in Cementing, pc = "Flip" => step = Top, IsFlipped',
         UNCHANGED <<mesh, linkState, passVars, tunnel, tunnelState, tunnelIndex, loopCount, isolated>>,
         Endpoints' = Endpoints, endpoint' \subseteq InUse, visited' \subseteq visited,
         step' \in Nat, circleIndex' \in Nat, walker' \in Tris \cup {Null}, backIndex' \in Byte,
         endpoint' # {} \/ step' = 0
  PROVE  /\ ArraysOK' /\ CountersOK' /\ ConfigOK' /\ ListOK' /\ PathOK' /\ StatesOK'
         /\ LinksOK' /\ FlipOK'
         /\ visited' \subseteq ElementsOf(tunnel)'
<1>1. ArraysOK /\ CountersOK /\ VisitedOK /\ LinksOK /\ FlipOK
  BY DEF IInv
<1>2. /\ pc' \in {"Check", "Walk", "Undo"} /\ pc' \in Cementing /\ pc' # "Flip"
      /\ InTunnel /\ IsFlipped' /\ Top \in Nat /\ \A k \in 0 .. Top : At(k) \in Tris
      /\ pc = "Flip" \/ IsFlipped
  BY PathFacts DEF IsFlipped, Cementing, InTunnel
<1>3. /\ tunnel' = tunnel /\ Top' = Top /\ linkState' = linkState /\ neighbours' = neighbours
      /\ indices' = indices /\ trisCount' = trisCount
      /\ \A k : At(k)' = At(k) /\ Out(k)' = Out(k) /\ Back(k)' = Back(k)
      /\ At(Top)' = At(Top)
  BY DEF Top, At, Out, Back, SuccessorIndex, mesh
<1>4. \A t \in Tris : IsSaved(t)' <=> IsSaved(t)
  <2>1. ASSUME NEW t \in Tris
        PROVE  /\ IsSaved(t) <=> \E k \in 0 .. Top : At(k) = t
               /\ IsSaved(t)' <=> \E k \in 0 .. Top : At(k) = t
    BY <1>2, <1>3 DEF IsSaved
  <2> QED
    BY <2>1
<1>5. /\ \A t \in Tris : SettledLinks(t)' = SettledLinks(t)
      /\ \A t \in Tris : Links(t)' = Links(t)
  BY <1>3, <1>4 DEF SettledLinks, Links
<1>6. /\ PathOK' /\ StatesOK' /\ ConfigOK' /\ ListOK'
      /\ Agree(SettledLinks)' /\ (Endpoints = Ends(SettledLinks))'
  BY <1>2, <1>5, CementFrame
<1>7. ArraysOK'
  BY <1>1, <1>3 DEF ArraysOK, MeshOK, InUse
<1>8. CountersOK'
  BY <1>1, <1>2 DEF CountersOK, passVars
<1>9. LinksAgree'
  <2>1. LinksAgree
    BY <1>1 DEF LinksOK
  <2> QED
    BY <1>3, <2>1 DEF LinksAgree, Links
<1>10. FlipOK'
  <2>1. Flipped = Top /\ Flipped' = Top
    BY <1>2, <1>3 DEF Flipped
  <2>2. ASSUME NEW k \in 0 .. Top PROVE SettledLinks(At(k))' = SettledLinks(At(k))
                                        /\ Links(At(k))' = Links(At(k))
    <3>1. PICK t \in Tris : t = At(k)
      BY <1>2
    <3>2. At(k)' = t
      BY <1>3, <3>1
    <3> QED
      BY <1>5, <3>1, <3>2
  <2>3. isolated' = {t \in {At(0)', At(Top)'} : SettledLinks(t)' = {}}
    <3>1. isolated' = {t \in {At(0), At(Top)} : SettledLinks(t) = {}}
      BY <1>1 DEF FlipOK
    <3>2. At(0)' = At(0) /\ At(Top)' = At(Top) /\ At(0) \in Tris /\ At(Top) \in Tris
      BY <1>2, <1>3
    <3> QED
      BY <1>5, <3>1, <3>2
  <2> QED
    BY <1>1, <1>2, <1>3, <2>1, <2>2, <2>3 DEF FlipOK
<1>11. visited' \subseteq ElementsOf(tunnel)'
  <2>1. visited \subseteq ElementsOf(tunnel)
    BY <1>1, <1>2 DEF VisitedOK
  <2> QED
    BY <1>3, <2>1 DEF ElementsOf
<1> QED
  BY <1>6, <1>7, <1>8, <1>9, <1>10, <1>11 DEF LinksOK

(* The links and the flags of the endpoints do not change any more.        *)
LEMMA FlippedFrame ==
  ASSUME IInv, IsFlipped, IsFlipped', UNCHANGED <<mesh, stripVars, tunnel>>
  PROVE  /\ Agree(Links)' /\ (endpoint = Ends(Links))'
         /\ Endpoints' = Endpoints /\ endpoint' \subseteq InUse
         /\ Top' = Top /\ \A k : At(k)' = At(k)
<1>1. CheckOK /\ ArraysOK
  BY DEF IInv
<1>2. /\ linkState' = linkState /\ endpoint' = endpoint /\ neighbours' = neighbours
      /\ indices' = indices /\ trisCount' = trisCount /\ tunnel' = tunnel
  BY DEF mesh, stripVars
<1>3. Agree(Links) /\ endpoint = Ends(Links)
  BY <1>1 DEF CheckOK
<1>4. Agree(Links)'
  BY <1>2, <1>3 DEF Agree, Links
<1>5. (endpoint = Ends(Links))'
  BY <1>2, <1>3 DEF Ends, Links, AtMostOne, InUse
<1> QED
  BY <1>1, <1>2, <1>4, <1>5 DEF Endpoints, Top, At, ArraysOK

(* The walk towards the next red triangle of the tunnel.                   *)
LEMMA StartWalkIInv ==
  ASSUME IInv, StartWalk
  PROVE  IInv'
<1>1. ArraysOK /\ CountersOK /\ VisitedOK /\ ListOK /\ FlipOK /\ CheckOK /\ PathOK
  BY DEF IInv
<1>2. PICK i : i = step
  OBVIOUS
<1> DEFINE next == At(i + 1)
<1>3. /\ pc = "Check" /\ i < Top /\ At(i) \in visited /\ pc' = "Walk" /\ step' = i
      /\ walker' = neighbours[At(i)][Out(i)] /\ backIndex' = indices[At(i)][Out(i)]
      /\ circleIndex' = tunnelIndex[neighbours[At(i)][Out(i)]]
      /\ visited' = visited \ {neighbours[At(i)][Out(i)]}
      /\ UNCHANGED <<mesh, stripVars, passVars, tunnel, tunnelState, tunnelIndex, loopCount, isolated>>
  BY <1>2 DEF StartWalk, Out
<1>4. /\ pc \in Cementing /\ pc # "Flip" /\ IsFlipped /\ IsFlipped' /\ InTunnel
      /\ pc' \notin Quiet /\ pc' \notin Digging \cup {"Flip"}
  BY <1>3 DEF Cementing, IsFlipped, InTunnel, Quiet, Digging
<1>5. /\ Top \in Nat
      /\ \A k \in 0 .. Top : At(k) \in InUse /\ At(k) \in Tris /\ tunnelIndex[At(k)] = k
      /\ \A j, k \in 0 .. Top : At(j) = At(k) => j = k
  BY <1>4, PathFacts
<1>6. i \in Nat /\ i \in 0 .. Top - 1 /\ i \in 0 .. Top /\ i + 1 \in 0 .. Top /\ i # i + 1 /\ i % 2 = 0
  BY <1>1, <1>2, <1>3, <1>4, <1>5 DEF CountersOK, CheckOK
<1>7. /\ neighbours[At(i)][Out(i)] = next /\ indices[At(i)][Out(i)] = Back(i + 1)
      /\ Back(i + 1) \in Dir
  BY <1>4, <1>6, TunnelEdge
<1>8. next \in InUse /\ next \in Tris /\ tunnelIndex[next] = i + 1 /\ next # At(i)
  BY <1>5, <1>6
<1>9. walker' = next /\ backIndex' = Back(i + 1) /\ circleIndex' = i + 1 /\ visited' = visited \ {next}
  BY <1>3, <1>7, <1>8
<1>10. /\ Agree(Links)' /\ (endpoint = Ends(Links))'
       /\ Endpoints' = Endpoints /\ endpoint' \subseteq InUse
       /\ Top' = Top /\ \A k : At(k)' = At(k)
  BY <1>3, <1>4, FlippedFrame
<1>11. endpoint' # {} \/ step' = 0
  BY <1>1, <1>2, <1>3 DEF ListOK, stripVars
<1>12. /\ step' \in Nat /\ circleIndex' \in Nat /\ walker' \in Tris \cup {Null} /\ backIndex' \in Byte
  BY <1>3, <1>6, <1>7, <1>8, <1>9 DEF Dir, Byte
<1>13. /\ ArraysOK' /\ CountersOK' /\ ConfigOK' /\ ListOK' /\ PathOK' /\ StatesOK'
       /\ LinksOK' /\ FlipOK' /\ visited' \subseteq ElementsOf(tunnel)'
  BY <1>3, <1>4, <1>9, <1>10, <1>11, <1>12, CheckFrame DEF stripVars
<1>14. VisitedOK'
  BY <1>3, <1>4, <1>13 DEF VisitedOK
<1>15. backIndex' \in Links(walker)'
  <2>1. Back(i + 1) \in Links(next)
    <3>1. Flipped = Top
      BY <1>3 DEF Flipped
    <3>2. i + 1 > 0 /\ (i + 1) % 2 = 1 /\ i + 1 \in 0 .. Flipped
      BY <1>6, <3>1
    <3> QED
      BY <1>1, <1>4, <1>7, <3>2 DEF FlipOK
  <2>2. Links(walker)' = Links(next)
    BY <1>3, <1>9 DEF Links, stripVars
  <2> QED
    BY <1>9, <2>1, <2>2
<1>16. ASSUME NEW k \in 0 .. Top, k < i PROVE At(k) \notin visited'
  BY <1>1, <1>2, <1>3, <1>9, <1>16 DEF CheckOK
<1>17. ASSUME NEW k \in 0 .. Top - 1, k % 2 = 0, At(k) \notin visited'
       PROVE  At(k + 1) \notin visited'
  <2>1. k \in 0 .. Top /\ k # i + 1
    BY <1>5, <1>6, <1>17
  <2>2. At(k) \notin visited
    BY <1>5, <1>6, <1>9, <1>17, <2>1
  <2>3. At(k + 1) \notin visited
    BY <1>1, <1>3, <1>17, <2>2 DEF CheckOK
  <2> QED
    BY <1>9, <2>3
<1>18. circleIndex' <= Top /\ step' % 2 = 0 /\ step' <= Top + 1 /\ step' < Top
  BY <1>3, <1>5, <1>6, <1>9
<1>19. At(i) \in visited' /\ next \notin visited'
  BY <1>3, <1>8, <1>9
<1>20. CheckOK'
  <2>1. At(step)' = At(i) /\ At(step + 1)' = next
    BY <1>3, <1>10 DEF At
  <2>2. walker' \in InUse' /\ walker' \notin visited'
    BY <1>3, <1>8, <1>9 DEF InUse, mesh
  <2> QED
    BY <1>3, <1>10, <1>15, <1>16, <1>17, <1>18, <1>19, <2>1, <2>2 DEF CheckOK
<1> QED
  BY <1>13, <1>14, <1>20 DEF IInv

(* A red triangle that has been met already; its successor has been too.   *)
LEMMA SkipStarterIInv ==
  ASSUME IInv, SkipStarter
  PROVE  IInv'
<1>1. ArraysOK /\ CountersOK /\ VisitedOK /\ ListOK /\ FlipOK /\ CheckOK /\ PathOK
  BY DEF IInv
<1>2. PICK i : i = step
  OBVIOUS
<1>3. /\ pc = "Check" /\ i < Top /\ At(i) \notin visited /\ pc' = "Check" /\ step' = i + 2
      /\ UNCHANGED <<mesh, stripVars, passVars, tunnel, tunnelState, tunnelIndex, loopCount,
                     isolated, visited, walker, backIndex, circleIndex>>
  BY <1>2 DEF SkipStarter, searchVars
<1>4. /\ pc \in Cementing /\ pc # "Flip" /\ IsFlipped /\ IsFlipped' /\ InTunnel
      /\ pc' \notin Quiet /\ pc' \notin Digging \cup {"Flip"}
  BY <1>3 DEF Cementing, IsFlipped, InTunnel, Quiet, Digging
<1>5. /\ Top \in Nat /\ Top % 2 = 1
      /\ \A k \in 0 .. Top : At(k) \in InUse /\ At(k) \in Tris /\ tunnelIndex[At(k)] = k
      /\ \A k \in 0 .. Top : At(k) \in ElementsOf(tunnel)
  BY <1>1, <1>4, PathFacts DEF PathOK
<1>6. i \in Nat /\ i \in 0 .. Top - 1 /\ i \in 0 .. Top /\ i + 1 \in 0 .. Top /\ i % 2 = 0
  BY <1>1, <1>2, <1>3, <1>4, <1>5 DEF CountersOK, CheckOK
<1>7. i # 0 /\ step' # 0
  <2>1. i = 0 => visited = ElementsOf(tunnel)
    BY <1>1, <1>2, <1>3 DEF VisitedOK
  <2> QED
    BY <1>3, <1>5, <1>6, <2>1
<1>8. endpoint # {}
  BY <1>1, <1>2, <1>7 DEF ListOK
<1>9. At(i + 1) \notin visited
  BY <1>1, <1>3, <1>6 DEF CheckOK
<1>10. /\ Agree(Links)' /\ (endpoint = Ends(Links))'
       /\ Endpoints' = Endpoints /\ endpoint' \subseteq InUse
       /\ Top' = Top /\ \A k : At(k)' = At(k)
  BY <1>3, <1>4, FlippedFrame
<1>11. /\ step' \in Nat /\ circleIndex' \in Nat /\ walker' \in Tris \cup {Null} /\ backIndex' \in Byte
       /\ endpoint' # {} /\ visited' \subseteq visited
  BY <1>1, <1>3, <1>6, <1>8 DEF CountersOK, stripVars
<1>12. /\ ArraysOK' /\ CountersOK' /\ ConfigOK' /\ ListOK' /\ PathOK' /\ StatesOK'
       /\ LinksOK' /\ FlipOK' /\ visited' \subseteq ElementsOf(tunnel)'
  BY <1>3, <1>4, <1>10, <1>11, CheckFrame DEF stripVars
<1>13. VisitedOK'
  BY <1>3, <1>4, <1>7, <1>12 DEF VisitedOK
<1>14. ASSUME NEW k \in 0 .. Top, k < i + 2 PROVE At(k) \notin visited'
  <2>1. k < i \/ k = i \/ k = i + 1
    BY <1>6, <1>14
  <2> QED
    BY <1>1, <1>2, <1>3, <1>9, <2>1 DEF CheckOK
<1>15. ASSUME NEW k \in 0 .. Top - 1, k % 2 = 0, At(k) \notin visited'
       PROVE  At(k + 1) \notin visited'
  BY <1>1, <1>3, <1>15 DEF CheckOK
<1>16. circleIndex' <= Top /\ step' % 2 = 0 /\ step' <= Top + 1
  <2>1. circleIndex <= Top
    BY <1>1, <1>4 DEF CheckOK
  <2>2. (i + 2) % 2 = 0 /\ i + 2 <= Top + 1
    BY <1>3, <1>5, <1>6
  <2> QED
    BY <1>3, <2>1, <2>2
<1>17. CheckOK'
  BY <1>3, <1>10, <1>14, <1>15, <1>16 DEF CheckOK
<1> QED
  BY <1>12, <1>13, <1>17 DEF IInv

(* The walk ends at an endpoint.  It did not end on a triangle whose       *)
(* successor is still visited: such a one has two links.                   *)
LEMMA EndWalkIInv ==
  ASSUME IInv, EndWalk
  PROVE  IInv'
<1>1. ArraysOK /\ CountersOK /\ VisitedOK /\ ListOK /\ FlipOK /\ CheckOK /\ PathOK
  BY DEF IInv
<1>2. PICK i : i = step
  OBVIOUS
<1>3. /\ pc = "Walk" /\ walker \in endpoint /\ pc' = "Check" /\ step' = i + 2
      /\ visited' = visited \ {At(i)}
      /\ UNCHANGED <<mesh, stripVars, passVars, tunnel, tunnelState, tunnelIndex, loopCount,
                     isolated, walker, backIndex, circleIndex>>
  BY <1>2 DEF EndWalk
<1>4. /\ pc \in Cementing /\ pc # "Flip" /\ IsFlipped /\ IsFlipped' /\ InTunnel
      /\ pc' \notin Quiet /\ pc' \notin Digging \cup {"Flip"}
  BY <1>3 DEF Cementing, IsFlipped, InTunnel, Quiet, Digging
<1>5. /\ Top \in Nat /\ Top % 2 = 1
      /\ \A k \in 0 .. Top : At(k) \in InUse /\ At(k) \in Tris /\ tunnelIndex[At(k)] = k
      /\ \A j, k \in 0 .. Top : At(j) = At(k) => j = k
  BY <1>1, <1>4, PathFacts DEF PathOK
<1>6. /\ i \in Nat /\ i < Top /\ i \in 0 .. Top - 1 /\ i \in 0 .. Top /\ i + 1 \in 0 .. Top
      /\ i % 2 = 0 /\ At(i + 1) \notin visited
  BY <1>1, <1>2, <1>3, <1>4, <1>5 DEF CountersOK, CheckOK
<1>7. step' # 0 /\ endpoint # {}
  BY <1>3, <1>6
<1>10. /\ Agree(Links)' /\ (endpoint = Ends(Links))'
       /\ Endpoints' = Endpoints /\ endpoint' \subseteq InUse
       /\ Top' = Top /\ \A k : At(k)' = At(k)
  BY <1>3, <1>4, FlippedFrame
<1>11. /\ step' \in Nat /\ circleIndex' \in Nat /\ walker' \in Tris \cup {Null} /\ backIndex' \in Byte
       /\ endpoint' # {} /\ visited' \subseteq visited
  BY <1>1, <1>3, <1>6, <1>7 DEF CountersOK, stripVars
<1>12. /\ ArraysOK' /\ CountersOK' /\ ConfigOK' /\ ListOK' /\ PathOK' /\ StatesOK'
       /\ LinksOK' /\ FlipOK' /\ visited' \subseteq ElementsOf(tunnel)'
  BY <1>3, <1>4, <1>10, <1>11, CheckFrame DEF stripVars
<1>13. VisitedOK'
  BY <1>3, <1>4, <1>7, <1>12 DEF VisitedOK
<1>14. ASSUME NEW k \in 0 .. Top, k < i + 2 PROVE At(k) \notin visited'
  <2>1. k < i \/ k = i \/ k = i + 1
    BY <1>6, <1>14
  <2> QED
    BY <1>1, <1>2, <1>3, <1>6, <2>1 DEF CheckOK
<1>15. ASSUME NEW k \in 0 .. Top - 1, k % 2 = 0, At(k) \notin visited'
       PROVE  At(k + 1) \notin visited'
  <2>1. CASE k = i
    BY <1>3, <1>6, <2>1
  <2>2. CASE k # i
    <3>1. At(k) \notin visited /\ k \in 0 .. Top
      BY <1>3, <1>5, <1>6, <1>15, <2>2
    <3>2. At(k + 1) \notin visited \/ (walker = At(k) /\ backIndex # Out(k))
      BY <1>1, <1>3, <1>15, <3>1 DEF CheckOK
    <3>3. ASSUME walker = At(k), backIndex # Out(k) PROVE FALSE
      <4>1. AtMostOne(Links(walker)) /\ backIndex \in Links(walker)
        BY <1>1, <1>3, <1>4 DEF CheckOK, Ends
      <4>2. Out(k) \in Dir /\ (k > 0 => Back(k) # Out(k))
        BY <1>4, TunnelEdge
      <4>3. Out(k) \in Links(At(k))
        <5>1. Flipped = Top /\ k \in 0 .. Flipped /\ k < Flipped
          BY <1>3, <1>5 DEF Flipped
        <5> QED
          BY <1>1, <1>4, <1>15, <4>2, <5>1 DEF FlipOK
      <4> QED
        BY <3>3, <4>1, <4>3 DEF AtMostOne
    <3> QED
      BY <1>3, <3>2, <3>3
  <2> QED
    BY <2>1, <2>2
<1>16. circleIndex' <= Top /\ step' % 2 = 0 /\ step' <= Top + 1
  <2>1. circleIndex <= Top
    BY <1>1, <1>4 DEF CheckOK
  <2>2. (i + 2) % 2 = 0 /\ i + 2 <= Top + 1
    BY <1>5, <1>6
  <2> QED
    BY <1>3, <2>1, <2>2
<1>17. CheckOK'
  BY <1>3, <1>10, <1>14, <1>15, <1>16 DEF CheckOK
<1> QED
  BY <1>12, <1>13, <1>17 DEF IInv

(* An inner triangle can be left: it has just two links, and the walk goes *)
(* on across the one that it has not come by.                              *)
LEMMA WalkDirection ==
  ASSUME IInv, pc = "Walk", walker \notin endpoint
  PROVE  /\ StripDirs(walker, backIndex) # {}
         /\ StripDir(walker, backIndex) \in Links(walker)
         /\ StripDir(walker, backIndex) # backIndex
         /\ \A d \in Links(walker) : d = backIndex \/ d = StripDir(walker, backIndex)
<1>1. /\ walker \in InUse /\ walker \in Tris /\ backIndex \in Links(walker) /\ backIndex \in Dir
      /\ Links(walker) \in SUBSET Dir
      /\ ~AtMostOne(Links(walker)) /\ \E d \in Dir : d \notin Links(walker)
  <2>1. CheckOK /\ IsFlipped /\ ArraysOK
    BY DEF IInv, IsFlipped
  <2>2. InUse \subseteq Tris
    BY <2>1, MaxTrisAssumption DEF ArraysOK, MeshOK, IsMesh, InUse, Tris
  <2> QED
    BY <2>1, <2>2, LinksAreDirs DEF CheckOK, Ends, Agree
<1> DEFINE a == RemainingIndex(backIndex, 0)
           b == RemainingIndex(backIndex, 1)
           d == StripDir(walker, backIndex)
<1>2. /\ a \in Dir /\ b \in Dir /\ a # backIndex /\ b # backIndex
      /\ \A e \in Dir : e # backIndex => e \in {a, b}
  BY <1>1, Remaining
<1>3. PICK e \in Links(walker) : e # backIndex
  BY <1>1 DEF AtMostOne
<1>4. e = a \/ e = b
  BY <1>1, <1>2, <1>3
<1>5. /\ 0 \in StripDirs(walker, backIndex) <=> a \in Links(walker)
      /\ 1 \in StripDirs(walker, backIndex) <=> b \in Links(walker)
  BY DEF StripDirs
<1>6. d = IF a \in Links(walker) THEN a ELSE b
  BY <1>5 DEF StripDir
<1> HIDE DEF a, b, d
<1>7. d \in Links(walker) /\ d # backIndex /\ d \in Dir
  BY <1>2, <1>3, <1>4, <1>6
<1>8. ASSUME NEW x \in Links(walker), x # backIndex PROVE x = d
  BY <1>1, <1>7, <1>8 DEF Dir
<1> QED
  BY <1>3, <1>4, <1>5, <1>7, <1>8 DEF d

(* The walk goes on, clears the triangle it comes to, or is back at its    *)
(* starter.  Leaving a cleared pair's first triangle, it clears the second.*)
LEMMA WalkOnIInv ==
  ASSUME IInv, WalkOn
  PROVE  IInv'
<1>1. ArraysOK /\ CountersOK /\ VisitedOK /\ ListOK /\ FlipOK /\ CheckOK /\ PathOK
  BY DEF IInv
<1>2. PICK i, w, d, next : /\ i = step /\ w = walker /\ d = StripDir(walker, backIndex)
                           /\ next = neighbours[w][d]
  OBVIOUS
<1>3. pc = "Walk" /\ w \notin endpoint
  BY <1>2 DEF WalkOn
<1>4. /\ d \in Links(w) /\ d # backIndex /\ StripDirs(walker, backIndex) # {}
      /\ \A x \in Links(w) : x = backIndex \/ x = d
  BY <1>2, <1>3, WalkDirection
<1>5. /\ walker' = next /\ backIndex' = indices[w][d]
      /\ pc' = IF ClosesCircle(next) THEN "Undo" ELSE "Walk"
      /\ visited' = IF pc' = "Walk" THEN visited \ {next} ELSE visited
      /\ circleIndex' = IF pc' = "Walk" THEN LargestIndex(next) ELSE circleIndex
      /\ UNCHANGED <<mesh, stripVars, passVars, tunnel, tunnelState, tunnelIndex, loopCount, isolated>>
      /\ step' = i
  BY <1>2, <1>4 DEF WalkOn
<1>6. /\ pc \in Cementing /\ pc # "Flip" /\ IsFlipped /\ IsFlipped' /\ InTunnel
      /\ pc' \notin Quiet /\ pc' \notin Digging \cup {"Flip", "Check"}
  BY <1>3, <1>5 DEF Cementing, IsFlipped, InTunnel, Quiet, Digging
<1>7. /\ Top \in Nat
      /\ \A k \in 0 .. Top : At(k) \in InUse /\ At(k) \in Tris /\ tunnelIndex[At(k)] = k
      /\ \A j, k \in 0 .. Top : At(j) = At(k) => j = k
      /\ \A t \in ElementsOf(tunnel) : \E k \in 0 .. Top : t = At(k)
  BY <1>6, PathFacts
<1>8. /\ i \in Nat /\ i < Top /\ i \in 0 .. Top - 1 /\ i \in 0 .. Top /\ i + 1 \in 0 .. Top
      /\ i % 2 = 0 /\ At(i) \in visited /\ At(i + 1) \notin visited
      /\ w \in InUse /\ w \notin visited /\ backIndex \in Links(w)
      /\ circleIndex \in Nat /\ circleIndex <= Top
      /\ visited \subseteq ElementsOf(tunnel)
  BY <1>1, <1>2, <1>3, <1>6, <1>7 DEF CountersOK, CheckOK, VisitedOK
<1>9. /\ next \in InUse /\ next \in Tris /\ indices[w][d] \in Dir /\ indices[w][d] \in Links(next)
      /\ neighbours[next][indices[w][d]] = w
  <2>1. InUse \subseteq Tris
    BY <1>1, MaxTrisAssumption DEF ArraysOK, MeshOK, IsMesh, InUse, Tris
  <2>2. neighbours[w][d] # Null /\ indices[w][d] \in Links(neighbours[w][d])
    BY <1>1, <1>4, <1>6, <1>8, <2>1 DEF CheckOK, Agree
  <2>3. d \in Dir /\ w \in Tris
    BY <1>4, <1>8, <2>1, LinksAreDirs
  <2> QED
    BY <1>1, <1>2, <2>2, <2>3, EdgeFacts DEF ArraysOK
<1>10. /\ Agree(Links)' /\ (endpoint = Ends(Links))'
       /\ Endpoints' = Endpoints /\ endpoint' \subseteq InUse
       /\ Top' = Top /\ \A k : At(k)' = At(k)
  BY <1>5, <1>6, FlippedFrame
<1>11. LargestIndex(next) \in Nat /\ LargestIndex(next) <= Top
  <2>1. CASE next \in visited
    <3>1. PICK k \in 0 .. Top : next = At(k)
      BY <1>7, <1>8, <2>1
    <3>2. tunnelIndex[next] = k
      BY <1>7, <3>1
    <3> QED
      BY <1>7, <1>8, <2>1, <3>1, <3>2 DEF LargestIndex, MaxOf
  <2>2. CASE next \notin visited
    BY <1>8, <2>2 DEF LargestIndex
  <2> QED
    BY <2>1, <2>2
<1>12. /\ step' \in Nat /\ circleIndex' \in Nat /\ circleIndex' <= Top
       /\ walker' \in Tris \cup {Null} /\ backIndex' \in Byte
       /\ (endpoint' # {} \/ step' = 0) /\ visited' \subseteq visited
  <2>1. \A x \in Dir : x \in Byte
    BY DEF Dir, Byte
  <2>2. endpoint' # {} \/ step' = 0
    BY <1>1, <1>2, <1>5 DEF ListOK, stripVars
  <2> QED
    BY <1>5, <1>8, <1>9, <1>11, <2>1, <2>2
<1>13. /\ ArraysOK' /\ CountersOK' /\ ConfigOK' /\ ListOK' /\ PathOK' /\ StatesOK'
       /\ LinksOK' /\ FlipOK' /\ visited' \subseteq ElementsOf(tunnel)'
  BY <1>5, <1>6, <1>10, <1>12, CheckFrame DEF stripVars
<1>14. VisitedOK'
  BY <1>6, <1>13 DEF VisitedOK
<1>15. CASE pc' = "Undo"
  <2>1. step' % 2 = 0 /\ step' <= Top + 1
    BY <1>5, <1>7, <1>8
  <2> QED
    BY <1>10, <1>12, <1>13, <1>14, <1>15, <2>1 DEF IInv, CheckOK
<1>16. CASE pc' = "Walk"
  <2>1. visited' = visited \ {next} /\ next # At(i)
    BY <1>2, <1>5, <1>8, <1>16 DEF ClosesCircle
  <2>2. ASSUME NEW k \in 0 .. Top, k < i PROVE At(k) \notin visited'
    BY <1>1, <1>2, <1>3, <2>1, <2>2 DEF CheckOK
  <2>3. ASSUME NEW k \in 0 .. Top - 1, k % 2 = 0, At(k) \notin visited'
        PROVE  At(k + 1) \notin visited' \/ (next = At(k) /\ indices[w][d] # Out(k))
    <3>1. neighbours[At(k)][Out(k)] = At(k + 1) /\ Out(k) \in Dir /\ (k > 0 => Back(k) # Out(k))
      BY <1>6, TunnelEdge
    <3>2. CASE At(k) \in visited
      <4>1. next = At(k)
        BY <2>1, <2>3, <3>2
      <4>2. ASSUME indices[w][d] = Out(k) PROVE At(k + 1) \notin visited'
        BY <1>8, <1>9, <2>1, <3>1, <4>1, <4>2
      <4> QED
        BY <4>1, <4>2
    <3>3. CASE At(k) \notin visited /\ At(k + 1) \notin visited
      BY <2>1, <3>3
    <3>4. CASE w = At(k) /\ backIndex # Out(k)
      <4>1. Out(k) \in Links(At(k))
        <5>1. Flipped = Top /\ k \in 0 .. Flipped /\ k < Flipped
          BY <1>3, <1>7 DEF Flipped
        <5> QED
          BY <1>1, <1>6, <2>3, <3>1, <5>1 DEF FlipOK
      <4>2. d = Out(k)
        BY <1>4, <3>4, <4>1
      <4> QED
        BY <1>2, <2>1, <3>1, <3>4, <4>2
    <3> QED
      <4>1. CASE At(k) \in visited
        BY <3>2, <4>1
      <4>2. CASE At(k) \notin visited
        <5>1. k \in 0 .. Top
          BY <1>7
        <5>2. At(k + 1) \notin visited \/ (walker = At(k) /\ backIndex # Out(k))
          BY <1>1, <1>3, <2>3, <4>2, <5>1 DEF CheckOK
        <5> QED
          BY <1>2, <3>3, <3>4, <4>2, <5>2
      <4> QED
        BY <4>1, <4>2
  <2>4. /\ step' % 2 = 0 /\ step' <= Top + 1 /\ step' < Top
        /\ At(i) \in visited' /\ At(i + 1) \notin visited'
    BY <1>5, <1>7, <1>8, <2>1
  <2>5. At(step)' = At(i) /\ At(step + 1)' = At(i + 1)
    BY <1>5, <1>10 DEF At
  <2>6. walker' \in InUse' /\ walker' \notin visited'
    BY <1>5, <1>9, <2>1 DEF InUse, mesh
  <2>7. backIndex' \in Links(walker)'
    <3>1. Links(walker)' = Links(next)
      BY <1>5 DEF Links, stripVars
    <3> QED
      BY <1>5, <1>9, <3>1
  <2>8. \A k : Out(k)' = Out(k)
    BY <1>5, <1>10 DEF Out, SuccessorIndex
  <2>9. CheckOK'
    BY <1>5, <1>10, <1>12, <1>16, <2>2, <2>3, <2>4, <2>5, <2>6, <2>7, <2>8 DEF CheckOK
  <2> QED
    BY <1>13, <1>14, <2>9 DEF IInv
<1> QED
  BY <1>5, <1>15, <1>16

(* Three positions: what a flip does to the links of an inner triangle of  *)
(* the tunnel, which gains one and loses another, ...                      *)
LEMMA SwappedLink ==
  ASSUME NEW old \in SUBSET Dir, NEW new \in SUBSET Dir, NEW in \in Dir, NEW out \in Dir,
         in # out, in \notin old, out \in old, in \in new, out \notin new,
         \A x \in Dir : x # in /\ x # out => (x \in new <=> x \in old)
  PROVE  /\ AtMostOne(new) <=> AtMostOne(old)
         /\ \E d \in Dir : d \notin new
         /\ Cardinality(new) = Cardinality(old)
<1>1. Cardinality(new) = Cardinality(old)
  <2>1. new = (old \ {out}) \cup {in}
    OBVIOUS
  <2>2. IsFiniteSet(old) /\ Cardinality(old) \in Nat
    BY LinkSet
  <2>3. IsFiniteSet(old \ {out}) /\ Cardinality(old \ {out}) = Cardinality(old) - 1
    BY <2>2, FS_RemoveElement
  <2>4. Cardinality((old \ {out}) \cup {in}) = Cardinality(old \ {out}) + 1
    BY <2>3, FS_AddElement
  <2> QED
    BY <2>1, <2>2, <2>3, <2>4
<1>2. PICK x \in Dir : x # in /\ x # out /\ \A y \in Dir : y = in \/ y = out \/ y = x
  BY DEF Dir
<1>3. AtMostOne(old) <=> x \notin old
  BY <1>2 DEF AtMostOne
<1>4. AtMostOne(new) <=> x \notin new
  BY <1>2 DEF AtMostOne
<1> QED
  BY <1>2, <1>3, <1>4, <1>1

(* ... and to those of an end, which had one link at most and gains one.   *)
LEMMA GainedLink ==
  ASSUME NEW old \in SUBSET Dir, NEW new \in SUBSET Dir, NEW in \in Dir,
         in \notin old, in \in new, AtMostOne(old),
         \A x \in Dir : x # in => (x \in new <=> x \in old)
  PROVE  /\ AtMostOne(new) <=> old = {}
         /\ \E d \in Dir : d \notin new
         /\ Cardinality(new) = Cardinality(old) + 1
<1>1. Cardinality(new) = Cardinality(old) + 1
  <2>1. new = old \cup {in}
    OBVIOUS
  <2> QED
    BY <2>1, LinkSet, FS_AddElement
<1>2. PICK x \in Dir, y \in Dir : x # in /\ y # in /\ x # y /\ \A z \in Dir : z = in \/ z = x \/ z = y
  BY DEF Dir
<1>3. x \notin old \/ y \notin old
  BY <1>2 DEF AtMostOne
<1>4. AtMostOne(new) <=> x \notin new /\ y \notin new
  BY <1>2 DEF AtMostOne
<1>5. old = {} <=> x \notin old /\ y \notin old
  BY <1>2
<1> QED
  BY <1>2, <1>3, <1>4, <1>5, <1>1

(* All edges of the tunnel are flipped: an inner triangle has one link     *)
(* instead of another, an end has one more.                                *)
LEMMA FlippedLinks ==
  ASSUME IInv, pc \in Cementing, Flipped = Top
  PROVE  /\ \A t \in Tris : (\A k \in 0 .. Top : At(k) # t) => Links(t) = SettledLinks(t)
         /\ \A k \in 1 .. Top - 1 :
              /\ AtMostOne(Links(At(k))) <=> AtMostOne(SettledLinks(At(k)))
              /\ \E d \in Dir : d \notin Links(At(k))
              /\ Cardinality(Links(At(k))) = Cardinality(SettledLinks(At(k)))
         /\ \A k \in {0, Top} :
              /\ AtMostOne(Links(At(k))) <=> SettledLinks(At(k)) = {}
              /\ \E d \in Dir : d \notin Links(At(k))
              /\ Cardinality(Links(At(k))) = Cardinality(SettledLinks(At(k))) + 1
<1>1. ArraysOK /\ ListOK /\ FlipOK /\ LinksOK /\ PathOK
  BY DEF IInv
<1>2. InTunnel
  BY DEF InTunnel
<1>3. /\ Top \in Nat /\ Top >= 1 /\ Top % 2 = 1
      /\ \A k \in 0 .. Top : At(k) \in InUse /\ At(k) \in Tris
  <2>1. Top \in Nat /\ Top % 2 = 1
    BY <1>1, <1>2, PathFacts DEF PathOK
  <2> QED
    BY <1>2, <2>1, PathFacts
<1>4. At(0) \in Ends(SettledLinks) /\ At(Top) \in Ends(SettledLinks)
  BY <1>1, <1>2 DEF PathOK, ListOK, LinksOK
<1>5. ASSUME NEW k \in 0 .. Top, NEW x \in Dir
      PROVE  x \in Links(At(k)) <=>
               IF k > 0 /\ x = Back(k) THEN k % 2 = 1
               ELSE IF k < Top /\ x = Out(k) THEN k % 2 = 0
               ELSE x \in SettledLinks(At(k))
  BY <1>1, <1>2 DEF FlipOK
<1>6. ASSUME NEW t \in Tris, \A k \in 0 .. Top : At(k) # t
      PROVE  Links(t) = SettledLinks(t)
  BY <1>6 DEF SettledLinks, IsSaved, Flipped
<1>7. ASSUME NEW k \in 1 .. Top - 1
      PROVE  /\ AtMostOne(Links(At(k))) <=> AtMostOne(SettledLinks(At(k)))
             /\ \E d \in Dir : d \notin Links(At(k))
             /\ Cardinality(Links(At(k))) = Cardinality(SettledLinks(At(k)))
  <2>1. /\ k \in 0 .. Top - 1 /\ k - 1 \in 0 .. Top - 1 /\ (k - 1) + 1 = k /\ k \in 0 .. Top
        /\ k > 0 /\ k < Top
        /\ (k - 1) % 2 = 1 <=> k % 2 = 0
    BY <1>3
  <2>2. /\ Out(k) \in Dir /\ Back(k) \in Dir /\ Back(k) # Out(k)
        /\ Out(k) \in SettledLinks(At(k)) <=> k % 2 = 1
        /\ Back(k) \in SettledLinks(At(k)) <=> (k - 1) % 2 = 1
    <3>1. /\ Out(k) \in Dir /\ (k > 0 => Back(k) # Out(k))
          /\ Out(k) \in SettledLinks(At(k)) <=> k % 2 = 1
      BY <1>2, <2>1, TunnelEdge
    <3>2. /\ Back((k - 1) + 1) \in Dir
          /\ Back((k - 1) + 1) \in SettledLinks(At((k - 1) + 1)) <=> (k - 1) % 2 = 1
      BY <1>2, <2>1, TunnelEdge
    <3> QED
      BY <2>1, <3>1, <3>2
  <2> DEFINE old == SettledLinks(At(k))
             new == Links(At(k))
  <2>3. old \in SUBSET Dir /\ new \in SUBSET Dir
    BY LinksAreDirs
  <2>4. /\ Back(k) \in new <=> k % 2 = 1
        /\ Out(k) \in new <=> k % 2 = 0
        /\ \A x \in Dir : x # Back(k) /\ x # Out(k) => (x \in new <=> x \in old)
    <3>1. ASSUME NEW x \in Dir
          PROVE  x \in new <=> IF x = Back(k) THEN k % 2 = 1
                              ELSE IF x = Out(k) THEN k % 2 = 0 ELSE x \in old
      BY <1>5, <2>1
    <3> HIDE DEF old, new
    <3> QED
      BY <2>2, <3>1
  <2>5. CASE k % 2 = 1
    <3>1. Back(k) \notin old /\ Out(k) \in old /\ Back(k) \in new /\ Out(k) \notin new
      BY <2>1, <2>2, <2>4, <2>5
    <3> HIDE DEF old, new
    <3>2. (AtMostOne(new) <=> AtMostOne(old)) /\ (\E d \in Dir : d \notin new)
          /\ Cardinality(new) = Cardinality(old)
      BY <2>2, <2>3, <2>4, <3>1, SwappedLink
    <3> QED
      BY <3>2 DEF old, new
  <2>6. CASE k % 2 = 0
    <3>1. Out(k) \notin old /\ Back(k) \in old /\ Out(k) \in new /\ Back(k) \notin new
      BY <2>1, <2>2, <2>4, <2>6
    <3> HIDE DEF old, new
    <3>2. (AtMostOne(new) <=> AtMostOne(old)) /\ (\E d \in Dir : d \notin new)
          /\ Cardinality(new) = Cardinality(old)
      BY <2>2, <2>3, <2>4, <3>1, SwappedLink
    <3> QED
      BY <3>2 DEF old, new
  <2> QED
    BY <2>1, <2>5, <2>6
<1>8. ASSUME NEW k \in {0, Top}
      PROVE  /\ AtMostOne(Links(At(k))) <=> SettledLinks(At(k)) = {}
             /\ \E d \in Dir : d \notin Links(At(k))
             /\ Cardinality(Links(At(k))) = Cardinality(SettledLinks(At(k))) + 1
  <2> DEFINE old == SettledLinks(At(k))
             new == Links(At(k))
  <2>1. old \in SUBSET Dir /\ new \in SUBSET Dir
    BY LinksAreDirs
  <2>2. AtMostOne(old)
    BY <1>4 DEF Ends
  <2>3. CASE k = 0
    <3>1. 0 \in 0 .. Top - 1 /\ 0 \in 0 .. Top /\ 0 < Top /\ 0 % 2 = 0
      BY <1>3
    <3>2. Out(0) \in Dir /\ Out(0) \notin old
      BY <1>2, <2>3, <3>1, TunnelEdge
    <3>3. Out(0) \in new /\ \A x \in Dir : x # Out(0) => (x \in new <=> x \in old)
      BY <1>5, <2>3, <3>1, <3>2
    <3> HIDE DEF old, new
    <3>4. (AtMostOne(new) <=> old = {}) /\ (\E d \in Dir : d \notin new)
          /\ Cardinality(new) = Cardinality(old) + 1
      BY <2>1, <2>2, <3>2, <3>3, GainedLink
    <3> QED
      BY <3>4 DEF old, new
  <2>4. CASE k = Top
    <3>1. Top - 1 \in 0 .. Top - 1 /\ Top \in 0 .. Top /\ (Top - 1) + 1 = Top /\ (Top - 1) % 2 = 0 /\ Top > 0
      BY <1>3
    <3>2. /\ Back((Top - 1) + 1) \in Dir
          /\ Back((Top - 1) + 1) \in SettledLinks(At((Top - 1) + 1)) <=> (Top - 1) % 2 = 1
      BY <1>2, <3>1, TunnelEdge
    <3>3. Back(Top) \in Dir /\ Back(Top) \notin old
      BY <2>4, <3>1, <3>2
    <3>4. Back(Top) \in new /\ \A x \in Dir : x # Back(Top) => (x \in new <=> x \in old)
      BY <1>3, <1>5, <2>4, <3>1, <3>3
    <3> HIDE DEF old, new
    <3>5. (AtMostOne(new) <=> old = {}) /\ (\E d \in Dir : d \notin new)
          /\ Cardinality(new) = Cardinality(old) + 1
      BY <2>1, <2>2, <3>3, <3>4, GainedLink
    <3> QED
      BY <3>5 DEF old, new
  <2> QED
    BY <2>3, <2>4
<1>9. \A t \in Tris : (\A k \in 0 .. Top : At(k) # t) => Links(t) = SettledLinks(t)
  BY <1>6
<1>10. \A k \in 1 .. Top - 1 :
        /\ AtMostOne(Links(At(k))) <=> AtMostOne(SettledLinks(At(k)))
        /\ \E d \in Dir : d \notin Links(At(k))
        /\ Cardinality(Links(At(k))) = Cardinality(SettledLinks(At(k)))
  BY <1>7
<1>11. \A k \in {0, Top} :
        /\ AtMostOne(Links(At(k))) <=> SettledLinks(At(k)) = {}
        /\ \E d \in Dir : d \notin Links(At(k))
        /\ Cardinality(Links(At(k))) = Cardinality(SettledLinks(At(k))) + 1
  BY <1>8
<1> QED
  BY <1>9, <1>10, <1>11

(* All edges are flipped: of the tunnel's triangles only its ends, unless  *)
(* they had no link at all, stop being the ends of strips.                 *)
LEMMA UnmarkEndpointsIInv ==
  ASSUME IInv, UnmarkEndpoints
  PROVE  IInv'
<1>1. ArraysOK /\ CountersOK /\ VisitedOK /\ ListOK /\ FlipOK /\ LinksOK /\ PathOK
  BY DEF IInv
<1>2. /\ pc = "Flip" /\ step = Top /\ pc' = "Check" /\ step' = 0 /\ circleIndex' = 0
      /\ endpoint' = endpoint \ ({At(0), At(Top)} \ isolated)
      /\ UNCHANGED <<mesh, linkState, passVars, tunnel, tunnelState, tunnelIndex, visited, loopCount,
                     isolated, walker, backIndex>>
  BY DEF UnmarkEndpoints, searchVars
<1>3. /\ pc \in Cementing /\ ~IsFlipped /\ IsFlipped' /\ InTunnel
      /\ pc' \notin Quiet
  BY <1>2 DEF Cementing, IsFlipped, InTunnel, Quiet
<1>4. /\ Top \in Nat /\ Top >= 1 /\ Top % 2 = 1
      /\ \A k \in 0 .. Top : At(k) \in InUse /\ At(k) \in Tris
      /\ \A k \in 0 .. Top : At(k) \in ElementsOf(tunnel)
      /\ \A j, k \in 0 .. Top : At(j) = At(k) => j = k
  <2>1. Top \in Nat /\ Top % 2 = 1
    BY <1>1, <1>3, PathFacts DEF PathOK
  <2> QED
    BY <1>3, <2>1, PathFacts
<1>5. /\ Top' = Top /\ \A k : At(k)' = At(k)
      /\ linkState' = linkState /\ neighbours' = neighbours
      /\ indices' = indices /\ trisCount' = trisCount
  BY <1>2 DEF Top, At, mesh
<1>6. /\ Endpoints = endpoint /\ At(0) \in endpoint /\ At(Top) \in endpoint
      /\ endpoint = Ends(SettledLinks) /\ endpoint \subseteq InUse
      /\ Agree(SettledLinks) /\ LinksAgree
      /\ isolated = {t \in {At(0), At(Top)} : SettledLinks(t) = {}}
  <2>1. Endpoints = endpoint
    BY <1>3 DEF Endpoints
  <2>2. At(0) \in Endpoints /\ At(Top) \in Endpoints
    BY <1>1, <1>3 DEF PathOK, ListOK
  <2> QED
    BY <1>1, <1>3, <2>1, <2>2 DEF ArraysOK, LinksOK, FlipOK
<1>7. Endpoints' = Endpoints
  <2>1. Endpoints' = endpoint' \cup {At(0), At(Top)}
    BY <1>2, <1>3, <1>5 DEF Endpoints, Top, At
  <2> QED
    BY <1>2, <1>6, <2>1
<1>8. /\ ArraysOK' /\ CountersOK' /\ ConfigOK' /\ ListOK' /\ PathOK' /\ StatesOK'
      /\ LinksOK' /\ FlipOK' /\ visited' \subseteq ElementsOf(tunnel)'
  <2>1. step' \in Nat /\ circleIndex' \in Nat /\ walker' \in Tris \cup {Null} /\ backIndex' \in Byte
    BY <1>1, <1>2 DEF CountersOK
  <2>2. endpoint' \subseteq InUse /\ visited' \subseteq visited
    BY <1>2, <1>6
  <2> QED
    BY <1>2, <1>3, <1>7, <2>1, <2>2, CheckFrame
<1>9. visited = ElementsOf(tunnel)
  BY <1>1, <1>2 DEF VisitedOK
<1>10. VisitedOK'
  <2>1. ElementsOf(tunnel)' = ElementsOf(tunnel)
    BY <1>2 DEF ElementsOf
  <2> QED
    BY <1>2, <1>3, <1>8, <1>9, <2>1 DEF VisitedOK
<1>11. Flipped = Top
  BY <1>2 DEF Flipped
<1>12. ASSUME NEW t \in Tris, \A k \in 0 .. Top : At(k) # t
       PROVE  Links(t) = SettledLinks(t)
  BY <1>3, <1>11, <1>12, FlippedLinks
<1>13. ASSUME NEW k \in 1 .. Top - 1
       PROVE  /\ AtMostOne(Links(At(k))) <=> AtMostOne(SettledLinks(At(k)))
              /\ \E d \in Dir : d \notin Links(At(k))
  BY <1>3, <1>11, FlippedLinks
<1>14. ASSUME NEW k \in {0, Top}
       PROVE  /\ AtMostOne(Links(At(k))) <=> SettledLinks(At(k)) = {}
              /\ \E d \in Dir : d \notin Links(At(k))
  BY <1>3, <1>11, FlippedLinks
<1>15. Agree(Links)
  <2>1. ASSUME NEW t \in Tris PROVE \E d \in Dir : d \notin Links(t)
    <3>1. CASE \E k \in 0 .. Top : At(k) = t
      <4>1. PICK k \in 0 .. Top : At(k) = t
        BY <3>1
      <4>2. k \in {0, Top} \/ k \in 1 .. Top - 1
        BY <1>4, <4>1
      <4> QED
        BY <1>13, <1>14, <4>1, <4>2
    <3>2. CASE \A k \in 0 .. Top : At(k) # t
      BY <1>6, <1>12, <3>2 DEF Agree
    <3> QED
      BY <3>1, <3>2
  <2> QED
    BY <1>6, <2>1 DEF Agree, LinksAgree
<1>16. endpoint' = Ends(Links)
  <2>1. ASSUME NEW t \in InUse PROVE t \in endpoint' <=> AtMostOne(Links(t))
    <3>1. t \in Tris
      BY <1>1, MaxTrisAssumption DEF ArraysOK, MeshOK, IsMesh, InUse, Tris
    <3>2. t \in endpoint <=> AtMostOne(SettledLinks(t))
      BY <1>6 DEF Ends
    <3>3. CASE t \in {At(0), At(Top)}
      <4>1. t \in endpoint' <=> SettledLinks(t) = {}
        BY <1>2, <1>6, <3>3
      <4> QED
        BY <1>14, <3>3, <4>1
    <3>4. CASE t \notin {At(0), At(Top)}
      <4>1. t \in endpoint' <=> t \in endpoint
        BY <1>2, <3>4
      <4>2. CASE \E k \in 0 .. Top : At(k) = t
        <5>1. PICK k \in 0 .. Top : At(k) = t
          BY <4>2
        <5>2. k \in 1 .. Top - 1
          BY <1>4, <3>4, <5>1
        <5> QED
          BY <1>13, <3>2, <4>1, <5>1, <5>2
      <4>3. CASE \A k \in 0 .. Top : At(k) # t
        BY <1>12, <3>1, <3>2, <4>1, <4>3
      <4> QED
        BY <4>2, <4>3
    <3> QED
      BY <3>3, <3>4
  <2> QED
    BY <1>2, <1>6, <2>1 DEF Ends
<1>17. Agree(Links)' /\ (endpoint = Ends(Links))'
  <2>1. Agree(Links)'
    BY <1>5, <1>15 DEF Agree, Links
  <2>2. Ends(Links)' = Ends(Links)
    BY <1>5 DEF Ends, Links, AtMostOne, InUse
  <2> QED
    BY <1>16, <2>1, <2>2
<1>18. CheckOK'
  <2>1. \A k \in 0 .. Top : At(k) \in visited'
    BY <1>2, <1>4, <1>9
  <2>2. circleIndex' <= Top /\ step' % 2 = 0 /\ step' <= Top + 1
    BY <1>2, <1>4
  <2>3. \A k \in 0 .. Top : ~(k < step')
    BY <1>2
  <2>4. \A k \in 0 .. Top - 1 : k \in 0 .. Top
    BY <1>4
  <2> QED
    BY <1>2, <1>5, <1>17, <2>1, <2>2, <2>3, <2>4 DEF CheckOK
<1> QED
  BY <1>8, <1>10, <1>18 DEF IInv

-----------------------------------------------------------------------------
(***************************************************************************)
(* The end of cementing: the tunnel is undone, or it stays.                *)
(***************************************************************************)
(* A triangle of the tunnel occurs once, so it is restored once; the links *)
(* become the settled ones again, and the search resumes where the walk    *)
(* says, with the tunnel visited up to there.                              *)
LEMMA UndoTunnelIInv ==
  ASSUME IInv, UndoTunnel
  PROVE  IInv' /\ \A t \in Tris : SettledLinks(t)' = SettledLinks(t)
<1>1. ArraysOK /\ CountersOK /\ VisitedOK /\ ListOK /\ FlipOK /\ LinksOK /\ PathOK /\ StatesOK
      /\ CheckOK /\ ConfigOK
  BY DEF IInv
<1> DEFINE all == visited \cup {At(k) : k \in 0 .. Top}
<1>2. /\ pc = "Undo"
      /\ linkState' = [t \in Tris |-> RestoreLinkState(linkState[t], Cardinality(Occurrences(t)))]
      /\ tunnelIndex' = [t \in Tris |-> IF Occurrences(t) = {} THEN tunnelIndex[t]
                                                               ELSE LastOccurrence(t)]
      /\ endpoint' = endpoint \cup {At(0), At(Top)}
      /\ IF circleIndex = Top
         THEN pc' = "Expand" /\ visited' = all /\ UNCHANGED tunnel
         ELSE BacktrackTo(circleIndex, all, "Backtrack")
      /\ UNCHANGED <<mesh, passVars, tunnelState, loopCount, checkVars>>
  BY DEF UndoTunnel
<1>3. /\ pc \in Cementing /\ pc # "Flip" /\ IsFlipped /\ InTunnel
      /\ pc' \in {"Expand", "Backtrack"}
  BY <1>2 DEF Cementing, IsFlipped, InTunnel, BacktrackTo
<1>4. /\ pc' \in Digging /\ pc' \notin Quiet /\ pc' \notin Cementing /\ InTunnel' /\ ~IsFlipped'
      /\ pc' \notin {"Start", "Endpoint", "Flip", "Cement", "Check"}
  BY <1>3 DEF Digging, Quiet, Cementing, InTunnel, IsFlipped
<1>5. /\ Top \in Nat /\ Top % 2 = 1 /\ Len(tunnel) = Top + 1
      /\ \A k \in 0 .. Top : At(k) \in InUse /\ At(k) \in Tris /\ tunnelIndex[At(k)] = k
      /\ \A j, k \in 0 .. Top : At(j) = At(k) => j = k
      /\ \A k \in 0 .. Top : At(k) \in ElementsOf(tunnel)
      /\ \A t \in ElementsOf(tunnel) : \E k \in 0 .. Top : t = At(k)
  BY <1>1, <1>3, PathFacts DEF PathOK
<1>6. ASSUME NEW k \in 0 .. Top
      PROVE  /\ Occurrences(At(k)) = {k} /\ Cardinality(Occurrences(At(k))) = 1
             /\ LastOccurrence(At(k)) = k
  <2>1. Occurrences(At(k)) = {k}
    BY <1>5 DEF Occurrences
  <2>2. Cardinality({k}) = 1
    BY FS_Singleton
  <2>3. LastOccurrence(At(k)) = k
    BY <2>1, <1>5 DEF LastOccurrence
  <2> QED
    BY <2>1, <2>2, <2>3
<1>7. ASSUME NEW t \in Tris, \A k \in 0 .. Top : At(k) # t
      PROVE  Occurrences(t) = {} /\ Cardinality(Occurrences(t)) = 0
  <2>1. Occurrences(t) = {}
    BY <1>7 DEF Occurrences
  <2> QED
    BY <2>1, FS_EmptySet
<1>8. linkState \in [Tris -> SUBSET (0 .. 7)] /\ tunnelIndex \in [Tris -> UInt16]
  BY <1>1 DEF ArraysOK
<1>9. tunnelIndex' = tunnelIndex
  <2>1. ASSUME NEW t \in Tris PROVE tunnelIndex'[t] = tunnelIndex[t]
    <3>1. CASE \E k \in 0 .. Top : At(k) = t
      <4>1. PICK k \in 0 .. Top : At(k) = t
        BY <3>1
      <4>2. Occurrences(t) # {} /\ LastOccurrence(t) = k /\ tunnelIndex[t] = k
        BY <1>5, <1>6, <4>1
      <4> QED
        BY <1>2, <4>2
    <3>2. CASE \A k \in 0 .. Top : At(k) # t
      BY <1>2, <1>7, <3>2
    <3> QED
      BY <3>1, <3>2
  <2> QED
    BY <1>2, <1>8, <2>1
<1>10. ASSUME NEW t \in Tris
       PROVE  linkState'[t] \in SUBSET (0 .. 7) /\ Links(t)' = SettledLinks(t)
  <2>1. CASE \E k \in 0 .. Top : At(k) = t
    <3>1. PICK k \in 0 .. Top : At(k) = t
      BY <2>1
    <3>2. linkState'[t] = RestoreLinkState(linkState[t], 1)
      BY <1>2, <1>6, <3>1
    <3>3. IsSaved(t)
      BY <1>3, <3>1 DEF IsSaved
    <3> QED
      BY <1>8, <3>2, <3>3, 1 \in Nat, RestoredLinks DEF Links, SettledLinks
  <2>2. CASE \A k \in 0 .. Top : At(k) # t
    <3>1. linkState'[t] = RestoreLinkState(linkState[t], 0)
      BY <1>2, <1>7, <2>2
    <3>2. ~IsSaved(t)
      BY <1>3, <2>2 DEF IsSaved
    <3> QED
      BY <1>8, <3>1, <3>2, 0 \in Nat, RestoredLinks DEF Links, SettledLinks
  <2> QED
    BY <2>1, <2>2
<1>11. \A t \in Tris : SettledLinks(t)' = SettledLinks(t)
  BY <1>4, <1>10 DEF SettledLinks, IsSaved
<1>12. /\ first' = first /\ config' = config /\ endpoints' = endpoints /\ limit' = limit
       /\ trisCount' = trisCount /\ neighbours' = neighbours /\ indices' = indices
       /\ tunnelState' = tunnelState
  BY <1>2 DEF passVars, mesh
<1>13. Endpoints' = endpoint' /\ Endpoints' = Endpoints
  BY <1>2, <1>3, <1>4 DEF Endpoints
<1>14. all = ElementsOf(tunnel)
  BY <1>1, <1>3, <1>5 DEF VisitedOK
<1>15. LinksOK'
  <2>1. Agree(SettledLinks)'
    BY <1>1, <1>2, <1>11, AgreeFrame DEF ArraysOK, LinksOK
  <2>2. LinksAgree'
    <3>1. Agree(SettledLinks) /\ MeshOK
      BY <1>1 DEF LinksOK, ArraysOK
    <3>2. ASSUME NEW t \in Tris, NEW d \in Links(t)'
          PROVE  neighbours'[t][d] # Null /\ indices'[t][d] \in Links(neighbours[t][d])'
      <4>1. d \in SettledLinks(t) /\ d \in Dir
        BY <1>10, <3>2, LinksAreDirs
      <4>2. neighbours[t][d] # Null /\ indices[t][d] \in SettledLinks(neighbours[t][d])
        BY <3>1, <4>1 DEF Agree
      <4>3. PICK u \in Tris : u = neighbours[t][d]
        BY <3>1, <4>1, <4>2, EdgeFacts
      <4>4. Links(neighbours[t][d])' = Links(u)'
        BY <1>12, <4>3
      <4> QED
        BY <1>10, <1>12, <4>2, <4>3, <4>4
    <3> QED
      BY <3>2 DEF LinksAgree
  <2>3. (Endpoints = Ends(SettledLinks))'
    <3>1. InUse' = InUse /\ InUse \subseteq Tris
      BY <1>1, <1>12, MaxTrisAssumption DEF ArraysOK, MeshOK, IsMesh, InUse, Tris
    <3>2. \A t \in InUse : AtMostOne(SettledLinks(t))' <=> AtMostOne(SettledLinks(t))
      BY <1>11, <3>1 DEF AtMostOne
    <3>3. Ends(SettledLinks)' = Ends(SettledLinks)
      BY <3>1, <3>2 DEF Ends
    <3> QED
      BY <1>1, <1>13, <3>3 DEF LinksOK
  <2> QED
    BY <2>1, <2>2, <2>3 DEF LinksOK
<1>16. CountersOK' /\ ConfigOK'
  BY <1>1, <1>2, <1>4 DEF CountersOK, ConfigOK, passVars, checkVars
<1>17. ListOK'
  <2>1. first \in Endpoints /\ endpoint' # {}
    BY <1>1, <1>2, <1>3 DEF ListOK
  <2> QED
    BY <1>1, <1>4, <1>12, <1>13, <2>1 DEF ListOK, ElementsOf
<1>18. FlipOK' /\ CheckOK'
  BY <1>4 DEF FlipOK, CheckOK, Cementing, IsFlipped
<1>19. ASSUME visited' \subseteq Tris PROVE ArraysOK'
  <2>1. linkState' \in [Tris -> SUBSET (0 .. 7)]
    BY <1>2, <1>10
  <2>2. endpoint' \subseteq InUse
    BY <1>1, <1>2, <1>5 DEF ArraysOK
  <2> QED
    BY <1>1, <1>2, <1>9, <1>12, <1>19, <2>1, <2>2 DEF ArraysOK, MeshOK, InUse, checkVars
<1>20. CASE circleIndex = Top
  <2>1. pc' = "Expand" /\ visited' = all /\ tunnel' = tunnel
    BY <1>2, <1>20
  <2>2. Top' = Top /\ \A k : At(k)' = At(k) /\ Out(k)' = Out(k)
    BY <1>12, <2>1 DEF Top, At, Out, SuccessorIndex
  <2>3. ~IsSelected' /\ pc' \notin Cementing \cup {"Cement"}
    BY <1>4, <2>1 DEF IsSelected
  <2>4. PathOK'
    <3>1. Len(tunnel) >= 2
      BY <1>5
    <3> QED
      BY <1>1, <1>3, <1>4, <1>9, <1>12, <2>1, <2>2, <2>3, <3>1 DEF PathOK, InUse
  <2>5. StatesOK'
    <3>1. ASSUME NEW k \in 0 .. Top, k < Top
          PROVE  tunnelState'[At(k)'] \in Stacks(Permitted(k)')
      <4>1. k \in Nat /\ At(k) \in Tris
        BY <1>5
      <4>2. Permitted(k)' = Permitted(k)
        BY <1>2, <1>11, <2>2, <4>1, PermittedFrame
      <4>3. tunnelState[At(k)] \in Stacks(Permitted(k))
        BY <1>1, <1>3, <3>1 DEF StatesOK
      <4> QED
        BY <1>12, <2>2, <4>2, <4>3
    <3> QED
      BY <2>2, <2>3, <3>1 DEF StatesOK
  <2>6. VisitedOK'
    <3>1. visited' = ElementsOf(tunnel)'
      BY <1>14, <2>1 DEF ElementsOf
    <3> QED
      BY <1>4, <3>1 DEF VisitedOK
  <2>7. ArraysOK'
    BY <1>1, <1>5, <1>19, <2>1 DEF ArraysOK
  <2> QED
    BY <1>11, <1>15, <1>16, <1>17, <1>18, <2>4, <2>5, <2>6, <2>7 DEF IInv
<1>21. CASE circleIndex # Top
  <2>1. PICK c : c = circleIndex
    OBVIOUS
  <2>2. c \in 0 .. Top /\ c < Top /\ c + 1 \in 1 .. Len(tunnel) /\ MinOf(c, Top) = c
        /\ c + 1 < config.maxCount /\ (c + 1) - 1 = c
    <3>1. c \in Nat /\ c <= Top /\ config.maxCount \in Nat /\ Len(tunnel) <= config.maxCount
      BY <1>1, <1>3, <2>1, ConfigFields DEF CountersOK, CheckOK, ConfigOK, PathOK
    <3> QED
      BY <1>5, <1>21, <2>1, <3>1 DEF MinOf
  <2>3. /\ pc' = "Backtrack" /\ visited' = all \ {At(j) : j \in c + 1 .. Top}
        /\ tunnel' = SubSeq(tunnel, 1, c + 1)
    BY <1>2, <1>21, <2>1, <2>2 DEF BacktrackTo
  <2> DEFINE m == c + 1
  <2>4. m \in 1 .. Len(tunnel) /\ m - 1 = c /\ m < config.maxCount /\ tunnel' = SubSeq(tunnel, 1, m)
        /\ \A k \in 0 .. m - 1 : k \in 0 .. Top
    BY <1>5, <2>2, <2>3
  <2> HIDE DEF m
  <2>5. visited' = {At(k) : k \in 0 .. c}
    <3>1. ASSUME NEW t \in ElementsOf(tunnel), t \notin {At(j) : j \in c + 1 .. Top}
          PROVE  t \in {At(k) : k \in 0 .. c}
      <4>1. PICK j \in 0 .. Top : t = At(j)
        BY <1>5
      <4>2. j \notin c + 1 .. Top
        BY <3>1, <4>1
      <4>3. j \in 0 .. c
        BY <1>5, <2>2, <4>2
      <4> QED
        BY <4>1, <4>3
    <3>2. ASSUME NEW k \in 0 .. c
          PROVE  At(k) \in ElementsOf(tunnel) /\ At(k) \notin {At(j) : j \in c + 1 .. Top}
      <4>1. k \in 0 .. Top /\ \A j \in c + 1 .. Top : j \in 0 .. Top /\ j # k
        BY <1>5, <2>2
      <4> QED
        BY <1>5, <4>1
    <3> QED
      BY <1>14, <2>3, <3>1, <3>2
  <2>6. tunnelState'[At(m - 1)] \in Stacks(Permitted(m - 1))
    BY <1>1, <1>3, <1>12, <2>2, <2>4 DEF StatesOK
  <2>7. IsSelected'
    BY <2>3 DEF IsSelected
  <2>8. \A k \in 0 .. m - 1 : tunnelIndex'[At(k)] = k
    BY <1>5, <1>9, <2>4
  <2>9. PathOK' /\ StatesOK' /\ ElementsOf(tunnel)' = {At(k) : k \in 0 .. m - 1}
    BY <1>2, <1>3, <1>11, <1>12, <2>4, <2>6, <2>7, <2>8, PrefixPath
  <2>10. VisitedOK'
    BY <1>4, <2>4, <2>5, <2>9 DEF VisitedOK
  <2>11. visited' \subseteq Tris
    BY <1>5, <2>2, <2>5
  <2>12. ArraysOK'
    BY <1>19, <2>11
  <2> QED
    BY <1>11, <1>15, <1>16, <1>17, <1>18, <2>9, <2>10, <2>12 DEF IInv
<1> QED
  BY <1>20, <1>21

(* The list loses the ends that are inner triangles now, and only them.    *)
LEMMA StillListedKeeps ==
  ASSUME NEW list \in Seq(Tris), IsInjectiveList(list), NEW t \in ElementsOf(list)
  PROVE  /\ StillListed(list, t) \in Seq(Tris) /\ IsInjectiveList(StillListed(list, t))
         /\ ElementsOf(StillListed(list, t)) =
              IF t \in endpoint THEN ElementsOf(list) ELSE ElementsOf(list) \ {t}
BY ElementRemoved DEF StillListed

(* The next endpoint is found before the ends leave the list, but is never *)
(* one of them.                                                            *)
LEMMA NextStarter ==
  ASSUME NEW list \in Seq(Tris), IsInjectiveList(list),
         NEW a \in ElementsOf(list), NEW b \in ElementsOf(list), a # b
  PROVE  LET next == NextInList(a, list)
         IN  (IF next # b THEN next ELSE NextInList(b, list))
               \in (ElementsOf(list) \ {a, b}) \cup {Null}
<1>1. /\ NextInList(a, list) \in ElementsOf(list) \cup {Null} /\ NextInList(a, list) # a
      /\ NextInList(b, list) \in ElementsOf(list) \cup {Null} /\ NextInList(b, list) # b
  BY NextElement
<1>2. ASSUME NextInList(a, list) = b PROVE NextInList(b, list) # a
  <2>1. PlaceIn(b, list) = PlaceIn(a, list) + 1
    <3>1. \A i \in DOMAIN list : list[i] \in Tris
      OBVIOUS
    <3>2. b # Null
      BY <3>1 DEF Tris, Null, ElementsOf
    <3> QED
      BY <1>2, <3>2, NextElement
  <2>2. ASSUME NextInList(b, list) = a PROVE FALSE
    <3>1. PlaceIn(a, list) = PlaceIn(b, list) + 1
      <4>1. \A i \in DOMAIN list : list[i] \in Tris
        OBVIOUS
      <4>2. a # Null
        BY <4>1 DEF Tris, Null, ElementsOf
      <4> QED
        BY <2>2, <4>2, NextElement
    <3>2. PlaceIn(a, list) \in Nat
      <4>1. PICK i \in DOMAIN list : a = list[i]
        BY DEF ElementsOf
      <4> QED
        BY <4>1, PlaceOfElement
    <3> QED
      BY <2>1, <3>1, <3>2
  <2> QED
    BY <2>2
<1> QED
  BY <1>1, <1>2

(* The tunnel stays: the links as they are now are the settled ones, and   *)
(* the circle check has cleared the last visited flag.                     *)
LEMMA TunnelFoundIInv ==
  ASSUME IInv, TunnelFound
  PROVE  IInv'
<1>1. ArraysOK /\ CountersOK /\ VisitedOK /\ ListOK /\ LinksOK /\ PathOK /\ CheckOK /\ ConfigOK
  BY DEF IInv
<1> DEFINE second == At(Top)
           next == NextInList(first, endpoints)
<1>2. /\ pc = "Check" /\ step >= Top /\ hasFound' = TRUE /\ stripsCount' = stripsCount - 1
      /\ endpoints' = StillListed(StillListed(endpoints, first), second)
      /\ first' = IF first \in endpoint THEN first
                  ELSE IF next # second THEN next ELSE NextInList(second, endpoints)
      /\ pc' \in {"Endpoint", "PassEnd"} /\ (pc' = "Endpoint" => first' # Null)
      /\ UNCHANGED <<mesh, stripVars, config, limit, searchVars, checkVars>>
  BY DEF TunnelFound, ContinueWith
<1>3. /\ pc \in Cementing /\ IsFlipped /\ InTunnel
      /\ pc' \notin Cementing \cup Digging /\ pc' \in Quiet /\ ~InTunnel' /\ ~IsFlipped' /\ ~IsSelected'
      /\ pc' \notin {"Start", "Expand", "Flip", "Check", "Walk", "Cement"}
  BY <1>2 DEF Cementing, Digging, IsFlipped, InTunnel, IsSelected, Quiet
<1>4. /\ Top \in Nat /\ Top % 2 = 1 /\ step = Top + 1 /\ first = At(0) /\ first # second
      /\ \A k \in 0 .. Top : At(k) \in InUse /\ At(k) \in Tris
      /\ \A t \in ElementsOf(tunnel) : \E k \in 0 .. Top : t = At(k)
  <2>1. /\ Top \in Nat /\ Top % 2 = 1 /\ step \in Nat /\ step <= Top + 1 /\ step % 2 = 0
        /\ first = At(0)
        /\ \A j, k \in 0 .. Top : At(j) = At(k) => j = k
    BY <1>1, <1>3, PathFacts DEF PathOK, CheckOK, CountersOK
  <2>2. step = Top + 1 /\ 0 \in 0 .. Top /\ Top \in 0 .. Top /\ 0 # Top
    BY <1>2, <2>1
  <2> QED
    BY <1>3, <2>1, <2>2, PathFacts
<1>5. visited = {}
  <2>1. visited \subseteq ElementsOf(tunnel)
    BY <1>1, <1>3 DEF VisitedOK
  <2>2. \A k \in 0 .. Top : At(k) \notin visited
    BY <1>1, <1>2, <1>4 DEF CheckOK
  <2> QED
    BY <1>4, <2>1, <2>2
<1>6. endpoint # {}
  BY <1>1, <1>4 DEF ListOK
<1>7. /\ endpoints \in Seq(Tris) /\ IsInjectiveList(endpoints)
      /\ ElementsOf(endpoints) = endpoint \cup {first, second}
      /\ first \in ElementsOf(endpoints) /\ second \in ElementsOf(endpoints)
  BY <1>1, <1>3, <1>4 DEF ListOK, Endpoints
<1> HIDE DEF second
<1>8. /\ endpoints' \in Seq(Tris) /\ IsInjectiveList(endpoints') /\ ElementsOf(endpoints') = endpoint
  <2> DEFINE one == StillListed(endpoints, first)
  <2>1. /\ one \in Seq(Tris) /\ IsInjectiveList(one)
        /\ ElementsOf(one) = IF first \in endpoint THEN ElementsOf(endpoints)
                             ELSE ElementsOf(endpoints) \ {first}
    BY <1>7, StillListedKeeps
  <2>2. second \in ElementsOf(one)
    BY <1>4, <1>7, <2>1
  <2> HIDE DEF one
  <2>3. /\ StillListed(one, second) \in Seq(Tris) /\ IsInjectiveList(StillListed(one, second))
        /\ ElementsOf(StillListed(one, second)) =
             IF second \in endpoint THEN ElementsOf(one) ELSE ElementsOf(one) \ {second}
    BY <2>1, <2>2, StillListedKeeps
  <2>4. ElementsOf(StillListed(one, second)) = endpoint
    BY <1>4, <1>7, <2>1, <2>3
  <2> QED
    BY <1>2, <2>3, <2>4 DEF one
<1>9. first' \in endpoint \cup {Null}
  <2>1. (IF next # second THEN next ELSE NextInList(second, endpoints))
          \in (ElementsOf(endpoints) \ {first, second}) \cup {Null}
    BY <1>4, <1>7, NextStarter
  <2> QED
    BY <1>2, <1>7, <2>1
<1>10. /\ trisCount' = trisCount /\ neighbours' = neighbours /\ indices' = indices
       /\ linkState' = linkState /\ endpoint' = endpoint /\ tunnel' = tunnel /\ visited' = visited
       /\ config' = config /\ limit' = limit
  BY <1>2 DEF mesh, stripVars, searchVars
<1>11. Endpoints' = endpoint
  BY <1>3, <1>10 DEF Endpoints
<1>12. ArraysOK'
  BY <1>1, <1>2, <1>10 DEF ArraysOK, MeshOK, InUse, searchVars, checkVars
<1>13. CountersOK' /\ ConfigOK'
  <2>1. first' \in Tris \cup {Null}
    BY <1>1, <1>9, MaxTrisAssumption DEF ArraysOK, MeshOK, IsMesh, InUse, Tris
  <2>2. stripsCount' \in Int /\ hasFound' \in BOOLEAN
    BY <1>1, <1>2 DEF CountersOK
  <2> QED
    BY <1>1, <1>2, <1>3, <1>10, <2>1, <2>2 DEF CountersOK, ConfigOK, searchVars, checkVars
<1>14. ListOK'
  BY <1>2, <1>3, <1>6, <1>8, <1>9, <1>10, <1>11 DEF ListOK, ElementsOf
<1>15. PathOK' /\ StatesOK' /\ FlipOK' /\ CheckOK'
  <2>1. (tunnel \in Seq(Tris) /\ Len(tunnel) <= config.maxCount)'
    BY <1>1, <1>10 DEF PathOK
  <2> QED
    BY <1>3, <2>1 DEF PathOK, StatesOK, FlipOK, CheckOK
<1>16. VisitedOK'
  BY <1>3, <1>5, <1>10 DEF VisitedOK
<1>17. LinksOK'
  <2>1. Agree(Links) /\ endpoint = Ends(Links)
    BY <1>1, <1>3 DEF CheckOK
  <2>2. Agree(SettledLinks)' /\ LinksAgree'
    BY <1>3, <1>10, <2>1 DEF Agree, SettledLinks, IsSaved, Links, LinksAgree
  <2>3. (Ends(SettledLinks) = {t \in InUse : AtMostOne(Links(t))})'
    BY <1>3 DEF Ends, SettledLinks, IsSaved
  <2>4. {t \in InUse : AtMostOne(Links(t))}' = endpoint
    BY <1>10, <2>1 DEF Ends, InUse, AtMostOne, Links
  <2> QED
    BY <1>11, <2>2, <2>3, <2>4 DEF LinksOK
<1> QED
  BY <1>12, <1>13, <1>14, <1>15, <1>16, <1>17 DEF IInv

-----------------------------------------------------------------------------
(***************************************************************************)
(* Outside of a tunnel.                                                    *)
(***************************************************************************)
(* Unless a tunnel is being cemented, the settled links are the links.     *)
LEMMA SettledIsCurrent ==
  ASSUME pc \notin Cementing
  PROVE  \A t : SettledLinks(t) = Links(t)
BY DEF SettledLinks, IsSaved

(* A configuration that cancels cleanly does so after the truncation.      *)
LEMMA Truncated ==
  ASSUME NEW c \in ConfigSet, NEW n \in Nat, limit = 0,
         c.loopLimit = 0 \/ c.backtrackAfterLoopLimit \/ c.maxCount <= 3,
         config = [c EXCEPT !.maxCount = TruncatedMaxCount(@, n)]
  PROVE  ConfigOK
<1> DEFINE m == TruncatedMaxCount(c.maxCount, n)
<1>1. m \in Nat /\ 2 <= m /\ m <= 65535 /\ (c.maxCount <= 3 => m = 2)
  <2>1. c.maxCount \in Nat
    BY DEF ConfigSet
  <2> DEFINE a == MinOf(MinOf(c.maxCount, n), 65535)
  <2>2. a \in Nat /\ a <= 65535 /\ a <= c.maxCount
    BY <2>1 DEF MinOf
  <2>3. m = MaxOf((a \div 2) * 2, 2)
    BY DEF TruncatedMaxCount
  <2> HIDE DEF a, m
  <2>4. a \div 2 \in Nat /\ (a \div 2) * 2 <= a /\ (a \div 2) * 2 # 3
    BY <2>2
  <2> QED
    BY <2>1, <2>2, <2>3, <2>4 DEF MaxOf
<1>2. config = [c EXCEPT !.maxCount = m]
  OBVIOUS
<1> HIDE DEF m
<1>3. config.maxCount = m /\ config \in ConfigSet
      /\ config.loopLimit = c.loopLimit
      /\ config.backtrackAfterLoopLimit = c.backtrackAfterLoopLimit
  <2> DEFINE r == [c EXCEPT !.maxCount = m]
  <2>1. m \in Nat
    BY <1>1
  <2>2. r \in ConfigSet /\ r.maxCount = m /\ r.loopLimit = c.loopLimit
    BY <2>1, ConfigSetMaxCount
  <2>3. r.backtrackAfterLoopLimit = c.backtrackAfterLoopLimit
    BY <2>1, ConfigSetBacktrack
  <2>4. config = r
    BY <1>2
  <2> HIDE DEF r
  <2> QED
    BY <2>2, <2>3, <2>4
<1> QED
  BY <1>1, <1>3 DEF ConfigOK

(* The initial state is one to start from: every triangle is a strip.      *)
LEMMA InitReady ==
  ASSUME CancelsCleanly, Init
  PROVE  Ready
<1> USE MaxTrisAssumption
<1>1. MeshOK
  BY MeshesAssumption DEF Init, MeshOK
<1>2. trisCount \in Tris /\ trisCount \in Nat /\ trisCount >= 1 /\ InUse \subseteq Tris
  BY <1>1 DEF MeshOK, IsMesh, Tris, InUse
<1>3. \A t \in Tris : Links(t) = {}
  BY DEF Init, Links, LinksOf
<1>4. pc = "Start" /\ Untouched
  BY DEF Init, Untouched
<1>5. ConfigOK
  <2>1. PICK c \in Configs : config = [c EXCEPT !.maxCount = TruncatedMaxCount(@, trisCount)]
    BY DEF Init
  <2>2. c \in ConfigSet
    BY ConfigsAssumption
  <2>3. c.loopLimit = 0 \/ c.backtrackAfterLoopLimit \/ c.maxCount <= 3
    BY DEF CancelsCleanly
  <2>4. limit = 0
    BY DEF Init
  <2> QED
    BY <1>2, <2>1, <2>2, <2>3, <2>4, Truncated
<1>6. tunnelState \in [Tris -> Byte]
  <2>1. \A t \in Tris : NeighboursCount(t) \in Byte
    <3> SUFFICES ASSUME NEW t \in Tris PROVE NeighboursCount(t) \in Byte
      OBVIOUS
    <3>1. IsFiniteSet(Dir) /\ Cardinality(Dir) = 3
      <4>1. IsFiniteSet(0 .. 2) /\ Cardinality(0 .. 2) = IF 0 > 2 THEN 0 ELSE 2 - 0 + 1
        BY FS_Interval, 0 \in Int, 2 \in Int
      <4> QED
        BY <4>1 DEF Dir
    <3>2. LET S == {d \in Dir : neighbours[t][d] # Null}
          IN  Cardinality(S) <= 3 /\ Cardinality(S) \in Nat
      BY <3>1, FS_Subset, FS_CardinalityType
    <3> QED
      BY <3>1, <3>2 DEF NeighboursCount, Byte
  <2>2. tunnelState = [t \in Tris |-> NeighboursCount(t)]
    BY DEF Init
  <2> QED
    BY <2>1, <2>2
<1>7. linkState \in [Tris -> SUBSET Dir] /\ stripsCount \in Nat
  BY <1>2 DEF Init
<1>8. Agree(Links) /\ Circles(Links) = {} /\ endpoint = Ends(Links)
  <2>1. Agree(Links)
    BY <1>3 DEF Agree, Dir
  <2>2. Circles(Links) = {}
    BY <1>2, <1>3 DEF Circles, AtMostOne
  <2>3. endpoint = InUse
    BY DEF Init, InUse
  <2> QED
    BY <1>2, <1>3, <2>1, <2>2, <2>3 DEF Ends, AtMostOne
<1>9. /\ endpoints \in Seq(Tris) /\ IsInjectiveList(endpoints)
      /\ ElementsOf(endpoints) = endpoint
  <2>1. endpoints = [i \in 1 .. trisCount |-> trisCount + 1 - i] /\ endpoint = InUse
    BY DEF Init, InUse
  <2>2. endpoints \in Seq(Tris) /\ DOMAIN endpoints = 1 .. trisCount
    BY <1>2, <2>1 DEF Tris
  <2>3. ElementsOf(endpoints) = InUse
    <3>1. \A i \in InUse : trisCount + 1 - i \in DOMAIN endpoints
                           /\ endpoints[trisCount + 1 - i] = i
      BY <1>2, <2>1 DEF InUse
    <3>2. \A i \in DOMAIN endpoints : endpoints[i] \in InUse
      BY <1>2, <2>1 DEF InUse
    <3> QED
      BY <3>1, <3>2 DEF ElementsOf
  <2>4. IsInjectiveList(endpoints)
    BY <1>2, <2>1 DEF IsInjectiveList
  <2> QED
    BY <2>1, <2>2, <2>3, <2>4
<1>10. Cardinality(Places(LinksNow, InUse)) = 2 * stripsCount
  <2> DEFINE links == LinksNow
  <2>1. IsFiniteSet(InUse) /\ Cardinality(InUse) = trisCount
    BY <1>2, FS_Interval DEF InUse
  <2>2. stripsCount = trisCount
    BY DEF Init
  <2>3. \A t \in InUse : links[t] = {}
    BY <1>2, <1>3 DEF LinksNow
  <2> HIDE DEF links
  <2>4. \A t \in InUse : links[t] \in SUBSET Dir /\ \E d \in Dir : d \notin links[t]
    BY <2>3 DEF Dir
  <2>5. Cardinality(Places(links, InUse)) + Cardinality(SidesOf(links, InUse)) = 2 * Cardinality(InUse)
        /\ IsFiniteSet(Places(links, InUse))
    BY <2>1, <2>4, PlacesAndSides
  <2>6. SidesOf(links, InUse) = {}
    BY <2>3 DEF SidesOf
  <2>7. Cardinality(SidesOf(links, InUse)) = 0
    BY <2>6, FS_EmptySet, Zenon
  <2>8. Cardinality(Places(links, InUse)) \in Nat
    BY <2>5, FS_CardinalityType
  <2>9. Cardinality(Places(links, InUse)) = 2 * stripsCount
    BY <1>2, <2>1, <2>2, <2>5, <2>7, <2>8
  <2> QED
    BY <2>9 DEF links
<1> QED
  BY <1>1, <1>4, <1>5, <1>6, <1>7, <1>8, <1>9, <1>10 DEF Ready

(* Strips without circles have ends.                                       *)
LEMMA ReadyHasEnds ==
  ASSUME Ready
  PROVE  endpoint # {}
<1>1. MeshOK /\ Agree(Links) /\ Circles(Links) = {} /\ endpoint = Ends(Links)
  BY DEF Ready
<1>2. InUse \subseteq Tris /\ InUse # {} /\ InUse \in SUBSET InUse
  <2>1. trisCount \in Nat /\ trisCount >= 1 /\ trisCount <= MaxTris
    BY <1>1, MaxTrisAssumption DEF MeshOK, IsMesh, Tris
  <2>2. 1 \in InUse /\ InUse \subseteq Tris
    BY <2>1, MaxTrisAssumption DEF InUse, Tris
  <2> QED
    BY <2>2
<1>3. PICK t \in InUse : AtMostOne({d \in Links(t) : neighbours[t][d] \in InUse})
  BY <1>1, <1>2 DEF Circles
<1>4. \A d \in Links(t) : neighbours[t][d] \in InUse
  <2>1. Links(t) \in SUBSET Dir /\ t \in Tris
    BY <1>2, LinksArePositions
  <2> QED
    BY <1>1, <2>1, EdgeFacts DEF Agree
<1>5. {d \in Links(t) : neighbours[t][d] \in InUse} = Links(t)
  BY <1>4
<1> QED
  BY <1>1, <1>3, <1>5 DEF Ends

(* The invariant holds where tunneling starts.                             *)
LEMMA ReadyIInv ==
  ASSUME Ready
  PROVE  IInv
<1> USE MaxTrisAssumption DEF Quiet, Digging, Cementing, InTunnel, IsSelected, IsFlipped
<1>1. /\ pc = "Start" /\ Untouched /\ ConfigOK
      /\ MeshOK /\ linkState \in [Tris -> SUBSET Dir] /\ tunnelState \in [Tris -> Byte]
      /\ Agree(Links) /\ stripsCount \in Nat /\ endpoint = Ends(Links)
      /\ endpoints \in Seq(Tris) /\ IsInjectiveList(endpoints)
      /\ ElementsOf(endpoints) = endpoint
  BY DEF Ready
<1>2. trisCount \in Tris /\ trisCount \in Nat /\ trisCount >= 1 /\ InUse \subseteq Tris
  BY <1>1 DEF MeshOK, IsMesh, Tris, InUse
<1>3. \A t : SettledLinks(t) = Links(t)
  BY <1>1, SettledIsCurrent
<1>4. ArraysOK
  <2>1. linkState \in [Tris -> SUBSET (0 .. 7)] /\ tunnelIndex \in [Tris -> UInt16]
    BY <1>1 DEF Untouched, UInt16, Dir
  <2>2. endpoint \subseteq InUse
    BY <1>1 DEF Ends
  <2> QED
    BY <1>1, <1>2, <2>1, <2>2 DEF ArraysOK, Untouched
<1>5. CountersOK
  <2>1. /\ hasFound = FALSE /\ first = Null /\ loopCount = 0 /\ step = 0
        /\ circleIndex = 0 /\ walker = Null /\ backIndex = 0
    BY <1>1 DEF Untouched
  <2>2. 0 \in Byte
    BY DEF Byte
  <2>3. hasFound \in BOOLEAN
    BY <2>1, Zenon
  <2>4. stripsCount \in Int
    BY <1>1
  <2> QED
    BY <1>1, <2>1, <2>2, <2>3, <2>4 DEF CountersOK
<1>6. ListOK
  <2>1. endpoint # {}
    BY ReadyHasEnds
  <2> QED
    BY <1>1, <2>1 DEF ListOK, Endpoints
<1>7. PathOK /\ StatesOK /\ VisitedOK /\ FlipOK /\ CheckOK
  <2>1. tunnel \in Seq(Tris) /\ Len(tunnel) = 0 /\ tunnel = <<>> /\ visited = {}
    BY <1>1 DEF Untouched
  <2>2. Len(tunnel) <= config.maxCount
    BY <1>1, <2>1, ConfigFields DEF ConfigOK
  <2> QED
    BY <1>1, <2>1, <2>2 DEF PathOK, StatesOK, VisitedOK, FlipOK, CheckOK
<1>8. LinksOK
  <2>1. Agree(SettledLinks) /\ Ends(SettledLinks) = Ends(Links)
    BY <1>1, <1>3 DEF Agree, Ends
  <2>2. LinksAgree
    BY <1>1 DEF Agree, LinksAgree
  <2> QED
    BY <1>1, <2>1, <2>2 DEF LinksOK, Endpoints
<1> QED
  BY <1>1, <1>4, <1>5, <1>6, <1>7, <1>8 DEF IInv

-----------------------------------------------------------------------------
(***************************************************************************)
(* The invariant holds in every reachable state.                           *)
(***************************************************************************)
(* Nothing changes: nothing can be violated.                               *)
LEMMA StutterIInv ==
  ASSUME IInv, UNCHANGED vars
  PROVE  IInv'
<1>1. /\ UNCHANGED <<trisCount, neighbours, indices, linkState, endpoint>>
      /\ UNCHANGED <<config, limit, endpoints, stripsCount, hasFound, first, pc>>
      /\ UNCHANGED <<tunnel, tunnelState, tunnelIndex, visited, loopCount>>
      /\ UNCHANGED <<isolated, step, walker, backIndex, circleIndex>>
  BY DEF vars, mesh, stripVars, passVars, searchVars, checkVars
<1>2. ArraysOK' /\ CountersOK' /\ ConfigOK'
  BY <1>1 DEF IInv, ArraysOK, CountersOK, ConfigOK, MeshOK, InUse
<1>3. /\ Top' = Top /\ Endpoints' = Endpoints /\ Flipped' = Flipped
      /\ \A k : At(k)' = At(k) /\ Out(k)' = Out(k) /\ Back(k)' = Back(k)
  BY <1>1 DEF Top, Endpoints, Flipped, IsFlipped, At, Out, Back, SuccessorIndex
<1>4. /\ \A t : Links(t)' = Links(t) /\ SettledLinks(t)' = SettledLinks(t)
      /\ \A k : Permitted(k)' = Permitted(k)
  BY <1>1 DEF Links, SettledLinks, IsSaved, At, Top, Permitted
<1>5. ListOK' /\ PathOK' /\ StatesOK' /\ VisitedOK'
  <2>1. ListOK'
    BY <1>1, <1>3 DEF IInv, ListOK, ElementsOf, InTunnel, IsFlipped
  <2>2. PathOK'
    BY <1>1, <1>3 DEF IInv, PathOK, InTunnel, IsSelected, InUse, Out, At, SuccessorIndex, Top
  <2>3. StatesOK'
    BY <1>1, <1>3, <1>4 DEF IInv, StatesOK, InTunnel, IsSelected
  <2>4. VisitedOK'
    BY <1>1 DEF IInv, VisitedOK, IsFlipped, ElementsOf
  <2> QED
    BY <2>1, <2>2, <2>3, <2>4
<1>6. LinksOK'
  BY <1>1, <1>3
     DEF IInv, LinksOK, Agree, Ends, AtMostOne, InUse, LinksAgree, Links, SettledLinks, IsSaved, At, Top
<1>7. FlipOK'
  <2>1. \A k : Links(At(k))' = Links(At(k)) /\ SettledLinks(At(k))' = SettledLinks(At(k))
    BY <1>1, <1>3 DEF Links, SettledLinks, IsSaved, At, Top
  <2>2. At(0)' = At(0) /\ At(Top)' = At(Top)
    BY <1>1 DEF At, Top
  <2>3. {t \in {At(0), At(Top)} : SettledLinks(t) = {}}' = {t \in {At(0), At(Top)} : SettledLinks(t) = {}}
    BY <1>4, <2>2
  <2> QED
    BY <1>1, <1>3, <2>1, <2>3 DEF IInv, FlipOK
<1>8. CheckOK'
  <2>1. (Agree(Links) <=> Agree(Links)') /\ Ends(Links)' = Ends(Links)
    BY <1>1 DEF Agree, Ends, AtMostOne, InUse, Links
  <2>2. (IsFlipped <=> IsFlipped') /\ Links(walker)' = Links(walker) /\ InUse' = InUse
        /\ At(step)' = At(step) /\ At(step + 1)' = At(step + 1)
    BY <1>1 DEF IsFlipped, Links, InUse, At
  <2> QED
    BY <1>1, <1>3, <2>1, <2>2 DEF IInv, CheckOK
<1> QED
  BY <1>2, <1>5, <1>6, <1>7, <1>8 DEF IInv

(* Every step keeps the invariant.                                         *)
LEMMA NextIInv ==
  ASSUME IInv, [Next]_vars
  PROVE  IInv'
<1>1. CASE StartTunneling BY <1>1, StartTunnelingIInv
<1>2. CASE StartPass BY <1>2, StartPassIInv
<1>3. CASE EndPass BY <1>3, EndPassIInv
<1>4. CASE StopAtDestCount BY <1>4, StopAtDestCountIInv
<1>5. CASE StartDig BY <1>5, StartDigIInv
<1>6. CASE TunnelFound BY <1>6, TunnelFoundIInv
<1>7. CASE CancelDig BY <1>7, CancelDigIInv
<1>8. CASE RetreatDig BY <1>8, RetreatDigIInv
<1>9. CASE Push BY <1>9, PushIInv
<1>10. CASE ExpandTunnel BY <1>10, ExpandTunnelIInv
<1>11. CASE BacktrackTunnel BY <1>11, BacktrackTunnelIInv
<1>12. CASE RetreatTunnel BY <1>12, RetreatTunnelIInv
<1>13. CASE StartCement BY <1>13, StartCementIInv
<1>14. CASE FlipEdge BY <1>14, FlipEdgeIInv
<1>15. CASE UnmarkEndpoints BY <1>15, UnmarkEndpointsIInv
<1>16. CASE UndoTunnel BY <1>16, UndoTunnelIInv
<1>17. CASE StartWalk BY <1>17, StartWalkIInv
<1>18. CASE SkipStarter BY <1>18, SkipStarterIInv
<1>19. CASE WalkOn BY <1>19, WalkOnIInv
<1>20. CASE EndWalk BY <1>20, EndWalkIInv
<1>21. CASE UNCHANGED vars BY <1>21, StutterIInv
<1>22. CASE Finished BY <1>22, StutterIInv DEF Finished
<1> QED
  BY <1>1, <1>2, <1>3, <1>4, <1>5, <1>6, <1>7, <1>8, <1>9, <1>10, <1>11, <1>12, <1>13, <1>14,
     <1>15, <1>16, <1>17, <1>18, <1>19, <1>20, <1>21, <1>22 DEF Next, Step

(* The inductive invariant holds in every reachable state of a tunneling   *)
(* that cancels no search in the middle.                                   *)
THEOREM IInvHolds ==
  ASSUME CancelsCleanly
  PROVE  Spec => []IInv
<1>1. Init => IInv
  BY InitReady, ReadyIInv
<1>2. IInv /\ [Next]_vars => IInv'
  BY NextIInv
<1> QED
  BY <1>1, <1>2, PTL DEF Spec

-----------------------------------------------------------------------------
(* The invariant contains the types ...                                    *)
LEMMA IInvTypeOK ==
  ASSUME IInv
  PROVE  TypeOK
<1>1. ArraysOK /\ CountersOK /\ ConfigOK /\ ListOK /\ PathOK
  BY DEF IInv
<1>2. InUse \subseteq Tris
  BY <1>1, MaxTrisAssumption DEF ArraysOK, MeshOK, IsMesh, InUse, Tris
<1>3. MeshOK /\ StripTypeOK
  BY <1>1, <1>2 DEF ArraysOK, StripTypeOK
<1> QED
  BY <1>1, <1>3 DEF TypeOK, ArraysOK, CountersOK, ConfigOK, ListOK, PathOK

(***************************************************************************)
(* What the invariant says of the program.                                 *)
(***************************************************************************)
(* Every variable holds what its C field can hold: no triangle of a tunnel *)
(* lies outside of the array, no index of the stack outside of its         *)
(* allocation, and no selected position outside of a triangle.             *)
THEOREM TypesHold ==
  ASSUME CancelsCleanly
  PROVE  Spec => []TypeOK
<1>1. IInv => TypeOK
  BY IInvTypeOK
<1> QED
  BY <1>1, IInvHolds, PTL

(* ... what the code asserts ...                                           *)
LEMMA IInvAssertions ==
  ASSUME IInv
  PROVE  AssertionsHold
<1>1. CountersOK /\ ConfigOK /\ ListOK /\ PathOK /\ StatesOK /\ VisitedOK /\ CheckOK
  BY DEF IInv
<1>2. pc = "Endpoint" => first \in endpoint
  BY <1>1 DEF ListOK, Endpoints, IsFlipped
<1>3. ASSUME AboutToPush
      PROVE  /\ Top < config.maxCount - 1
             /\ SuccessorIndex(At(Top)) \in Dir
             /\ neighbours[At(Top)][SuccessorIndex(At(Top))] \notin visited
  <2>1. pc \in Digging /\ InTunnel /\ IsSelected
    BY <1>3 DEF AboutToPush, Digging, InTunnel, IsSelected
  <2>2. /\ Top \in Nat /\ Top \in 0 .. Top /\ Len(tunnel) = Top + 1 /\ Len(tunnel) < config.maxCount
        /\ config.maxCount \in Nat
        /\ \A t \in ElementsOf(tunnel) : \E k \in 0 .. Top : t = At(k)
    BY <1>1, <2>1, PathFacts, ConfigFields DEF PathOK, ConfigOK
  <2>3. tunnelState[At(Top)] \in Stacks(Permitted(Top)) /\ Permitted(Top) \in SUBSET Dir
    BY <1>1, <2>1, <2>2 DEF StatesOK, Permitted
  <2>4. Out(Top) \in Permitted(Top) /\ Out(Top) = SuccessorIndex(At(Top))
    BY <2>3, StackSelects DEF Out, SuccessorIndex
  <2>5. visited = ElementsOf(tunnel)
    BY <1>1, <2>1 DEF VisitedOK
  <2> QED
    BY <2>2, <2>4, <2>5 DEF Permitted
<1>4. pc = "Expand" => Top >= 1
  BY <1>1 DEF PathOK, Top
<1>5. pc = "Undo" => circleIndex <= Top
  BY <1>1 DEF CheckOK, IsFlipped
<1>6. pc = "Cement" => At(0) \in endpoint /\ Top % 2 = 1 /\ At(Top) \in endpoint
  BY <1>1 DEF PathOK, ListOK, Endpoints, IsFlipped, InTunnel, Digging
<1>7. ASSUME pc \in {"Flip", "Check"}, step < Top
      PROVE  /\ SuccessorIndex(At(step)) \in Dir
             /\ At(step + 1) = neighbours[At(step)][SuccessorIndex(At(step))]
  <2>1. InTunnel /\ step \in Nat
    BY <1>1, <1>7 DEF InTunnel, Cementing, CountersOK
  <2>2. Top \in Nat
    BY <2>1, PathFacts
  <2>3. step \in 0 .. Top - 1
    BY <1>7, <2>1, <2>2
  <2> QED
    BY <2>1, <2>3, TunnelEdge DEF Out
<1>8. pc # "Exit"
  BY <1>1 DEF CountersOK, Quiet, Digging, Cementing
<1> QED
  BY <1>2, <1>3, <1>4, <1>5, <1>6, <1>7, <1>8 DEF AssertionsHold

(* No rm_assert of the tunneling code fires and rm_exit is never called: a *)
(* walk never comes to an inner triangle that it cannot leave, a push never*)
(* meets a visited triangle, and each flip finds the edge that the search  *)
(* chose.                                                                  *)
THEOREM NoAssertionFires ==
  ASSUME CancelsCleanly
  PROVE  Spec => []AssertionsHold
<1>1. IInv => AssertionsHold
  BY IInvAssertions
<1> QED
  BY <1>1, IInvHolds, PTL

(* ... that the links agree ...                                            *)
LEMMA IInvLinksAgree ==
  ASSUME IInv
  PROVE  LinksAgree
BY DEF IInv, LinksOK

(* The two sides of every linked edge agree in every state, half-flipped   *)
(* tunnels included.                                                       *)
THEOREM LinksAlwaysAgree ==
  ASSUME CancelsCleanly
  PROVE  Spec => []LinksAgree
<1>1. IInv => LinksAgree
  BY IInvLinksAgree
<1> QED
  BY <1>1, IInvHolds, PTL

(* ... that the list, the flags and the links agree ...                    *)
LEMMA IInvEndpointList ==
  ASSUME IInv
  PROVE  EndpointList
<1>1. ListOK /\ LinksOK
  BY DEF IInv
<1>2. ASSUME pc \notin Cementing
      PROVE  endpoint = {t \in InUse : Cardinality(Links(t)) <= 1}
  <2>1. endpoint = Ends(SettledLinks)
    BY <1>1, <1>2 DEF LinksOK, Endpoints, IsFlipped, Cementing
  <2>2. \A t : SettledLinks(t) = Links(t)
    BY <1>2, SettledIsCurrent
  <2>3. \A t : Cardinality(Links(t)) <= 1 <=> AtMostOne(Links(t))
    BY AtMostOneLink, LinksAreDirs
  <2> QED
    BY <2>1, <2>2, <2>3 DEF Ends
<1>3. pc \in Quiet => ElementsOf(endpoints) = endpoint
  BY <1>1 DEF ListOK, Endpoints, IsFlipped, Quiet
<1>4. \A i, j \in DOMAIN endpoints : i # j => endpoints[i] # endpoints[j]
  BY <1>1 DEF ListOK, IsInjectiveList
<1> QED
  BY <1>2, <1>3, <1>4 DEF EndpointList

(* Outside of cementing the flagged triangles are the ends of the strips,  *)
(* and between the tunnels the list that create_strips_from_endpoints and  *)
(* the passes walk along holds exactly them, once each.                    *)
THEOREM ListFollowsFlags ==
  ASSUME CancelsCleanly
  PROVE  Spec => []EndpointList
<1>1. IInv => EndpointList
  BY IInvEndpointList
<1> QED
  BY <1>1, IInvHolds, PTL

(* ... that the visited flags are the tunnel ...                           *)
LEMMA IInvVisitedIsTunnel ==
  ASSUME IInv
  PROVE  VisitedIsTunnel
BY DEF IInv, VisitedOK, VisitedIsTunnel

(* While a tunnel is being dug, exactly its triangles are visited; when    *)
(* the search is over, however it ended, none is.                          *)
THEOREM FlagsFollowTunnel ==
  ASSUME CancelsCleanly
  PROVE  Spec => []VisitedIsTunnel
<1>1. IInv => VisitedIsTunnel
  BY IInvVisitedIsTunnel
<1> QED
  BY <1>1, IInvHolds, PTL

(* ... and that the tunnel alternates.                                     *)
LEMMA IInvTunnelAlternates ==
  ASSUME IInv
  PROVE  TunnelAlternates
<1> SUFFICES ASSUME IInv, pc \in Digging
             PROVE  /\ At(0) = first /\ first \in endpoint
                    /\ \A j, k \in 0 .. Top : j # k => At(j) # At(k)
                    /\ \A k \in 0 .. Top - 1 :
                         LET d == SuccessorIndex(At(k))
                         IN  /\ d \in Dir /\ neighbours[At(k)][d] = At(k + 1)
                             /\ (d \in Links(At(k))) = (k % 2 = 1)
  BY DEF TunnelAlternates
<1>1. ListOK /\ PathOK /\ InTunnel /\ pc \notin Cementing /\ ~IsFlipped
  BY DEF IInv, InTunnel, IsFlipped, Cementing, Digging
<1>2. At(0) = first /\ first \in endpoint
  BY <1>1 DEF PathOK, ListOK, Endpoints
<1>3. \A j, k \in 0 .. Top : j # k => At(j) # At(k)
  BY <1>1, PathFacts
<1>4. ASSUME NEW k \in 0 .. Top - 1
      PROVE  /\ SuccessorIndex(At(k)) \in Dir
             /\ neighbours[At(k)][SuccessorIndex(At(k))] = At(k + 1)
             /\ SuccessorIndex(At(k)) \in Links(At(k)) <=> k % 2 = 1
  <2>1. SettledLinks(At(k)) = Links(At(k))
    BY <1>1, SettledIsCurrent
  <2> QED
    BY <1>1, <2>1, TunnelEdge DEF Out
<1> QED
  BY <1>2, <1>3, <1>4

(* The stack is a simple path from an endpoint whose edges are in turn     *)
(* unlinked and linked, however often the search backtracks.               *)
THEOREM PathsAlternate ==
  ASSUME CancelsCleanly
  PROVE  Spec => []TunnelAlternates
<1>1. IInv => TunnelAlternates
  BY IInvTunnelAlternates
<1> QED
  BY <1>1, IInvHolds, PTL

-----------------------------------------------------------------------------
(***************************************************************************)
(* The circle check decides as it should.                                  *)
(***************************************************************************)
(* The links of a circle check: no triangle of it has a third link.        *)
LEMMA FlippedSettled ==
  ASSUME pc \in Cementing, pc = "Flip" => step = Top, IsFlipped',
         UNCHANGED <<linkState, tunnel>>
  PROVE  \A t \in Tris : SettledLinks(t)' = SettledLinks(t)
<1>1. /\ Top' = Top /\ linkState' = linkState /\ \A k : At(k)' = At(k)
      /\ pc' \in Cementing /\ pc' # "Flip"
  BY DEF Top, At, IsFlipped, Cementing
<1>2. ASSUME NEW t \in Tris
      PROVE  /\ IsSaved(t) <=> \E k \in 0 .. Top : At(k) = t
             /\ IsSaved(t)' <=> \E k \in 0 .. Top : At(k) = t
  BY <1>1 DEF IsSaved
<1> QED
  BY <1>1, <1>2 DEF SettledLinks, Links

(* Only a found tunnel changes the settled links.                          *)
LEMMA SettledStays ==
  ASSUME IInv, [Next]_vars, ~TunnelFound
  PROVE  /\ UNCHANGED <<mesh, stripsCount>>
         /\ \A t \in Tris : SettledLinks(t)' = SettledLinks(t)
<1>1. ASSUME pc \notin Cementing, pc' \notin Cementing, UNCHANGED stripVars
      PROVE  \A t \in Tris : SettledLinks(t)' = SettledLinks(t)
  BY <1>1, SettledFrame DEF stripVars
<1> USE DEF passVars, searchVars, Cementing
<1>2. CASE StartTunneling BY <1>1, <1>2 DEF StartTunneling
<1>3. CASE StartPass BY <1>1, <1>3 DEF StartPass
<1>4. CASE EndPass BY <1>1, <1>4 DEF EndPass
<1>5. CASE StopAtDestCount BY <1>1, <1>5 DEF StopAtDestCount
<1>6. CASE StartDig
  <2>1. pc = "Endpoint" /\ pc' \in {"Endpoint", "PassEnd", "Dig"}
        /\ UNCHANGED <<mesh, stripVars, stripsCount>>
    BY <1>6 DEF StartDig, DigFailed, ContinueWith
  <2> QED
    BY <1>1, <2>1
<1>7. CASE CancelDig BY <1>1, <1>7 DEF CancelDig, DigFailed, ContinueWith
<1>8. CASE RetreatDig BY <1>1, <1>8 DEF RetreatDig, BacktrackTo
<1>9. CASE Push BY <1>1, <1>9 DEF Push
<1>10. CASE ExpandTunnel
  <2>1. pc = "Expand" /\ pc' \in {"Backtrack", "Dig"}
        /\ UNCHANGED <<mesh, stripVars, stripsCount>>
    BY <1>10 DEF ExpandTunnel, BacktrackTo
  <2> QED
    BY <1>1, <2>1
<1>11. ASSUME NEW label \in {"Backtrack", "Retreat"}, NEW resume \in {"Dig", "Push"},
              Backtrack(label, resume)
       PROVE  /\ UNCHANGED <<mesh, stripsCount>>
              /\ \A t \in Tris : SettledLinks(t)' = SettledLinks(t)
  <2>1. pc = label /\ pc' \in {resume, "Endpoint", "PassEnd", pc}
        /\ UNCHANGED <<mesh, stripVars, stripsCount>>
    BY <1>11 DEF Backtrack, DigFailed, ContinueWith
  <2> QED
    BY <1>1, <2>1
<1>12. CASE BacktrackTunnel BY <1>11, <1>12 DEF BacktrackTunnel
<1>13. CASE RetreatTunnel BY <1>11, <1>13 DEF RetreatTunnel
<1>14. CASE StartCement BY <1>14, StartCementIInv DEF StartCement
<1>15. CASE FlipEdge BY <1>15, FlipEdgeIInv DEF FlipEdge
<1>16. CASE UndoTunnel BY <1>16, UndoTunnelIInv DEF UndoTunnel
<1>17. CASE UnmarkEndpoints BY <1>17, FlippedSettled DEF UnmarkEndpoints, IsFlipped
<1>18. CASE StartWalk BY <1>18, FlippedSettled DEF StartWalk, IsFlipped, stripVars
<1>19. CASE SkipStarter BY <1>19, FlippedSettled DEF SkipStarter, IsFlipped, stripVars
<1>20. CASE WalkOn
  <2>1. pc = "Walk" /\ walker \notin endpoint
    BY <1>20 DEF WalkOn
  <2>2. StripDirs(walker, backIndex) # {}
    BY <2>1, WalkDirection
  <2>3. pc' \in {"Walk", "Undo"} /\ UNCHANGED <<mesh, stripVars, stripsCount, tunnel>>
    BY <1>20, <2>2 DEF WalkOn
  <2> QED
    BY <2>1, <2>3, FlippedSettled DEF IsFlipped, stripVars
<1>21. CASE EndWalk BY <1>21, FlippedSettled DEF EndWalk, IsFlipped, stripVars
<1>22. CASE UNCHANGED vars
  <2>1. /\ linkState' = linkState /\ tunnel' = tunnel /\ step' = step /\ pc' = pc
        /\ UNCHANGED <<mesh, stripsCount>>
    BY <1>22 DEF vars, stripVars, checkVars
  <2> QED
    BY <2>1 DEF SettledLinks, IsSaved, Links, At, Top
<1>23. CASE Finished BY <1>22, <1>23 DEF Finished
<1> QED
  BY <1>2, <1>3, <1>4, <1>5, <1>6, <1>7, <1>8, <1>9, <1>10, <1>12, <1>13, <1>14, <1>15,
     <1>16, <1>17, <1>18, <1>19, <1>20, <1>21, <1>22, <1>23 DEF Next, Step

(* All links of a triangle of a circle lead along the circle, those of the *)
(* other triangles past it.                                                *)
LEMMA CircleFacts ==
  ASSUME IInv, IsFlipped, NEW S \in Circles(Links), NEW t \in InUse
  PROVE  /\ t \in S => t \notin endpoint
         /\ \A d \in Links(t) : neighbours[t][d] \in S <=> t \in S
<1>1. ArraysOK /\ CheckOK /\ Agree(Links) /\ endpoint = Ends(Links) /\ MeshOK
  BY DEF IInv, CheckOK, ArraysOK
<1>2. InUse \subseteq Tris
  BY <1>1, MaxTrisAssumption DEF MeshOK, IsMesh, InUse, Tris
<1>3. ASSUME NEW u \in S
      PROVE  ~AtMostOne(Links(u)) /\ \A d \in Links(u) : neighbours[u][d] \in S
  <2> DEFINE D == {d \in Links(u) : neighbours[u][d] \in S}
  <2>1. u \in Tris /\ Links(u) \in SUBSET Dir /\ \E d \in Dir : d \notin Links(u)
    BY <1>1, <1>2, LinksAreDirs DEF Agree, Circles
  <2>2. ~AtMostOne(D)
    BY DEF Circles
  <2>3. D \in SUBSET Links(u)
    OBVIOUS
  <2>4. D = Links(u)
    <3> HIDE DEF D
    <3> QED
      BY <2>1, <2>2, <2>3, TwoLinks
  <2> QED
    BY <2>2, <2>4
<1>4. ASSUME NEW d \in Links(t), neighbours[t][d] \in S PROVE t \in S
  <2>1. t \in Tris /\ d \in Dir /\ neighbours[t][d] # Null
        /\ indices[t][d] \in Links(neighbours[t][d])
    BY <1>1, <1>2, <1>4, LinksAreDirs DEF Agree
  <2>2. neighbours[neighbours[t][d]][indices[t][d]] = t
    BY <1>1, <2>1, EdgeFacts
  <2> QED
    BY <1>3, <1>4, <2>1, <2>2
<1> QED
  BY <1>1, <1>3, <1>4 DEF Ends

(* The circles do not change while the links do not.                       *)
LEMMA CirclesFrame ==
  ASSUME UNCHANGED <<mesh, linkState>>
  PROVE  /\ Circles(Links)' = Circles(Links)
         /\ \A t : StripOf(t)' = StripOf(t)
         /\ \A t : Links(t)' = Links(t)
BY DEF Circles, Links, mesh, InUse, AtMostOne, StripOf, Enclosed

(* No circle in the settled links: with the settled links as they were, or *)
(* because the check has found none.                                       *)
LEMMA SettledHaveNoCircle ==
  ASSUME IInv, CirclesOK, [Next]_vars
  PROVE  Circles(SettledLinks)' = {}
<1>1. ArraysOK /\ MeshOK
  BY DEF IInv, ArraysOK
<1>2. InUse \subseteq Tris
  BY <1>1, MaxTrisAssumption DEF MeshOK, IsMesh, InUse, Tris
<1>3. CASE ~TunnelFound
  <2>1. /\ trisCount' = trisCount /\ neighbours' = neighbours
        /\ \A t \in Tris : SettledLinks(t)' = SettledLinks(t)
    BY <1>3, SettledStays DEF mesh
  <2>2. \A S \in SUBSET InUse : \A t \in S : t \in Tris
    BY <1>2
  <2>3. Circles(SettledLinks)' = Circles(SettledLinks)
    <3>1. InUse' = InUse
      BY <2>1 DEF InUse
    <3>2. ASSUME NEW S \in SUBSET InUse, NEW t \in S
          PROVE  AtMostOne({d \in SettledLinks(t) : neighbours[t][d] \in S})'
                   <=> AtMostOne({d \in SettledLinks(t) : neighbours[t][d] \in S})
      <4>1. SettledLinks(t)' = SettledLinks(t)
        BY <2>1, <2>2
      <4> QED
        BY <2>1, <4>1 DEF AtMostOne
    <3> QED
      BY <3>1, <3>2 DEF Circles
  <2> QED
    BY <2>3 DEF CirclesOK
<1>4. CASE TunnelFound
  <2>1. /\ pc = "Check" /\ step >= Top /\ pc' \notin Cementing
        /\ UNCHANGED <<mesh, stripVars>>
    BY <1>4 DEF TunnelFound, ContinueWith, Cementing
  <2>2. pc \in Cementing /\ IsFlipped /\ InTunnel /\ Flipped = Top
    BY <2>1 DEF Cementing, IsFlipped, InTunnel, Flipped
  <2>3. Circles(SettledLinks)' = Circles(Links)
    <3>1. \A t : SettledLinks(t)' = Links(t)
      BY <2>1 DEF SettledLinks, IsSaved, Links, stripVars
    <3> QED
      BY <2>1, <3>1 DEF Circles, mesh, InUse, AtMostOne
  <2>4. ASSUME NEW S \in Circles(Links) PROVE FALSE
    <3>1. \A k \in 0 .. Top : At(k) \notin visited
      <4>1. Top \in Nat /\ step \in Nat
        BY <2>2, PathFacts DEF IInv, CountersOK
      <4>2. Top % 2 = 1 /\ step % 2 = 0
        BY <2>1, <2>2 DEF IInv, PathOK, CheckOK
      <4>3. \A k \in 0 .. Top : k < step
        BY <2>1, <4>1, <4>2
      <4> QED
        BY <2>1, <4>3 DEF IInv, CheckOK
    <3>2. \A t \in S : \A k \in 0 .. Top : At(k) # t
      BY <2>1, <3>1 DEF CirclesOK
    <3>3. \A t \in S : t \in Tris
      BY <1>2 DEF Circles
    <3>4. \A t \in S : Links(t) = SettledLinks(t)
      BY <2>2, <3>2, <3>3, FlippedLinks
    <3>5. S \in Circles(SettledLinks)
      BY <3>4 DEF Circles
    <3> QED
      BY <3>5 DEF CirclesOK
  <2> QED
    BY <2>3, <2>4
<1> QED
  BY <1>3, <1>4

(* A walk starts across the flipped edge that leaves its starter.          *)
LEMMA StartWalkFacts ==
  ASSUME IInv, StartWalk
  PROVE  /\ pc = "Check" /\ pc' = "Walk" /\ At(step) \in visited
         /\ step \in 0 .. Top /\ step + 1 \in 0 .. Top
         /\ walker' = At(step + 1) /\ backIndex' = Back(step + 1) /\ circleIndex' = step + 1
         /\ visited' = visited \ {At(step + 1)}
         /\ At(step) # At(step + 1)
         /\ Out(step) \in Links(At(step)) /\ neighbours[At(step)][Out(step)] = At(step + 1)
         /\ indices[At(step)][Out(step)] = Back(step + 1)
         /\ indices[At(step + 1)][Back(step + 1)] = Out(step)
         /\ neighbours[At(step + 1)][Back(step + 1)] = At(step)
         /\ UNCHANGED <<mesh, stripVars, tunnel, tunnelState, step>>
<1>1. PICK i : i = step
  OBVIOUS
<1>2. /\ pc = "Check" /\ i < Top /\ At(i) \in visited /\ pc' = "Walk"
      /\ walker' = neighbours[At(i)][Out(i)] /\ backIndex' = indices[At(i)][Out(i)]
      /\ circleIndex' = tunnelIndex[neighbours[At(i)][Out(i)]]
      /\ visited' = visited \ {neighbours[At(i)][Out(i)]}
      /\ UNCHANGED <<mesh, stripVars, tunnel, tunnelState, step>>
  BY <1>1 DEF StartWalk, Out
<1>3. InTunnel /\ IsFlipped /\ pc \in Cementing /\ Flipped = Top
  BY <1>2 DEF InTunnel, IsFlipped, Cementing, Flipped
<1>4. /\ Top \in Nat /\ \A k \in 0 .. Top : tunnelIndex[At(k)] = k
      /\ \A j, k \in 0 .. Top : At(j) = At(k) => j = k
  BY <1>3, PathFacts
<1>5. i \in Nat /\ i \in 0 .. Top - 1 /\ i \in 0 .. Top /\ i + 1 \in 0 .. Top /\ i # i + 1 /\ i % 2 = 0
  BY <1>1, <1>2, <1>3, <1>4 DEF IInv, CountersOK, CheckOK
<1>6. /\ neighbours[At(i)][Out(i)] = At(i + 1) /\ indices[At(i)][Out(i)] = Back(i + 1)
      /\ indices[At(i + 1)][Back(i + 1)] = Out(i) /\ neighbours[At(i + 1)][Back(i + 1)] = At(i)
      /\ Out(i) \in Dir /\ (i > 0 => Back(i) # Out(i))
  BY <1>3, <1>5, TunnelEdge
<1>7. Out(i) \in Links(At(i))
  BY <1>2, <1>3, <1>5, <1>6 DEF IInv, FlipOK
<1> QED
  BY <1>1, <1>2, <1>4, <1>5, <1>6, <1>7

(* A step of a walk, across the link that it has not come by.              *)
LEMMA WalkOnFacts ==
  ASSUME IInv, WalkOn
  PROVE  \E d \in Links(walker), e \in Dir, next \in InUse :
           /\ pc = "Walk" /\ walker \in InUse /\ walker \notin endpoint
           /\ At(step) \in visited /\ step \in 0 .. Top /\ step < Top
           /\ d # backIndex /\ \A x \in Links(walker) : x = backIndex \/ x = d
           /\ next = neighbours[walker][d] /\ e = indices[walker][d] /\ next # walker
           /\ e \in Links(next) /\ neighbours[next][e] = walker /\ indices[next][e] = d
           /\ walker' = next /\ backIndex' = e
           /\ next = At(step) => pc' = "Undo" /\ circleIndex' = circleIndex
           /\ next # At(step) => /\ pc' = "Walk" /\ visited' = visited \ {next}
                                 /\ circleIndex' = LargestIndex(next)
           /\ UNCHANGED <<mesh, stripVars, tunnel, tunnelState, tunnelIndex, step>>
<1>1. PICK d, next : d = StripDir(walker, backIndex) /\ next = neighbours[walker][d]
  OBVIOUS
<1>2. pc = "Walk" /\ walker \notin endpoint
  BY DEF WalkOn
<1>3. /\ d \in Links(walker) /\ d # backIndex /\ StripDirs(walker, backIndex) # {}
      /\ \A x \in Links(walker) : x = backIndex \/ x = d
  BY <1>1, <1>2, WalkDirection
<1>4. /\ IsFlipped /\ InTunnel /\ CheckOK /\ ArraysOK /\ CountersOK
  BY <1>2 DEF IInv, IsFlipped, InTunnel, Cementing
<1>5. /\ walker' = next /\ backIndex' = indices[walker][d]
      /\ pc' = IF ClosesCircle(next) THEN "Undo" ELSE "Walk"
      /\ visited' = IF pc' = "Walk" THEN visited \ {next} ELSE visited
      /\ circleIndex' = IF pc' = "Walk" THEN LargestIndex(next) ELSE circleIndex
      /\ UNCHANGED <<mesh, stripVars, tunnel, tunnelState, tunnelIndex, step>>
  BY <1>1, <1>3 DEF WalkOn
<1>6. At(step) \in visited /\ step < Top /\ step \in Nat /\ Top \in Nat /\ walker \in InUse
  BY <1>2, <1>4, PathFacts DEF CheckOK, CountersOK
<1>7. ClosesCircle(next) <=> next = At(step)
  BY <1>6 DEF ClosesCircle
<1>8. walker \in Tris /\ d \in Dir
  BY <1>3, <1>4, <1>6, LinksAreDirs, MaxTrisAssumption DEF ArraysOK, MeshOK, IsMesh, InUse, Tris
<1>9. neighbours[walker][d] # Null /\ indices[walker][d] \in Links(next)
  BY <1>1, <1>3, <1>4, <1>8 DEF CheckOK, Agree
<1>10. /\ next \in InUse /\ next # walker /\ indices[walker][d] \in Dir
       /\ neighbours[next][indices[walker][d]] = walker /\ indices[next][indices[walker][d]] = d
  BY <1>1, <1>4, <1>8, <1>9, EdgeFacts DEF ArraysOK
<1>11. PICK e \in Dir : e = indices[walker][d]
  BY <1>10
<1>12. /\ next = At(step) => pc' = "Undo" /\ circleIndex' = circleIndex
       /\ next # At(step) => /\ pc' = "Walk" /\ visited' = visited \ {next}
                             /\ circleIndex' = LargestIndex(next)
  BY <1>5, <1>7
<1> QED
  BY <1>1, <1>2, <1>3, <1>5, <1>6, <1>9, <1>10, <1>11, <1>12

(* The steps that lead into the circle check or go on with it.             *)
LEMMA StepsOfCheck ==
  ASSUME IInv, [Next]_vars, pc' \in {"Check", "Walk", "Undo"}
  PROVE  UnmarkEndpoints \/ StartWalk \/ SkipStarter \/ WalkOn \/ EndWalk \/ UNCHANGED vars
<1>2. CASE StartTunneling BY <1>2 DEF StartTunneling
<1>3. CASE StartPass BY <1>3 DEF StartPass
<1>4. CASE EndPass BY <1>4 DEF EndPass
<1>5. CASE StopAtDestCount BY <1>5 DEF StopAtDestCount
<1>6. CASE StartDig BY <1>6 DEF StartDig, DigFailed, ContinueWith
<1>7. CASE CancelDig BY <1>7 DEF CancelDig, DigFailed, ContinueWith
<1>8. CASE RetreatDig BY <1>8 DEF RetreatDig, BacktrackTo
<1>9. CASE Push BY <1>9 DEF Push
<1>10. CASE ExpandTunnel BY <1>10 DEF ExpandTunnel, BacktrackTo
<1>11. ASSUME NEW label \in {"Backtrack", "Retreat"}, NEW resume \in {"Dig", "Push"},
              Backtrack(label, resume)
       PROVE  FALSE
  BY <1>11 DEF Backtrack, DigFailed, ContinueWith
<1>12. CASE BacktrackTunnel BY <1>11, <1>12 DEF BacktrackTunnel
<1>13. CASE RetreatTunnel BY <1>11, <1>13 DEF RetreatTunnel
<1>14. CASE StartCement BY <1>14 DEF StartCement
<1>15. CASE FlipEdge BY <1>15 DEF FlipEdge
<1>16. CASE UndoTunnel BY <1>16 DEF UndoTunnel, BacktrackTo
<1>17. CASE TunnelFound BY <1>17 DEF TunnelFound, ContinueWith
<1>18. CASE Finished BY <1>18 DEF Finished
<1> QED
  BY <1>2, <1>3, <1>4, <1>5, <1>6, <1>7, <1>8, <1>9, <1>10, <1>12, <1>13, <1>14, <1>15,
     <1>16, <1>17, <1>18 DEF Next, Step

(* A circle keeps its cleared triangles to itself.                         *)
LEMMA CirclesStep ==
  ASSUME IInv, CirclesOK, [Next]_vars
  PROVE  CirclesOK'
<1>1. Circles(SettledLinks)' = {}
  BY SettledHaveNoCircle
<1>2. CASE pc' \notin {"Check", "Walk", "Undo"}
  BY <1>1, <1>2 DEF CirclesOK
<1>3. CASE UNCHANGED vars
  <2>1. /\ UNCHANGED <<mesh, linkState>> /\ pc' = pc /\ walker' = walker /\ step' = step
        /\ visited' = visited /\ tunnel' = tunnel
    BY <1>3 DEF vars, stripVars, searchVars, checkVars
  <2>2. Circles(Links)' = Circles(Links) /\ Top' = Top /\ \A k : At(k)' = At(k)
    BY <2>1, CirclesFrame DEF Top, At
  <2>3. At(step)' = At(step)
    BY <2>1 DEF At
  <2> QED
    BY <1>1, <2>1, <2>2, <2>3 DEF CirclesOK
<1>4. CASE UnmarkEndpoints
  <2>1. /\ pc = "Flip" /\ pc' = "Check" /\ visited' = visited /\ tunnel' = tunnel
    BY <1>4 DEF UnmarkEndpoints, searchVars
  <2>2. InTunnel /\ visited = ElementsOf(tunnel)
    BY <2>1 DEF InTunnel, Cementing, IInv, VisitedOK
  <2>3. \A k \in 0 .. Top : At(k) \in visited
    BY <2>2, PathFacts
  <2>4. Top' = Top /\ \A k : At(k)' = At(k)
    BY <2>1 DEF Top, At
  <2> QED
    BY <1>1, <2>1, <2>3, <2>4 DEF CirclesOK
<1>5. CASE StartWalk
  <2>1. PICK s, next, out : s = At(step) /\ next = At(step + 1) /\ out = Out(step)
    OBVIOUS
  <2>2. /\ pc = "Check" /\ pc' = "Walk" /\ walker' = next /\ visited' = visited \ {next}
        /\ out \in Links(s) /\ neighbours[s][out] = next /\ s \in InUse
        /\ UNCHANGED <<mesh, linkState>> /\ Top' = Top /\ At(step)' = s
        /\ \A k : At(k)' = At(k)
    <3>1. InTunnel /\ pc = "Check"
      BY <1>5 DEF InTunnel, Cementing, StartWalk
    <3> QED
      BY <1>5, <2>1, <3>1, StartWalkFacts, PathFacts DEF stripVars, At, Top
  <2>3. Circles(Links)' = Circles(Links) /\ IsFlipped
    BY <2>2, CirclesFrame DEF IsFlipped
  <2>4. \A S \in Circles(Links) : next \in S <=> s \in S
    BY <2>2, <2>3, CircleFacts
  <2>5. \A S \in Circles(Links) : \A k \in 0 .. Top :
          At(k) \notin visited' /\ At(k) \in S => s \in S
    BY <2>2, <2>4 DEF CirclesOK
  <2> QED
    BY <1>1, <2>2, <2>3, <2>4, <2>5 DEF CirclesOK
<1>6. CASE SkipStarter
  <2>1. /\ pc = "Check" /\ pc' = "Check" /\ UNCHANGED <<mesh, linkState>>
        /\ visited' = visited /\ tunnel' = tunnel
    BY <1>6 DEF SkipStarter, searchVars, stripVars
  <2>2. Circles(Links)' = Circles(Links) /\ Top' = Top /\ \A k : At(k)' = At(k)
    BY <2>1, CirclesFrame DEF Top, At
  <2> QED
    BY <1>1, <2>1, <2>2 DEF CirclesOK
<1>7. CASE WalkOn
  <2>1. PICK d \in Links(walker), next \in InUse :
          /\ pc = "Walk" /\ walker \in InUse /\ next = neighbours[walker][d] /\ walker' = next
          /\ (next = At(step) => pc' = "Undo")
          /\ (next # At(step) => pc' = "Walk" /\ visited' = visited \ {next})
          /\ UNCHANGED <<mesh, linkState>> /\ Top' = Top /\ At(step)' = At(step)
          /\ \A k : At(k)' = At(k)
    BY <1>7, WalkOnFacts DEF stripVars, Top, At
  <2>2. Circles(Links)' = Circles(Links) /\ IsFlipped
    BY <2>1, CirclesFrame DEF IsFlipped
  <2>3. \A S \in Circles(Links) : next \in S <=> At(step) \in S
    BY <2>1, <2>2, CircleFacts DEF CirclesOK
  <2>4. CASE next = At(step)
    BY <1>1, <2>1, <2>4 DEF CirclesOK
  <2>5. CASE next # At(step)
    <3>1. \A S \in Circles(Links) : \A k \in 0 .. Top :
            At(k) \notin visited' /\ At(k) \in S => At(step) \in S
      BY <2>1, <2>3, <2>5 DEF CirclesOK
    <3> QED
      BY <1>1, <2>1, <2>2, <2>3, <2>5, <3>1 DEF CirclesOK
  <2> QED
    BY <2>4, <2>5
<1>8. CASE EndWalk
  <2>1. /\ pc = "Walk" /\ pc' = "Check" /\ UNCHANGED <<mesh, linkState>>
        /\ visited' = visited \ {At(step)} /\ tunnel' = tunnel /\ walker \in endpoint
    BY <1>8 DEF EndWalk, stripVars
  <2>2. Circles(Links)' = Circles(Links) /\ Top' = Top /\ \A k : At(k)' = At(k)
    BY <2>1, CirclesFrame DEF Top, At
  <2>3. IsFlipped /\ walker \in InUse
    BY <2>1 DEF IsFlipped, IInv, CheckOK
  <2>4. \A S \in Circles(Links) : walker \notin S
    BY <2>1, <2>3, CircleFacts
  <2>5. \A S \in Circles(Links), k \in 0 .. Top : At(k) \notin visited' => At(k) \notin S
    BY <2>1, <2>4 DEF CirclesOK
  <2> QED
    BY <1>1, <2>1, <2>2, <2>5 DEF CirclesOK
<1> QED
  BY <1>2, <1>3, <1>4, <1>5, <1>6, <1>7, <1>8, StepsOfCheck

(* The walk never meets a triangle twice: what it has passed through has   *)
(* no other link to be come by.                                            *)
LEMMA WalkStep ==
  ASSUME IInv, CirclesOK, WalkOK, [Next]_vars
  PROVE  WalkOK'
<1>1. CASE pc' # "Walk"
  BY <1>1 DEF WalkOK
<1>2. CASE UNCHANGED vars
  <2>1. /\ UNCHANGED <<mesh, linkState>> /\ pc' = pc /\ walker' = walker /\ step' = step
        /\ visited' = visited /\ tunnel' = tunnel /\ backIndex' = backIndex /\ endpoint' = endpoint
        /\ tunnelState' = tunnelState /\ circleIndex' = circleIndex
        /\ trisCount' = trisCount /\ neighbours' = neighbours /\ indices' = indices
    BY <1>2 DEF vars, stripVars, searchVars, checkVars, mesh
  <2>2. /\ Circles(Links)' = Circles(Links) /\ \A t : StripOf(t)' = StripOf(t)
        /\ Top' = Top /\ \A k : At(k)' = At(k)
        /\ InUse' = InUse /\ At(step)' = At(step) /\ At(circleIndex)' = At(circleIndex)
        /\ StripOf(At(step))' = StripOf(At(step))
        /\ \A W, t : Walked(W, t)' = Walked(W, t)
    BY <2>1, CirclesFrame DEF Top, At, InUse, Walked, Out, SuccessorIndex
  <2> QED
    BY <2>1, <2>2 DEF WalkOK
<1>3. CASE StartWalk
  <2>1. PICK i : i = step
    OBVIOUS
  <2>2. PICK s, next, out, back : s = At(i) /\ next = At(i + 1) /\ out = Out(i) /\ back = Back(i + 1)
    OBVIOUS
  <2>3. /\ pc = "Check" /\ InTunnel
    BY <1>3 DEF StartWalk, InTunnel, Cementing
  <2>4. /\ s \in InUse /\ next \in InUse /\ i \in Nat /\ s # next
        /\ \A j, k \in 0 .. Top : At(j) = At(k) => j = k
    BY <1>3, <2>1, <2>2, <2>3, StartWalkFacts, PathFacts DEF IInv, CountersOK
  <2>5. /\ pc' = "Walk" /\ step' = i
        /\ walker' = next /\ backIndex' = back /\ circleIndex' = i + 1
        /\ visited' = visited \ {next}
        /\ out \in Links(s) /\ neighbours[s][out] = next
        /\ indices[s][out] = back /\ indices[next][back] = out /\ neighbours[next][back] = s
        /\ UNCHANGED <<mesh, stripVars, tunnel, tunnelState>>
    BY <1>3, <2>1, <2>2, StartWalkFacts
  <2>6. /\ Circles(Links)' = Circles(Links) /\ \A t : StripOf(t)' = StripOf(t)
        /\ Top' = Top /\ \A k : At(k)' = At(k) /\ Out(k)' = Out(k)
        /\ InUse' = InUse /\ At(step)' = s /\ Out(step)' = out /\ At(circleIndex)' = next
        /\ trisCount' = trisCount /\ neighbours' = neighbours /\ indices' = indices
    BY <2>2, <2>5, CirclesFrame DEF Top, At, InUse, Out, SuccessorIndex, mesh, stripVars
  <2>7. StripOf(At(step))' = StripOf(s)
    BY <2>6
  <2>8. next \in StripOf(s)
    BY <2>4, <2>5 DEF StripOf, Enclosed
  <2>9. \A t : Walked({}, t)' = IF t = s THEN {out} ELSE IF t = next THEN {back} ELSE {}
    BY <2>5, <2>6 DEF Walked
  <2>10. ASSUME NEW t \in InUse, NEW d \in Walked({}, t)'
         PROVE  indices'[t][d] \in Walked({}, neighbours[t][d])'
    <3>1. (t = s /\ d = out) \/ (t = next /\ d = back)
      BY <2>9, <2>10
    <3>2. /\ indices'[t][d] = indices[t][d] /\ neighbours[t][d]' = neighbours[t][d]
      BY <2>6
    <3>3. CASE t = s /\ d = out
      <4>1. Walked({}, neighbours[t][d])' = {back}
        BY <2>4, <2>5, <2>9, <3>2, <3>3
      <4> QED
        BY <2>5, <3>2, <3>3, <4>1
    <3>4. CASE t = next /\ d = back
      <4>1. Walked({}, neighbours[t][d])' = {out}
        BY <2>4, <2>5, <2>9, <3>2, <3>4
      <4> QED
        BY <2>5, <3>2, <3>4, <4>1
    <3> QED
      BY <3>1, <3>3, <3>4
  <2>11. ASSUME NEW k \in 0 .. Top, At(k) \notin visited'
         PROVE  \/ At(k) = next /\ k <= i + 1
                \/ \A S \in Circles(Links) : At(k) \notin S
    <3>1. CASE At(k) = next
      <4>1. k = i + 1
        BY <1>3, <2>1, <2>2, <2>4, <3>1, StartWalkFacts
      <4> QED
        BY <2>4, <3>1, <4>1
    <3>2. CASE At(k) # next
      BY <2>3, <2>5, <2>11, <3>2 DEF CirclesOK
    <3> QED
      BY <3>1, <3>2
  <2>12. i < i + 1
    BY <2>4
  <2> QED
    <3>1. {} \in SUBSET InUse'
      OBVIOUS
    <3>2. /\ walker' # At(step)' /\ walker' \notin {} /\ At(step)' \notin {}
          /\ {} \cap endpoint' = {} /\ {} \cap visited' = {}
          /\ {} \cup {walker'} \subseteq StripOf(At(step))'
          /\ step' < circleIndex' /\ At(circleIndex)' \in {} \cup {walker'}
      BY <2>4, <2>5, <2>6, <2>7, <2>8, <2>12
    <3>3. \A t \in InUse' : \A d \in Walked({}, t)' :
            indices'[t][d] \in Walked({}, neighbours[t][d])'
      BY <2>6, <2>10
    <3>4. \A k \in 0 .. Top' : At(k)' \notin visited' =>
            \/ At(k)' \in {} \cup {walker'} /\ k <= circleIndex'
            \/ \A S \in Circles(Links)' : At(k)' \notin S
      BY <2>5, <2>6, <2>11
    <3> QED
      BY <3>1, <3>2, <3>3, <3>4 DEF WalkOK
<1>4. CASE WalkOn /\ pc' = "Walk"
  <2>1. PICK i, s, w, out : i = step /\ s = At(i) /\ w = walker /\ out = Out(i)
    OBVIOUS
  <2>2. PICK d \in Links(w), e \in Dir, next \in InUse :
           /\ pc = "Walk" /\ w \in InUse /\ w \notin endpoint
           /\ d # backIndex /\ \A x \in Links(w) : x = backIndex \/ x = d
           /\ next = neighbours[w][d] /\ e = indices[w][d] /\ next # w
           /\ e \in Links(next) /\ neighbours[next][e] = w /\ indices[next][e] = d
           /\ walker' = next /\ backIndex' = e /\ next # s
           /\ visited' = visited \ {next}
           /\ circleIndex' = LargestIndex(next)
           /\ UNCHANGED <<mesh, stripVars, tunnel, tunnelState, step>>
    BY <1>4, <2>1, WalkOnFacts
  <2>3. PICK W \in SUBSET InUse :
          /\ w # s /\ w \notin W /\ s \notin W
          /\ W \cap endpoint = {} /\ W \cap visited = {}
          /\ W \cup {w} \subseteq StripOf(s)
          /\ \A t \in InUse : \A x \in Walked(W, t) :
               indices[t][x] \in Walked(W, neighbours[t][x])
          /\ i < circleIndex /\ At(circleIndex) \in W \cup {w}
          /\ \A k \in 0 .. Top : At(k) \notin visited =>
               \/ At(k) \in W \cup {w} /\ k <= circleIndex
               \/ \A S \in Circles(Links) : At(k) \notin S
    BY <2>1, <2>2 DEF WalkOK
  <2>4. /\ InTunnel /\ w \notin visited /\ backIndex \in Links(w)
        /\ i \in Nat /\ circleIndex \in Nat /\ visited \subseteq ElementsOf(tunnel)
    BY <2>1, <2>2 DEF InTunnel, Cementing, IsFlipped, IInv, CheckOK, CountersOK, VisitedOK
  <2>5. /\ Top \in Nat /\ \A k \in 0 .. Top : tunnelIndex[At(k)] = k
        /\ \A t \in ElementsOf(tunnel) : \E k \in 0 .. Top : t = At(k)
    BY <2>4, PathFacts
  <2>6. \A t : Walked(W, t) = IF t = s THEN {out} ELSE IF t = w THEN {backIndex}
                              ELSE IF t \in W THEN Links(t) ELSE {}
    BY <2>1 DEF Walked
  <2> DEFINE V == W \cup {w}
  <2>7. /\ Circles(Links)' = Circles(Links) /\ \A t : StripOf(t)' = StripOf(t)
        /\ \A t : Links(t)' = Links(t)
        /\ Top' = Top /\ \A k : At(k)' = At(k) /\ Out(k)' = Out(k)
        /\ InUse' = InUse /\ At(step)' = s /\ Out(step)' = out /\ endpoint' = endpoint
        /\ neighbours' = neighbours /\ indices' = indices /\ step' = i
    BY <2>1, <2>2, CirclesFrame DEF Top, At, InUse, Out, SuccessorIndex, mesh, stripVars
  <2>8. \A t : Walked(V, t)' = IF t = s THEN {out} ELSE IF t = next THEN {e}
                               ELSE IF t \in V THEN Links(t) ELSE {}
    BY <2>2, <2>7 DEF Walked
  <2>9. next \notin V
    <3>1. ASSUME next \in W PROVE FALSE
      <4>1. Walked(W, next) = Links(next) /\ Walked(W, w) = {backIndex}
        BY <2>2, <2>3, <2>6, <3>1
      <4> QED
        BY <2>2, <2>3, <4>1
    <3> QED
      BY <2>2, <3>1
  <2>10. StripOf(At(step))' = StripOf(s) /\ next \in StripOf(s)
    <3>1. next \in StripOf(s)
      BY <2>2, <2>3 DEF StripOf, Enclosed
    <3> QED
      BY <2>7, <3>1
  <2>11. Walked(W, next) = {}
    BY <2>2, <2>3, <2>6, <2>9
  <2>12. \A t : Walked(W, t) \subseteq Walked(V, t)'
    <3> SUFFICES ASSUME NEW t PROVE Walked(W, t) \subseteq Walked(V, t)'
      OBVIOUS
    <3>1. w \in V /\ \A u \in W : u \in V
      OBVIOUS
    <3> HIDE DEF V
    <3>2. CASE t = s
      BY <2>6, <2>8, <3>2
    <3>3. CASE t = w
      BY <2>2, <2>3, <2>4, <2>6, <2>8, <3>1, <3>3
    <3>4. CASE t # s /\ t # w /\ t \in W
      BY <2>6, <2>8, <2>9, <3>1, <3>4
    <3>5. CASE t # s /\ t # w /\ t \notin W
      BY <2>6, <3>5
    <3> QED
      BY <3>2, <3>3, <3>4, <3>5
  <2>13. ASSUME NEW t \in InUse, NEW x \in Walked(V, t)'
         PROVE  indices[t][x] \in Walked(V, neighbours[t][x])'
    <3>1. neighbours[t][x]' = neighbours[t][x]
      BY <2>7
    <3>2. CASE x \in Walked(W, t)
      <4>1. PICK u : u = neighbours[t][x]
        OBVIOUS
      <4>2. indices[t][x] \in Walked(V, u)'
        BY <2>3, <2>12, <3>2, <4>1
      <4>3. Walked(V, neighbours[t][x])' = Walked(V, u)'
        BY <2>8, <3>1, <4>1
      <4> QED
        BY <4>2, <4>3
    <3>3. CASE x \notin Walked(W, t)
      <4>1. (t = next /\ x = e) \/ (t = w /\ x = d)
        <5> HIDE DEF V
        <5>1. \A u \in V : u \in W \/ u = w
          BY DEF V
        <5> QED
          BY <2>2, <2>3, <2>4, <2>6, <2>8, <2>13, <3>3, <5>1
      <4>2. CASE t = next /\ x = e
        <5>1. Walked(V, neighbours[t][x])' = Links(w) /\ indices[t][x] = d
          BY <2>2, <2>3, <2>8, <3>1, <4>2
        <5> QED
          BY <2>2, <5>1
      <4>3. CASE t = w /\ x = d
        <5>1. Walked(V, neighbours[t][x])' = {e} /\ indices[t][x] = e
          BY <2>2, <2>3, <2>8, <3>1, <4>3
        <5> QED
          BY <5>1
      <4> QED
        BY <4>1, <4>2, <4>3
    <3> QED
      BY <3>2, <3>3
  <2>14. ASSUME next \in visited
         PROVE  \E k \in 0 .. Top : next = At(k) /\ tunnelIndex[next] = k
    BY <2>4, <2>5, <2>14
  <2>15. circleIndex' \in Nat /\ circleIndex <= circleIndex' /\ At(circleIndex') \in V \cup {next}
         /\ \A k \in 0 .. Top : next = At(k) /\ next \in visited => k <= circleIndex'
    <3>1. CASE next \in visited
      <4>1. PICK k \in 0 .. Top : next = At(k) /\ tunnelIndex[next] = k
        BY <2>14, <3>1
      <4>2. circleIndex' = IF circleIndex > k THEN circleIndex ELSE k
        BY <2>2, <3>1, <4>1 DEF LargestIndex, MaxOf
      <4> QED
        BY <2>3, <2>4, <2>5, <3>1, <4>1, <4>2
    <3>2. CASE next \notin visited
      <4>1. circleIndex' = circleIndex
        BY <2>2, <3>2 DEF LargestIndex
      <4> QED
        BY <2>3, <2>4, <3>2, <4>1
    <3> QED
      BY <3>1, <3>2
  <2>16. ASSUME NEW k \in 0 .. Top, At(k) \notin visited'
         PROVE  \/ At(k) \in V \cup {next} /\ k <= circleIndex'
                \/ \A S \in Circles(Links) : At(k) \notin S
    <3>1. CASE At(k) \in visited
      BY <2>2, <2>15, <2>16, <3>1
    <3>2. CASE At(k) \notin visited
      <4>1. CASE At(k) \in V /\ k <= circleIndex
        BY <2>4, <2>5, <2>15, <4>1
      <4> QED
        BY <2>3, <3>2, <4>1
    <3> QED
      BY <3>1, <3>2
  <2>17. i < circleIndex'
    BY <2>3, <2>4, <2>15
  <2>18. V \in SUBSET InUse' /\ V \cap endpoint' = {} /\ V \cap visited' = {} /\ s \notin V
    BY <2>2, <2>3, <2>4, <2>7
  <2>19. V \cup {next} \subseteq StripOf(s)
    BY <2>3, <2>10
  <2> HIDE DEF V
  <2>20. At(circleIndex)' = At(circleIndex')
    BY <2>2 DEF At
  <2>21. /\ walker' # At(step)' /\ walker' \notin V /\ At(step)' \notin V
         /\ V \cup {walker'} \subseteq StripOf(At(step))'
         /\ step' < circleIndex' /\ At(circleIndex)' \in V \cup {walker'}
    BY <2>2, <2>7, <2>9, <2>10, <2>15, <2>17, <2>18, <2>19, <2>20
  <2>22. \A t \in InUse' : \A x \in Walked(V, t)' :
           indices'[t][x] \in Walked(V, neighbours[t][x])'
    BY <2>7, <2>13
  <2>23. \A k \in 0 .. Top' : At(k)' \notin visited' =>
           \/ At(k)' \in V \cup {walker'} /\ k <= circleIndex'
           \/ \A S \in Circles(Links)' : At(k)' \notin S
    BY <2>2, <2>7, <2>16
  <2> QED
    BY <2>18, <2>21, <2>22, <2>23 DEF WalkOK
<1>5. CASE UnmarkEndpoints \/ SkipStarter \/ EndWalk
  BY <1>1, <1>5 DEF UnmarkEndpoints, SkipStarter, EndWalk
<1> QED
  BY <1>1, <1>2, <1>3, <1>4, <1>5, StepsOfCheck

(* The walk is back: what it has passed through is a circle.               *)
LEMMA CircleFoundStep ==
  ASSUME IInv, CirclesOK, WalkOK, CircleFound, [Next]_vars
  PROVE  CircleFound'
<1>1. CASE pc' # "Undo"
  BY <1>1 DEF CircleFound
<1>2. CASE UNCHANGED vars
  <2>1. /\ UNCHANGED <<mesh, linkState>> /\ pc' = pc /\ step' = step
        /\ tunnel' = tunnel /\ circleIndex' = circleIndex
    BY <1>2 DEF vars, stripVars, searchVars, checkVars
  <2>2. /\ \A t : StripOf(t)' = StripOf(t) /\ Links(t)' = Links(t)
        /\ Top' = Top /\ \A k : At(k)' = At(k)
        /\ At(step)' = At(step) /\ At(circleIndex)' = At(circleIndex)
        /\ StripOf(At(step))' = StripOf(At(step))
    BY <2>1, CirclesFrame DEF Top, At
  <2>3. CASE pc = "Undo"
    <3>1. /\ IsCircle(StripOf(At(step)))
          /\ circleIndex \in 0 .. Top
          /\ At(circleIndex) \in StripOf(At(step))
          /\ \A k \in circleIndex + 1 .. Top : At(k) \notin StripOf(At(step))
      BY <2>3 DEF CircleFound, CircleCheckExact
    <3>2. IsCircle(StripOf(At(step)))'
      BY <2>2, <3>1 DEF IsCircle
    <3> QED
      BY <2>1, <2>2, <2>3, <3>1, <3>2 DEF CircleFound, CircleCheckExact
  <2>4. CASE pc # "Undo"
    BY <1>1, <2>1, <2>4
  <2> QED
    BY <2>3, <2>4
<1>3. CASE WalkOn /\ pc' = "Undo"
  <2>1. PICK i, s, w, out, c : i = step /\ s = At(i) /\ w = walker /\ out = Out(i) /\ c = circleIndex
    OBVIOUS
  <2>2. PICK d \in Links(w), e \in Dir :
           /\ pc = "Walk" /\ w \in InUse /\ w \notin endpoint /\ i \in 0 .. Top /\ i < Top
           /\ d # backIndex /\ \A x \in Links(w) : x = backIndex \/ x = d
           /\ s = neighbours[w][d] /\ e = indices[w][d] /\ s \in InUse
           /\ e \in Links(s) /\ neighbours[s][e] = w /\ indices[s][e] = d
           /\ circleIndex' = c
           /\ UNCHANGED <<mesh, stripVars, tunnel, tunnelState, step>>
    BY <1>3, <2>1, WalkOnFacts
  <2>3. PICK W \in SUBSET InUse :
          /\ w # s /\ w \notin W /\ s \notin W
          /\ W \cap endpoint = {} /\ W \cap visited = {}
          /\ W \cup {w} \subseteq StripOf(s)
          /\ \A t \in InUse : \A x \in Walked(W, t) :
               indices[t][x] \in Walked(W, neighbours[t][x])
          /\ i < c /\ At(c) \in W \cup {w}
          /\ \A k \in 0 .. Top : At(k) \notin visited =>
               \/ At(k) \in W \cup {w} /\ k <= c
               \/ \A S \in Circles(Links) : At(k) \notin S
    BY <2>1, <2>2 DEF WalkOK
  <2>4. /\ InTunnel /\ IsFlipped /\ w \notin visited /\ backIndex \in Links(w)
        /\ i \in Nat /\ c \in Nat /\ c <= Top /\ i % 2 = 0
        /\ Agree(Links) /\ endpoint = Ends(Links) /\ MeshOK
    BY <2>1, <2>2 DEF InTunnel, Cementing, IsFlipped, IInv, CheckOK, CountersOK, ArraysOK
  <2>5. /\ Top \in Nat /\ \A j, k \in 0 .. Top : At(j) = At(k) => j = k
    BY <2>4, PathFacts
  <2>6. \A t : Walked(W, t) = IF t = s THEN {out} ELSE IF t = w THEN {backIndex}
                              ELSE IF t \in W THEN Links(t) ELSE {}
    BY <2>1 DEF Walked
  <2>7. InUse \subseteq Tris
    BY <2>4, MaxTrisAssumption DEF MeshOK, IsMesh, InUse, Tris
  <2>8. \A t \in InUse : Links(t) \in SUBSET Dir /\ \E x \in Dir : x \notin Links(t)
    BY <2>4, <2>7, LinksAreDirs DEF Agree
  <2>9. out \in Links(s)
    <3>1. i \in 0 .. Top - 1 /\ Flipped = Top
      BY <2>2, <2>5 DEF Flipped
    <3>2. Out(i) \in Dir /\ (i > 0 => Back(i) # Out(i))
      BY <2>4, <3>1, TunnelEdge
    <3> QED
      BY <2>1, <2>2, <2>4, <2>5, <3>1, <3>2 DEF IInv, FlipOK, Cementing
  <2>10. e # out
    <3>1. ASSUME e = out PROVE FALSE
      <4>1. indices[s][e] \in Walked(W, w)
        BY <2>2, <2>3, <2>6, <3>1
      <4> QED
        BY <2>2, <2>3, <2>6, <4>1
    <3> QED
      BY <3>1
  <2>11. Links(s) = {e, out} /\ ~AtMostOne(Links(s))
    BY <2>2, <2>8, <2>9, <2>10, TwoLinks DEF AtMostOne
  <2> DEFINE C == W \cup {w, s}
  <2>12. ASSUME NEW t \in C
         PROVE  t \in InUse /\ ~AtMostOne(Links(t)) /\ Cardinality(Links(t)) = 2
    <3>1. t \in InUse /\ ~AtMostOne(Links(t))
      BY <2>2, <2>3, <2>4, <2>11 DEF Ends
    <3> QED
      BY <2>8, <3>1, TwoLinks
  <2>13. \A u : Walked(W, u) # {} => u \in C
    BY <2>6
  <2>14. ASSUME NEW t \in C, NEW x \in Links(t) PROVE neighbours[t][x] \in C
    <3>1. CASE x \in Walked(W, t)
      <4>1. Walked(W, neighbours[t][x]) # {}
        BY <2>3, <2>12, <3>1
      <4> QED
        BY <2>13, <4>1
    <3>2. CASE x \notin Walked(W, t)
      <4>1. (t = w /\ x = d) \/ (t = s /\ x = e)
        BY <2>2, <2>3, <2>6, <2>11, <2>14, <3>2
      <4> QED
        BY <2>2, <4>1
    <3> QED
      BY <3>1, <3>2
  <2>15. C \in Enclosed /\ s \in C
    BY <2>12, <2>14 DEF Enclosed
  <2>16. C \in Circles(Links)
    <3>1. \A t \in C : {x \in Links(t) : neighbours[t][x] \in C} = Links(t)
      BY <2>14
    <3>2. C \in SUBSET InUse /\ C # {}
      BY <2>12
    <3> HIDE DEF C
    <3> QED
      BY <2>12, <3>1, <3>2 DEF Circles
  <2>17. StripOf(s) \subseteq C
    BY <2>15 DEF StripOf
  <2>18. /\ \A t : StripOf(t)' = StripOf(t) /\ Links(t)' = Links(t)
         /\ Top' = Top /\ \A k : At(k)' = At(k)
         /\ At(step)' = s /\ At(circleIndex)' = At(c)
    BY <2>1, <2>2, CirclesFrame DEF Top, At, stripVars
  <2>19. StripOf(At(step))' = StripOf(s)
    BY <2>18
  <2>20. IsCircle(StripOf(At(step)))'
    BY <2>12, <2>17, <2>18, <2>19 DEF IsCircle
  <2>21. ASSUME NEW k \in c + 1 .. Top PROVE At(k) \notin StripOf(s)
    <3>1. k \in 0 .. Top /\ k > c /\ k # i
      BY <2>2, <2>3, <2>4, <2>5
    <3>2. At(k) # s
      BY <2>1, <2>2, <2>5, <3>1
    <3>3. ASSUME At(k) \in W \cup {w} PROVE FALSE
      <4>1. At(k) \notin visited
        BY <2>3, <2>4, <3>3
      <4>2. \A S \in Circles(Links) : At(k) \notin S
        BY <2>3, <2>4, <3>1, <4>1
      <4> QED
        BY <2>16, <3>3, <4>2
    <3> QED
      BY <2>17, <3>2, <3>3
  <2>22. c \in 0 .. Top /\ At(c) \in StripOf(s)
    BY <2>3, <2>4, <2>5
  <2> QED
    BY <1>3, <2>2, <2>18, <2>19, <2>20, <2>21, <2>22 DEF CircleFound, CircleCheckExact
<1>4. CASE UnmarkEndpoints \/ StartWalk \/ SkipStarter \/ EndWalk
  BY <1>1, <1>4 DEF UnmarkEndpoints, StartWalk, SkipStarter, EndWalk
<1> QED
  BY <1>1, <1>2, <1>3, <1>4, StepsOfCheck

(* ... and so does the one of the circles.                                 *)
LEMMA ReadyCoverInv ==
  ASSUME Ready
  PROVE  CoverInv
<1>1. IInv
  BY ReadyIInv
<1>2. pc = "Start" /\ Circles(Links) = {}
  BY DEF Ready
<1>3. \A t : SettledLinks(t) = Links(t)
  BY <1>2, SettledIsCurrent DEF Cementing
<1>4. Circles(SettledLinks) = {}
  BY <1>2, <1>3 DEF Circles
<1>5. CountOK
  <2>1. Settled = LinksNow
    BY <1>3 DEF Settled, LinksNow
  <2>2. Cardinality(Places(LinksNow, InUse)) = 2 * stripsCount
    BY DEF Ready
  <2> QED
    BY <2>1, <2>2, Zenon DEF CountOK
<1> QED
  BY <1>1, <1>2, <1>4, <1>5 DEF CoverInv, CirclesOK, WalkOK, CircleFound

(* A found tunnel takes a place of each of its ends, and of no other       *)
(* triangle.                                                               *)
LEMMA FoundDegrees ==
  ASSUME IInv, TunnelFound
  PROVE  \A t \in InUse : Cardinality(SettledLinks(t)') =
           Cardinality(SettledLinks(t)) + IF t \in {At(0), At(Top)} THEN 1 ELSE 0
<1> DEFINE a == At(0)
           b == At(Top)
<1>1. IInv /\ ArraysOK /\ MeshOK
  BY DEF IInv, ArraysOK
<1>2. /\ pc = "Check" /\ pc' \notin Cementing
      /\ UNCHANGED <<mesh, stripVars>> /\ stripsCount' = stripsCount - 1
  BY DEF TunnelFound, ContinueWith, Cementing
<1>3. pc \in Cementing /\ IsFlipped /\ InTunnel /\ Flipped = Top
  BY <1>2 DEF Cementing, IsFlipped, InTunnel, Flipped
<1>4. InUse \subseteq Tris
  BY <1>1, MaxTrisAssumption DEF MeshOK, IsMesh, InUse, Tris
<1>5. /\ Top \in Nat /\ Top % 2 = 1
      /\ \A k \in 0 .. Top : At(k) \in InUse
      /\ \A j, k \in 0 .. Top : At(j) = At(k) => j = k
  BY <1>1, <1>3, PathFacts DEF IInv, PathOK
<1>6. a \in InUse /\ b \in InUse /\ a # b
  BY <1>5
<1>7. \A t \in Tris : SettledLinks(t)' = Links(t)
  BY <1>2 DEF SettledLinks, IsSaved, Links, stripVars
<1>8. ASSUME NEW t \in InUse
      PROVE  Cardinality(SettledLinks(t)') = Cardinality(SettledLinks(t)) + IF t \in {a, b} THEN 1 ELSE 0
  <2>1. t \in Tris /\ SettledLinks(t) \in SUBSET Dir
    BY <1>4, LinksAreDirs
  <2>2. SettledLinks(t)' = Links(t) /\ Cardinality(SettledLinks(t)) \in Nat
    BY <2>1, <1>7, LinkSet
  <2>3. CASE \A k \in 0 .. Top : At(k) # t
    <3>1. t # a /\ t # b /\ Links(t) = SettledLinks(t)
      BY <2>1, <2>3, <1>1, <1>3, <1>5, FlippedLinks
    <3> QED
      BY <2>2, <3>1
  <2>4. ASSUME NEW k \in 0 .. Top, At(k) = t
        PROVE  Cardinality(Links(t)) = Cardinality(SettledLinks(t)) + IF t \in {a, b} THEN 1 ELSE 0
    <3>1. CASE k \in {0, Top}
      <4>1. Cardinality(Links(At(k))) = Cardinality(SettledLinks(At(k))) + 1
        BY <1>1, <1>3, <3>1, FlippedLinks
      <4>2. t \in {a, b}
        BY <2>4, <3>1
      <4> QED
        BY <2>4, <4>1, <4>2
    <3>2. CASE k \in 1 .. Top - 1
      <4>1. Cardinality(Links(At(k))) = Cardinality(SettledLinks(At(k)))
        BY <1>1, <1>3, <3>2, FlippedLinks
      <4>2. t \notin {a, b}
        BY <2>4, <3>2, <1>5
      <4> QED
        BY <2>4, <4>1, <4>2, <2>2
    <3> QED
      BY <1>5, <3>1, <3>2
  <2> QED
    BY <2>2, <2>3, <2>4
<1> QED
  BY <1>8

(* ... which leaves two places less, for one strip less.                   *)
LEMMA CountStep ==
  ASSUME IInv, CountOK, [Next]_vars
  PROVE  CountOK'
<1>1. IInv /\ ArraysOK /\ MeshOK /\ Agree(SettledLinks) /\ stripsCount \in Int
  BY DEF IInv, ArraysOK, LinksOK, CountersOK
<1>2. InUse \subseteq Tris /\ IsFiniteSet(InUse)
  <2>1. InUse \subseteq Tris /\ trisCount \in Nat
    BY <1>1, MaxTrisAssumption DEF MeshOK, IsMesh, InUse, Tris
  <2> QED
    BY <2>1, FS_Interval DEF InUse
<1>3. CASE TunnelFound
  <2> DEFINE a == At(0)
             b == At(Top)
  <2>1. /\ pc = "Check" /\ stripsCount' = stripsCount - 1 /\ InUse' = InUse
    BY <1>3 DEF TunnelFound, mesh, InUse
  <2>2. IsFlipped /\ InTunnel /\ pc \in Cementing
    BY <2>1 DEF IsFlipped, InTunnel, Cementing
  <2>3. a \in InUse /\ b \in InUse /\ a # b
    <3>1. Top \in Nat /\ Top % 2 = 1
      BY <1>1, <2>2, PathFacts DEF IInv, PathOK
    <3> QED
      BY <1>1, <2>2, <3>1, PathFacts
  <2>4. AtMostOne(SettledLinks(a)) /\ AtMostOne(SettledLinks(b))
    <3>1. a \in Endpoints /\ b \in Endpoints
      BY <2>2 DEF Endpoints
    <3>2. Endpoints = Ends(SettledLinks)
      BY <1>1 DEF IInv, LinksOK
    <3> QED
      BY <3>1, <3>2 DEF Ends
  <2>5. PICK L : L = Settled
    OBVIOUS
  <2>6. PICK M : M = Settled'
    OBVIOUS
  <2>7. \A t \in InUse : /\ L[t] = SettledLinks(t) /\ L[t] \in SUBSET Dir
                         /\ \E d \in Dir : d \notin L[t]
    <3>1. \A t \in InUse : L[t] = SettledLinks(t)
      BY <1>2, <2>5 DEF Settled
    <3>2. \A t \in InUse : SettledLinks(t) \in SUBSET Dir
      BY LinksAreDirs
    <3> QED
      BY <1>1, <1>2, <3>1, <3>2 DEF Agree
  <2>8. \A t \in InUse : M[t] = SettledLinks(t)'
    BY <1>2, <2>6 DEF Settled
  <2>9. \A t \in InUse :
          Cardinality(SettledLinks(t)') = Cardinality(SettledLinks(t)) + IF t \in {a, b} THEN 1 ELSE 0
    BY <1>1, <1>3, FoundDegrees
  <2>10. PICK n \in Tris : n = a
    BY <1>2, <2>3
  <2>11. PICK m \in Tris : m = b
    BY <1>2, <2>3
  <2>12. PICK S : S = InUse
    OBVIOUS
  <2> HIDE DEF a, b
  <2>13. \A t \in S : /\ Cardinality(L[t]) \in Nat
                      /\ Cardinality(M[t]) = Cardinality(L[t]) + IF t \in {n, m} THEN 1 ELSE 0
    BY <2>7, <2>8, <2>9, <2>10, <2>11, <2>12, LinkSet
  <2>14. n \in S /\ m \in S /\ n # m /\ Cardinality(L[n]) <= 1 /\ Cardinality(L[m]) <= 1
    <3>1. Cardinality(SettledLinks(a)) <= 1 /\ Cardinality(SettledLinks(b)) <= 1
      BY <2>3, <2>4, <2>7, AtMostOneLink
    <3> QED
      BY <2>3, <2>7, <2>10, <2>11, <2>12, <3>1
  <2> DEFINE P == Places(L, S)
             p == <<n, Cardinality(L[n]) + 1>>
             q == <<m, Cardinality(L[m]) + 1>>
  <2>15. p \in P /\ q \in P /\ p # q
    BY <2>13, <2>14 DEF Places
  <2>16. Places(M, S) = P \ {p, q}
    <3>1. ASSUME NEW t \in S, NEW k \in {1, 2}
          PROVE  <<t, k>> \in Places(M, S) <=> <<t, k>> \in P \ {p, q}
      BY <2>13, <2>14, <3>1 DEF Places
    <3>2. \A x \in Places(M, S) : \E t \in S, k \in {1, 2} : x = <<t, k>>
      BY DEF Places
    <3>3. \A x \in P : \E t \in S, k \in {1, 2} : x = <<t, k>>
      BY DEF Places
    <3> HIDE DEF P, p, q
    <3>4. ASSUME NEW x \in Places(M, S) PROVE x \in P \ {p, q}
      <4>1. PICK t \in S, k \in {1, 2} : x = <<t, k>>
        BY <3>2
      <4> QED
        BY <3>1, <4>1
    <3>5. ASSUME NEW x \in P \ {p, q} PROVE x \in Places(M, S)
      <4>1. PICK t \in S, k \in {1, 2} : x = <<t, k>>
        BY <3>3
      <4> QED
        BY <3>1, <4>1
    <3> QED
      BY <3>4, <3>5
  <2>17. IsFiniteSet(P)
    <3>1. \A t \in S : L[t] \in SUBSET Dir /\ \E d \in Dir : d \notin L[t]
      BY <2>7, <2>12
    <3> QED
      BY <1>2, <2>12, <3>1, PlacesAndSides
  <2> HIDE DEF P, p, q
  <2>18. Cardinality(P \ {p, q}) = Cardinality(P) - 2
    BY <2>15, <2>17, TwoLess
  <2>19. Cardinality(Places(M, S)) = Cardinality(P) - 2
    BY <2>16, <2>18, Zenon
  <2>20. Cardinality(P) = 2 * stripsCount
    BY <2>5, <2>12, Zenon DEF P, CountOK
  <2>21. Cardinality(Places(M, S)) = 2 * stripsCount'
    BY <1>1, <2>1, <2>19, <2>20
  <2> QED
    BY <2>1, <2>6, <2>12, <2>21, Zenon DEF CountOK
<1>4. CASE ~TunnelFound
  <2>1. /\ UNCHANGED <<mesh, stripsCount>>
        /\ \A t \in Tris : SettledLinks(t)' = SettledLinks(t)
    BY <1>1, <1>4, SettledStays
  <2>2. Settled' = Settled /\ InUse' = InUse
    BY <2>1 DEF Settled, mesh, InUse
  <2> QED
    BY <2>1, <2>2, Zenon DEF CountOK
<1> QED
  BY <1>3, <1>4

(* Every step keeps both.                                                  *)
LEMMA NextCoverInv ==
  CoverInv /\ [Next]_vars => CoverInv'
BY NextIInv, CirclesStep, WalkStep, CircleFoundStep, CountStep DEF CoverInv

(* With the invariant of the links: no circle is ever settled, and the     *)
(* circle check knows which triangles have none.                           *)
THEOREM CoverInvHolds ==
  ASSUME CancelsCleanly
  PROVE  Spec => []CoverInv
<1>1. Init => CoverInv
  BY InitReady, ReadyCoverInv
<1> QED
  BY <1>1, NextCoverInv, PTL DEF Spec

(* What the invariant says of the result of the check.                     *)
LEMMA CoverInvExact ==
  ASSUME CoverInv
  PROVE  CircleCheckExact
<1>1. IInv /\ CirclesOK /\ CircleFound
  BY DEF CoverInv
<1>2. ASSUME pc = "Check", step >= Top, NEW k \in 0 .. Top, IsCircle(StripOf(At(k)))
      PROVE  FALSE
  <2> DEFINE S == StripOf(At(k))
  <2>1. InTunnel /\ IsFlipped /\ CheckOK /\ CountersOK /\ PathOK /\ MeshOK
    BY <1>1, <1>2 DEF InTunnel, IsFlipped, Cementing, IInv, ArraysOK
  <2>2. Top \in Nat /\ At(k) \in InUse
    BY <1>1, <2>1, PathFacts
  <2>3. At(k) \notin visited
    <3>1. step \in Nat /\ step % 2 = 0 /\ Top % 2 = 1
      BY <2>1, <1>2 DEF CountersOK, CheckOK, PathOK, Cementing
    <3>2. k < step
      BY <1>2, <2>2, <3>1
    <3> QED
      BY <1>2, <2>1, <3>2 DEF CheckOK
  <2>4. S \in Circles(Links)
    <3>1. S \in SUBSET InUse /\ At(k) \in S
      BY <2>2 DEF StripOf
    <3>2. InUse \subseteq Tris
      BY <2>1, MaxTrisAssumption DEF MeshOK, IsMesh, InUse, Tris
    <3>3. ASSUME NEW t \in S
          PROVE  ~AtMostOne({d \in Links(t) : neighbours[t][d] \in S})
      <4>1. ASSUME NEW d \in Links(t) PROVE neighbours[t][d] \in S
        <5>1. t \in InUse /\ t \in Tris /\ d \in Dir
          BY <3>1, <3>2, LinksAreDirs
        <5>2. neighbours[t][d] \in InUse
          BY <2>1, <5>1, EdgeFacts DEF CheckOK, Agree
        <5>3. \A U \in Enclosed : t \in U => neighbours[t][d] \in U
          BY DEF Enclosed
        <5>4. \A U \in Enclosed : At(k) \in U => t \in U
          BY DEF StripOf
        <5> QED
          BY <5>2, <5>3, <5>4 DEF StripOf
      <4>3. {d \in Links(t) : neighbours[t][d] \in S} = Links(t)
        BY <4>1
      <4>2. Links(t) \in SUBSET Dir /\ Cardinality(Links(t)) = 2
        BY <1>2, LinksAreDirs DEF IsCircle
      <4> QED
        BY <4>3, <4>2, AtMostOneLink
    <3> HIDE DEF S
    <3> QED
      BY <3>1, <3>3 DEF Circles
  <2>5. At(k) \in S
    BY <2>2 DEF StripOf
  <2> QED
    BY <1>1, <1>2, <2>3, <2>4, <2>5 DEF CirclesOK
<1> QED
  BY <1>1, <1>2 DEF CircleFound, CircleCheckExact

(* The circle check is exact: what it reports as a circle is one, and the  *)
(* last tunnel triangle on it is the one it says; and when it lets a       *)
(* tunnel stay, no strip through the tunnel is a circle.                   *)
THEOREM CircleCheckIsExact ==
  ASSUME CancelsCleanly
  PROVE  Spec => []CircleCheckExact
<1>1. CoverInv => CircleCheckExact
  BY CoverInvExact
<1> QED
  BY <1>1, CoverInvHolds, PTL

-----------------------------------------------------------------------------
(***************************************************************************)
(* Tunneling implements PathCover.                                         *)
(***************************************************************************)
(* The abstract specification counts as this one does.                    *)
LEMMA CoverCardinality == \A S : Cover!Cardinality(S) = Cardinality(S)
BY DEF Cover!Cardinality, Cardinality, Cover!IsFiniteSet, IsFiniteSet

(* The settled links cover the triangles by paths.                         *)
LEMMA SettledIsCover ==
  ASSUME IInv, CirclesOK
  PROVE  Cover!IsCover
<1> DEFINE L == [t \in Tris |-> SettledLinks(t)]
<1>1. ArraysOK /\ MeshOK /\ Agree(SettledLinks) /\ Circles(SettledLinks) = {}
  BY DEF IInv, ArraysOK, LinksOK, CirclesOK
<1>2. InUse \subseteq Tris /\ Cover!InUse = InUse
  BY <1>1, MaxTrisAssumption DEF MeshOK, IsMesh, InUse, Tris, Cover!InUse
<1>3. \A t \in InUse : L[t] = SettledLinks(t) /\ L[t] \in SUBSET Dir
  BY <1>2, LinksAreDirs
<1>4. Cover!Mutual
  <2> SUFFICES ASSUME NEW t \in InUse, NEW d \in L[t]
               PROVE  /\ neighbours[t][d] \in InUse \ {t}
                      /\ indices[t][d] \in L[neighbours[t][d]]
    BY <1>2 DEF Cover!Mutual
  <2>1. t \in Tris /\ d \in Dir /\ d \in SettledLinks(t)
    BY <1>2, <1>3
  <2>2. neighbours[t][d] # Null /\ indices[t][d] \in SettledLinks(neighbours[t][d])
    BY <1>1, <2>1 DEF Agree
  <2>3. neighbours[t][d] \in InUse /\ neighbours[t][d] # t
    BY <1>1, <2>1, <2>2, EdgeFacts
  <2> QED
    BY <1>3, <2>2, <2>3
<1>5. Cover!NoCircle
  <2> SUFFICES ASSUME NEW S \in (SUBSET InUse) \ {{}}
               PROVE  \E t \in S : Cardinality(Cover!LinksInto(t, S)) <= 1
    BY <1>2, CoverCardinality DEF Cover!NoCircle
  <2>1. PICK t \in S : AtMostOne({d \in SettledLinks(t) : neighbours[t][d] \in S})
    BY <1>1 DEF Circles
  <2>2. Cover!LinksInto(t, S) = {d \in SettledLinks(t) : neighbours[t][d] \in S}
    BY <1>3 DEF Cover!LinksInto
  <2>3. {d \in SettledLinks(t) : neighbours[t][d] \in S} \in SUBSET Dir
    BY LinksAreDirs
  <2> QED
    BY <2>1, <2>2, <2>3, AtMostOneLink
<1>6. \A t \in Cover!InUse : Cover!Degree(t) <= 2
  <2> SUFFICES ASSUME NEW t \in InUse PROVE Cardinality(L[t]) <= 2
    BY <1>2, CoverCardinality DEF Cover!Degree
  <2>1. \E d \in Dir : d \notin SettledLinks(t)
    BY <1>1, <1>2 DEF Agree
  <2> QED
    BY <1>3, <2>1, TwoLinks
<1> QED
  BY <1>2, <1>4, <1>5, <1>6 DEF Cover!IsCover

(* Isolated triangles are a cover: there are as many strips as triangles.  *)
LEMMA InitIsCover ==
  ASSUME CancelsCleanly, Init
  PROVE  Cover!Init
<1>1. IInv /\ CirclesOK
  BY InitReady, ReadyCoverInv DEF CoverInv
<1>2. Cover!IsCover
  BY <1>1, SettledIsCover
<1>3. \A t \in Tris : SettledLinks(t) = {}
  BY SettledIsCurrent DEF Init, Cementing, Links, LinksOf
<1>4. Cover!InUse \subseteq Tris
  BY <1>1, MaxTrisAssumption DEF IInv, ArraysOK, MeshOK, IsMesh, Tris, Cover!InUse
<1>5. {side \in Cover!InUse \X (0 .. 2) : side[2] \in [t \in Tris |-> SettledLinks(t)][side[1]]} = {}
  BY <1>3, <1>4
<1>6. Cover!LinksCount = 0
  BY <1>5, FS_EmptySet, CoverCardinality DEF Cover!LinksCount
<1>7. stripsCount = trisCount /\ trisCount \in Nat
  BY <1>1, MaxTrisAssumption DEF Init, IInv, ArraysOK, MeshOK, IsMesh, Tris
<1> QED
  BY <1>2, <1>6, <1>7 DEF Cover!Init, Cover!CountsStrips

(* A found tunnel joins the strips of its two ends.                        *)
LEMMA FoundJoins ==
  ASSUME CoverInv, CoverInv', TunnelFound
  PROVE  Cover!Join
<1> DEFINE L == [t \in Tris |-> SettledLinks(t)]
           a == At(0)
           b == At(Top)
<1>1. IInv /\ ArraysOK /\ MeshOK
  BY DEF CoverInv, IInv, ArraysOK
<1>2. /\ pc = "Check" /\ pc' \notin Cementing
      /\ UNCHANGED <<mesh, stripVars>> /\ stripsCount' = stripsCount - 1
  BY DEF TunnelFound, ContinueWith, Cementing
<1>3. pc \in Cementing /\ IsFlipped /\ InTunnel /\ Flipped = Top
  BY <1>2 DEF Cementing, IsFlipped, InTunnel, Flipped
<1>4. InUse \subseteq Tris /\ Cover!InUse = InUse
  BY <1>1, MaxTrisAssumption DEF MeshOK, IsMesh, InUse, Tris, Cover!InUse
<1>5. /\ Top \in Nat /\ Top % 2 = 1
      /\ \A k \in 0 .. Top : At(k) \in InUse
      /\ \A j, k \in 0 .. Top : At(j) = At(k) => j = k
  BY <1>1, <1>3, PathFacts DEF IInv, PathOK
<1>6. a \in InUse /\ b \in InUse /\ a # b
  BY <1>5
<1>7. \A t \in Tris : SettledLinks(t)' = Links(t)
  BY <1>2 DEF SettledLinks, IsSaved, Links, stripVars
<1>8. \A t \in InUse :
        Cardinality(SettledLinks(t)') = Cardinality(SettledLinks(t)) + IF t \in {a, b} THEN 1 ELSE 0
  BY <1>1, FoundDegrees
<1>9. \A t \in InUse :
        Cover!Cardinality(L'[t]) = Cover!Degree(t) + IF t \in {a, b} THEN 1 ELSE 0
  <2>1. \A t \in InUse : L'[t] = SettledLinks(t)' /\ L[t] = SettledLinks(t)
    BY <1>4
  <2>2. \A t \in InUse : Cover!Degree(t) = Cardinality(SettledLinks(t))
    BY <2>1, CoverCardinality DEF Cover!Degree
  <2>3. \A t \in InUse : Cover!Cardinality(L'[t]) = Cardinality(SettledLinks(t)')
    BY <2>1, CoverCardinality
  <2> HIDE DEF L, a, b
  <2> QED
    BY <1>8, <2>2, <2>3
<1>10. Cover!IsCover'
  <2>1. (IInv /\ CirclesOK)'
    BY DEF CoverInv
  <2>2. (IInv /\ CirclesOK => Cover!IsCover)'
    BY SettledIsCover, PTL
  <2> QED
    BY <2>1, <2>2
<1>11. UNCHANGED <<trisCount, neighbours, indices>>
  BY <1>2 DEF mesh
<1> QED
  <2> HIDE DEF a, b
  <2>1. a \in Cover!InUse /\ b \in Cover!InUse /\ a # b
    BY <1>4, <1>6
  <2>2. \A t \in Cover!InUse :
          Cover!Cardinality(L'[t]) = Cover!Degree(t) + IF t \in {a, b} THEN 1 ELSE 0
    BY <1>4, <1>9
  <2>3. stripsCount' = stripsCount - 1
    BY <1>2
  <2> QED
    BY <1>10, <1>11, <2>1, <2>2, <2>3 DEF Cover!Join

(* Every step joins two strips or leaves the cover as it is.               *)
LEMMA JoinsOrStays ==
  ASSUME CoverInv, CoverInv', [Next]_vars
  PROVE  [Cover!Join]_(Cover!vars)
<1>1. CASE TunnelFound
  BY <1>1, FoundJoins
<1>2. CASE ~TunnelFound
  <2>1. /\ UNCHANGED <<mesh, stripsCount>>
        /\ \A t \in Tris : SettledLinks(t)' = SettledLinks(t)
    BY <1>2, SettledStays DEF CoverInv
  <2>2. [t \in Tris |-> SettledLinks(t)]' = [t \in Tris |-> SettledLinks(t)]
    BY <2>1
  <2>3. UNCHANGED Cover!vars
    BY <2>1, <2>2 DEF Cover!vars, mesh
  <2> QED
    BY <2>3
<1> QED
  BY <1>1, <1>2

(* Tunneling implements the abstract path cover: the strips are disjoint   *)
(* paths through all the triangles at every step, a found tunnel joins two *)
(* of them and nothing else that the search, the cementing, the check or   *)
(* the undoing does changes the cover.                                     *)
THEOREM TunnelingIsPathCover ==
  ASSUME CancelsCleanly
  PROVE  Spec => ImplementsPathCover
<1>1. Init => Cover!Init
  BY InitIsCover
<1>2. CoverInv /\ CoverInv' /\ [Next]_vars => [Cover!Join]_(Cover!vars)
  BY JoinsOrStays
<1>3. Spec => []CoverInv
  BY CoverInvHolds
<1> QED
  BY <1>1, <1>2, <1>3, PTL DEF Spec, ImplementsPathCover, Cover!Spec

(* The places left say how many strips there are.                          *)
LEMMA CoverInvCounts ==
  ASSUME CoverInv
  PROVE  Cover!CountsStrips
<1>1. IInv /\ MeshOK /\ Agree(SettledLinks) /\ stripsCount \in Int /\ CountOK
  BY DEF CoverInv, IInv, ArraysOK, LinksOK, CountersOK
<1>2. trisCount \in Nat /\ InUse \subseteq Tris /\ IsFiniteSet(InUse) /\ Cardinality(InUse) = trisCount
  <2>1. InUse \subseteq Tris /\ trisCount \in Nat
    BY <1>1, MaxTrisAssumption DEF MeshOK, IsMesh, InUse, Tris
  <2>2. IsFiniteSet(InUse) /\ Cardinality(InUse) = trisCount
    BY <2>1, FS_Interval DEF InUse
  <2> QED
    BY <2>1, <2>2
<1>3. PICK L : L = Settled
  OBVIOUS
<1>4. \A t \in InUse : L[t] \in SUBSET Dir /\ \E d \in Dir : d \notin L[t]
  <2>1. \A t \in InUse : L[t] = SettledLinks(t)
    BY <1>2, <1>3 DEF Settled
  <2>2. \A t \in InUse : SettledLinks(t) \in SUBSET Dir
    BY LinksAreDirs
  <2> QED
    BY <1>1, <1>2, <2>1, <2>2 DEF Agree
<1>5. /\ IsFiniteSet(Places(L, InUse)) /\ IsFiniteSet(SidesOf(L, InUse))
      /\ Cardinality(Places(L, InUse)) + Cardinality(SidesOf(L, InUse)) = 2 * Cardinality(InUse)
  BY <1>2, <1>4, PlacesAndSides
<1>6. Cardinality(Places(L, InUse)) = 2 * stripsCount
  BY <1>1, <1>3, Zenon DEF CountOK
<1>7. Cover!LinksCount = Cardinality(SidesOf(L, InUse))
  <2>1. {side \in Cover!InUse \X (0 .. 2) : side[2] \in [t \in Tris |-> SettledLinks(t)][side[1]]}
          = SidesOf(L, InUse)
    BY <1>3 DEF SidesOf, Settled, Cover!InUse, InUse, Dir
  <2> QED
    BY <2>1, CoverCardinality, Zenon DEF Cover!LinksCount
<1>8. Cardinality(SidesOf(L, InUse)) \in Nat
  BY <1>5, FS_CardinalityType
<1>9. 2 * stripsCount + Cardinality(SidesOf(L, InUse)) = 2 * trisCount
  BY <1>1, <1>2, <1>5, <1>6, <1>8
<1> QED
  BY <1>7, <1>9 DEF Cover!CountsStrips

(* The count of the strips, which the code only ever decrements, is right  *)
(* in every state: twice the count and the links of all the triangles      *)
(* together are twice the number of triangles.                             *)
THEOREM StripsCounted ==
  ASSUME CancelsCleanly
  PROVE  Spec => []Cover!CountsStrips
<1>1. CoverInv => Cover!CountsStrips
  BY CoverInvCounts
<1> QED
  BY <1>1, CoverInvHolds, PTL

-----------------------------------------------------------------------------
(***************************************************************************)
(* What the search leaves behind: the account of TunnelingInv is kept, so  *)
(* that an unlimited search overlooks only what it has given up.           *)
(***************************************************************************)

-----------------------------------------------------------------------------
(***************************************************************************)
(* The paths that the property speaks of.                                  *)
(***************************************************************************)
\* A sequence of sides that leads from each triangle to the next one, across
\* unlinked and linked edges in turn, and to no triangle that it has left.
Alternates(links, p) ==
  \A i \in 1 .. Len(p) :
    /\ Across(p[i]) # Null /\ Across(p[i]) \notin Leaves(p, i)
    /\ p[i][2] \in links[p[i][1]] <=> i % 2 = 0
    /\ i > 1 => p[i][1] = Across(p[i - 1])
PathsOf(links, a, k) ==
  {p \in Seq(Tris \X Dir) : Len(p) = k /\ p[1][1] = a /\ Alternates(links, p)}

(* A side that leads somewhere leads to another triangle in use.           *)
LEMMA SideFacts ==
  ASSUME MeshOK, NEW side \in Tris \X Dir, Across(side) # Null
  PROVE  /\ side[1] \in Tris /\ side[2] \in Dir /\ side = <<side[1], side[2]>>
         /\ Across(side) \in InUse /\ Across(side) \in Tris /\ Across(side) # side[1]
  BY EdgeFacts DEF Across

(* The sides across unlinked edges are the paths of one side ...           *)
LEMMA FirstSides ==
  ASSUME MeshOK, NEW links, NEW a \in Tris
  PROVE  {<<side>> : side \in SidesOut(links, a, FALSE)} = PathsOf(links, a, 1)
<1> DEFINE X == Tris \X Dir
<1>1. ASSUME NEW p \in PathsOf(links, a, 1)
      PROVE  p \in {<<side>> : side \in SidesOut(links, a, FALSE)}
  <2>1. p \in Seq(X) /\ Len(p) = 1 /\ p[1][1] = a /\ 1 \in 1 .. Len(p)
    BY <1>1 DEF PathsOf
  <2>2. p = <<p[1]>> /\ p[1] \in X /\ p[1] = <<a, p[1][2]>> /\ p[1][2] \in Dir
    BY <2>1
  <2>3. Across(p[1]) # Null /\ (p[1][2] \in links[a] <=> 1 % 2 = 0)
    BY <1>1, <2>1 DEF PathsOf, Alternates
  <2>4. p[1][2] \in {e \in Dir : neighbours[a][e] # Null /\ (e \in links[a]) = FALSE}
    BY <2>1, <2>2, <2>3 DEF Across
  <2> QED BY <2>2, <2>4 DEF SidesOut
<1>2. ASSUME NEW d \in Dir, neighbours[a][d] # Null, d \notin links[a]
      PROVE  <<<<a, d>>>> \in PathsOf(links, a, 1)
  <2> DEFINE p == <<<<a, d>>>>
  <2>1. p \in Seq(X) /\ Len(p) = 1 /\ p[1] = <<a, d>>
    OBVIOUS
  <2>2. Across(p[1]) # Null /\ Across(p[1]) # a /\ Leaves(p, 1) = {a}
    BY <1>2, <2>1, EdgeFacts DEF Across, Leaves
  <2>3. ASSUME NEW i \in 1 .. Len(p)
        PROVE  /\ Across(p[i]) # Null /\ Across(p[i]) \notin Leaves(p, i)
               /\ p[i][2] \in links[p[i][1]] <=> i % 2 = 0
               /\ i > 1 => p[i][1] = Across(p[i - 1])
    <3>1. i = 1
      BY <2>1, <2>3
    <3> QED BY <3>1, <2>1, <2>2, <1>2
  <2> HIDE DEF p
  <2>4. Alternates(links, p)
    BY <2>3 DEF Alternates
  <2>5. p \in PathsOf(links, a, 1)
    BY <2>1, <2>4 DEF PathsOf
  <2> QED BY <2>5 DEF p
<1>3. \A side \in SidesOut(links, a, FALSE) : <<side>> \in PathsOf(links, a, 1)
  BY <1>2 DEF SidesOut
<1> QED BY <1>1, <1>3

(* ... and a path is longer by one side when it goes on across an edge of  *)
(* the other kind, to a triangle that it has not left.                     *)
LEMMA LongerSides ==
  ASSUME MeshOK, NEW links, NEW a \in Tris, NEW k \in Nat, k >= 1
  PROVE  Extended(links, PathsOf(links, a, k), (k + 1) % 2 = 0) = PathsOf(links, a, k + 1)
<1> DEFINE X == Tris \X Dir
<1>1. ASSUME NEW p \in PathsOf(links, a, k + 1)
      PROVE  p \in Extended(links, PathsOf(links, a, k), (k + 1) % 2 = 0)
  <2> DEFINE f == SubSeq(p, 1, k)
  <2>1. p \in Seq(X) /\ Len(p) = k + 1 /\ p[1][1] = a /\ Alternates(links, p)
    BY <1>1 DEF PathsOf
  <2>2. f \in Seq(X) /\ Len(f) = k /\ \A i \in 1 .. k : f[i] = p[i]
    BY <2>1
  <2>3. p = Append(f, p[k + 1]) /\ p[k + 1] \in X
    BY <2>1, <2>2
  <2> HIDE DEF f
  <2>4. \A i \in 1 .. k : Leaves(f, i) = Leaves(p, i)
    BY <2>2 DEF Leaves
  <2>5. f \in PathsOf(links, a, k)
    <3>1. ASSUME NEW i \in 1 .. k
          PROVE  /\ Across(f[i]) # Null /\ Across(f[i]) \notin Leaves(f, i)
                 /\ f[i][2] \in links[f[i][1]] <=> i % 2 = 0
                 /\ i > 1 => f[i][1] = Across(f[i - 1])
      <4>1. f[i] = p[i] /\ i \in 1 .. Len(p) /\ (i > 1 => f[i - 1] = p[i - 1])
        BY <2>1, <2>2, <3>1
      <4> QED BY <4>1, <2>1, <2>4 DEF Alternates
    <3>2. f[1] = p[1]
      BY <2>2
    <3> QED BY <3>1, <3>2, <2>1, <2>2 DEF PathsOf, Alternates
  <2> DEFINE s == p[k + 1]
             t == Across(f[Len(f)])
  <2>6. /\ Across(s) # Null /\ Across(s) \notin Leaves(p, k + 1)
        /\ s[2] \in links[s[1]] <=> (k + 1) % 2 = 0
        /\ s[1] = t
    <3>1. k + 1 \in 1 .. Len(p) /\ k + 1 > 1 /\ (k + 1) - 1 = k /\ f[Len(f)] = p[k]
      BY <2>1, <2>2
    <3> QED BY <2>1, <3>1 DEF Alternates
  <2>7. Visits(f) = Leaves(p, k + 1)
    <3>1. Leaves(p, k + 1) = Leaves(p, k) \cup {p[k + 1][1]}
      BY DEF Leaves
    <3> QED BY <3>1, <2>2, <2>4, <2>6 DEF Visits
  <2>8. s = <<t, s[2]>> /\ s[2] \in Dir
    BY <2>3, <2>6
  <2>9. s \in SidesOut(links, t, (k + 1) % 2 = 0)
    <3>1. neighbours[t][s[2]] # Null
      BY <2>6 DEF Across
    <3>2. s[2] \in {e \in Dir : neighbours[t][e] # Null /\ (e \in links[t]) = ((k + 1) % 2 = 0)}
      BY <2>6, <2>8, <3>1
    <3> HIDE DEF s, t
    <3> QED BY <2>8, <3>2 DEF SidesOut
  <2> HIDE DEF s, t
  <2> QED BY <2>3, <2>5, <2>6, <2>7, <2>9 DEF Extended, s, t
<1>2. ASSUME NEW f \in PathsOf(links, a, k),
             NEW d \in Dir, neighbours[Across(f[Len(f)])][d] # Null,
             (d \in links[Across(f[Len(f)])]) = ((k + 1) % 2 = 0),
             Across(<<Across(f[Len(f)]), d>>) \notin Visits(f)
      PROVE  Append(f, <<Across(f[Len(f)]), d>>) \in PathsOf(links, a, k + 1)
  <2> DEFINE t == Across(f[Len(f)])
             p == Append(f, <<t, d>>)
  <2>1. f \in Seq(X) /\ Len(f) = k /\ f[1][1] = a /\ Alternates(links, f) /\ k \in 1 .. Len(f)
    BY <1>2 DEF PathsOf
  <2>2. t \in Tris
    <3>1. f[k] \in X /\ Across(f[k]) # Null
      BY <2>1 DEF Alternates
    <3> QED BY <3>1, <2>1, SideFacts
  <2> HIDE DEF t
  <2>3. p \in Seq(X) /\ Len(p) = k + 1 /\ (\A i \in 1 .. k : p[i] = f[i]) /\ p[k + 1] = <<t, d>>
    BY <2>1, <2>2
  <2> HIDE DEF p
  <2>4. \A i \in 1 .. k : Leaves(f, i) = Leaves(p, i)
    BY <2>3 DEF Leaves
  <2>5. Leaves(p, k + 1) = Visits(f)
    <3>1. Leaves(p, k + 1) = Leaves(p, k) \cup {p[k + 1][1]}
      BY DEF Leaves
    <3> QED BY <3>1, <2>1, <2>3, <2>4 DEF Visits, t
  <2>6. ASSUME NEW i \in 1 .. Len(p)
        PROVE  /\ Across(p[i]) # Null /\ Across(p[i]) \notin Leaves(p, i)
               /\ p[i][2] \in links[p[i][1]] <=> i % 2 = 0
               /\ i > 1 => p[i][1] = Across(p[i - 1])
    <3>1. CASE i <= k
      <4>1. i \in 1 .. k /\ p[i] = f[i] /\ i \in 1 .. Len(f) /\ (i > 1 => p[i - 1] = f[i - 1])
        BY <3>1, <2>1, <2>3
      <4> QED BY <4>1, <2>1, <2>4 DEF Alternates
    <3>2. CASE i = k + 1
      <4>1. p[i] = <<t, d>> /\ p[i - 1] = f[Len(f)] /\ i > 1
        BY <3>2, <2>1, <2>3
      <4>2. Across(p[i]) # Null /\ Across(p[i]) \notin Leaves(p, i)
        BY <4>1, <3>2, <2>5, <1>2 DEF Across, t
      <4>3. d \in links[t] <=> (k + 1) % 2 = 0
        BY <1>2 DEF t
      <4> QED BY <4>1, <4>2, <4>3, <3>2 DEF t
    <3> QED BY <3>1, <3>2, <2>3
  <2>7. p[1][1] = a
    BY <2>1, <2>3
  <2>8. p \in PathsOf(links, a, k + 1)
    BY <2>3, <2>6, <2>7 DEF PathsOf, Alternates
  <2> QED BY <2>8 DEF p, t
<1>3. ASSUME NEW f \in PathsOf(links, a, k),
             NEW side \in SidesOut(links, Across(f[Len(f)]), (k + 1) % 2 = 0),
             Across(side) \notin Visits(f)
      PROVE  Append(f, side) \in PathsOf(links, a, k + 1)
  <2>1. PICK d \in Dir : /\ side = <<Across(f[Len(f)]), d>>
                         /\ neighbours[Across(f[Len(f)])][d] # Null
                         /\ (d \in links[Across(f[Len(f)])]) = ((k + 1) % 2 = 0)
    BY <1>3 DEF SidesOut
  <2> QED BY <2>1, <1>2, <1>3
<1>4. ASSUME NEW p \in Extended(links, PathsOf(links, a, k), (k + 1) % 2 = 0)
      PROVE  p \in PathsOf(links, a, k + 1)
  <2>1. PICK f \in PathsOf(links, a, k) :
          p \in {Append(f, side) :
                   side \in {s \in SidesOut(links, Across(f[Len(f)]), (k + 1) % 2 = 0) :
                              Across(s) \notin Visits(f)}}
    BY <1>4, Zenon DEF Extended
  <2>2. PICK side \in SidesOut(links, Across(f[Len(f)]), (k + 1) % 2 = 0) :
          p = Append(f, side) /\ Across(side) \notin Visits(f)
    BY <2>1, Zenon
  <2> QED BY <2>2, <1>3
<1> QED BY <1>1, <1>4

(* So the recursive definition enumerates the alternating paths.  The      *)
(* function that it chooses is unique: the least argument at which it      *)
(* would differ has none below it that does.                               *)
LEMMA AlternatingPaths ==
  ASSUME MeshOK, NEW links, NEW a \in Tris, NEW n \in Nat
  PROVE  AlternatingFrom(links, a, n) =
           UNION {PathsOf(links, a, k) : k \in {i \in 1 .. n : i % 2 = 1}}
<1> DEFINE Body(f) == [k \in 1 .. n |->
                         IF k = 1 THEN {<<side>> : side \in SidesOut(links, a, FALSE)}
                         ELSE Extended(links, f[k - 1], k % 2 = 0)]
           paths == CHOOSE f : f = Body(f)
           known == [k \in 1 .. n |-> PathsOf(links, a, k)]
<1>1. known = Body(known)
  <2>1. ASSUME NEW k \in 1 .. n
        PROVE  known[k] = IF k = 1 THEN {<<side>> : side \in SidesOut(links, a, FALSE)}
                          ELSE Extended(links, known[k - 1], k % 2 = 0)
    <3>1. CASE k = 1
      BY <3>1, FirstSides
    <3>2. CASE k # 1
      <4>1. k - 1 \in Nat /\ k - 1 >= 1 /\ (k - 1) + 1 = k /\ k - 1 \in 1 .. n
        BY <3>2
      <4>2. Extended(links, PathsOf(links, a, k - 1), ((k - 1) + 1) % 2 = 0) = PathsOf(links, a, (k - 1) + 1)
        BY <4>1, LongerSides
      <4> QED BY <3>2, <4>1, <4>2
    <3> QED BY <3>1, <3>2
  <2> QED BY <2>1
<1>2. paths = Body(paths)
  <2> HIDE DEF Body, known
  <2> QED BY <1>1
<1>3. \A k \in 1 .. n : paths[k] = known[k]
  <2> DEFINE S == {k \in 1 .. n : paths[k] # known[k]}
  <2>1. ASSUME S # {} PROVE FALSE
    <3>1. PICK k \in S : \A m \in S : k <= m
      <4> HIDE DEF paths, known
      <4>1. S \in SUBSET Nat
        OBVIOUS
      <4> HIDE DEF S
      <4> QED BY <4>1, <2>1, LeastNumber
    <3> HIDE DEF paths, known
    <3>2. CASE k = 1
      <4>1. paths[1] = known[1]
        BY <1>1, <1>2, <3>2
      <4> QED BY <4>1, <3>1, <3>2
    <3>3. CASE k # 1
      <4>1. k - 1 \in 1 .. n /\ k \in 1 .. n /\ k - 1 \notin S
        BY <3>1, <3>3
      <4>2. paths[k - 1] = known[k - 1]
        BY <4>1
      <4> DEFINE longer(P) == Extended(links, P, k % 2 = 0)
      <4>5. paths[k] = longer(paths[k - 1])
        BY <1>2, <4>1, <3>3
      <4>6. known[k] = longer(known[k - 1])
        BY <1>1, <4>1, <3>3
      <4> HIDE DEF longer
      <4>3. paths[k] = known[k]
        BY <4>5, <4>6, <4>2
      <4> QED BY <4>3, <3>1
    <3> QED BY <3>2, <3>3
  <2> QED BY <2>1
<1>4. AlternatingFrom(links, a, n) = UNION {paths[k] : k \in {i \in 1 .. n : i % 2 = 1}}
  BY DEF AlternatingFrom
<1> HIDE DEF paths
<1> QED BY <1>3, <1>4

(* What the invariant says of the mesh, the links and the ends.            *)
LEMMA InvFacts ==
  ASSUME IInv
  PROVE  /\ MeshOK /\ InUse \subseteq Tris /\ trisCount \in Nat
         /\ config.maxCount \in Nat /\ config.maxCount >= 2
         /\ Settled \in [Tris -> SUBSET Dir]
         /\ \A t \in Tris : Settled[t] = SettledLinks(t)
         /\ Ends(SettledLinks) \subseteq InUse
         /\ Endpoints = Ends(SettledLinks)
<1>1. MeshOK /\ ConfigOK /\ LinksOK
  BY DEF IInv, ArraysOK
<1>2. InUse \subseteq Tris /\ trisCount \in Nat
  BY <1>1, MaxTrisAssumption DEF MeshOK, IsMesh, InUse, Tris
<1>3. config.maxCount \in Nat /\ config.maxCount >= 2
  BY <1>1, ConfigFields DEF ConfigOK
<1>4. Settled \in [Tris -> SUBSET Dir] /\ \A t \in Tris : Settled[t] = SettledLinks(t)
  BY LinksAreDirs DEF Settled
<1> QED BY <1>1, <1>2, <1>3, <1>4 DEF Ends, LinksOK

\* The paths that may be dug, without the enumeration.
IsClosing(p) ==
  /\ p \in Seq(Tris \X Dir) /\ Len(p) % 2 = 1 /\ Len(p) < config.maxCount
  /\ Alternates(Settled, p)
  /\ p[1][1] \in Ends(SettledLinks) /\ Across(p[Len(p)]) \in Ends(SettledLinks)

(* The search may dig the alternating paths from an end to an end that fit *)
(* the stack.                                                              *)
LEMMA ClosingPaths ==
  ASSUME IInv
  PROVE  \A p : p \in Closing <=> IsClosing(p)
<1> DEFINE n == config.maxCount - 1
           E == Ends(SettledLinks)
<1>1. MeshOK /\ n \in Nat /\ E \subseteq Tris /\ config.maxCount \in Nat
  BY InvFacts
<1>2. \A a \in E : AlternatingFrom(Settled, a, n) =
                     UNION {PathsOf(Settled, a, k) : k \in {i \in 1 .. n : i % 2 = 1}}
  <2> HIDE DEF n, E
  <2> QED BY <1>1, AlternatingPaths
<1>3. ASSUME NEW p \in Closing PROVE IsClosing(p)
  <2>1. PICK a \in E : p \in AlternatingFrom(Settled, a, n)
    BY <1>3, Zenon DEF Closing
  <2>2. PICK k \in {i \in 1 .. n : i % 2 = 1} : p \in PathsOf(Settled, a, k)
    <3>1. p \in UNION {PathsOf(Settled, a, k) : k \in {i \in 1 .. n : i % 2 = 1}}
      BY <1>2, <2>1
    <3> HIDE DEF n
    <3> QED BY <3>1, Zenon
  <2>3. Across(p[Len(p)]) \in E
    BY <1>3, Zenon DEF Closing
  <2>4. p \in Seq(Tris \X Dir) /\ Len(p) = k /\ p[1][1] = a /\ Alternates(Settled, p)
    BY <2>2, Zenon DEF PathsOf
  <2>5. k \in 1 .. n /\ k % 2 = 1 /\ k < config.maxCount
    BY <2>2, <1>1
  <2> QED BY <2>1, <2>3, <2>4, <2>5 DEF IsClosing
<1>4. ASSUME NEW p, IsClosing(p) PROVE p \in Closing
  <2> DEFINE a == p[1][1]
             k == Len(p)
  <2>1. a \in E /\ p \in Seq(Tris \X Dir) /\ Alternates(Settled, p) /\ Across(p[Len(p)]) \in E
    BY <1>4 DEF IsClosing
  <2>2. k \in {i \in 1 .. n : i % 2 = 1}
    BY <1>1, <1>4 DEF IsClosing
  <2>3. p \in PathsOf(Settled, a, k)
    BY <2>1 DEF PathsOf
  <2>4. p \in AlternatingFrom(Settled, a, n)
    <3> HIDE DEF a, k, E, n
    <3> QED BY <1>2, <2>1, <2>2, <2>3, Zenon
  <2> QED BY <2>1, <2>4, Zenon DEF Closing
<1> QED BY <1>3, <1>4

(* The sides of such a path one by one.                                    *)
LEMMA ClosingFacts ==
  ASSUME IInv, NEW p \in Closing
  PROVE  /\ p \in Seq(Tris \X Dir) /\ Len(p) \in Nat /\ Len(p) >= 1 /\ Len(p) % 2 = 1
         /\ Len(p) < config.maxCount
         /\ p[1][1] \in Ends(SettledLinks) /\ Across(p[Len(p)]) \in Ends(SettledLinks)
         /\ \A i \in 1 .. Len(p) :
              /\ p[i][1] \in Tris /\ p[i][2] \in Dir /\ p[i] = <<p[i][1], p[i][2]>>
              /\ neighbours[p[i][1]][p[i][2]] = Across(p[i])
              /\ Across(p[i]) # Null /\ Across(p[i]) \in InUse /\ Across(p[i]) # p[i][1]
              /\ \A j \in 1 .. i : p[j][1] # Across(p[i])
              /\ p[i][2] \in SettledLinks(p[i][1]) <=> i % 2 = 0
              /\ i > 1 => p[i][1] = Across(p[i - 1])
<1>1. IsClosing(p) /\ MeshOK /\ \A t \in Tris : Settled[t] = SettledLinks(t)
  BY ClosingPaths, InvFacts
<1>2. /\ p \in Seq(Tris \X Dir) /\ Len(p) \in Nat /\ Len(p) % 2 = 1 /\ Len(p) >= 1
      /\ Len(p) < config.maxCount /\ Alternates(Settled, p)
      /\ p[1][1] \in Ends(SettledLinks) /\ Across(p[Len(p)]) \in Ends(SettledLinks)
  BY <1>1 DEF IsClosing
<1>3. ASSUME NEW i \in 1 .. Len(p)
      PROVE  /\ p[i][1] \in Tris /\ p[i][2] \in Dir /\ p[i] = <<p[i][1], p[i][2]>>
             /\ neighbours[p[i][1]][p[i][2]] = Across(p[i])
             /\ Across(p[i]) # Null /\ Across(p[i]) \in InUse /\ Across(p[i]) # p[i][1]
             /\ \A j \in 1 .. i : p[j][1] # Across(p[i])
             /\ p[i][2] \in SettledLinks(p[i][1]) <=> i % 2 = 0
             /\ i > 1 => p[i][1] = Across(p[i - 1])
  <2>1. p[i] \in Tris \X Dir
    BY <1>2
  <2>2. /\ Across(p[i]) # Null /\ Across(p[i]) \notin Leaves(p, i)
        /\ p[i][2] \in Settled[p[i][1]] <=> i % 2 = 0
        /\ i > 1 => p[i][1] = Across(p[i - 1])
    BY <1>2 DEF Alternates
  <2>3. /\ p[i][1] \in Tris /\ p[i][2] \in Dir /\ p[i] = <<p[i][1], p[i][2]>>
        /\ Across(p[i]) \in InUse /\ Across(p[i]) # p[i][1]
    BY <1>1, <2>1, <2>2, SideFacts
  <2> QED BY <1>1, <2>2, <2>3 DEF Leaves, Across
<1> QED BY <1>2, <1>3

(* What flipping a path would do depends on the settled links alone ...    *)
LEMMA CirclesAfterFrame ==
  ASSUME UNCHANGED mesh, Settled' = Settled, NEW p
  PROVE  CirclesAfter(Settled, p)' = CirclesAfter(Settled, p)
BY DEF CirclesAfter, LinksAfter, Circles, InUse, mesh, Across

(* ... and so does what is still to be tried.                              *)
LEMMA TriedFrame ==
  ASSUME IInv, IInv', UNCHANGED mesh, config'.maxCount = config.maxCount,
         \A t \in Tris : SettledLinks(t)' = SettledLinks(t)
  PROVE  Closing' = Closing /\ \A p : Tried(p)' <=> Tried(p)
<1>1. Settled' = Settled
  BY DEF Settled
<1>2. Ends(SettledLinks)' = Ends(SettledLinks)
  BY InvFacts DEF Ends, InUse, mesh
<1>3. \A p : IsClosing(p)' <=> IsClosing(p)
  BY <1>1, <1>2 DEF IsClosing, Alternates, Leaves, Across, mesh
<1>4. Closing' = Closing
  <2>1. (\A p : p \in Closing <=> IsClosing(p)) /\ (\A p : p \in Closing <=> IsClosing(p))'
    BY ClosingPaths, PTL
  <2> QED BY <1>3, <2>1
<1>5. \A p : CirclesAfter(Settled, p)' = CirclesAfter(Settled, p)
  BY <1>1, CirclesAfterFrame
<1>6. \A p, n : GivesUpAfter(Settled, p, n)' <=> GivesUpAfter(Settled, p, n)
  BY <1>5 DEF GivesUpAfter, Visits, Leaves, Across, mesh
<1> QED BY <1>4, <1>5, <1>6 DEF Tried, GivenUp

-----------------------------------------------------------------------------
(***************************************************************************)
(* The stack of a tunnel state.                                            *)
(***************************************************************************)
(* A stack of positions is its top one and those below it.                 *)
LEMMA UntriedRest ==
  ASSUME NEW D \in SUBSET Dir, NEW s \in Stacks(D)
  PROVE  /\ Untried(s) = {s % 4} \cup Untried(s \div 4)
         /\ Untried(TunnelStateDepleted) = {}
<1>0. Untried(TunnelStateDepleted) = {}
  BY DEF Untried, TunnelStateDepleted
<1>1. ASSUME NEW d \in D, s = 12 + d
      PROVE  Untried(s) = {s % 4} \cup Untried(s \div 4)
  <2>1. d \in 0 .. 2 /\ s % 4 = d /\ s \div 4 = 3 /\ s \in 12 .. 15
    BY <1>1 DEF Dir
  <2> QED BY <2>1, <1>0 DEF Untried, TunnelStateDepleted
<1>2. ASSUME NEW d \in D, NEW e \in D, s = 48 + 4 * d + e
      PROVE  Untried(s) = {s % 4} \cup Untried(s \div 4)
  <2>1. d \in 0 .. 2 /\ e \in 0 .. 2
    BY <1>2 DEF Dir
  <2>2. s % 4 = e /\ s \div 4 = 12 + d /\ s \in 48 .. 63
    BY <1>2, <2>1
  <2>3. Untried(12 + d) = {d}
    BY <2>1 DEF Untried
  <2>4. Untried(s) = {e, d}
    BY <2>1, <2>2 DEF Untried
  <2> QED BY <2>2, <2>3, <2>4
<1>3. ASSUME NEW d \in D, NEW e \in D, NEW f \in D, s = 192 + 16 * d + 4 * e + f
      PROVE  Untried(s) = {s % 4} \cup Untried(s \div 4)
  <2>1. d \in 0 .. 2 /\ e \in 0 .. 2 /\ f \in 0 .. 2
    BY <1>3 DEF Dir
  <2>2. s % 4 = f /\ s \div 4 = 48 + 4 * d + e /\ s \in 192 .. 255
    BY <1>3, <2>1
  <2>3. Untried(48 + 4 * d + e) = {e, d}
    BY <2>1 DEF Untried
  <2>5. (s \div 4) % 4 = e /\ (s \div 16) % 4 = d
    BY <1>3, <2>1
  <2>4. Untried(s) = {f, e, d}
    BY <2>1, <2>2, <2>5 DEF Untried
  <2> QED BY <2>2, <2>3, <2>4
<1> QED BY <1>0, <1>1, <1>2, <1>3 DEF Stacks

(* Adding positions to an empty stack puts them all on it.                 *)
LEMMA AddedUntried ==
  ASSUME NEW d \in Dir, NEW e \in Dir, NEW f \in Dir
  PROVE  LET one(c) == AddTunnelState(TunnelStateDepleted, c)
             two(b, c) == AddTunnelState(one(b), c)
         IN  /\ Untried(one(d)) = {d}
             /\ Untried(two(d, e)) = {d, e}
             /\ Untried(AddTunnelState(two(d, e), f)) = {d, e, f}
<1>1. d \in 0 .. 2 /\ e \in 0 .. 2 /\ f \in 0 .. 2
  BY DEF Dir
<1>2. /\ AddTunnelState(TunnelStateDepleted, d) = 12 + d
      /\ AddTunnelState(12 + d, e) = 48 + 4 * d + e
      /\ AddTunnelState(48 + 4 * d + e, f) = 192 + 16 * d + 4 * e + f
  BY <1>1 DEF AddTunnelState, TunnelStateDepleted
<1>3. Untried(12 + d) = {d}
  BY <1>1 DEF Untried
<1>4. Untried(48 + 4 * d + e) = {d, e}
  <2>1. (48 + 4 * d + e) % 4 = e /\ ((48 + 4 * d + e) \div 4) % 4 = d
    BY <1>1
  <2> QED BY <1>1, <2>1 DEF Untried
<1>5. Untried(192 + 16 * d + 4 * e + f) = {d, e, f}
  <2> DEFINE s == 192 + 16 * d + 4 * e + f
  <2>1. s % 4 = f /\ (s \div 4) % 4 = e /\ (s \div 16) % 4 = d /\ s \in 192 .. 255
    BY <1>1
  <2> HIDE DEF s
  <2>2. Untried(s) = {d, e, f}
    BY <2>1 DEF Untried
  <2> QED BY <2>2 DEF s
<1> QED BY <1>2, <1>3, <1>4, <1>5

(* Adding those of D adds no others and leaves none of them out.           *)
LEMMA AddedAll ==
  ASSUME NEW D \in SUBSET Dir, NEW d \in Dir, NEW e \in Dir, NEW f \in Dir
  PROVE  LET add(s, c) == IF c \in D THEN AddTunnelState(s, c) ELSE s
             two == add(add(TunnelStateDepleted, d), e)
         IN  /\ D \cap {d, e} \subseteq Untried(two)
             /\ D \cap {d, e, f} \subseteq Untried(add(two, f))
<1> DEFINE one(c) == AddTunnelState(TunnelStateDepleted, c)
           pair(b, c) == AddTunnelState(one(b), c)
<1>1. \A b, c, g \in Dir : /\ Untried(one(b)) = {b} /\ Untried(pair(b, c)) = {b, c}
                           /\ Untried(AddTunnelState(pair(b, c), g)) = {b, c, g}
  BY AddedUntried
<1> DEFINE add(s, c) == IF c \in D THEN AddTunnelState(s, c) ELSE s
           two == add(add(TunnelStateDepleted, d), e)
<1>2. /\ d \in D /\ e \in D => two = pair(d, e)
      /\ d \in D /\ e \notin D => two = one(d)
      /\ d \notin D /\ e \in D => two = one(e)
      /\ d \notin D /\ e \notin D => two = TunnelStateDepleted
  OBVIOUS
<1>3. /\ f \in D => add(two, f) = AddTunnelState(two, f)
      /\ f \notin D => add(two, f) = two
  OBVIOUS
<1>4. D \cap {d, e} \subseteq Untried(two)
  <2> HIDE DEF two, one, pair
  <2> QED BY <1>1, <1>2
<1>5. D \cap {d, e, f} \subseteq Untried(add(two, f))
  <2>1. CASE f \notin D
    BY <2>1, <1>3, <1>4
  <2>2. CASE f \in D
    <3>1. /\ two = one(d) => AddTunnelState(two, f) = pair(d, f)
          /\ two = one(e) => AddTunnelState(two, f) = pair(e, f)
          /\ two = TunnelStateDepleted => AddTunnelState(two, f) = one(f)
      OBVIOUS
    <3> HIDE DEF two, one, pair
    <3> QED BY <1>1, <1>2, <1>3, <2>2, <3>1
  <2> QED BY <2>1, <2>2
<1> QED BY <1>4, <1>5

(* The first triangle is opened to all of its unlinked neighbours ...      *)
LEMMA FirstAllOpened ==
  ASSUME NEW t \in Tris
  PROVE  {d \in Dir : neighbours[t][d] # Null /\ d \notin Links(t)} \subseteq Untried(OpenedFirst(t))
<1> DEFINE D == {d \in Dir : neighbours[t][d] # Null /\ d \notin Links(t)}
           add(s, c) == IF c \in D THEN AddTunnelState(s, c) ELSE s
<1>1. D \cap {0, 1, 2} \subseteq Untried(add(add(add(TunnelStateDepleted, 0), 1), 2))
  <2>1. 0 \in Dir /\ 1 \in Dir /\ 2 \in Dir /\ D \in SUBSET Dir
    BY DEF Dir
  <2> HIDE DEF D
  <2> QED BY <2>1, AddedAll
<1>2. OpenedFirst(t) = add(add(add(TunnelStateDepleted, 0), 1), 2)
  BY DEF OpenedFirst, Dir
<1>3. D \subseteq {0, 1, 2}
  BY DEF Dir
<1> HIDE DEF D, add
<1>4. D \subseteq Untried(OpenedFirst(t))
  BY <1>1, <1>2, <1>3
<1> QED BY <1>4 DEF D

(* ... and the others to all neighbours of the right kind that have not    *)
(* been visited, but for the one that the tunnel comes from.               *)
LEMMA TriAllOpened ==
  ASSUME NEW t \in Tris, NEW back \in Dir, NEW isRed \in BOOLEAN
  PROVE  {d \in Dir \ {back} : /\ neighbours[t][d] # Null
                               /\ isRed # (d \in Links(t))
                               /\ neighbours[t][d] \notin visited}
           \subseteq Untried(OpenedTri(t, back, isRed))
<1> DEFINE D == {d \in Dir : /\ neighbours[t][d] # Null
                             /\ isRed # (d \in Links(t))
                             /\ neighbours[t][d] \notin visited}
           add(s, c) == IF c \in D THEN AddTunnelState(s, c) ELSE s
           d == RemainingIndex(back, 0)
           e == RemainingIndex(back, 1)
<1>1. d \in Dir /\ e \in Dir /\ D \in SUBSET Dir /\ \A c \in Dir : c # back => c \in {d, e}
  BY Remaining
<1>2. OpenedTri(t, back, isRed) = add(add(TunnelStateDepleted, d), e)
  BY <1>1 DEF OpenedTri
<1>3. D \cap {d, e} \subseteq Untried(add(add(TunnelStateDepleted, d), e))
  <2> HIDE DEF D, d, e
  <2> QED BY <1>1, AddedAll
<1>4. D \ {back} \subseteq Untried(OpenedTri(t, back, isRed))
  <2> HIDE DEF d, e, add
  <2> QED BY <1>1, <1>2, <1>3
<1>5. {c \in Dir \ {back} : /\ neighbours[t][c] # Null
                            /\ isRed # (c \in Links(t))
                            /\ neighbours[t][c] \notin visited} \subseteq D \ {back}
  OBVIOUS
<1> HIDE DEF D
<1> QED BY <1>4, <1>5

-----------------------------------------------------------------------------
(***************************************************************************)
(* One step of the search.                                                 *)
(***************************************************************************)
\* A search that is neither cut short nor stopped at a destination count.
Unlimited == config.loopLimit = 0 /\ config.destCount = 0

(* The position that the tunnel leaves a triangle by is on its stack.      *)
LEMMA StateAt ==
  ASSUME IInv, InTunnel, NEW k \in 0 .. Top, k < Top \/ IsSelected
  PROVE  /\ Untried(tunnelState[At(k)]) = {Out(k)} \cup Untried(tunnelState[At(k)] \div 4)
         /\ Untried(TunnelStateDepleted) = {}
         /\ Out(k) \in Dir
<1>1. tunnelState[At(k)] \in Stacks(Permitted(k)) /\ Permitted(k) \in SUBSET Dir
  BY DEF IInv, StatesOK, Permitted
<1>2. Untried(tunnelState[At(k)]) = {tunnelState[At(k)] % 4} \cup Untried(tunnelState[At(k)] \div 4)
  BY <1>1, UntriedRest
<1>3. Untried(TunnelStateDepleted) = {}
  BY <1>1, UntriedRest
<1>4. tunnelState[At(k)] % 4 \in Permitted(k)
  BY <1>1, StackSelects
<1> QED BY <1>1, <1>2, <1>3, <1>4 DEF Out, SuccessorIndex

(* A path that begins like the tunnel up to its triangle i comes to that   *)
(* triangle; if it leaves it like the tunnel it begins like it up to the   *)
(* next one.                                                               *)
LEMMA Follower ==
  ASSUME IInv, InTunnel, NEW p \in Closing, NEW i \in 0 .. Top, Follows(p, i)
  PROVE  /\ i < Len(p) => p[i + 1][1] = At(i) /\ p[i + 1][2] \in Dir
         /\ i < Len(p) /\ i < Top /\ p[i + 1][2] = Out(i) => Follows(p, i + 1)
         /\ i > 0 => Across(p[i]) = At(i)
<1>1. /\ p \in Seq(Tris \X Dir) /\ Len(p) \in Nat /\ i \in Nat /\ Top \in Nat
      /\ \A j \in 1 .. Len(p) : /\ p[j][2] \in Dir /\ p[j] = <<p[j][1], p[j][2]>>
                                /\ j > 1 => p[j][1] = Across(p[j - 1])
  <2>1. Top \in Nat /\ i \in Nat
    BY PathFacts
  <2> QED BY <2>1, ClosingFacts
<1>2. i <= Len(p) /\ p[1][1] = first /\ \A j \in 1 .. i : p[j] = <<At(j - 1), Out(j - 1)>>
  BY DEF Follows
<1>3. At(0) = first
  BY DEF IInv, PathOK
<1>4. i > 0 => Across(p[i]) = At(i)
  <2>1. SUFFICES ASSUME i > 0 PROVE Across(p[i]) = At(i)
    OBVIOUS
  <2>2. i - 1 \in 0 .. Top - 1 /\ (i - 1) + 1 = i /\ p[i] = <<At(i - 1), Out(i - 1)>>
    BY <1>1, <1>2, <2>1
  <2>3. neighbours[At(i - 1)][Out(i - 1)] = At((i - 1) + 1)
    BY <2>2, TunnelEdge
  <2> QED BY <2>2, <2>3 DEF Across
<1>5. ASSUME i < Len(p) PROVE p[i + 1][1] = At(i) /\ p[i + 1][2] \in Dir
  <2>1. i + 1 \in 1 .. Len(p) /\ (i > 0 => (i + 1) - 1 = i /\ i + 1 > 1)
    BY <1>1, <1>5
  <2> QED BY <2>1, <1>1, <1>2, <1>3, <1>4
<1>6. ASSUME i < Len(p), i < Top, p[i + 1][2] = Out(i) PROVE Follows(p, i + 1)
  <2>1. p[i + 1] = <<At(i), Out(i)>>
    <3>1. i + 1 \in 1 .. Len(p)
      BY <1>1, <1>6
    <3> QED BY <3>1, <1>1, <1>5, <1>6
  <2>2. ASSUME NEW j \in 1 .. i + 1 PROVE p[j] = <<At(j - 1), Out(j - 1)>>
    <3>1. CASE j = i + 1
      <4>1. j - 1 = i
        BY <3>1, <1>1
      <4> QED BY <2>1, <3>1, <4>1
    <3>2. CASE j # i + 1
      <4>1. j \in 1 .. i
        BY <3>2, <1>1
      <4> QED BY <4>1, <1>2
    <3> QED BY <3>1, <3>2
  <2>3. i + 1 <= Len(p)
    BY <1>1, <1>6
  <2> QED BY <2>2, <2>3, <1>2 DEF Follows
<1> QED BY <1>4, <1>5, <1>6

(* When all the paths are tried that go on to the next triangle of the     *)
(* tunnel, its position need not be tried any more either.                 *)
LEMMA SelectedIsTried ==
  ASSUME IInv, InTunnel, NEW i \in 0 .. Top - 1,
         \A p \in Closing : Follows(p, i + 1) => Tried(p),
         \A p \in Closing : Follows(p, i) /\ (\/ Len(p) = i
                                              \/ p[i + 1][2] \notin Untried(tunnelState[At(i)]))
                              => Tried(p)
  PROVE  \A p \in Closing :
           Follows(p, i) /\ (\/ Len(p) = i
                             \/ p[i + 1][2] \notin Untried(tunnelState[At(i)] \div 4))
             => Tried(p)
<1>1. Top \in Nat /\ i \in 0 .. Top /\ i < Top
  BY PathFacts
<1>2. Untried(tunnelState[At(i)]) = {Out(i)} \cup Untried(tunnelState[At(i)] \div 4)
  BY <1>1, StateAt
<1>3. ASSUME NEW p \in Closing, Follows(p, i), Len(p) # i,
             p[i + 1][2] \notin Untried(tunnelState[At(i)] \div 4)
      PROVE  Tried(p)
  <2>1. i < Len(p)
    BY <1>1, <1>3, ClosingFacts DEF Follows
  <2>2. CASE p[i + 1][2] = Out(i)
    BY <1>1, <1>3, <2>1, <2>2, Follower
  <2>3. CASE p[i + 1][2] # Out(i)
    BY <1>2, <1>3, <2>3
  <2> QED BY <2>2, <2>3
<1> QED BY <1>3

(* A step of the search that leaves the tunnel below triangle n as it is.  *)
LEMMA SearchStep ==
  ASSUME IInv, IInv', TriedOK, Unlimited, InTunnel, InTunnel', pc' \notin {"Push", "Retreat"},
         UNCHANGED <<mesh, passVars>>,
         \A t \in Tris : SettledLinks(t)' = SettledLinks(t),
         NEW n \in 0 .. Top, n <= Top',
         \A k \in 0 .. n : At(k)' = At(k),
         \A k \in 0 .. n - 1 : tunnelState'[At(k)] = tunnelState[At(k)],
         \A i \in n .. Top', p \in Closing :
           (i < Top' \/ pc' \notin Cementing \cup {"Cement"}) /\ Behind(p, i)' => Tried(p)
  PROVE  TriedOK'
<1>1. SearchOK /\ PassOK
  BY DEF TriedOK, Unlimited
<1>2. Closing' = Closing /\ \A p : Tried(p)' <=> Tried(p)
  BY TriedFrame DEF passVars
<1>3. Top \in Nat /\ Top' \in Nat /\ n \in Nat
  <2>1. tunnel' \in Seq(Tris) /\ Len(tunnel') >= 1
    BY DEF IInv, PathOK
  <2>2. Top' \in Nat
    BY <2>1 DEF Top
  <2> QED BY <2>2, PathFacts
<1>4. ASSUME NEW i \in 0 .. Top', NEW p \in Closing,
             i < Top' \/ pc' \notin Cementing \cup {"Cement"}, Behind(p, i)'
      PROVE  Tried(p)
  <2>1. CASE i >= n
    BY <1>3, <1>4, <2>1
  <2>2. CASE i < n
    <3>1. i \in 0 .. Top /\ i < Top /\ i < Top' /\ i \in 0 .. n - 1
      BY <1>3, <2>2
    <3>2. \A j \in 1 .. i : j - 1 \in 0 .. n /\ j - 1 \in 0 .. n - 1
      BY <1>3, <2>2
    <3>3. \A j \in 1 .. i : At(j - 1)' = At(j - 1) /\ Out(j - 1)' = Out(j - 1)
      BY <3>2 DEF Out, SuccessorIndex
    <3>4. Follows(p, i)
      BY <1>4, <3>3 DEF Behind, Follows, passVars
    <3>5. LeftToTry(i)' = LeftToTry(i)
      BY <3>1, <1>3 DEF LeftToTry
    <3>6. Behind(p, i)
      BY <1>4, <3>4, <3>5 DEF Behind
    <3> QED BY <3>1, <3>6, <1>1 DEF SearchOK
  <2> QED BY <2>1, <2>2, <1>3
<1>5. SearchOK'
  BY <1>2, <1>4 DEF SearchOK
<1>6. PassOK'
  <2>1. pc' \notin {"PassEnd", "Done", "Endpoint"}
    BY DEF InTunnel, Digging, Cementing
  <2>2. hasFound \/ \A p \in Closing : PlaceIn(p[1][1], endpoints) < PlaceIn(first, endpoints) => Tried(p)
    BY <1>1 DEF PassOK
  <2>3. endpoints' = endpoints /\ first' = first /\ hasFound' = hasFound
    BY DEF passVars
  <2> QED BY <1>2, <2>1, <2>2, <2>3 DEF PassOK, PlaceIn
<1> QED BY <1>5, <1>6 DEF TriedOK

(* Going back to triangle m of the tunnel.                                 *)
LEMMA RetreatedTo ==
  ASSUME IInv, IInv', TriedOK, Unlimited, InTunnel, pc' = "Backtrack",
         UNCHANGED <<mesh, passVars>>,
         \A t \in Tris : SettledLinks(t)' = SettledLinks(t),
         NEW m \in 0 .. Top - 1, tunnel' = SubSeq(tunnel, 1, m + 1),
         \A k \in 0 .. m : tunnelState'[At(k)] = tunnelState[At(k)],
         \A p \in Closing : Follows(p, m + 1) => Tried(p)
  PROVE  TriedOK'
<1>1. Top \in Nat /\ m \in 0 .. Top /\ m < Top /\ m \in Nat /\ Len(tunnel) = Top + 1
  BY PathFacts
<1>2. tunnel \in Seq(Tris)
  BY DEF IInv, PathOK
<1>3. Top' = m /\ \A k \in 0 .. m : At(k)' = At(k)
  <2>1. Len(tunnel') = m + 1 /\ \A k \in 1 .. m + 1 : tunnel'[k] = tunnel[k]
    BY <1>1, <1>2
  <2>2. \A k \in 0 .. m : k + 1 \in 1 .. m + 1
    BY <1>1
  <2> QED BY <1>1, <2>1, <2>2 DEF Top, At
<1>4. InTunnel' /\ pc' \notin {"Push", "Retreat"}
  BY DEF InTunnel, Digging
<1>5. \A p \in Closing : Follows(p, m) /\ (\/ Len(p) = m
                                           \/ p[m + 1][2] \notin Untried(tunnelState[At(m)]))
                           => Tried(p)
  BY <1>1 DEF TriedOK, Unlimited, SearchOK, Behind, LeftToTry
<1>6. ASSUME NEW p \in Closing, Behind(p, m)' PROVE Tried(p)
  <2>1. \A j \in 1 .. m : j - 1 \in 0 .. m
    BY <1>1
  <2>2. \A j \in 1 .. m : At(j - 1)' = At(j - 1) /\ Out(j - 1)' = Out(j - 1)
    BY <1>3, <2>1 DEF Out, SuccessorIndex
  <2>3. Follows(p, m)
    BY <1>6, <2>2 DEF Behind, Follows, passVars
  <2>4. LeftToTry(m)' = Untried(tunnelState[At(m)] \div 4)
    <3>1. At(m)' = At(m) /\ tunnelState'[At(m)] = tunnelState[At(m)] /\ ~(m < Top')
      BY <1>1, <1>3
    <3> QED BY <3>1 DEF LeftToTry
  <2>5. Len(p) = m \/ p[m + 1][2] \notin Untried(tunnelState[At(m)] \div 4)
    BY <1>6, <2>4 DEF Behind
  <2> QED BY <1>5, <2>3, <2>5, SelectedIsTried
<1>7. \A i \in m .. Top', p \in Closing :
        (i < Top' \/ pc' \notin Cementing \cup {"Cement"}) /\ Behind(p, i)' => Tried(p)
  <2>1. \A i \in m .. Top' : i = m
    BY <1>1, <1>3
  <2> QED BY <2>1, <1>6
<1>8. \A k \in 0 .. m - 1 : tunnelState'[At(k)] = tunnelState[At(k)]
  BY <1>1
<1> QED BY <1>1, <1>3, <1>4, <1>7, <1>8, SearchStep

(* A push abandons nothing: what it has not tried begins like the longer   *)
(* tunnel.                                                                 *)
LEMMA PushTried ==
  ASSUME IInv, IInv', TriedOK, Unlimited, Push,
         \A t \in Tris : SettledLinks(t)' = SettledLinks(t)
  PROVE  TriedOK'
<1> DEFINE last == At(Top)
           curr == neighbours[last][SuccessorIndex(last)]
<1>1. SearchOK /\ pc = "Dig" /\ InTunnel /\ InTunnel' /\ pc' \notin {"Push", "Retreat"}
  <2>1. SearchOK
    BY DEF TriedOK, Unlimited
  <2> QED BY <2>1 DEF SearchOK, Push, InTunnel, Digging
<1>2. Top \in Nat /\ Len(tunnel) = Top + 1 /\ tunnel \in Seq(Tris)
  BY <1>1, PathFacts DEF IInv, PathOK
<1>3. /\ tunnel' = Append(tunnel, curr) /\ UNCHANGED <<mesh, passVars, tunnelState>>
      /\ pc' = IF Len(tunnel) % 2 # 0 /\ curr \in endpoint THEN "Cement" ELSE "Expand"
  BY DEF Push
<1>4. Top' = Top + 1 /\ \A k \in 0 .. Top : At(k)' = At(k)
  <2>1. Len(tunnel') = Top + 2 /\ \A k \in 1 .. Top + 1 : tunnel'[k] = tunnel[k]
    BY <1>2, <1>3
  <2>2. \A k \in 0 .. Top : k + 1 \in 1 .. Top + 1
    BY <1>2
  <2> QED BY <1>2, <2>1, <2>2 DEF Top, At
<1>5. \A j \in 1 .. Top + 1 : At(j - 1)' = At(j - 1) /\ Out(j - 1)' = Out(j - 1)
  <2>1. \A j \in 1 .. Top + 1 : j - 1 \in 0 .. Top
    BY <1>2
  <2> QED BY <1>3, <1>4, <2>1 DEF Out, SuccessorIndex
<1>a. PICK n \in Nat : n = Top
  BY <1>2
<1>b. Top' = n + 1 /\ At(n)' = last /\ n \in 0 .. n
  BY <1>4, <1>a
<1>6. ASSUME NEW p \in Closing, Behind(p, n)' PROVE Tried(p)
  <2>1. Follows(p, n)
    <3>1. \A j \in 1 .. n : j \in 1 .. Top + 1
      BY <1>a
    <3> QED BY <1>3, <1>5, <1>6, <3>1 DEF Behind, Follows, passVars
  <2>2. LeftToTry(n)' = LeftToTry(n)
    <3>1. At(n)' = At(n) /\ n < Top' /\ ~(n < Top)
      BY <1>a, <1>b
    <3> QED BY <1>1, <1>3, <3>1 DEF LeftToTry
  <2>3. Behind(p, n)
    BY <1>6, <2>1, <2>2 DEF Behind
  <2> QED BY <2>3, <1>a, <1>b, <1>1 DEF SearchOK, Cementing
<1>7. ASSUME NEW p \in Closing, pc' # "Cement", Behind(p, n + 1)' PROVE FALSE
  <2>1. Follows(p, n + 1)' /\ (Len(p) = n + 1 \/ p[(n + 1) + 1][2] \notin LeftToTry(n + 1)')
    BY <1>7 DEF Behind
  <2>2. n + 1 <= Len(p) /\ p[n + 1] = <<last, SuccessorIndex(last)>>
    <3>1. n + 1 \in 1 .. Top + 1 /\ n + 1 \in 1 .. n + 1 /\ (n + 1) - 1 = n
      BY <1>a
    <3>2. At((n + 1) - 1)' = At((n + 1) - 1) /\ Out((n + 1) - 1)' = Out((n + 1) - 1)
      BY <1>5, <3>1
    <3>3. p[n + 1] = <<At((n + 1) - 1), Out((n + 1) - 1)>> /\ n + 1 <= Len(p)
      BY <2>1, <3>1, <3>2 DEF Follows
    <3> QED BY <1>a, <3>1, <3>3 DEF Out
  <2>3. LeftToTry(n + 1)' = Dir
    <3>1. ~(n + 1 < Top') /\ pc' = "Expand"
      BY <1>3, <1>b, <1>7
    <3> QED BY <3>1 DEF LeftToTry
  <2>4. Len(p) = n + 1
    <3>1. ASSUME Len(p) # n + 1 PROVE FALSE
      <4>1. (n + 1) + 1 \in 1 .. Len(p)
        BY <2>2, <3>1, ClosingFacts
      <4> QED BY <4>1, <2>1, <2>3, <3>1, ClosingFacts
    <3> QED BY <3>1
  <2>5. curr \in Ends(SettledLinks) /\ Len(tunnel) % 2 = 1
    <3>1. Across(p[n + 1]) \in Ends(SettledLinks) /\ (n + 1) % 2 = 1
      BY <2>4, ClosingFacts
    <3> QED BY <1>2, <1>a, <2>2, <3>1 DEF Across
  <2>6. Ends(SettledLinks) = endpoint
    <3>1. ~IsFlipped
      BY <1>1 DEF IsFlipped
    <3> QED BY <3>1, InvFacts DEF Endpoints
  <2> QED BY <1>3, <1>7, <2>5, <2>6
<1>8. \A i \in n .. Top', p \in Closing :
        (i < Top' \/ pc' \notin Cementing \cup {"Cement"}) /\ Behind(p, i)' => Tried(p)
  <2>1. \A i \in n .. Top' : i = n \/ (i = n + 1 /\ ~(i < Top'))
    BY <1>b
  <2> QED BY <2>1, <1>6, <1>7
<1>9. /\ n \in 0 .. Top /\ n <= Top' /\ \A k \in 0 .. n : At(k)' = At(k)
      /\ \A k \in 0 .. n - 1 : tunnelState'[At(k)] = tunnelState[At(k)]
  BY <1>3, <1>4, <1>a, <1>b
<1> QED BY <1>1, <1>3, <1>8, <1>9, SearchStep

(* A path that goes on behind the tunnel's top goes on where the top is    *)
(* opened.                                                                 *)
LEMMA GoesOnOpened ==
  ASSUME IInv, pc = "Expand", NEW p \in Closing, Follows(p, Top), Len(p) # Top
  PROVE  p[Top + 1][2] \in Untried(OpenedTri(At(Top), IndexToPrev, Top % 2 = 0))
<1> DEFINE d == p[Top + 1][2]
<1>1. InTunnel /\ pc \notin Cementing
  BY DEF InTunnel, Digging, Cementing
<1>2. /\ Top \in Nat /\ Top >= 1 /\ Top \in 0 .. Top /\ Top - 1 \in 0 .. Top - 1
      /\ \A k \in 0 .. Top : At(k) \in Tris
  BY <1>1, PathFacts DEF IInv, PathOK
<1>3. Top < Len(p) /\ Top + 1 \in 1 .. Len(p)
  BY <1>2, ClosingFacts DEF Follows
<1>4. /\ p[Top + 1][1] = At(Top) /\ d \in Dir
  BY <1>1, <1>2, <1>3, Follower
<1>5. /\ neighbours[At(Top)][d] = Across(p[Top + 1]) /\ Across(p[Top + 1]) # Null
      /\ d \in SettledLinks(At(Top)) <=> (Top + 1) % 2 = 0
      /\ \A j \in 1 .. Top + 1 : p[j][1] # Across(p[Top + 1])
  BY <1>3, <1>4, ClosingFacts
<1>6. ASSUME NEW k \in 0 .. Top PROVE At(k) # Across(p[Top + 1])
  <2>1. p[k + 1][1] = At(k)
    <3>1. CASE k = Top
      BY <1>4, <3>1
    <3>2. CASE k # Top
      <4>1. k + 1 \in 1 .. Top /\ (k + 1) - 1 = k
        BY <1>2, <3>2
      <4> QED BY <4>1 DEF Follows
    <3> QED BY <3>1, <3>2
  <2>2. k + 1 \in 1 .. Top + 1
    BY <1>2
  <2> QED BY <2>1, <2>2, <1>5
<1>7. neighbours[At(Top)][d] \notin visited
  <2>1. visited = ElementsOf(tunnel)
    BY <1>1 DEF IInv, VisitedOK, Digging
  <2>2. \A t \in ElementsOf(tunnel) : \E k \in 0 .. Top : t = At(k)
    BY <1>1, PathFacts
  <2> QED BY <1>5, <1>6, <2>1, <2>2
<1>8. IndexToPrev \in Dir /\ d # IndexToPrev
  <2>1. Back((Top - 1) + 1) \in Dir /\ neighbours[At((Top - 1) + 1)][Back((Top - 1) + 1)] = At(Top - 1)
    BY <1>1, <1>2, TunnelEdge
  <2>2. (Top - 1) + 1 = Top /\ IndexToPrev = Back(Top)
    BY <1>2 DEF IndexToPrev, Back, Out
  <2>3. Top - 1 \in 0 .. Top
    BY <1>2
  <2> QED BY <2>1, <2>2, <2>3, <1>5, <1>6
<1>9. (Top % 2 = 0) # (d \in Links(At(Top)))
  <2>1. SettledLinks(At(Top)) = Links(At(Top))
    BY <1>1, SettledIsCurrent
  <2>2. (Top + 1) % 2 = 0 <=> Top % 2 # 0
    BY <1>2
  <2> QED BY <1>5, <2>1, <2>2
<1>10. At(Top) \in Tris /\ (Top % 2 = 0) \in BOOLEAN
  BY <1>2
<1> HIDE DEF d
<1>11. d \in {e \in Dir \ {IndexToPrev} : /\ neighbours[At(Top)][e] # Null
                                          /\ (Top % 2 = 0) # (e \in Links(At(Top)))
                                          /\ neighbours[At(Top)][e] \notin visited}
  BY <1>4, <1>5, <1>7, <1>8, <1>9
<1>12. d \in Untried(OpenedTri(At(Top), IndexToPrev, Top % 2 = 0))
  BY <1>8, <1>10, <1>11, TriAllOpened
<1> QED BY <1>12 DEF d

(* The top is opened to every side by which a path may go on; where there  *)
(* is none, or no room, no path has that beginning.                        *)
LEMMA ExpandTried ==
  ASSUME IInv, IInv', TriedOK, Unlimited, ExpandTunnel,
         \A t \in Tris : SettledLinks(t)' = SettledLinks(t)
  PROVE  TriedOK'
<1> DEFINE opened == OpenedTri(At(Top), IndexToPrev, Top % 2 = 0)
<1>1. pc = "Expand" /\ InTunnel /\ SearchOK
  BY DEF ExpandTunnel, InTunnel, Digging, TriedOK, Unlimited
<1>2. /\ Top \in Nat /\ Top >= 1 /\ Top \in 0 .. Top /\ Top - 1 \in 0 .. Top - 1
      /\ Len(tunnel) = Top + 1 /\ tunnel \in Seq(Tris)
      /\ \A j, k \in 0 .. Top : At(j) = At(k) => j = k
      /\ At(Top) \in Tris
  BY <1>1, PathFacts DEF IInv, PathOK
<1>3. \A k \in 0 .. Top - 1 : tunnelState'[At(k)] = tunnelState[At(k)]
  <2>1. tunnelState' = tunnelState \/ tunnelState' = [tunnelState EXCEPT ![At(Top)] = opened]
    BY DEF ExpandTunnel
  <2>2. \A k \in 0 .. Top - 1 : At(k) \in Tris /\ At(k) # At(Top)
    <3>1. \A k \in 0 .. Top - 1 : k \in 0 .. Top /\ k # Top
      BY <1>2
    <3> QED BY <1>1, <1>2, <3>1, PathFacts
  <2>3. tunnelState \in [Tris -> Byte]
    BY DEF IInv, ArraysOK
  <2> QED BY <2>1, <2>2, <2>3
<1>4. ASSUME NEW p \in Closing, Follows(p, Top), Len(p) = Top PROVE Tried(p)
  <2>1. Behind(p, Top)
    BY <1>4 DEF Behind
  <2> QED BY <1>1, <1>2, <2>1 DEF SearchOK, Cementing
<1>5. UNCHANGED <<mesh, passVars>>
  BY DEF ExpandTunnel
<1>6. CASE TunnelIsFull \/ opened = TunnelStateDepleted
  <2>1. pc' = "Backtrack" /\ tunnel' = SubSeq(tunnel, 1, MinOf(Top - 1, Top) + 1)
    BY <1>6 DEF ExpandTunnel, BacktrackTo
  <2>2. MinOf(Top - 1, Top) = Top - 1
    BY <1>2 DEF MinOf
  <2>3. ASSUME NEW p \in Closing, Follows(p, Top) PROVE Tried(p)
    <3>1. SUFFICES ASSUME Len(p) # Top PROVE FALSE
      BY <1>4, <2>3
    <3>2. Len(p) > Top /\ Len(p) < config.maxCount
      <4>1. Top <= Len(p)
        BY <2>3 DEF Follows
      <4>2. Len(p) \in Nat /\ Len(p) < config.maxCount
        BY ClosingFacts
      <4> QED BY <1>2, <3>1, <4>1, <4>2
    <3>3. CASE TunnelIsFull
      BY <1>2, <3>2, <3>3, ClosingFacts, InvFacts DEF TunnelIsFull
    <3>4. CASE opened = TunnelStateDepleted
      <4>1. Untried(opened) = {}
        BY <3>4 DEF Untried, TunnelStateDepleted
      <4> QED BY <1>1, <2>3, <3>1, <4>1, GoesOnOpened
    <3> QED BY <1>6, <3>3, <3>4
  <2>4. \A k \in 0 .. Top - 1 : tunnelState'[At(k)] = tunnelState[At(k)]
    BY <1>3
  <2>5. (Top - 1) + 1 = Top
    BY <1>2
  <2> QED BY <1>1, <1>2, <1>5, <2>1, <2>2, <2>3, <2>4, <2>5, RetreatedTo
<1>7. CASE ~(TunnelIsFull \/ opened = TunnelStateDepleted)
  <2>1. /\ pc' = "Dig" /\ tunnel' = tunnel
        /\ tunnelState' = [tunnelState EXCEPT ![At(Top)] = opened]
    BY <1>7 DEF ExpandTunnel
  <2>2. tunnelState'[At(Top)] = opened /\ Top' = Top /\ \A k : At(k)' = At(k)
    BY <1>2, <2>1 DEF IInv, ArraysOK, Top, At
  <2>a. PICK n \in Nat : n = Top
    BY <1>2
  <2>3. ASSUME NEW p \in Closing, Behind(p, n)' PROVE Tried(p)
    <3>1. Follows(p, Top)
      <4>1. \A j \in 1 .. n : j - 1 \in 0 .. Top - 1
        BY <2>a
      <4>2. \A j \in 1 .. n : Out(j - 1)' = Out(j - 1)
        BY <1>3, <2>2, <4>1 DEF Out, SuccessorIndex
      <4>3. Follows(p, n)
        BY <1>5, <2>2, <2>3, <4>2 DEF Behind, Follows, passVars
      <4> QED BY <2>a, <4>3
    <3>2. LeftToTry(n)' = Untried(opened)
      <4>1. At(n)' = At(Top) /\ ~(n < Top')
        BY <2>2, <2>a
      <4> QED BY <2>1, <2>2, <4>1 DEF LeftToTry
    <3>3. Len(p) = Top \/ p[Top + 1][2] \notin Untried(opened)
      BY <2>3, <2>a, <3>2 DEF Behind
    <3> QED BY <1>1, <1>4, <3>1, <3>3, GoesOnOpened
  <2>4. \A i \in n .. Top', p \in Closing :
          (i < Top' \/ pc' \notin Cementing \cup {"Cement"}) /\ Behind(p, i)' => Tried(p)
    <3>1. \A i \in n .. Top' : i = n
      BY <2>2, <2>a
    <3> QED BY <3>1, <2>3
  <2>5. InTunnel' /\ pc' \notin {"Push", "Retreat"} /\ n <= Top' /\ n \in 0 .. Top
    BY <1>2, <2>1, <2>2, <2>a DEF InTunnel, Digging
  <2>6. (\A k \in 0 .. n : At(k)' = At(k)) /\ \A k \in 0 .. n - 1 : tunnelState'[At(k)] = tunnelState[At(k)]
    BY <1>3, <2>2, <2>a
  <2> QED BY <1>1, <1>5, <2>4, <2>5, <2>6, SearchStep
<1> QED BY <1>6, <1>7

(* The search from "first" is over: the pass goes on behind it.            *)
LEMMA DigFailedTried ==
  ASSUME IInv, IInv', TriedOK, Unlimited, pc \in Digging \cup {"Endpoint"}, DigFailed,
         UNCHANGED mesh, \A t \in Tris : SettledLinks(t)' = SettledLinks(t),
         \A p \in Closing : p[1][1] = first => Tried(p)
  PROVE  TriedOK'
<1>1. /\ endpoints \in Seq(Tris) /\ IsInjectiveList(endpoints) /\ first \in ElementsOf(endpoints)
      /\ ElementsOf(endpoints) = Ends(SettledLinks)
  <2>1. ListOK /\ (InTunnel \/ pc = "Endpoint")
    BY DEF IInv, InTunnel
  <2> QED BY <2>1, InvFacts DEF ListOK, IInv, InTunnel
<1>2. /\ UNCHANGED <<config, endpoints, stripsCount, hasFound>>
      /\ first' = NextInList(first, endpoints)
      /\ pc' = IF first' # Null /\ stripsCount > 1 THEN "Endpoint" ELSE "PassEnd"
  BY DEF DigFailed, ContinueWith
<1>3. Closing' = Closing /\ \A p : Tried(p)' <=> Tried(p)
  BY <1>2, TriedFrame
<1>4. hasFound \/ \A p \in Closing : PlaceIn(p[1][1], endpoints) < PlaceIn(first, endpoints) => Tried(p)
  BY DEF TriedOK, Unlimited, PassOK, InTunnel
<1>5. \A t \in ElementsOf(endpoints) :
        PlaceIn(t, endpoints) \in 1 .. Len(endpoints) /\ endpoints[PlaceIn(t, endpoints)] = t
  <2>1. \A t \in ElementsOf(endpoints) : \E i \in DOMAIN endpoints : endpoints[i] = t
    BY DEF ElementsOf
  <2>2. \A t \in ElementsOf(endpoints) :
          PlaceIn(t, endpoints) \in DOMAIN endpoints /\ endpoints[PlaceIn(t, endpoints)] = t
    BY <2>1, Zenon DEF PlaceIn
  <2> QED BY <1>1, <2>2
<1>6. ASSUME NEW p \in Closing, ~hasFound,
             PlaceIn(p[1][1], endpoints) <= PlaceIn(first, endpoints)
      PROVE  Tried(p)
  <2>1. p[1][1] \in ElementsOf(endpoints)
    BY <1>1, ClosingFacts
  <2>2. CASE PlaceIn(p[1][1], endpoints) = PlaceIn(first, endpoints)
    <3>1. p[1][1] = first
      BY <1>1, <1>5, <2>1, <2>2
    <3> QED BY <3>1
  <2>3. CASE PlaceIn(p[1][1], endpoints) # PlaceIn(first, endpoints)
    <3>1. PlaceIn(p[1][1], endpoints) < PlaceIn(first, endpoints)
      BY <1>1, <1>5, <1>6, <2>1, <2>3
    <3> QED BY <3>1, <1>4, <1>6
  <2> QED BY <2>2, <2>3
<1>7. CASE pc' = "Endpoint"
  <2>1. PlaceIn(first', endpoints) = PlaceIn(first, endpoints) + 1
    BY <1>1, <1>2, <1>7, NextElement
  <2>2. ASSUME NEW p \in Closing, ~hasFound, PlaceIn(p[1][1], endpoints) < PlaceIn(first', endpoints)
        PROVE  Tried(p)
    <3>1. p[1][1] \in ElementsOf(endpoints)
      BY <1>1, ClosingFacts
    <3>2. PlaceIn(p[1][1], endpoints) <= PlaceIn(first, endpoints)
      BY <1>1, <1>5, <2>1, <2>2, <3>1
    <3> QED BY <1>6, <2>2, <3>2
  <2>3. PassOK'
    BY <1>2, <1>3, <1>7, <2>2 DEF PassOK, PlaceIn
  <2> QED BY <1>7, <2>3 DEF TriedOK, SearchOK, InTunnel, Digging, Cementing
<1>8. CASE pc' = "PassEnd"
  <2>1. hasFound \/ stripsCount <= 1 \/ \A p \in Closing : Tried(p)
    <3>1. SUFFICES ASSUME ~hasFound, ~(stripsCount <= 1), NEW p \in Closing PROVE Tried(p)
      OBVIOUS
    <3>2. first' = Null
      <4>1. stripsCount \in Int
        BY DEF IInv, CountersOK
      <4> QED BY <1>2, <1>8, <3>1, <4>1
    <3>3. PlaceIn(first, endpoints) = Len(endpoints)
      <4>1. \A i \in DOMAIN endpoints : endpoints[i] # Null
        <5>1. \A i \in DOMAIN endpoints : endpoints[i] \in Tris
          BY <1>1
        <5> QED BY <5>1, MaxTrisAssumption DEF Tris, Null
      <4>2. PlaceIn(first, endpoints) # Len(endpoints) => PlaceIn(first, endpoints) + 1 \in DOMAIN endpoints
        BY <1>1, <1>5
      <4> QED BY <1>2, <3>2, <4>1, <4>2 DEF NextInList
    <3>4. p[1][1] \in ElementsOf(endpoints)
      BY <1>1, ClosingFacts
    <3> QED BY <1>5, <1>6, <3>1, <3>3, <3>4
  <2>2. PassOK'
    BY <1>2, <1>3, <1>8, <2>1 DEF PassOK, InTunnel, Digging, Cementing
  <2> QED BY <1>8, <2>2 DEF TriedOK, SearchOK, InTunnel, Digging, Cementing
<1> QED BY <1>2, <1>7, <1>8

(* The side that is abandoned has been tried, and so have the other ones   *)
(* when the triangle itself is.                                            *)
LEMMA BacktrackTried ==
  ASSUME IInv, IInv', TriedOK, Unlimited, BacktrackTunnel,
         \A t \in Tris : SettledLinks(t)' = SettledLinks(t)
  PROVE  TriedOK'
<1> DEFINE next == SelectNextTunnelState(tunnelState[At(Top)])
<1>1. pc = "Backtrack" /\ InTunnel /\ IsSelected /\ SearchOK
  BY DEF BacktrackTunnel, Backtrack, InTunnel, Digging, IsSelected, TriedOK, Unlimited
<1>2. /\ Top \in Nat /\ Top \in 0 .. Top
      /\ Len(tunnel) = Top + 1 /\ tunnel \in Seq(Tris)
      /\ \A j, k \in 0 .. Top : At(j) = At(k) => j = k
      /\ At(Top) \in Tris /\ At(0) = first
  BY <1>1, PathFacts DEF IInv, PathOK
<1>3. /\ UNCHANGED <<mesh>>
      /\ tunnelState' = [tunnelState EXCEPT ![At(Top)] = next]
  BY DEF BacktrackTunnel, Backtrack
<1>4. /\ \A k \in 0 .. Top - 1 : tunnelState'[At(k)] = tunnelState[At(k)]
      /\ tunnelState'[At(Top)] = next
  <2>1. \A k \in 0 .. Top - 1 : At(k) \in Tris /\ At(k) # At(Top)
    <3>1. \A k \in 0 .. Top - 1 : k \in 0 .. Top /\ k # Top
      BY <1>2
    <3> QED BY <1>1, <1>2, <3>1, PathFacts
  <2>2. tunnelState \in [Tris -> Byte]
    BY DEF IInv, ArraysOK
  <2> QED BY <1>2, <1>3, <2>1, <2>2
<1>5. LeftToTry(Top) = Untried(next)
  BY <1>1, <1>2 DEF LeftToTry, SelectNextTunnelState
<1>6. ASSUME NEW p \in Closing, Behind(p, Top) PROVE Tried(p)
  BY <1>1, <1>2, <1>6 DEF SearchOK, Cementing
<1>7. CASE next # TunnelStateDepleted
  <2>1. pc' = "Dig" /\ UNCHANGED <<tunnel, passVars>>
    BY <1>7 DEF BacktrackTunnel, Backtrack
  <2>2. Top' = Top /\ \A k : At(k)' = At(k)
    BY <2>1 DEF Top, At
  <2>3. PICK n \in Nat : n = Top
    BY <1>2
  <2>4. ASSUME NEW p \in Closing, Behind(p, n)' PROVE Tried(p)
    <3>1. Follows(p, n)
      <4>1. \A j \in 1 .. n : j - 1 \in 0 .. Top - 1
        BY <2>3
      <4>2. \A j \in 1 .. n : Out(j - 1)' = Out(j - 1)
        BY <1>4, <2>2, <4>1 DEF Out, SuccessorIndex
      <4> QED BY <2>1, <2>2, <2>4, <4>2 DEF Behind, Follows, passVars
    <3>2. LeftToTry(n)' = LeftToTry(n)
      <4>1. At(n)' = At(Top) /\ ~(n < Top')
        BY <2>2, <2>3
      <4>2. LeftToTry(n)' = Untried(next)
        BY <1>4, <2>1, <4>1 DEF LeftToTry
      <4> QED BY <1>5, <2>3, <4>2
    <3>3. Behind(p, n)
      BY <2>4, <3>1, <3>2 DEF Behind
    <3> QED BY <1>6, <2>3, <3>3
  <2>5. \A i \in n .. Top', p \in Closing :
          (i < Top' \/ pc' \notin Cementing \cup {"Cement"}) /\ Behind(p, i)' => Tried(p)
    <3>1. \A i \in n .. Top' : i = n
      BY <2>2, <2>3
    <3> QED BY <3>1, <2>4
  <2>6. InTunnel' /\ pc' \notin {"Push", "Retreat"} /\ n <= Top' /\ n \in 0 .. Top
    BY <1>2, <2>1, <2>2, <2>3 DEF InTunnel, Digging
  <2>7. (\A k \in 0 .. n : At(k)' = At(k)) /\ \A k \in 0 .. n - 1 : tunnelState'[At(k)] = tunnelState[At(k)]
    BY <1>4, <2>2, <2>3
  <2> QED BY <1>1, <1>3, <2>1, <2>5, <2>6, <2>7, SearchStep
<1>8. ASSUME next = TunnelStateDepleted, NEW p \in Closing, Follows(p, Top) PROVE Tried(p)
  <2>1. LeftToTry(Top) = {}
    BY <1>1, <1>2, <1>5, <1>8, StateAt
  <2> QED BY <1>6, <1>8, <2>1 DEF Behind
<1>9. CASE next = TunnelStateDepleted /\ Top = 0
  <2>1. DigFailed
    BY <1>9 DEF BacktrackTunnel, Backtrack
  <2>2. ASSUME NEW p \in Closing, p[1][1] = first PROVE Tried(p)
    <3>1. Follows(p, 0)
      BY <2>2, ClosingFacts DEF Follows
    <3> QED BY <1>8, <1>9, <3>1
  <2> QED BY <1>1, <1>3, <2>1, <2>2, DigFailedTried DEF Digging
<1>10. CASE next = TunnelStateDepleted /\ Top # 0
  <2>1. tunnel' = SubSeq(tunnel, 1, Top) /\ pc' = "Backtrack" /\ UNCHANGED passVars
    BY <1>1, <1>10 DEF BacktrackTunnel, Backtrack
  <2>2. Top - 1 \in 0 .. Top - 1 /\ (Top - 1) + 1 = Top
    BY <1>2, <1>10
  <2> QED BY <1>1, <1>3, <1>4, <1>8, <1>10, <2>1, <2>2, RetreatedTo
<1> QED BY <1>7, <1>9, <1>10

(* The search from an end begins with all the paths from that end.         *)
LEMMA StartDigTried ==
  ASSUME IInv, IInv', TriedOK, Unlimited, StartDig,
         \A t \in Tris : SettledLinks(t)' = SettledLinks(t)
  PROVE  TriedOK'
<1> DEFINE opened == OpenedFirst(first)
<1>1. pc = "Endpoint" /\ UNCHANGED mesh /\ tunnelState' = [tunnelState EXCEPT ![first] = opened]
  BY DEF StartDig
<1>2. first \in Tris /\ tunnelState'[first] = opened
  <2>1. first \in Endpoints
    BY <1>1 DEF IInv, ListOK
  <2> QED BY <1>1, <2>1, InvFacts DEF IInv, ArraysOK
<1>3. ASSUME NEW p \in Closing, p[1][1] = first PROVE p[1][2] \in Untried(opened)
  <2>1. 1 \in 1 .. Len(p) /\ ~(1 % 2 = 0)
    <3>1. Len(p) \in Nat /\ Len(p) >= 1
      BY ClosingFacts
    <3> QED BY <3>1
  <2>2. /\ p[1][2] \in Dir /\ neighbours[first][p[1][2]] # Null
        /\ p[1][2] \notin SettledLinks(first)
    <3>1. /\ p[1][2] \in Dir /\ neighbours[p[1][1]][p[1][2]] = Across(p[1]) /\ Across(p[1]) # Null
          /\ p[1][2] \in SettledLinks(p[1][1]) <=> 1 % 2 = 0
      BY <2>1, ClosingFacts
    <3> QED BY <1>3, <2>1, <3>1
  <2>3. SettledLinks(first) = Links(first)
    BY <1>1, SettledIsCurrent DEF Cementing
  <2>4. p[1][2] \in {d \in Dir : neighbours[first][d] # Null /\ d \notin Links(first)}
    BY <2>2, <2>3
  <2> QED BY <1>2, <2>4, FirstAllOpened
<1>4. CASE opened = TunnelStateDepleted
  <2>1. Untried(opened) = {}
    BY <1>4 DEF Untried, TunnelStateDepleted
  <2>2. DigFailed
    BY <1>4 DEF StartDig
  <2> QED BY <1>1, <1>3, <2>1, <2>2, DigFailedTried
<1>5. CASE opened # TunnelStateDepleted
  <2>1. pc' = "Dig" /\ tunnel' = <<first>> /\ UNCHANGED passVars
    BY <1>5 DEF StartDig
  <2>2. Closing' = Closing /\ \A p : Tried(p)' <=> Tried(p)
    BY <1>1, <2>1, TriedFrame DEF passVars
  <2>3. Top' = 0 /\ At(0)' = first
    BY <2>1 DEF Top, At
  <2>4. ASSUME NEW p \in Closing, Behind(p, 0)' PROVE FALSE
    <3>1. LeftToTry(0)' = Untried(opened)
      BY <1>2, <2>1, <2>3 DEF LeftToTry
    <3>2. p[1][1] = first
      BY <2>1, <2>4 DEF Behind, Follows, passVars
    <3>3. Len(p) # 0
      <4>1. Len(p) \in Nat /\ Len(p) >= 1
        BY ClosingFacts
      <4> QED BY <4>1
    <3> QED BY <1>3, <2>4, <3>1, <3>2, <3>3 DEF Behind
  <2>5. SearchOK'
    <3>1. \A i \in 0 .. Top' : i = 0
      BY <2>3
    <3> QED BY <2>1, <2>2, <2>4, <3>1 DEF SearchOK
  <2>6. PassOK'
    <3>1. hasFound \/ \A p \in Closing : PlaceIn(p[1][1], endpoints) < PlaceIn(first, endpoints) => Tried(p)
      BY <1>1 DEF TriedOK, Unlimited, PassOK
    <3>2. endpoints' = endpoints /\ first' = first /\ hasFound' = hasFound
      BY <2>1 DEF passVars
    <3> QED BY <2>1, <2>2, <3>1, <3>2 DEF PassOK, PlaceIn
  <2> QED BY <2>5, <2>6 DEF TriedOK
<1> QED BY <1>4, <1>5

(* While the tunnel is flipped and checked nothing is said about its top.  *)
LEMMA CementingTried ==
  ASSUME IInv, IInv', TriedOK, Unlimited, pc \in Cementing \cup {"Cement"}, pc' \in Cementing,
         UNCHANGED <<mesh, passVars, tunnel, tunnelState>>,
         \A t \in Tris : SettledLinks(t)' = SettledLinks(t)
  PROVE  TriedOK'
<1>1. InTunnel /\ InTunnel' /\ pc' \notin {"Push", "Retreat"}
  BY DEF InTunnel, Digging, Cementing
<1>2. Top' = Top /\ \A k : At(k)' = At(k)
  BY DEF Top, At
<1>3. PICK n \in Nat : n = Top
  BY <1>1, PathFacts
<1>4. \A i \in n .. Top', p \in Closing :
        (i < Top' \/ pc' \notin Cementing \cup {"Cement"}) /\ Behind(p, i)' => Tried(p)
  <2>1. \A i \in n .. Top' : ~(i < Top')
    BY <1>2, <1>3
  <2> QED BY <2>1
<1>5. n \in 0 .. Top /\ n <= Top'
  BY <1>2, <1>3
<1> QED BY <1>1, <1>2, <1>4, <1>5, SearchStep

-----------------------------------------------------------------------------
(***************************************************************************)
(* An undone tunnel.                                                       *)
(***************************************************************************)
\* The tunnel as a path.
Dug == [i \in 1 .. Top |-> <<At(i - 1), Out(i - 1)>>]

(* It is one of those that may be dug.                                     *)
LEMMA DugFacts ==
  ASSUME IInv, pc \in Cementing
  PROVE  /\ Dug \in Closing /\ Len(Dug) = Top /\ Top \in Nat /\ Top % 2 = 1
         /\ \A i \in 1 .. Top : Dug[i] = <<At(i - 1), Out(i - 1)>> /\ Across(Dug[i]) = At(i)
<1>1. InTunnel /\ Top \in Nat /\ Top % 2 = 1 /\ Len(tunnel) = Top + 1 /\ Len(tunnel) <= config.maxCount
  <2>1. InTunnel
    BY DEF InTunnel
  <2> QED BY <2>1, PathFacts DEF IInv, PathOK
<1>2. /\ \A k \in 0 .. Top : At(k) \in InUse /\ At(k) \in Tris
      /\ \A j, k \in 0 .. Top : At(j) = At(k) => j = k
  BY <1>1, PathFacts
<1>3. ASSUME NEW i \in 1 .. Top
      PROVE  /\ i - 1 \in 0 .. Top - 1 /\ (i - 1) + 1 = i
             /\ Out(i - 1) \in Dir /\ neighbours[At(i - 1)][Out(i - 1)] = At(i)
             /\ Out(i - 1) \in SettledLinks(At(i - 1)) <=> (i - 1) % 2 = 1
  <2>1. i - 1 \in 0 .. Top - 1 /\ (i - 1) + 1 = i
    BY <1>1
  <2>2. /\ Out(i - 1) \in Dir /\ neighbours[At(i - 1)][Out(i - 1)] = At((i - 1) + 1)
        /\ Out(i - 1) \in SettledLinks(At(i - 1)) <=> (i - 1) % 2 = 1
    BY <1>1, <2>1, TunnelEdge
  <2> QED BY <2>1, <2>2
<1>4. \A i \in 1 .. Top : i - 1 \in 0 .. Top /\ i \in 0 .. Top
  BY <1>1
<1>5. /\ Dug \in Seq(Tris \X Dir) /\ Len(Dug) = Top
      /\ \A i \in 1 .. Top : Dug[i] = <<At(i - 1), Out(i - 1)>>
  <2>1. \A i \in 1 .. Top : <<At(i - 1), Out(i - 1)>> \in Tris \X Dir
    BY <1>2, <1>3, <1>4
  <2> QED BY <1>1, <2>1 DEF Dug
<1>6. \A i \in 1 .. Top : Across(Dug[i]) = At(i)
  BY <1>3, <1>5 DEF Across
<1>7. ASSUME NEW i \in 1 .. Top
      PROVE  /\ Across(Dug[i]) # Null /\ Across(Dug[i]) \notin Leaves(Dug, i)
             /\ Dug[i][2] \in Settled[Dug[i][1]] <=> i % 2 = 0
             /\ i > 1 => Dug[i][1] = Across(Dug[i - 1])
  <2>1. Across(Dug[i]) # Null
    <3>1. At(i) \in InUse
      BY <1>2, <1>4
    <3>2. InUse \subseteq Tris /\ Null \notin Tris
      BY InvFacts DEF Tris, Null
    <3> QED BY <1>6, <3>1, <3>2
  <2>2. Across(Dug[i]) \notin Leaves(Dug, i)
    <3>1. ASSUME NEW j \in 1 .. i PROVE Dug[j][1] # At(i)
      <4>1. j \in 1 .. Top /\ j - 1 \in 0 .. Top /\ i \in 0 .. Top /\ j - 1 # i
        BY <1>1
      <4> QED BY <1>2, <1>5, <4>1
    <3> QED BY <1>6, <3>1 DEF Leaves
  <2>3. Dug[i][2] \in Settled[Dug[i][1]] <=> i % 2 = 0
    <3>1. Dug[i][1] = At(i - 1) /\ Dug[i][2] = Out(i - 1) /\ At(i - 1) \in Tris
      BY <1>2, <1>4, <1>5
    <3>2. Settled[At(i - 1)] = SettledLinks(At(i - 1))
      BY <3>1, InvFacts
    <3>3. (i - 1) % 2 = 1 <=> i % 2 = 0
      BY <1>1
    <3> QED BY <1>3, <3>1, <3>2, <3>3
  <2>4. i > 1 => Dug[i][1] = Across(Dug[i - 1])
    <3>1. i > 1 => i - 1 \in 1 .. Top
      BY <1>1
    <3> QED BY <1>5, <1>6, <3>1
  <2> QED BY <2>1, <2>2, <2>3, <2>4
<1>8. Dug[1][1] \in Ends(SettledLinks) /\ Across(Dug[Len(Dug)]) \in Ends(SettledLinks)
  <2>1. first \in Endpoints /\ At(Top) \in Endpoints /\ At(0) = first
    BY <1>1 DEF IInv, ListOK, PathOK, InTunnel
  <2>2. 1 \in 1 .. Top /\ Top \in 1 .. Top /\ 1 - 1 = 0
    BY <1>1
  <2> QED BY <1>5, <1>6, <2>1, <2>2, InvFacts
<1>9. IsClosing(Dug)
  BY <1>1, <1>5, <1>7, <1>8, InvFacts DEF IsClosing, Alternates
<1> QED BY <1>1, <1>5, <1>6, <1>9, ClosingPaths

(* Flipping it gives the current links.                                    *)
LEMMA DugFlips ==
  ASSUME IInv, pc \in Cementing, Flipped = Top
  PROVE  LinksAfter(Settled, Dug) = [t \in Tris |-> Links(t)]
<1> DEFINE flips == {Dug[i] : i \in DOMAIN Dug} \cup
                    {<<Across(Dug[i]), indices[Dug[i][1]][Dug[i][2]]>> : i \in DOMAIN Dug}
           flipped(t) == {d \in Dir : <<t, d>> \in flips}
<1>1. /\ Len(Dug) = Top /\ Top \in Nat /\ DOMAIN Dug = 1 .. Top
      /\ \A i \in 1 .. Top : Dug[i] = <<At(i - 1), Out(i - 1)>> /\ Across(Dug[i]) = At(i)
  BY DugFacts DEF Dug
<1>2. InTunnel /\ Settled \in [Tris -> SUBSET Dir] /\ \A t \in Tris : Settled[t] = SettledLinks(t)
  BY InvFacts DEF InTunnel
<1>3. /\ \A k \in 0 .. Top : At(k) \in Tris
      /\ \A j, k \in 0 .. Top : At(j) = At(k) => j = k
  BY <1>2, PathFacts
<1>4. ASSUME NEW t \in Tris, NEW d \in Dir
      PROVE  d \in flipped(t) <=>
               \E k \in 0 .. Top : /\ t = At(k)
                                   /\ \/ k < Top /\ d = Out(k)
                                      \/ k > 0 /\ d = Back(k)
  <2>1. ASSUME NEW k \in 0 .. Top, t = At(k), k < Top, d = Out(k) PROVE <<t, d>> \in flips
    <3>1. k + 1 \in 1 .. Top /\ (k + 1) - 1 = k
      BY <1>1, <2>1
    <3>2. Dug[k + 1] = <<t, d>>
      BY <1>1, <2>1, <3>1
    <3> QED BY <1>1, <3>1, <3>2
  <2>2. ASSUME NEW k \in 0 .. Top, t = At(k), k > 0, d = Back(k) PROVE <<t, d>> \in flips
    <3>1. k \in 1 .. Top
      BY <1>1, <2>2
    <3>2. <<Across(Dug[k]), indices[Dug[k][1]][Dug[k][2]]>> = <<t, d>>
      BY <1>1, <2>2, <3>1 DEF Back
    <3> QED BY <1>1, <3>1, <3>2
  <2>3. ASSUME NEW i \in 1 .. Top, <<t, d>> = Dug[i]
        PROVE  i - 1 \in 0 .. Top /\ t = At(i - 1) /\ i - 1 < Top /\ d = Out(i - 1)
    BY <1>1, <2>3
  <2>4. ASSUME NEW i \in 1 .. Top, <<t, d>> = <<Across(Dug[i]), indices[Dug[i][1]][Dug[i][2]]>>
        PROVE  i \in 0 .. Top /\ t = At(i) /\ i > 0 /\ d = Back(i)
    BY <1>1, <2>4 DEF Back
  <2>5. <<t, d>> \in flips => \E i \in 1 .. Top : \/ <<t, d>> = Dug[i]
                                                 \/ <<t, d>> = <<Across(Dug[i]), indices[Dug[i][1]][Dug[i][2]]>>
    BY <1>1
  <2>6. <<t, d>> \in flips =>
          \E k \in 0 .. Top : /\ t = At(k)
                              /\ \/ k < Top /\ d = Out(k)
                                 \/ k > 0 /\ d = Back(k)
    BY <2>3, <2>4, <2>5
  <2> HIDE DEF flips
  <2> QED BY <2>1, <2>2, <2>6
<1> HIDE DEF flipped
<1>5. ASSUME NEW t \in Tris
      PROVE  (Settled[t] \ flipped(t)) \cup (flipped(t) \ Settled[t]) = Links(t)
  <2>1. CASE \A k \in 0 .. Top : At(k) # t
    <3>1. flipped(t) \cap Dir = {}
      BY <1>4, <2>1
    <3>2. flipped(t) \subseteq Dir
      BY DEF flipped
    <3>3. Links(t) = SettledLinks(t)
      BY <2>1, FlippedLinks
    <3> QED BY <1>2, <3>1, <3>2, <3>3
  <2>2. ASSUME NEW k \in 0 .. Top, t = At(k)
        PROVE  (Settled[t] \ flipped(t)) \cup (flipped(t) \ Settled[t]) = Links(t)
    <3>1. \A d \in Dir : d \in flipped(t) <=> (k < Top /\ d = Out(k)) \/ (k > 0 /\ d = Back(k))
      BY <1>3, <1>4, <2>2
    <3>2. \A d \in Dir :
            d \in Links(t) <=>
              IF k > 0 /\ d = Back(k) THEN k % 2 = 1
              ELSE IF k < Top /\ d = Out(k) THEN k % 2 = 0
              ELSE d \in SettledLinks(t)
      BY <2>2 DEF IInv, FlipOK
    <3>3. k < Top => (Out(k) \in SettledLinks(At(k)) <=> k % 2 = 1)
      <4>1. k < Top => k \in 0 .. Top - 1
        BY <1>1
      <4> QED BY <1>2, <4>1, TunnelEdge
    <3>4. k > 0 => (Back(k) \in SettledLinks(At(k)) <=> (k - 1) % 2 = 1)
      <4>1. k > 0 => k - 1 \in 0 .. Top - 1 /\ (k - 1) + 1 = k
        BY <1>1
      <4>2. k > 0 => (Back((k - 1) + 1) \in SettledLinks(At((k - 1) + 1)) <=> (k - 1) % 2 = 1)
        BY <1>2, <4>1, TunnelEdge
      <4> QED BY <4>1, <4>2
    <3>5. k \in Nat
      BY <1>1
    <3>6. ((k - 1) % 2 = 1 <=> k % 2 = 0) /\ (k % 2 = 0 <=> k % 2 # 1)
      BY <3>5
    <3>7. flipped(t) \subseteq Dir /\ Links(t) \subseteq Dir /\ Settled[t] = SettledLinks(t) /\ Settled[t] \subseteq Dir
      BY <1>2, LinksAreDirs DEF flipped
    <3>8. k > 0 /\ k < Top => Back(k) # Out(k)
      <4>1. k < Top => k \in 0 .. Top - 1
        BY <1>1
      <4> QED BY <1>2, <4>1, TunnelEdge
    <3>9. ASSUME NEW d \in Dir
          PROVE  d \in Links(t) <=> d \in (Settled[t] \ flipped(t)) \cup (flipped(t) \ Settled[t])
      BY <2>2, <3>1, <3>2, <3>3, <3>4, <3>6, <3>7, <3>8
    <3> QED BY <3>7, <3>9
  <2> QED BY <2>1, <2>2
<1>6. LinksAfter(Settled, Dug) = [t \in Tris |-> (Settled[t] \ flipped(t)) \cup (flipped(t) \ Settled[t])]
  BY DEF LinksAfter, flipped
<1> QED BY <1>5, <1>6

(* The circle that the check has found is one that flipping the tunnel     *)
(* makes.                                                                  *)
LEMMA FoundCircle ==
  ASSUME IInv, CircleFound, pc = "Undo"
  PROVE  \E C \in CirclesAfter(Settled, Dug) :
           /\ circleIndex \in 0 .. Top /\ At(circleIndex) \in C
           /\ \A k \in circleIndex + 1 .. Top : At(k) \notin C
           /\ \A u \in C : \A d \in Links(u) : neighbours[u][d] \in C
<1> DEFINE C == StripOf(At(step))
<1>1. /\ MeshOK /\ Agree(Links) /\ pc \in Cementing /\ Flipped = Top /\ InUse \subseteq Tris
  BY InvFacts DEF IInv, CheckOK, IsFlipped, Cementing, Flipped
<1>2. /\ IsCircle(C) /\ circleIndex \in 0 .. Top /\ At(circleIndex) \in C
      /\ \A k \in circleIndex + 1 .. Top : At(k) \notin C
  BY DEF CircleFound, CircleCheckExact
<1>3. C \subseteq InUse
  BY DEF StripOf
<1>4. ASSUME NEW u \in C, NEW d \in Links(u) PROVE neighbours[u][d] \in C
  <2>1. u \in InUse /\ u \in Tris /\ d \in Dir
    BY <1>1, <1>3, LinksArePositions
  <2>2. neighbours[u][d] \in InUse
    BY <1>1, <2>1, EdgeFacts DEF Agree
  <2>3. ASSUME NEW S \in Enclosed, At(step) \in S PROVE neighbours[u][d] \in S
    <3>1. u \in S
      BY <2>3 DEF StripOf
    <3> QED
      BY <3>1 DEF Enclosed
  <2> QED
    BY <2>2, <2>3 DEF StripOf
<1> HIDE DEF C
<1>5. ASSUME NEW t \in C PROVE ~AtMostOne({d \in Links(t) : neighbours[t][d] \in C})
  <2>1. {d \in Links(t) : neighbours[t][d] \in C} = Links(t)
    BY <1>4
  <2>2. Links(t) \in SUBSET Dir /\ Cardinality(Links(t)) = 2
    <3>1. t \in Tris
      BY <1>1, <1>3
    <3> QED BY <3>1, <1>2, LinksAreDirs DEF IsCircle
  <2> QED BY <2>1, <2>2, AtMostOneLink
<1>6. LinksAfter(Settled, Dug) = [t \in Tris |-> Links(t)]
  BY <1>1, DugFlips
<1>7. C \in CirclesAfter(Settled, Dug)
  <2>1. C # {} /\ C \in SUBSET InUse
    BY <1>2, <1>3
  <2>2. \A t \in C : LinksAfter(Settled, Dug)[t] = Links(t)
    BY <1>1, <1>3, <1>6
  <2> QED BY <1>5, <2>1, <2>2 DEF CirclesAfter, Circles
<1> QED BY <1>2, <1>4, <1>7

(* An undone tunnel is tried: flipping it made a circle.  When its last    *)
(* triangle is on the circle, the search goes on from there.  Otherwise it *)
(* goes back to the last one that is, which is black; all the paths that   *)
(* begin like the tunnel up to that one and leave it alike are given up.   *)
LEMMA UndoTried ==
  ASSUME IInv, IInv', TriedOK, CircleFound, Unlimited, UndoTunnel,
         \A t \in Tris : SettledLinks(t)' = SettledLinks(t)
  PROVE  TriedOK'
<1>1. /\ pc = "Undo" /\ UNCHANGED <<mesh, passVars, tunnelState>>
      /\ circleIndex = Top => pc' = "Expand" /\ tunnel' = tunnel
      /\ circleIndex # Top => /\ pc' = "Backtrack"
                              /\ tunnel' = SubSeq(tunnel, 1, MinOf(circleIndex, Top) + 1)
  BY DEF UndoTunnel, BacktrackTo
<1>2. InTunnel /\ pc \in Cementing /\ Flipped = Top /\ Agree(Links) /\ FlipOK
  BY <1>1 DEF InTunnel, Cementing, Flipped, IInv, CheckOK, IsFlipped
<1>3. PICK C \in CirclesAfter(Settled, Dug) :
           /\ circleIndex \in 0 .. Top /\ At(circleIndex) \in C
           /\ \A k \in circleIndex + 1 .. Top : At(k) \notin C
           /\ \A u \in C : \A d \in Links(u) : neighbours[u][d] \in C
  BY <1>1, FoundCircle
<1>4. /\ Dug \in Closing /\ Len(Dug) = Top /\ Top \in Nat /\ Top % 2 = 1
      /\ \A i \in 1 .. Top : Dug[i] = <<At(i - 1), Out(i - 1)>> /\ Across(Dug[i]) = At(i)
  BY <1>2, DugFacts
<1>5. PICK m \in 0 .. Top : m = circleIndex
  BY <1>3
<1>6. CASE m = Top
  <2>1. pc' = "Expand" /\ tunnel' = tunnel /\ Top' = Top /\ \A k : At(k)' = At(k)
    BY <1>1, <1>5, <1>6 DEF Top, At
  <2>2. InTunnel' /\ pc' \notin {"Push", "Retreat"}
    BY <2>1 DEF InTunnel, Digging
  <2>3. ASSUME NEW p \in Closing, Behind(p, m)' PROVE Tried(p)
    <3>1. Follows(p, m)
      BY <1>1, <2>1, <2>3 DEF Behind, Follows, passVars, Out, SuccessorIndex
    <3>2. LeftToTry(m)' = Dir
      BY <1>6, <2>1 DEF LeftToTry
    <3>3. Len(p) = m
      <4>1. ASSUME m < Len(p) PROVE p[m + 1][2] \in Dir
        BY <1>2, <3>1, <4>1, Follower
      <4> QED BY <1>4, <2>3, <3>1, <3>2, <4>1, ClosingFacts DEF Behind, Follows
    <3>4. \A i \in 1 .. Top : p[i] = Dug[i]
      BY <1>4, <1>6, <3>1 DEF Follows
    <3>5. p = Dug
      <4>1. p \in Seq(Tris \X Dir) /\ Dug \in Seq(Tris \X Dir) /\ Len(p) = Len(Dug)
        BY <1>4, <1>6, <3>3, ClosingFacts
      <4> QED BY <4>1, <3>4, <1>4
    <3> QED BY <1>3, <3>5 DEF Tried
  <2>4. \A i \in m .. Top', p \in Closing :
          (i < Top' \/ pc' \notin Cementing \cup {"Cement"}) /\ Behind(p, i)' => Tried(p)
    <3>1. \A i \in m .. Top' : i = m
      BY <1>4, <1>6, <2>1
    <3> QED BY <3>1, <2>3
  <2>5. m \in 0 .. Top /\ m <= Top' /\ UNCHANGED <<mesh, passVars>>
    BY <1>1, <1>4, <1>6, <2>1
  <2>6. (\A k \in 0 .. m : At(k)' = At(k)) /\ \A k \in 0 .. m - 1 : tunnelState'[At(k)] = tunnelState[At(k)]
    BY <1>1, <2>1
  <2> QED
    BY <1>2, <2>2, <2>4, <2>5, <2>6, SearchStep
<1>7. CASE m # Top
  <2>1. m \in 0 .. Top - 1 /\ pc' = "Backtrack" /\ tunnel' = SubSeq(tunnel, 1, m + 1)
    BY <1>1, <1>4, <1>5, <1>7 DEF MinOf
  <2>2. m % 2 = 1
    <3>1. SUFFICES ASSUME m % 2 = 0 PROVE FALSE
      BY <1>4
    <3>2. /\ Out(m) \in Dir /\ neighbours[At(m)][Out(m)] = At(m + 1)
          /\ m > 0 => Back(m) # Out(m)
      BY <1>2, <2>1, TunnelEdge
    <3>3. Out(m) \in Links(At(m))
      <4>1. m \in 0 .. Flipped /\ m < Flipped
        BY <1>2, <1>4, <2>1
      <4> QED BY <1>2, <3>1, <3>2, <4>1 DEF FlipOK
    <3>4. At(m + 1) \in C
      BY <1>3, <1>5, <3>2, <3>3
    <3>5. m + 1 \in circleIndex + 1 .. Top
      BY <1>4, <1>5, <2>1
    <3> QED BY <1>3, <3>4, <3>5
  <2>3. Visits(Dug) \cap C \subseteq Leaves(Dug, m + 1)
    <3>1. ASSUME NEW t \in Visits(Dug), t \in C PROVE t \in Leaves(Dug, m + 1)
      <4>1. \E k \in 0 .. Top : t = At(k)
        <5>1. ASSUME NEW i \in 1 .. Top, t = Dug[i][1] PROVE i - 1 \in 0 .. Top /\ t = At(i - 1)
          BY <1>4, <5>1
        <5>2. Top \in 1 .. Top /\ Top \in 0 .. Top
          BY <1>4
        <5>3. t \in Leaves(Dug, Top) \/ t = At(Top)
          BY <1>4, <3>1, <5>2 DEF Visits
        <5>4. t \in Leaves(Dug, Top) => \E i \in 1 .. Top : t = Dug[i][1]
          BY DEF Leaves
        <5> QED BY <5>1, <5>2, <5>3, <5>4
      <4>2. PICK k \in 0 .. Top : t = At(k)
        BY <4>1
      <4>3. k <= m
        BY <1>3, <1>4, <1>5, <3>1, <4>2
      <4>4. k + 1 \in 1 .. m + 1 /\ k + 1 \in 1 .. Top /\ (k + 1) - 1 = k
        BY <1>4, <2>1, <4>3
      <4>5. Dug[k + 1][1] = t
        BY <1>4, <4>2, <4>4
      <4> QED BY <4>4, <4>5 DEF Leaves
    <3> QED BY <3>1
  <2>4. ASSUME NEW p \in Closing, Follows(p, m + 1) PROVE Tried(p)
    <3>1. m + 1 <= Len(p) /\ \A j \in 1 .. m + 1 : p[j] = <<At(j - 1), Out(j - 1)>>
      BY <2>4 DEF Follows
    <3>2. \A i \in 1 .. m + 1 : Dug[i] = p[i]
      <4>1. \A i \in 1 .. m + 1 : i \in 1 .. Top
        BY <1>4, <2>1
      <4> QED BY <1>4, <3>1, <4>1
    <3>3. m + 1 \in 2 .. Len(p) /\ (m + 1) % 2 = 0 /\ m + 1 < Len(Dug)
      <4>1. Len(p) \in Nat /\ m \in Nat /\ m + 1 <= Top
        BY <1>4, <2>1, ClosingFacts
      <4>2. m >= 1 /\ (m + 1) % 2 = 0
        BY <2>2, <4>1
      <4>3. m + 1 # Top
        BY <1>4, <4>2
      <4> QED BY <1>4, <3>1, <4>1, <4>2, <4>3
    <3>4. GivesUpAfter(Settled, Dug, m + 1)
      BY <1>3, <2>3 DEF GivesUpAfter
    <3> QED BY <1>4, <3>2, <3>3, <3>4 DEF Tried, GivenUp
  <2>5. \A k \in 0 .. m : tunnelState'[At(k)] = tunnelState[At(k)]
    BY <1>1
  <2> HIDE DEF Unlimited
  <2> QED BY <1>1, <1>2, <2>1, <2>4, <2>5, RetreatedTo
<1> QED BY <1>6, <1>7

-----------------------------------------------------------------------------
(***************************************************************************)
(* The search as a whole.                                                  *)
(***************************************************************************)
(* The configuration only changes between two passes.                      *)
LEMMA ConfigStays ==
  ASSUME [Next]_vars
  PROVE  config' = config \/ pc' = "Pass"
<1>1. CASE StartTunneling BY <1>1 DEF StartTunneling
<1>2. CASE StartPass BY <1>2 DEF StartPass
<1>3. CASE EndPass BY <1>3 DEF EndPass
<1>4. CASE StopAtDestCount BY <1>4 DEF StopAtDestCount
<1>5. CASE StartDig BY <1>5 DEF StartDig, DigFailed, passVars
<1>6. CASE TunnelFound BY <1>6 DEF TunnelFound
<1>7. CASE CancelDig BY <1>7 DEF CancelDig, DigFailed
<1>8. CASE RetreatDig BY <1>8 DEF RetreatDig, passVars
<1>9. CASE Push BY <1>9 DEF Push, passVars
<1>10. CASE ExpandTunnel BY <1>10 DEF ExpandTunnel, passVars
<1>11. CASE BacktrackTunnel \/ RetreatTunnel
  BY <1>11 DEF BacktrackTunnel, RetreatTunnel, Backtrack, DigFailed, passVars
<1>12. CASE \/ StartCement \/ FlipEdge \/ UnmarkEndpoints \/ UndoTunnel
            \/ StartWalk \/ SkipStarter \/ WalkOn \/ EndWalk
  BY <1>12 DEF StartCement, FlipEdge, UnmarkEndpoints, UndoTunnel, StartWalk, SkipStarter,
               WalkOn, EndWalk, passVars
<1>13. CASE UNCHANGED vars \/ Finished
  BY <1>13 DEF Finished, vars, passVars
<1> QED
  BY <1>1, <1>2, <1>3, <1>4, <1>5, <1>6, <1>7, <1>8, <1>9, <1>10, <1>11, <1>12, <1>13
  DEF Next, Step

(* A pass begins with the first endpoint of the list: none is before it.   *)
LEMMA StartPassTried ==
  ASSUME IInv, IInv', StartPass, \A t \in Tris : SettledLinks(t)' = SettledLinks(t)
  PROVE  TriedOK'
<1>1. /\ pc = "Pass" /\ pc' = "Endpoint" /\ first' = HeadOf(endpoints)
      /\ UNCHANGED <<mesh, config, endpoints>>
  BY DEF StartPass
<1>2. /\ endpoints \in Seq(Tris) /\ IsInjectiveList(endpoints)
      /\ ElementsOf(endpoints) = Ends(SettledLinks)
  <2>1. ListOK /\ ~IsFlipped
    BY <1>1 DEF IInv, IsFlipped
  <2> QED BY <2>1, InvFacts DEF ListOK
<1>3. Closing' = Closing
  BY <1>1, TriedFrame
<1>4. ASSUME NEW p \in Closing PROVE ~(PlaceIn(p[1][1], endpoints) < PlaceIn(first', endpoints))
  <2>1. p[1][1] \in ElementsOf(endpoints)
    BY <1>2, ClosingFacts
  <2>2. \E i \in DOMAIN endpoints : endpoints[i] = p[1][1]
    BY <2>1 DEF ElementsOf
  <2>3. PlaceIn(p[1][1], endpoints) \in DOMAIN endpoints
    BY <2>2, Zenon DEF PlaceIn
  <2>4. DOMAIN endpoints = 1 .. Len(endpoints) /\ 1 \in DOMAIN endpoints /\ endpoints # <<>>
    BY <1>2, <2>2
  <2>5. endpoints[1] = first'
    BY <1>1, <2>4 DEF HeadOf
  <2>6. /\ PlaceIn(first', endpoints) \in DOMAIN endpoints
        /\ endpoints[PlaceIn(first', endpoints)] = first'
    BY <2>4, <2>5, Zenon DEF PlaceIn
  <2>7. PlaceIn(first', endpoints) = 1
    BY <1>2, <2>4, <2>5, <2>6 DEF IsInjectiveList
  <2> QED BY <2>3, <2>4, <2>7
<1>5. PassOK'
  BY <1>1, <1>3, <1>4 DEF PassOK, PlaceIn, InTunnel, Digging, Cementing
<1> QED BY <1>1, <1>5 DEF TriedOK, SearchOK, InTunnel, Digging, Cementing

(* After a pass that found nothing all paths have been tried.              *)
LEMMA EndPassTried ==
  ASSUME IInv, IInv', TriedOK, Unlimited, EndPass,
         \A t \in Tris : SettledLinks(t)' = SettledLinks(t)
  PROVE  TriedOK'
<1>1. /\ pc = "PassEnd" /\ pc' \in {"Pass", "Done"}
      /\ UNCHANGED <<mesh, stripsCount>>
      /\ pc' = "Done" => ~PassAgain /\ config' = config
  BY DEF EndPass
<1>2. CASE pc' = "Pass"
  BY <1>2 DEF TriedOK, SearchOK, PassOK, InTunnel, Digging, Cementing
<1>3. CASE pc' = "Done"
  <2>1. hasFound \/ stripsCount <= 1 \/ \A p \in Closing : Tried(p)
    BY <1>1 DEF TriedOK, Unlimited, PassOK
  <2>2. hasFound => stripsCount <= 1
    BY <1>1, <1>3 DEF PassAgain, IInv, CountersOK
  <2>3. Closing' = Closing /\ \A p : Tried(p)' <=> Tried(p)
    BY <1>1, <1>3, TriedFrame
  <2>4. stripsCount' <= 1 \/ \A p \in Closing' : Tried(p)'
    BY <1>1, <2>1, <2>2, <2>3
  <2> QED BY <1>3, <2>4 DEF TriedOK, SearchOK, PassOK, InTunnel, Digging, Cementing
<1> QED BY <1>1, <1>2, <1>3

(* A step that changes nothing changes nothing here.                       *)
LEMMA StutterTried ==
  ASSUME IInv, IInv', TriedOK, UNCHANGED vars
  PROVE  TriedOK'
<1>1. UNCHANGED <<mesh, stripVars, passVars, pc, searchVars, checkVars>>
  BY DEF vars
<1>2. UNCHANGED <<config, endpoints, stripsCount, hasFound, first, tunnel, tunnelState, pc,
                  linkState, step>>
  BY <1>1 DEF passVars, searchVars, checkVars, stripVars
<1>3. \A t \in Tris : SettledLinks(t)' = SettledLinks(t)
  BY <1>2 DEF SettledLinks, IsSaved, Links, At, Top
<1>4. Closing' = Closing /\ \A p : Tried(p)' <=> Tried(p)
  BY <1>1, <1>2, <1>3, TriedFrame
<1>5. \A p, i : Behind(p, i)' <=> Behind(p, i)
  BY <1>2 DEF Behind, Follows, LeftToTry, At, Top, Out, SuccessorIndex
<1>6. Top' = Top /\ InTunnel' = InTunnel
  BY <1>2 DEF Top, InTunnel
<1>7. SearchOK => SearchOK'
  BY <1>2, <1>4, <1>5, <1>6 DEF SearchOK
<1>8. PassOK => PassOK'
  BY <1>2, <1>4, <1>6 DEF PassOK, PlaceIn
<1> QED BY <1>2, <1>7, <1>8 DEF TriedOK

(* Every step keeps the account.                                           *)
LEMMA NextTried ==
  ASSUME IInv, CircleFound, TriedOK, [Next]_vars
  PROVE  TriedOK'
<1>1. IInv'
  BY NextIInv
<1>2. CASE pc' = "Pass"
  BY <1>2 DEF TriedOK, SearchOK, PassOK, InTunnel, Digging, Cementing
<1>3. CASE ~Unlimited /\ pc' # "Pass"
  BY <1>3, ConfigStays DEF TriedOK, Unlimited
<1>4. CASE TunnelFound
  <2>1. hasFound' = TRUE /\ pc' \in {"Endpoint", "PassEnd"}
    BY <1>4 DEF TunnelFound, ContinueWith
  <2> QED BY <2>1 DEF TriedOK, SearchOK, PassOK, InTunnel, Digging, Cementing
<1>5. ASSUME Unlimited, ~TunnelFound, pc' # "Pass"
      PROVE  TriedOK'
  <2>1. /\ UNCHANGED <<mesh, stripsCount>>
        /\ \A t \in Tris : SettledLinks(t)' = SettledLinks(t)
    BY <1>5, SettledStays
  <2>2. CASE StartTunneling
    BY <1>5, <2>2 DEF StartTunneling
  <2>3. CASE StartPass
    BY <1>1, <2>1, <2>3, StartPassTried
  <2>4. CASE EndPass
    BY <1>1, <1>5, <2>1, <2>4, EndPassTried
  <2>5. CASE StopAtDestCount
    BY <1>5, <2>5 DEF StopAtDestCount, DestCountReached, Unlimited
  <2>6. CASE StartDig
    BY <1>1, <1>5, <2>1, <2>6, StartDigTried
  <2>7. CASE CancelDig \/ RetreatDig
    BY <1>5, <2>7 DEF CancelDig, RetreatDig, LoopLimitReached, Unlimited
  <2>8. CASE Push
    BY <1>1, <1>5, <2>1, <2>8, PushTried
  <2>9. CASE ExpandTunnel
    BY <1>1, <1>5, <2>1, <2>9, ExpandTried
  <2>10. CASE BacktrackTunnel
    BY <1>1, <1>5, <2>1, <2>10, BacktrackTried
  <2>11. CASE RetreatTunnel
    BY <1>5, <2>11 DEF RetreatTunnel, Backtrack, TriedOK, Unlimited, SearchOK
  <2>12. CASE \/ StartCement \/ FlipEdge \/ UnmarkEndpoints
              \/ StartWalk \/ SkipStarter \/ WalkOn \/ EndWalk
    <3>1. /\ pc \in Cementing \cup {"Cement"} /\ pc' \in Cementing
          /\ UNCHANGED <<passVars, tunnel, tunnelState>>
      <4>1. CASE \/ StartCement \/ FlipEdge \/ UnmarkEndpoints
                 \/ StartWalk \/ SkipStarter \/ EndWalk
        BY <4>1 DEF StartCement, FlipEdge, UnmarkEndpoints, StartWalk, SkipStarter, EndWalk,
                    searchVars, Cementing
      <4>2. CASE WalkOn
        <5>1. StripDirs(walker, backIndex) # {}
          BY <4>2, WalkDirection DEF WalkOn
        <5> QED BY <4>2, <5>1 DEF WalkOn, Cementing
      <4> QED BY <2>12, <4>1, <4>2
    <3> QED BY <1>1, <1>5, <2>1, <3>1, CementingTried
  <2>13. CASE UndoTunnel
    BY <1>1, <1>5, <2>1, <2>13, UndoTried
  <2>14. CASE UNCHANGED vars \/ Finished
    BY <1>1, <2>14, StutterTried DEF Finished
  <2> QED
    BY <1>5, <2>2, <2>3, <2>4, <2>5, <2>6, <2>7, <2>8, <2>9, <2>10, <2>11, <2>12, <2>13, <2>14
    DEF Next, Step
<1> QED BY <1>2, <1>3, <1>4, <1>5

-----------------------------------------------------------------------------
(***************************************************************************)
(* A single strip.  A pass ends when there is one left.                    *)
(***************************************************************************)
(* Flipping a path leaves its inner triangles as many links as they had,   *)
(* and gives its two ends another one.                                     *)
LEMMA FlippedPath ==
  ASSUME IInv, NEW p \in Closing, NEW t \in InUse
  PROVE  /\ \A d \in LinksAfter(Settled, p)[t] : neighbours[t][d] \in InUse
         /\ (Settled[t] # {} /\ t \in {p[1][1], Across(p[Len(p)])}) \/ ~AtMostOne(Settled[t])
              => ~AtMostOne(LinksAfter(Settled, p)[t])
<1> DEFINE rev(i) == <<Across(p[i]), indices[p[i][1]][p[i][2]]>>
           flips == {p[i] : i \in DOMAIN p} \cup
                    {<<Across(p[i]), indices[p[i][1]][p[i][2]]>> : i \in DOMAIN p}
           flipped(u) == {d \in Dir : <<u, d>> \in flips}
           S == Settled[t]
           F == flipped(t)
           a == p[1][1]
           b == Across(p[Len(p)])
<1>1. /\ MeshOK /\ InUse \subseteq Tris /\ Agree(SettledLinks)
      /\ S = SettledLinks(t) /\ S \subseteq Dir /\ \E d \in Dir : d \notin S
  BY InvFacts, LinksAreDirs DEF IInv, LinksOK, Agree
<1>0. Len(p) \in Nat /\ Len(p) >= 1 /\ Len(p) % 2 = 1 /\ DOMAIN p = 1 .. Len(p)
  <2>1. p \in Seq(Tris \X Dir) /\ Len(p) \in Nat /\ Len(p) >= 1 /\ Len(p) % 2 = 1
    BY ClosingFacts
  <2> QED BY <2>1
<1>20. \A i \in 1 .. Len(p) :
         i # Len(p) => i + 1 \in 1 .. Len(p) /\ i + 1 > 1 /\ (i + 1) - 1 = i
  <2>1. \A n \in Nat : \A i \in 1 .. n : i # n => i + 1 \in 1 .. n /\ i + 1 > 1 /\ (i + 1) - 1 = i
    OBVIOUS
  <2>2. Len(p) \in Nat
    BY <1>0
  <2> QED BY <2>1, <2>2
<1>2. /\ DOMAIN p = 1 .. Len(p) /\ Len(p) \in Nat /\ Len(p) >= 1 /\ Len(p) % 2 = 1
      /\ \A i \in 1 .. Len(p) :
           /\ p[i][1] \in Tris /\ p[i][2] \in Dir /\ p[i] = <<p[i][1], p[i][2]>>
           /\ neighbours[p[i][1]][p[i][2]] = Across(p[i])
           /\ Across(p[i]) # Null /\ Across(p[i]) \in InUse /\ Across(p[i]) # p[i][1]
           /\ \A j \in 1 .. i : p[j][1] # Across(p[i])
           /\ p[i][2] \in SettledLinks(p[i][1]) <=> i % 2 = 0
           /\ i > 1 => p[i][1] = Across(p[i - 1])
  <2>1. \A i \in 1 .. Len(p) :
           /\ p[i][1] \in Tris /\ p[i][2] \in Dir /\ p[i] = <<p[i][1], p[i][2]>>
           /\ neighbours[p[i][1]][p[i][2]] = Across(p[i])
           /\ Across(p[i]) # Null /\ Across(p[i]) \in InUse /\ Across(p[i]) # p[i][1]
           /\ \A j \in 1 .. i : p[j][1] # Across(p[i])
           /\ p[i][2] \in SettledLinks(p[i][1]) <=> i % 2 = 0
           /\ i > 1 => p[i][1] = Across(p[i - 1])
    BY ClosingFacts
  <2> QED BY <1>0, <2>1
<1>3. LinksAfter(Settled, p)[t] = (S \ F) \cup (F \ S)
  BY <1>1 DEF LinksAfter
<1>4. ASSUME NEW i \in 1 .. Len(p)
      PROVE  /\ rev(i)[2] \in Dir /\ neighbours[Across(p[i])][rev(i)[2]] = p[i][1]
             /\ rev(i)[2] \in SettledLinks(Across(p[i])) <=> i % 2 = 0
  <2>1. /\ rev(i)[2] \in Dir /\ neighbours[Across(p[i])][rev(i)[2]] = p[i][1]
        /\ indices[Across(p[i])][rev(i)[2]] = p[i][2] /\ Across(p[i]) \in Tris
    BY <1>1, <1>2, EdgeFacts
  <2>2. rev(i)[2] \in SettledLinks(Across(p[i])) <=> p[i][2] \in SettledLinks(p[i][1])
    BY <1>1, <1>2, <2>1 DEF Agree
  <2> QED BY <1>2, <2>1, <2>2
<1>5. \A d \in F : \/ \E i \in 1 .. Len(p) : p[i][1] = t /\ p[i][2] = d
                   \/ \E i \in 1 .. Len(p) : Across(p[i]) = t /\ rev(i)[2] = d
  BY <1>2
<1>6. \A i \in 1 .. Len(p) : /\ p[i][1] = t => p[i][2] \in F
                             /\ Across(p[i]) = t => rev(i)[2] \in F
  BY <1>2, <1>4
<1> HIDE DEF F, flips
<1>7. \A d \in LinksAfter(Settled, p)[t] : neighbours[t][d] \in InUse
  <2>1. ASSUME NEW d \in S PROVE neighbours[t][d] \in InUse
    BY <1>1, <2>1, EdgeFacts DEF Agree
  <2>2. ASSUME NEW d \in F PROVE neighbours[t][d] \in InUse
    <3>1. ASSUME NEW i \in 1 .. Len(p), p[i][1] = t, p[i][2] = d PROVE neighbours[t][d] \in InUse
      BY <1>2, <3>1
    <3>2. ASSUME NEW i \in 1 .. Len(p), Across(p[i]) = t, rev(i)[2] = d PROVE neighbours[t][d] \in InUse
      <4>1. neighbours[t][d] = p[i][1] /\ d \in Dir /\ p[i][1] # Null
        <5>1. p[i][1] \in Tris
          BY <1>2
        <5> QED BY <1>4, <3>2, <5>1 DEF Tris, Null
      <4> QED BY <1>1, <4>1, EdgeFacts
    <3> QED BY <1>5, <3>1, <3>2
  <2> QED BY <1>3, <2>1, <2>2
<1>8. ASSUME NEW i \in 1 .. Len(p), NEW j \in 1 .. Len(p), p[i][1] = p[j][1]
      PROVE  i = j
  <2>1. ASSUME NEW k \in 1 .. Len(p), NEW m \in 1 .. Len(p), k < m, p[k][1] = p[m][1]
        PROVE  FALSE
    <3>1. m - 1 \in 1 .. Len(p) /\ k \in 1 .. m - 1 /\ m > 1
      BY <1>0, <2>1
    <3> QED BY <1>2, <2>1, <3>1
  <2> QED BY <1>2, <1>8, <2>1
<1>9. ASSUME NEW i \in 1 .. Len(p), NEW j \in 1 .. Len(p), p[i][1] = Across(p[j])
      PROVE  i = j + 1
  <2>1. j < Len(p)
    <3>1. j = Len(p) => i \in 1 .. j
      BY <1>2
    <3> QED BY <1>2, <1>9, <3>1
  <2>2. j + 1 \in 1 .. Len(p) /\ j + 1 > 1 /\ (j + 1) - 1 = j
    BY <1>2, <2>1
  <2>3. p[j + 1][1] = Across(p[j])
    BY <1>2, <2>2
  <2> QED BY <1>8, <1>9, <2>2, <2>3
<1>10. CASE \E i \in 1 .. Len(p) : i > 1 /\ p[i][1] = t
  <2>1. PICK i \in 1 .. Len(p) : i > 1 /\ p[i][1] = t
    BY <1>10
  <2>2. i - 1 \in 1 .. Len(p) /\ (i - 1) + 1 = i /\ Across(p[i - 1]) = t
    BY <1>2, <2>1
  <2> DEFINE x == p[i][2]
             y == rev(i - 1)[2]
  <2>3. x \in F /\ y \in F /\ x \in Dir /\ y \in Dir
    BY <1>2, <1>4, <1>6, <2>1, <2>2
  <2>4. x \in S <=> y \notin S
    <3>1. (x \in S <=> i % 2 = 0) /\ (y \in S <=> (i - 1) % 2 = 0)
      <4>1. x \in SettledLinks(p[i][1]) <=> i % 2 = 0
        BY <1>2, <2>1
      <4>2. y \in SettledLinks(Across(p[i - 1])) <=> (i - 1) % 2 = 0
        BY <1>4, <2>2, Zenon
      <4>3. S = SettledLinks(p[i][1]) /\ S = SettledLinks(Across(p[i - 1]))
        BY <1>1, <2>1, <2>2, Zenon
      <4> HIDE DEF S, x, y
      <4> QED
        BY <4>1, <4>2, <4>3, Zenon
    <3>2. i % 2 = 0 <=> (i - 1) % 2 # 0
      BY <2>1
    <3> QED BY <3>1, <3>2, Zenon
  <2>5. \A d \in F : d = x \/ d = y
    <3>1. ASSUME NEW j \in 1 .. Len(p), Across(p[j]) = t PROVE j = i - 1
      <4>1. i = j + 1
        BY <1>9, <2>1, <3>1
      <4>2. i \in Int /\ j \in Int
        BY <1>0, <2>1, <3>1
      <4> QED BY ONLY <4>1, <4>2
    <3> QED BY <1>5, <1>8, <2>1, <3>1
  <2>6. t \notin {a, b}
    <3>1. 1 \in 1 .. Len(p) /\ Len(p) \in 1 .. Len(p) /\ i # 1 /\ i # Len(p) + 1
      BY <1>0, <2>1
    <3>2. t # a
      BY <1>8, <2>1, <3>1
    <3>3. t # b
      BY <1>9, <2>1, <3>1
    <3> QED BY <3>2, <3>3
  <2> HIDE DEF x, y
  <2>7. ASSUME ~AtMostOne(S) PROVE ~AtMostOne((S \ F) \cup (F \ S))
    BY <2>3, <2>4, <2>5, <2>7 DEF AtMostOne
  <2> QED BY <1>3, <1>7, <2>6, <2>7
<1>11. CASE t \in {a, b}
  <2>1. \E z \in F : z \notin S
    <3>1. CASE t = a
      <4>1. 1 \in 1 .. Len(p) /\ 1 % 2 # 0
        BY <1>2
      <4> QED BY <1>1, <1>2, <1>6, <3>1, <4>1
    <3>2. CASE t = b
      <4>1. Len(p) \in 1 .. Len(p) /\ Len(p) % 2 # 0
        BY <1>2
      <4> QED BY <1>1, <1>4, <1>6, <3>2, <4>1
    <3> QED BY <1>11, <3>1, <3>2
  <2>2. \A z \in F : z \notin S
    <3>1. ASSUME NEW i \in 1 .. Len(p), p[i][1] = t PROVE i = 1
      <4>1. 1 \in 1 .. Len(p) /\ Len(p) \in 1 .. Len(p) /\ i # Len(p) + 1
        BY <1>2
      <4> QED BY <1>8, <1>9, <1>11, <3>1, <4>1
    <3>2. ASSUME NEW i \in 1 .. Len(p), Across(p[i]) = t PROVE i = Len(p)
      <4>1. CASE t = a
        <5>1. 1 \in 1 .. Len(p) /\ 1 # i + 1
          BY <1>2
        <5> QED BY <1>9, <3>2, <4>1, <5>1
      <4>2. CASE t = b /\ i # Len(p)
        <5>1. i + 1 \in 1 .. Len(p) /\ i + 1 > 1 /\ (i + 1) - 1 = i /\ Len(p) \in 1 .. Len(p)
          <6>1. Len(p) \in 1 .. Len(p)
            BY <1>0
          <6> QED BY <1>20, <4>2, <6>1
        <5>2. p[i + 1][1] = Across(p[Len(p)])
          BY <1>2, <3>2, <4>2, <5>1
        <5>3. i + 1 = Len(p) + 1
          BY <1>9, <5>1, <5>2
        <5>4. i + 1 = Len(p) + 1 => i = Len(p)
          <6>1. Len(p) \in Nat /\ i \in Nat
            BY <1>0
          <6> QED BY <6>1
        <5> QED BY <5>3, <5>4
      <4> QED BY <1>11, <4>1, <4>2
    <3>3. 1 % 2 # 0 /\ Len(p) % 2 # 0
      BY <1>2
    <3>4. ASSUME NEW z \in F, NEW i \in 1 .. Len(p), p[i][1] = t, p[i][2] = z PROVE z \notin S
      BY <1>1, <1>2, <3>1, <3>3, <3>4
    <3>5. ASSUME NEW z \in F, NEW i \in 1 .. Len(p), Across(p[i]) = t, rev(i)[2] = z PROVE z \notin S
      BY <1>1, <1>4, <3>2, <3>3, <3>5
    <3> QED BY <1>5, <3>4, <3>5
  <2>3. ASSUME S # {} PROVE ~AtMostOne((S \ F) \cup (F \ S))
    BY <2>1, <2>2, <2>3 DEF AtMostOne
  <2>4. ~AtMostOne(S) => S # {}
    BY DEF AtMostOne
  <2> QED BY <1>3, <1>7, <2>3, <2>4
<1>12. CASE (\A i \in 1 .. Len(p) : ~(i > 1 /\ p[i][1] = t)) /\ t \notin {a, b}
  <2>1. \A i \in 1 .. Len(p) : p[i][1] # t
    <3>1. \A i \in 1 .. Len(p) : i > 1 \/ i = 1
      BY <1>2
    <3> QED BY <1>12, <3>1
  <2>2. ASSUME NEW i \in 1 .. Len(p) PROVE Across(p[i]) # t
    <3>1. i # Len(p) => i + 1 \in 1 .. Len(p) /\ i + 1 > 1 /\ (i + 1) - 1 = i
      BY <1>20
    <3>2. i # Len(p) => p[i + 1][1] = Across(p[i])
      BY <1>2, <3>1
    <3> QED BY <1>12, <2>1, <3>1, <3>2
  <2>3. F = {}
    BY <1>5, <2>1, <2>2
  <2> QED BY <1>3, <1>7, <1>12, <2>3
<1> QED BY <1>10, <1>11, <1>12

(* When there is one strip left, every path from end to end joins its own  *)
(* ends.                                                                   *)
LEMMA OneStrip ==
  ASSUME CoverInv, stripsCount <= 1, NEW p \in Closing
  PROVE  CirclesAfter(Settled, p) # {}
<1> DEFINE a == p[1][1]
           b == Across(p[Len(p)])
<1>1. IInv /\ MeshOK /\ InUse \subseteq Tris /\ trisCount \in Nat
  BY InvFacts DEF CoverInv
<1>2. /\ a \in Ends(SettledLinks) /\ b \in Ends(SettledLinks) /\ a # b
      /\ Settled \in [Tris -> SUBSET Dir] /\ \A t \in Tris : Settled[t] = SettledLinks(t)
  <2>1. Len(p) \in Nat /\ Len(p) >= 1
    BY <1>1, ClosingFacts
  <2>2. Len(p) \in 1 .. Len(p) /\ 1 \in 1 .. Len(p)
    BY <2>1
  <2> QED BY <1>1, <2>2, ClosingFacts, InvFacts
<1>3. PICK L : L = Settled
  OBVIOUS
<1>4. /\ IsFiniteSet(Places(L, InUse)) /\ Cardinality(Places(L, InUse)) <= 2
  <2>1. IsFiniteSet(InUse)
    BY <1>1, FS_Interval DEF InUse
  <2>2. \A t \in InUse : L[t] \in SUBSET Dir /\ \E d \in Dir : d \notin L[t]
    <3>1. Agree(SettledLinks)
      BY <1>1 DEF IInv, LinksOK
    <3> QED BY <1>1, <1>2, <1>3, <3>1 DEF Agree
  <2>3. IsFiniteSet(Places(L, InUse))
    BY <2>1, <2>2, PlacesAndSides
  <2>4. Cardinality(Places(L, InUse)) = 2 * stripsCount
    BY <1>3, Zenon DEF CoverInv, CountOK
  <2>5. stripsCount \in Int
    BY <1>1 DEF IInv, CountersOK
  <2> QED BY <2>3, <2>4, <2>5
<1>5. ASSUME NEW t \in Ends(SettledLinks) PROVE <<t, 2>> \in Places(L, InUse)
  <2>1. t \in InUse /\ t \in Tris /\ AtMostOne(L[t]) /\ L[t] \in SUBSET Dir
    BY <1>1, <1>2, <1>3 DEF Ends
  <2>2. Cardinality(L[t]) \in Nat /\ Cardinality(L[t]) <= 1
    BY <2>1, AtMostOneLink, LinkSet
  <2> QED BY <2>1, <2>2 DEF Places
<1>6. Places(L, InUse) = {<<a, 2>>, <<b, 2>>}
  <2> DEFINE P == Places(L, InUse)
             Q == {<<a, 2>>, <<b, 2>>}
  <2>1. Q \in SUBSET P
    BY <1>2, <1>5
  <2>2. IsFiniteSet(Q) /\ Cardinality(Q) = 2
    <3>1. Q = {<<a, 2>>} \cup {<<b, 2>>} /\ <<b, 2>> \notin {<<a, 2>>}
      BY <1>2
    <3>2. IsFiniteSet({<<a, 2>>}) /\ Cardinality({<<a, 2>>}) = 1
      BY FS_Singleton
    <3>3. /\ IsFiniteSet({<<a, 2>>} \cup {<<b, 2>>})
          /\ Cardinality({<<a, 2>>} \cup {<<b, 2>>}) = 1 + 1
      <4> HIDE DEF a, b
      <4> QED BY <3>1, <3>2, FS_AddElement
    <3> HIDE DEF Q, a, b
    <3> QED BY <3>1, <3>3
  <2> HIDE DEF P, Q
  <2>3. IsFiniteSet(P) /\ Cardinality(P) <= 2 /\ Cardinality(P) \in Nat
    BY <1>4, FS_CardinalityType DEF P
  <2>4. Cardinality(Q) <= Cardinality(P) /\ (Cardinality(P) = Cardinality(Q) => P = Q)
    BY <2>1, <2>3, FS_Subset
  <2>5. P = Q
    BY <2>2, <2>3, <2>4
  <2> QED BY <2>5 DEF P, Q
<1>7. ASSUME NEW t \in InUse
      PROVE  (Settled[t] # {} /\ t \in {a, b}) \/ ~AtMostOne(Settled[t])
  <2>1. L[t] \in SUBSET Dir /\ Cardinality(L[t]) \in Nat
    BY <1>1, <1>2, <1>3, LinkSet
  <2>2. CASE t \in {a, b}
    <3>1. <<t, 1>> \notin Places(L, InUse)
      BY <1>6
    <3>2. ~(1 > Cardinality(L[t]))
      BY <3>1 DEF Places
    <3>3. Cardinality({}) = 0
      BY FS_EmptySet
    <3>4. L[t] # {}
      BY <2>1, <3>2, <3>3
    <3> QED BY <1>3, <2>2, <3>4
  <2>3. CASE t \notin {a, b}
    <3>1. <<t, 2>> \notin Places(L, InUse)
      BY <1>6, <2>3
    <3>2. ~(2 > Cardinality(L[t]))
      BY <3>1 DEF Places
    <3>3. ~AtMostOne(L[t])
      BY <2>1, <3>2, AtMostOneLink
    <3> QED BY <1>3, <3>3
  <2> QED BY <2>2, <2>3
<1>8. ASSUME NEW t \in InUse
      PROVE  ~AtMostOne({d \in LinksAfter(Settled, p)[t] : neighbours[t][d] \in InUse})
  <2>1. {d \in LinksAfter(Settled, p)[t] : neighbours[t][d] \in InUse} = LinksAfter(Settled, p)[t]
    BY <1>1, FlippedPath
  <2> QED BY <1>1, <1>7, <2>1, FlippedPath
<1>9. InUse # {}
  BY <1>2 DEF Ends
<1>10. InUse \in CirclesAfter(Settled, p)
  BY <1>8, <1>9 DEF CirclesAfter, Circles
<1> QED BY <1>10

-----------------------------------------------------------------------------
(***************************************************************************)
(* No tunnel is overlooked.                                                *)
(***************************************************************************)
(* Before tunneling nothing has been searched.                             *)
LEMMA ReadyTried ==
  ASSUME Ready
  PROVE  TriedInv
<1>1. CoverInv
  BY ReadyCoverInv
<1>2. TriedOK
  BY DEF Ready, TriedOK, SearchOK, PassOK, InTunnel, Digging, Cementing
<1> QED
  BY <1>1, <1>2 DEF TriedInv

(* ... and keeps it with the invariant.                                    *)
LEMMA NextTriedInv ==
  TriedInv /\ [Next]_vars => TriedInv'
<1> SUFFICES ASSUME TriedInv, [Next]_vars PROVE TriedInv'
  OBVIOUS
<1>1. CoverInv' /\ IInv /\ CircleFound /\ TriedOK
  BY NextCoverInv DEF TriedInv, CoverInv
<1>2. TriedOK'
  BY <1>1, NextTried
<1> QED
  BY <1>1, <1>2 DEF TriedInv

(* With the account of what the search has left behind: every path that is *)
(* not left to try any more closes a circle, or has been given up.         *)
THEOREM TriedInvHolds ==
  ASSUME CancelsCleanly
  PROVE  Spec => []TriedInv
<1>1. Init => TriedInv
  BY InitReady, ReadyTried
<1> QED
  BY <1>1, NextTriedInv, PTL DEF Spec

(* The paths from end to end when no tunnel is being cemented.             *)
LEMMA ClosingNow ==
  ASSUME IInv, pc = "Done"
  PROVE  /\ Settled = LinksNow /\ endpoint = Ends(SettledLinks)
         /\ \A e \in endpoint : \A p :
              p \in ClosingFrom(LinksNow, e, config.maxCount - 1) <=>
                p \in Closing /\ p[1][1] = e
<1>2. pc \notin Cementing /\ ~IsFlipped
  BY DEF Cementing, IsFlipped
<1>3. Settled = LinksNow /\ endpoint = Ends(SettledLinks)
  BY <1>2, SettledIsCurrent, InvFacts DEF Settled, LinksNow, Endpoints
<1>4. ASSUME NEW p, NEW e \in endpoint
      PROVE  p \in ClosingFrom(LinksNow, e, config.maxCount - 1) <=>
               p \in Closing /\ p[1][1] = e
  <2> DEFINE n == config.maxCount - 1
  <2>1. MeshOK /\ n \in Nat /\ endpoint \subseteq Tris
    BY <1>3, InvFacts
  <2>2. \A x \in endpoint : AlternatingFrom(Settled, x, n) =
                              UNION {PathsOf(Settled, x, k) : k \in {i \in 1 .. n : i % 2 = 1}}
    BY <2>1, AlternatingPaths
  <2>3. \A x \in endpoint : \A q \in AlternatingFrom(Settled, x, n) : q[1][1] = x
    BY <2>2 DEF PathsOf
  <2>4. p \in ClosingFrom(LinksNow, e, n) <=>
          p \in AlternatingFrom(Settled, e, n) /\ Across(p[Len(p)]) \in endpoint
    BY <1>3 DEF ClosingFrom
  <2>5. p \in Closing <=> /\ \E x \in endpoint : p \in AlternatingFrom(Settled, x, n)
                          /\ Across(p[Len(p)]) \in endpoint
    BY <1>3, Zenon DEF Closing
  <2> HIDE DEF n
  <2>6. p \in ClosingFrom(LinksNow, e, n) <=> p \in Closing /\ p[1][1] = e
    BY <2>3, <2>4, <2>5
  <2> QED BY <2>6 DEF n
<1> QED BY <1>3, <1>4

(* What the account says when the last pass is over.                       *)
LEMMA TriedInvTried ==
  ASSUME TriedInv
  PROVE  TunnelsTried
<1> SUFFICES ASSUME pc = "Done", Unlimited,
                    NEW a \in endpoint,
                    NEW path \in ClosingFrom(LinksNow, a, config.maxCount - 1),
                    CirclesAfter(LinksNow, path) = {}
             PROVE  \E given \in ClosingFrom(LinksNow, a, config.maxCount - 1), n \in 2 .. Len(path) :
                      /\ n % 2 = 0 /\ n < Len(given)
                      /\ \A i \in 1 .. n : given[i] = path[i]
                      /\ GivesUpAfter(LinksNow, given, n)
  BY DEF TunnelsTried, Unlimited
<1>1. CoverInv /\ IInv /\ TriedOK
  BY DEF TriedInv, CoverInv
<1>2. /\ Settled = LinksNow /\ endpoint = Ends(SettledLinks)
      /\ \A p : p \in ClosingFrom(LinksNow, a, config.maxCount - 1) <=>
                 p \in Closing /\ p[1][1] = a
  BY <1>1, ClosingNow
<1>3. path \in Closing /\ path[1][1] = a /\ CirclesAfter(Settled, path) = {}
  BY <1>2
<1>4. Tried(path)
  <2>1. stripsCount <= 1 \/ \A p \in Closing : Tried(p)
    BY <1>1 DEF TriedOK, Unlimited, PassOK
  <2> QED BY <1>1, <1>3, <2>1, OneStrip
<1>5. PICK given \in Closing, n \in 2 .. Len(path) :
             /\ n % 2 = 0 /\ n < Len(given)
             /\ \A i \in 1 .. n : given[i] = path[i]
             /\ GivesUpAfter(Settled, given, n)
  BY <1>3, <1>4 DEF Tried, GivenUp
<1>6. given[1] = path[1]
  BY <1>5
<1>7. given \in ClosingFrom(LinksNow, a, config.maxCount - 1)
  BY <1>2, <1>3, <1>5, <1>6
<1> QED
  BY <1>2, <1>5, <1>7

(* An unlimited search overlooks no tunnel, but those that it would have   *)
(* had to find by breaking the circle of an undone one again.              *)
THEOREM NothingElseIsOverlooked ==
  ASSUME CancelsCleanly
  PROVE  Spec => []TunnelsTried
<1>1. TriedInv => TunnelsTried
  BY TriedInvTried
<1> QED
  BY <1>1, TriedInvHolds, PTL

-----------------------------------------------------------------------------
(***************************************************************************)
(* Short tunnels.                                                          *)
(***************************************************************************)
(* A path of three sides that begins like a given up one closes the same   *)
(* circle: there is no room left to break it.                              *)
LEMMA ShortGivenUp ==
  ASSUME IInv, NEW path \in Closing, NEW given \in Closing, Len(path) = 3, Len(given) = 3,
         \A i \in 1 .. 2 : given[i] = path[i],
         GivesUpAfter(Settled, given, 2)
  PROVE  CirclesAfter(Settled, path) # {}
<1>1. PICK C \in CirclesAfter(Settled, given) : Visits(given) \cap C \subseteq Leaves(given, 2)
  BY DEF GivesUpAfter
<1>2. given[1] = path[1] /\ given[2] = path[2] /\ DOMAIN given = 1 .. 3 /\ DOMAIN path = 1 .. 3
  BY ClosingFacts
<1>3. /\ 1 .. 3 = {1, 2, 3} /\ 1 .. 2 = {1, 2}
      /\ \A q \in {path, given} :
           /\ Across(q[1]) # q[1][1] /\ Across(q[2]) \notin {q[1][1], q[2][1]}
           /\ Across(q[3]) \notin {q[1][1], q[2][1], q[3][1]}
           /\ q[2][1] = Across(q[1]) /\ q[3][1] = Across(q[2])
           /\ Across(q[3]) \in Ends(SettledLinks)
  <2>1. 1 .. 3 = {1, 2, 3} /\ 1 .. 2 = {1, 2} /\ 1 .. 1 = {1}
    OBVIOUS
  <2>2. ASSUME NEW q \in Closing, Len(q) = 3
        PROVE  /\ Across(q[1]) # q[1][1] /\ Across(q[2]) \notin {q[1][1], q[2][1]}
               /\ Across(q[3]) \notin {q[1][1], q[2][1], q[3][1]}
               /\ q[2][1] = Across(q[1]) /\ q[3][1] = Across(q[2])
               /\ Across(q[3]) \in Ends(SettledLinks)
    <3>1. \A i \in {1, 2, 3} : /\ \A j \in 1 .. i : q[j][1] # Across(q[i])
                               /\ i > 1 => q[i][1] = Across(q[i - 1])
      <4>1. \A i \in 1 .. 3 : /\ \A j \in 1 .. i : q[j][1] # Across(q[i])
                              /\ i > 1 => q[i][1] = Across(q[i - 1])
        <5>1. \A i \in 1 .. Len(q) :
           /\ q[i][1] \in Tris /\ q[i][2] \in Dir /\ q[i] = <<q[i][1], q[i][2]>>
           /\ neighbours[q[i][1]][q[i][2]] = Across(q[i])
           /\ Across(q[i]) # Null /\ Across(q[i]) \in InUse /\ Across(q[i]) # q[i][1]
           /\ \A j \in 1 .. i : q[j][1] # Across(q[i])
           /\ q[i][2] \in SettledLinks(q[i][1]) <=> i % 2 = 0
           /\ i > 1 => q[i][1] = Across(q[i - 1])
          BY ClosingFacts
        <5> QED BY <2>2, <5>1
      <4> QED BY <2>1, <4>1
    <3>2. Across(q[3]) \in Ends(SettledLinks)
      BY <2>2, ClosingFacts
    <3>3. 2 - 1 = 1 /\ 3 - 1 = 2 /\ 2 > 1 /\ 3 > 1
      OBVIOUS
    <3> QED BY <2>1, <3>1, <3>2, <3>3
  <2> QED BY <2>1, <2>2
<1>4. /\ Visits(given) = {given[1][1], given[2][1], given[3][1], Across(given[3])}
      /\ Leaves(given, 2) = {given[1][1], given[2][1]}
  BY <1>3 DEF Visits, Leaves
<1>5. given[3][1] \notin C /\ Across(given[3]) \notin C /\ given[3][1] = path[3][1]
  BY <1>1, <1>2, <1>3, <1>4
<1>6. /\ InUse \subseteq Tris /\ C # {} /\ C \subseteq InUse
      /\ \A t \in C : ~AtMostOne({d \in LinksAfter(Settled, given)[t] : neighbours[t][d] \in C})
  BY <1>1, InvFacts DEF CirclesAfter, Circles
<1> DEFINE flips(q) == {q[i] : i \in DOMAIN q} \cup
                       {<<Across(q[i]), indices[q[i][1]][q[i][2]]>> : i \in DOMAIN q}
           flipped(q, t) == {d \in Dir : <<t, d>> \in flips(q)}
           back(q, i) == <<Across(q[i]), indices[q[i][1]][q[i][2]]>>
<1>7. \A q, t : t \in Tris => LinksAfter(Settled, q)[t] =
                               (Settled[t] \ flipped(q, t)) \cup (flipped(q, t) \ Settled[t])
  BY DEF LinksAfter
<1>8. ASSUME NEW q \in {path, given}, NEW t, NEW d
      PROVE  <<t, d>> \in flips(q) <=> \E i \in {1, 2, 3} : <<t, d>> = q[i] \/ <<t, d>> = back(q, i)
  <2>1. DOMAIN q = {1, 2, 3}
    BY <1>2, <1>3
  <2> QED BY <2>1
<1>9. \A q \in {path, given} : \A i \in {1, 2, 3} : q[i] = <<q[i][1], q[i][2]>>
  <2>1. ASSUME NEW q \in Closing, Len(q) = 3
        PROVE  \A i \in 1 .. 3 : q[i] = <<q[i][1], q[i][2]>>
    BY <2>1, ClosingFacts
  <2> QED BY <1>3, <2>1
<1> HIDE DEF flips
<1>10. Across(path[3]) \notin C
  <2>1. SUFFICES ASSUME Across(path[3]) \in C PROVE FALSE
    OBVIOUS
  <2>2. PICK w : w = Across(path[3])
    OBVIOUS
  <2>3. /\ w \notin {given[1][1], given[2][1], given[3][1], Across(given[3])}
        /\ w \in Ends(SettledLinks)
    BY <1>2, <1>3, <1>5, <2>1, <2>2
  <2>4. \A d : <<w, d>> \notin flips(given)
    BY <1>3, <1>8, <1>9, <2>3
  <2>5. w \in Tris /\ LinksAfter(Settled, given)[w] = Settled[w] /\ Settled[w] = SettledLinks(w)
    <3>1. w \in C /\ w \in Tris
      BY <1>6, <2>1, <2>2
    <3>2. flipped(given, w) = {}
      BY <2>4
    <3>3. LinksAfter(Settled, given)[w] = Settled[w]
      <4> HIDE DEF flipped
      <4>1. LinksAfter(Settled, given)[w] =
              (Settled[w] \ flipped(given, w)) \cup (flipped(given, w) \ Settled[w])
        BY <1>7, <3>1, Zenon
      <4>2. \A A, B : B = {} => (A \ B) \cup (B \ A) = A
        OBVIOUS
      <4> QED BY <3>2, <4>1, <4>2, Zenon
    <3>4. Settled[w] = SettledLinks(w)
      BY <3>1, InvFacts
    <3> QED BY <3>1, <3>3, <3>4
  <2>6. AtMostOne(SettledLinks(w))
    BY <2>3 DEF Ends
  <2> QED BY <1>6, <2>1, <2>2, <2>5, <2>6 DEF AtMostOne
<1>11. ASSUME NEW t \in C PROVE LinksAfter(Settled, path)[t] = LinksAfter(Settled, given)[t]
  <2>1. t \notin {given[3][1], path[3][1], Across(given[3]), Across(path[3])} /\ t \in Tris
    BY <1>5, <1>6, <1>10
  <2>2. ASSUME NEW q \in {path, given}, NEW d
        PROVE  <<t, d>> \in flips(q) <=>
                 \E i \in {1, 2} : <<t, d>> = q[i] \/ <<t, d>> = back(q, i)
    BY <1>8, <1>9, <2>1
  <2>3. \A d : <<t, d>> \in flips(path) <=> <<t, d>> \in flips(given)
    BY <1>2, <2>2
  <2>4. flipped(path, t) = flipped(given, t)
    BY <2>3
  <2> HIDE DEF flipped
  <2>5. \A q : LinksAfter(Settled, q)[t] = (Settled[t] \ flipped(q, t)) \cup (flipped(q, t) \ Settled[t])
    BY <1>7, <2>1
  <2> QED BY <2>4, <2>5
<1>12. C \in CirclesAfter(Settled, path)
  BY <1>6, <1>11 DEF CirclesAfter, Circles
<1> QED BY <1>12

(* Short tunnels are all found: with four triangles at most no path is     *)
(* long enough to come back to the circle of an undone tunnel.             *)
THEOREM ShortTunnelsAreFound ==
  ASSUME CancelsCleanly
  PROVE  Spec => [](config.maxCount <= 4 => NoTunnelLeft)
<1>1. ASSUME TriedInv, config.maxCount <= 4 PROVE NoTunnelLeft
  <2> SUFFICES ASSUME pc = "Done", Unlimited, NEW a \in endpoint,
                      NEW path \in ClosingFrom(LinksNow, a, config.maxCount - 1),
                      CirclesAfter(LinksNow, path) = {}
               PROVE  FALSE
    BY DEF NoTunnelLeft, Unlimited
  <2>1. IInv
    BY <1>1 DEF TriedInv, CoverInv
  <2>2. TunnelsTried
    BY <1>1, TriedInvTried
  <2>3. PICK given \in ClosingFrom(LinksNow, a, config.maxCount - 1), n \in 2 .. Len(path) :
                /\ n % 2 = 0 /\ n < Len(given)
                /\ \A i \in 1 .. n : given[i] = path[i]
                /\ GivesUpAfter(LinksNow, given, n)
    BY <2>2 DEF TunnelsTried, Unlimited
  <2>4. \A q \in ClosingFrom(LinksNow, a, config.maxCount - 1) : q \in Closing
    BY <2>1, ClosingNow
  <2>5. Settled = LinksNow
    BY SettledIsCurrent DEF Settled, LinksNow, Cementing
  <2>6. /\ path \in Closing /\ given \in Closing
        /\ \A q \in Closing : Len(q) \in Nat /\ Len(q) % 2 = 1 /\ Len(q) < 4
    <3>1. config.maxCount \in Nat
      BY <2>1, InvFacts
    <3>2. \A q \in Closing : Len(q) \in Nat /\ Len(q) % 2 = 1 /\ Len(q) < config.maxCount
      BY <2>1, ClosingFacts
    <3> QED BY <1>1, <2>3, <2>4, <3>1, <3>2
  <2>7. n = 2 /\ Len(path) = 3 /\ Len(given) = 3
    <3>1. Len(path) \in Nat /\ Len(path) % 2 = 1 /\ Len(path) < 4
      BY <2>6
    <3>2. Len(given) \in Nat /\ Len(given) % 2 = 1 /\ Len(given) < 4
      BY <2>6
    <3>3. Len(path) \in {1, 3} /\ Len(given) \in {1, 3}
      <4>1. \A k \in Nat : k < 4 => k \in {0, 1, 2, 3}
        OBVIOUS
      <4>2. 0 % 2 # 1 /\ 2 % 2 # 1
        OBVIOUS
      <4> QED BY <3>1, <3>2, <4>1, <4>2
    <3>4. n \in {2, 3} /\ n % 2 = 0 /\ Len(path) # 1
      BY <2>3, <3>3
    <3> QED BY <2>3, <3>3, <3>4
  <2>8. CirclesAfter(Settled, path) # {}
    BY <2>1, <2>3, <2>5, <2>6, <2>7, ShortGivenUp
  <2> QED BY <2>5, <2>8
<1>2. TriedInv => (config.maxCount <= 4 => NoTunnelLeft)
  BY <1>1
<1> QED
  BY <1>2, TriedInvHolds, PTL

===============================================================================
