------------------------------ MODULE VecProofs ------------------------------
(***************************************************************************)
(* For any number of vectors, of any length: the capacity of a vector is   *)
(* the size of its block, every block has one owner, and a vector          *)
(* implements a sequence (Arrays), whatever its blocks do.                 *)
(***************************************************************************)
EXTENDS VecProps, TLAPS

Data(v) == vec[v].data
Holders == {v \in Live : Data(v) # Null}

\* A block that is cut or lengthened (rm_realloc) holds elements only.
LEMMA ResizedIsSequence ==
  ASSUME TypeOK, NEW data \in Blocks \cup {Null}, data # Null => data \in DOMAIN heap,
         NEW n \in Nat
  PROVE  Resized(data, n) \in Seq(Elements) /\ Len(Resized(data, n)) = n
<1>1. ElementsOf(data) \in Seq(Elements)
  BY DEF TypeOK, ElementsOf
<1>2. \A i \in DOMAIN ElementsOf(data) : heap[data][i] \in Elements
  BY <1>1 DEF ElementsOf
<1>3. \A i \in 1 .. n : (IF i \in DOMAIN ElementsOf(data) THEN heap[data][i] ELSE Garbage) \in Elements
  BY <1>2, GarbageAssumption
<1>. QED BY <1>3 DEF Resized

\* Writing elements into a block keeps its length.
LEMMA WrittenIsSequence ==
  ASSUME NEW s \in Seq(Elements), NEW new \in Seq(Elements), NEW count \in Nat
  PROVE  Written(s, count, new) \in Seq(Elements) /\ Len(Written(s, count, new)) = Len(s)
<1>1. \A i \in DOMAIN s : (IF i \in count + 1 .. count + Len(new) THEN new[i - count] ELSE s[i]) \in Elements
  OBVIOUS
<1>. QED BY <1>1 DEF Written

\* What a vector has between two calls.
LEMMA VectorFacts ==
  ASSUME IInv, NEW v \in Vectors, vec[v].isLive
  PROVE  /\ Data(v) \in Blocks \cup {Null}
         /\ Data(v) # Null => Data(v) \in DOMAIN heap /\ Data(v) \notin DOMAIN given
         /\ \A w \in Vectors : vec[w].isLive /\ w # v /\ Data(w) # Null => Data(w) # Data(v)
         /\ vec[v].count \in Nat /\ vec[v].capacity \in Nat
         /\ IsIdle => /\ vec[v].count <= vec[v].capacity
                      /\ vec[v].capacity = Len(ElementsOf(Data(v)))
                      /\ Data(v) = Null => vec[v].capacity = 0
<1>1. vec[v] \in [isLive : BOOLEAN, data : Blocks \cup {Null}, count : Nat, capacity : Nat]
  BY DEF IInv, TypeOK
<1>2. Data(v) # Null => Data(v) \in DOMAIN heap /\ Data(v) \notin DOMAIN given
  BY DEF IInv, BlocksOwned, Live, Data
<1>3. \A w \in Vectors : vec[w].isLive /\ w # v /\ Data(w) # Null => Data(w) # Data(v)
  BY DEF IInv, BlocksOwned, Live, Data
<1>4. ASSUME IsIdle
      PROVE  /\ vec[v].count <= vec[v].capacity
             /\ vec[v].capacity = Len(ElementsOf(Data(v)))
             /\ Data(v) = Null => vec[v].capacity = 0
  <2>1. ~IsPushing(v)
    BY <1>4, NullAssumption DEF IsIdle, IsPushing
  <2>. QED BY <1>1, <2>1 DEF IInv, CapacityTrue, Live, Count, Capacity, Data
<1>. QED BY <1>1, <1>2, <1>3, <1>4 DEF Data

\* A vector whose elements are in another block, or in the same one resized.
LEMMA MovedKeeps ==
  ASSUME IInv, NEW v \in Vectors, vec[v].isLive, IsIdle \/ pushing.vector = v,
         NEW block \in Places(vec[v].data), NEW s \in Seq(Elements),
         NEW count \in Nat, count <= Len(s), Moved(v, block, s, count),
         given' = given, pushing' = NoPush,
         \/ Drops(v) \/ \E i \in DOMAIN s : held' = [block |-> block, index |-> i]
  PROVE  IInv'
<1>1. /\ heap' = With(Without(heap, Data(v)), block, s)
      /\ vec' = [vec EXCEPT ![v].data = block, ![v].count = count, ![v].capacity = Len(s)]
      /\ block \in Blocks /\ (block \notin DOMAIN heap \/ block = Data(v))
      /\ given' = given /\ pushing' = NoPush
  BY DEF Moved, HeapWith, Places, Unused, Data, IInv, TypeOK
<1>2. /\ vec' \in [Vectors -> [isLive : BOOLEAN, data : Blocks \cup {Null},
                               count : Nat, capacity : Nat]]
      /\ vec'[v].isLive /\ vec'[v].data = block /\ vec'[v].count = count
      /\ vec'[v].capacity = Len(s)
      /\ \A w \in Vectors : w # v => vec'[w] = vec[w]
  <2>. DEFINE Record == [isLive : BOOLEAN, data : Blocks \cup {Null}, count : Nat, capacity : Nat]
              old == vec[v]
              new == [old EXCEPT !.data = block, !.count = count, !.capacity = Len(s)]
  <2>1. vec \in [Vectors -> Record]
    BY DEF IInv, TypeOK
  <2>2. vec' = [vec EXCEPT ![v] = new]
    BY <1>1
  <2>3. old \in Record
    BY <2>1
  <2>. HIDE DEF old
  <2>4. /\ new \in Record /\ new.isLive = old.isLive /\ new.data = block
        /\ new.count = count /\ new.capacity = Len(s)
    <3>1. Len(s) \in Nat
      OBVIOUS
    <3>2. /\ new.isLive = old.isLive /\ new.data = block
          /\ new.count = count /\ new.capacity = Len(s)
      BY <2>3
    <3>3. new \in Record
      BY <2>3, <1>1, <3>1
    <3>. QED BY <3>2, <3>3
  <2>. HIDE DEF new, Record
  <2>5. vec' \in [Vectors -> Record] /\ vec'[v] = new
        /\ \A w \in Vectors : w # v => vec'[w] = vec[w]
    BY <2>1, <2>2, <2>4
  <2>. QED BY <2>4, <2>5 DEF Record, old
<1>3. /\ DOMAIN heap' = (DOMAIN heap \ {Data(v)}) \cup {block}
      /\ heap'[block] = s
      /\ \A b \in DOMAIN heap \ {Data(v)} : b # block => heap'[b] = heap[b]
      /\ heap' \in [DOMAIN heap' -> Seq(Elements)] /\ DOMAIN heap' \subseteq Blocks
  <2>1. heap \in [DOMAIN heap -> Seq(Elements)] /\ DOMAIN heap \subseteq Blocks
    BY DEF IInv, TypeOK
  <2>2. heap' = [y \in (DOMAIN heap \ {Data(v)}) \cup {block} |->
                   IF y = block THEN s ELSE heap[y]]
    BY <1>1 DEF With, Without
  <2>. QED BY <1>1, <2>1, <2>2
<1>4. /\ Live' = Live /\ v \in Live /\ \A w \in Live : Data(w)' = IF w = v THEN block ELSE Data(w)
  BY <1>2 DEF Live, Data
<1>5. /\ Data(v) # Null => Data(v) \in DOMAIN heap /\ Data(v) \notin DOMAIN given
      /\ \A w \in Live : w # v /\ Data(w) # Null => Data(w) # Data(v) /\ Data(w) \in DOMAIN heap
      /\ DOMAIN given \subseteq DOMAIN heap /\ block \notin DOMAIN given
      /\ Data(v) \in Blocks \cup {Null} /\ block # Null /\ Data(v) \notin DOMAIN given
  BY <1>1, VectorFacts, NullAssumption DEF Live, IInv, TypeOK
<1>6. GivenFits' /\ DOMAIN given' \subseteq DOMAIN heap'
  <2>1. \A b \in DOMAIN given : /\ b \in DOMAIN heap \ {Data(v)} /\ b # block
                               /\ heap'[b] = heap[b]
    BY <1>3, <1>5
  <2>2. DOMAIN given' \subseteq DOMAIN heap'
    BY <2>1, <1>1, <1>3
  <2>3. GivenFits'
    BY <2>1, <1>1 DEF IInv, GivenFits
  <2>. QED BY <2>2, <2>3
<1>7. held' \in [block : Blocks \cup {Null}, index : Nat] /\ PointerLive'
  <2>1. CASE Drops(v)
    <3>1. held' = NoPointer \/ (held' = held /\ held.block # Data(v))
      BY <2>1 DEF Drops, Data
    <3>2. CASE held' = NoPointer
      BY <3>2 DEF PointerLive, NoPointer
    <3>3. CASE held' = held /\ held.block # Data(v) /\ held # NoPointer
      <4>1. PICK w \in Live : /\ Data(w) = held.block /\ held.block \in DOMAIN heap
                              /\ held.index \in DOMAIN heap[held.block]
        BY <3>3 DEF IInv, PointerLive, Data
      <4>2. w # v /\ held.block # block /\ Data(w)' = held.block /\ w \in Live'
        BY <3>3, <4>1, <1>1, <1>4
      <4>3. held.block \in DOMAIN heap' /\ heap'[held.block] = heap[held.block]
        BY <3>3, <4>1, <4>2, <1>3
      <4>. QED BY <3>3, <4>1, <4>2, <4>3 DEF PointerLive, IInv, TypeOK, Data
    <3>. QED BY <3>1, <3>2, <3>3
  <2>2. CASE \E j \in DOMAIN s : held' = [block |-> block, index |-> j]
    BY <2>2, <1>1, <1>2, <1>3, <1>4 DEF PointerLive
  <2>. QED BY <2>1, <2>2
<1>8. TypeOK'
  <2>1. given' \in [DOMAIN given' -> Nat]
    BY <1>1 DEF IInv, TypeOK
  <2>2. pushing' \in [vector : Vectors \cup {Null}, new : Seq(Elements), returnsPointer : BOOLEAN]
    BY <1>1 DEF NoPush
  <2>. QED BY <1>2, <1>3, <1>6, <1>7, <2>1, <2>2 DEF TypeOK
<1>9. PushUnderway'
  BY <1>1 DEF PushUnderway, IsIdle, NoPush
<1>10. BlocksOwned'
  <2>1. {Data(w) : w \in Holders} \cup DOMAIN given = DOMAIN heap
    BY DEF IInv, BlocksOwned, Holders, Data
  <2>2. Holders' = Holders \cup {v}
    BY <1>4, <1>5 DEF Holders
  <2>3. {Data(w)' : w \in Holders'} \cup DOMAIN given' = DOMAIN heap'
    <3>1. {Data(w)' : w \in Holders'} = {Data(w) : w \in Holders \ {v}} \cup {block}
      BY <2>2, <1>4 DEF Holders
    <3>2. {Data(w) : w \in Holders \ {v}} = {Data(w) : w \in Holders} \ {Data(v)}
      BY <1>5 DEF Holders
    <3>. DEFINE S == {Data(w) : w \in Holders}
    <3>. HIDE DEF S
    <3>3. (S \ {Data(v)}) \cup {block} \cup DOMAIN given' = DOMAIN heap'
      BY <2>1, <1>1, <1>3, <1>5 DEF S
    <3>. QED BY <3>1, <3>2, <3>3 DEF S
  <2>4. \A w, x \in Holders' : w # x => Data(w)' # Data(x)'
    BY <2>2, <1>1, <1>4, <1>5, VectorFacts DEF Holders, Live
  <2>5. \A w \in Holders' : Data(w)' \notin DOMAIN given'
    BY <2>2, <1>1, <1>4, <1>5, VectorFacts DEF Holders, Live
  <2>. QED BY <2>3, <2>4, <2>5 DEF BlocksOwned, Holders, Data
<1>11. CapacityTrue'
  <2>. SUFFICES ASSUME NEW w \in Live
                PROVE  /\ Count(w)' <= Capacity(w)'
                       /\ vec'[w].capacity = Capacity(w)'
                       /\ vec'[w].data = Null => Capacity(w)' = 0
    BY <1>4 DEF CapacityTrue
  <2>1. Count(w)' = vec'[w].count
    BY <1>1, <1>2, NullAssumption DEF Count, IsPushing, NoPush, Live
  <2>2. Capacity(w)' = Len(IF vec'[w].data = Null THEN <<>> ELSE heap'[vec'[w].data])
    BY DEF Capacity, ElementsOf
  <2>3. CASE w = v
    <3>1. vec'[w].data = block /\ vec'[w].count = count /\ vec'[w].capacity = Len(s)
          /\ heap'[block] = s /\ block # Null
      BY <2>3, <1>2, <1>3, <1>5
    <3>2. Capacity(w)' = Len(s)
      BY <2>2, <3>1
    <3>. QED BY <2>1, <3>1, <3>2
  <2>4. CASE w # v
    <3>1. /\ vec'[w] = vec[w] /\ Data(w) = vec[w].data
          /\ Data(w) # Null => heap'[Data(w)] = heap[Data(w)]
      BY <2>4, <1>1, <1>2, <1>3, <1>5, VectorFacts DEF Live, Data
    <3>2. Capacity(w)' = Capacity(w)
      BY <2>2, <3>1 DEF Capacity, ElementsOf
    <3>3. ~IsPushing(w)
      BY <2>4, NullAssumption DEF IsPushing, IsIdle, Live
    <3>4. Count(w) <= Capacity(w) /\ vec[w].capacity = Capacity(w)
          /\ (vec[w].data = Null => Capacity(w) = 0) /\ Count(w) = vec[w].count - 0
      BY <3>3 DEF IInv, CapacityTrue, Count
    <3>5. Count(w)' = Count(w)
      BY <2>1, <3>1, <3>4, <1>2 DEF Live
    <3>. QED BY <3>1, <3>2, <3>4, <3>5
  <2>. QED BY <2>3, <2>4
<1>. QED BY <1>6, <1>7, <1>8, <1>9, <1>10, <1>11 DEF IInv

\* No block changes its owner, and none its length.
LEMMA InPlaceKeeps ==
  ASSUME IInv,
         vec' \in [Vectors -> [isLive : BOOLEAN, data : Blocks \cup {Null},
                               count : Nat, capacity : Nat]],
         pushing' \in [vector : Vectors \cup {Null}, new : Seq(Elements),
                       returnsPointer : BOOLEAN],
         heap' \in [DOMAIN heap -> Seq(Elements)], given' = given,
         \A b \in DOMAIN heap : Len(heap'[b]) = Len(heap[b]),
         \A v \in Vectors : vec'[v].isLive = vec[v].isLive /\ vec'[v].data = vec[v].data,
         \A v \in Live : /\ Count(v)' <= Capacity(v)
                         /\ ~IsPushing(v)' => vec'[v].capacity = Capacity(v),
         PushUnderway',
         \/ held' = held \/ held' = NoPointer
         \/ \E v \in Holders : \E i \in DOMAIN heap[Data(v)] :
              held' = [block |-> Data(v), index |-> i]
  PROVE  IInv'
<1>1. /\ TypeOK /\ CapacityTrue /\ BlocksOwned /\ PointerLive /\ GivenFits
      /\ DOMAIN heap' = DOMAIN heap
  BY DEF IInv
<1>2. /\ Live' = Live /\ Holders' = Holders
      /\ \A v \in Vectors : Data(v)' = Data(v)
  BY DEF Live, Holders, Data
<1>3. BlocksOwned'
  <2>1. /\ {Data(v) : v \in Holders} \cup DOMAIN given = DOMAIN heap
        /\ \A v, w \in Holders : v # w => Data(v) # Data(w)
        /\ \A v \in Holders : Data(v) \notin DOMAIN given
    BY <1>1 DEF BlocksOwned, Holders, Data
  <2>2. {Data(v)' : v \in Holders'} = {Data(v) : v \in Holders}
    BY <1>2 DEF Holders, Live
  <2>3. {Data(v)' : v \in Holders'} \cup DOMAIN given' = DOMAIN heap'
    BY <2>1, <2>2, <1>1
  <2>4. \A v, w \in Holders' : v # w => Data(v)' # Data(w)'
    BY <2>1, <1>2 DEF Holders, Live
  <2>5. \A v \in Holders' : Data(v)' \notin DOMAIN given'
    BY <2>1, <1>2 DEF Holders, Live
  <2>. QED BY <2>3, <2>4, <2>5 DEF BlocksOwned, Holders, Data
<1>4. \A v \in Live : Capacity(v)' = Capacity(v)
  <2>. SUFFICES ASSUME NEW v \in Live PROVE Capacity(v)' = Capacity(v)
    OBVIOUS
  <2>1. Data(v) # Null => Data(v) \in DOMAIN heap
    BY <1>1 DEF BlocksOwned, Data
  <2>2. Data(v) # Null => Len(heap'[Data(v)]) = Len(heap[Data(v)])
    BY <2>1
  <2>. QED BY <2>2, <1>2 DEF Capacity, ElementsOf, Live, Data
<1>5. CapacityTrue'
  <2>1. \A v \in Live : /\ Count(v)' <= Capacity(v)'
                        /\ ~IsPushing(v)' => vec'[v].capacity = Capacity(v)'
                        /\ vec'[v].data = Null => Capacity(v)' = 0
    BY <1>1, <1>4 DEF CapacityTrue, Live
  <2>. QED BY <2>1, <1>2 DEF CapacityTrue
<1>6. /\ held' \in [block : Blocks \cup {Null}, index : Nat]
      /\ PointerLive'
  <2>1. CASE held' = held
    <3>1. \A b \in DOMAIN heap : DOMAIN heap'[b] = DOMAIN heap[b]
      BY <1>1 DEF TypeOK
    <3>. QED BY <2>1, <3>1, <1>1, <1>2 DEF TypeOK, PointerLive, Live, Data
  <2>2. CASE held' = NoPointer
    BY <2>2 DEF NoPointer, PointerLive
  <2>3. CASE \E v \in Holders : \E i \in DOMAIN heap[Data(v)] :
               held' = [block |-> Data(v), index |-> i]
    <3>1. PICK v \in Holders : \E i \in DOMAIN heap[Data(v)] :
                   held' = [block |-> Data(v), index |-> i]
      BY <2>3
    <3>0. PICK i \in DOMAIN heap[Data(v)] : held' = [block |-> Data(v), index |-> i]
      BY <3>1
    <3>2. Data(v) \in DOMAIN heap /\ Data(v) \in Blocks /\ heap[Data(v)] \in Seq(Elements)
          /\ heap'[Data(v)] \in Seq(Elements) /\ v \in Live
      BY <1>1 DEF BlocksOwned, TypeOK, Holders, Data
    <3>3. i \in DOMAIN heap'[Data(v)] /\ i \in Nat
      BY <3>2
    <3>4. held'.block = Data(v) /\ held'.index = i
      BY <3>0
    <3>a. v \in Live' /\ vec'[v].data = Data(v)
      BY <3>2, <1>2 DEF Data, Live
    <3>b. held'.block \in DOMAIN heap' /\ held'.index \in DOMAIN heap'[held'.block]
      BY <3>2, <3>3, <3>4, <1>1
    <3>5. PointerLive'
      BY <3>a, <3>b, <3>4 DEF PointerLive
    <3>. QED BY <3>0, <3>2, <3>3, <3>5
  <2>. QED BY <2>1, <2>2, <2>3
<1>7. GivenFits' /\ DOMAIN given' \subseteq DOMAIN heap' /\ given' \in [DOMAIN given' -> Nat]
  BY <1>1 DEF GivenFits, TypeOK
<1>8. TypeOK'
  BY <1>1, <1>6, <1>7 DEF TypeOK
<1>. QED BY <1>3, <1>5, <1>6, <1>7, <1>8 DEF IInv

\* Between two calls, the record of a vector says all there is to say of its
\* capacity.
LEMMA IdleKeeps ==
  ASSUME IInv, IsIdle, pushing' = pushing, TypeOK', BlocksOwned', PointerLive', GivenFits',
         \A v \in Live' : /\ vec'[v].count <= vec'[v].capacity
                          /\ vec'[v].capacity = Capacity(v)'
                          /\ vec'[v].data = Null => vec'[v].capacity = 0
  PROVE  IInv'
<1>1. pushing' = NoPush /\ PushUnderway'
  BY DEF IInv, PushUnderway, IsIdle
<1>2. \A v \in Live' : ~IsPushing(v)' /\ Count(v)' = vec'[v].count - 0
  BY <1>1, NullAssumption DEF IsPushing, NoPush, Count, Live
<1>3. \A v \in Live' : vec'[v].count \in Nat
  BY DEF TypeOK, Live
<1>4. CapacityTrue'
  BY <1>2, <1>3 DEF CapacityTrue
<1>. QED BY <1>1, <1>4 DEF IInv

\* Only v changes: what is said of the other vectors still holds.
LEMMA OthersKeep ==
  ASSUME IInv, IsIdle, NEW v \in Vectors,
         \A w \in Vectors : w # v => vec'[w] = vec[w],
         \A b \in DOMAIN heap : b # Data(v) \/ ~vec[v].isLive
                                  => \/ /\ b \in DOMAIN heap'
                                        /\ heap'[b] = heap[b]
                                     \/ b \in DOMAIN given
  PROVE  \A w \in Live' : w # v =>
           /\ w \in Live /\ vec'[w].count <= vec'[w].capacity
           /\ vec'[w].capacity = Capacity(w)'
           /\ vec'[w].data = Null => vec'[w].capacity = 0
<1>. SUFFICES ASSUME NEW w \in Live', w # v
              PROVE  /\ w \in Live /\ vec'[w].count <= vec'[w].capacity
                     /\ vec'[w].capacity = Capacity(w)'
                     /\ vec'[w].data = Null => vec'[w].capacity = 0
  OBVIOUS
<1>1. vec'[w] = vec[w] /\ w \in Vectors /\ vec[w].isLive
  BY DEF Live
<1>2. /\ vec[w].count <= vec[w].capacity
      /\ vec[w].capacity = Len(ElementsOf(Data(w)))
      /\ Data(w) = Null => vec[w].capacity = 0
      /\ Data(w) # Null => /\ Data(w) \in DOMAIN heap /\ Data(w) \notin DOMAIN given
                           /\ (vec[v].isLive => Data(w) # Data(v))
  BY <1>1, VectorFacts
<1>3. Data(w) # Null => heap'[Data(w)] = heap[Data(w)]
  BY <1>2
<1>. QED BY <1>1, <1>2, <1>3 DEF Live, Capacity, ElementsOf, Data

-----------------------------------------------------------------------------
\* The operations of one block.

\* Assigning the record of one vector keeps the types of all.
LEMMA LiveIsKept ==
  ASSUME IInv, NEW v \in Vectors, NEW new, new \in [isLive : BOOLEAN,
           data : Blocks \cup {Null}, count : Nat, capacity : Nat],
         vec' = [vec EXCEPT ![v] = new]
  PROVE  /\ vec' \in [Vectors -> [isLive : BOOLEAN, data : Blocks \cup {Null},
                                  count : Nat, capacity : Nat]]
         /\ vec'[v] = new
         /\ \A w \in Vectors : w # v => vec'[w] = vec[w]
BY DEF IInv, TypeOK

\* What a vector is, and what it becomes when it is released.
LEMMA ReleasedVector ==
  ASSUME IInv, NEW v \in Vectors, vec' = Released(v)
  PROVE  /\ vec' \in [Vectors -> [isLive : BOOLEAN, data : Blocks \cup {Null},
                                  count : Nat, capacity : Nat]]
         /\ ~vec'[v].isLive
         /\ \A w \in Vectors : w # v => vec'[w] = vec[w]
         /\ Live' = Live \ {v}
<1>. DEFINE old == vec[v]
            new == [old EXCEPT !.isLive = FALSE, !.count = 0, !.capacity = 0]
<1>1. vec' = [vec EXCEPT ![v] = new]
  BY DEF Released
<1>2. old \in [isLive : BOOLEAN, data : Blocks \cup {Null}, count : Nat, capacity : Nat]
  BY DEF IInv, TypeOK
<1>. HIDE DEF old
<1>3. new \in [isLive : BOOLEAN, data : Blocks \cup {Null}, count : Nat, capacity : Nat]
  BY <1>2
<1>4. ~new.isLive
  BY <1>2
<1>. HIDE DEF new
<1>. QED BY <1>1, <1>3, <1>4, LiveIsKept DEF Live

\* The pointer of the client, when v has lost its block and the others have
\* theirs.
LEMMA PointerDropped ==
  ASSUME IInv, NEW v \in Vectors, Drops(v),
         \A w \in Live : w # v => w \in Live' /\ Data(w)' = Data(w),
         \A w \in Live : Data(w) # Null /\ Data(w) # Data(v)
                           => Data(w) \in DOMAIN heap' /\ heap'[Data(w)] = heap[Data(w)]
  PROVE  PointerLive' /\ held' \in [block : Blocks \cup {Null}, index : Nat]
<1>1. held' = NoPointer \/ (held' = held /\ held.block # Data(v))
  BY DEF Drops, Data
<1>2. CASE held' = NoPointer
  BY <1>2 DEF PointerLive, NoPointer
<1>3. CASE held' = held /\ held.block # Data(v) /\ held # NoPointer
  <2>1. PICK w \in Live : /\ Data(w) = held.block /\ held.block \in DOMAIN heap
                          /\ held.index \in DOMAIN heap[held.block]
    BY <1>3 DEF IInv, PointerLive, Data
  <2>2. w \in Live' /\ Data(w)' = held.block /\ held.block # Null
        /\ held.block \in DOMAIN heap' /\ heap'[held.block] = heap[held.block]
    BY <1>3, <2>1, NullAssumption DEF IInv, TypeOK
  <2>. QED BY <1>3, <2>1, <2>2 DEF PointerLive, IInv, TypeOK, Data
<1>. QED BY <1>1, <1>2, <1>3

\* The other vectors and their blocks.
LEMMA Others ==
  ASSUME IInv, NEW v \in Vectors, vec[v].isLive
  PROVE  /\ {Data(w) : w \in Holders \ {v}} = {Data(w) : w \in Holders} \ {Data(v)}
         /\ {Data(w) : w \in Holders} \cup DOMAIN given = DOMAIN heap
         /\ Data(v) \notin DOMAIN given
         /\ DOMAIN given \subseteq DOMAIN heap
<1>1. /\ {Data(w) : w \in Holders} \cup DOMAIN given = DOMAIN heap
      /\ \A w \in Holders : w # v => Data(w) # Data(v)
  BY VectorFacts DEF IInv, BlocksOwned, Holders, Data, Live
<1>2. {Data(w) : w \in Holders \ {v}} = {Data(w) : w \in Holders} \ {Data(v)}
  BY <1>1, VectorFacts DEF Holders, Live
<1>3. Data(v) \notin DOMAIN given /\ DOMAIN given \subseteq DOMAIN heap
  BY VectorFacts, NullAssumption DEF IInv, TypeOK
<1>. QED BY <1>1, <1>2, <1>3

\* v has no block any more: it was freed, or given to the client.
LEMMA LostKeeps ==
  ASSUME IInv, IsIdle, NEW v \in Vectors, vec[v].isLive, pushing' = pushing, Drops(v),
         vec' \in [Vectors -> [isLive : BOOLEAN, data : Blocks \cup {Null},
                               count : Nat, capacity : Nat]],
         \A w \in Vectors : w # v => vec'[w] = vec[w],
         vec'[v].isLive => /\ vec'[v].data = Null /\ vec'[v].count = 0
                           /\ vec'[v].capacity = 0,
         \/ heap' = Without(heap, Data(v)) /\ given' = given
         \/ /\ heap' = heap
            /\ given' = IF Data(v) = Null THEN given ELSE With(given, Data(v), vec[v].count)
  PROVE  IInv'
<1>1. /\ {Data(w) : w \in Holders \ {v}} = {Data(w) : w \in Holders} \ {Data(v)}
      /\ {Data(w) : w \in Holders} \cup DOMAIN given = DOMAIN heap
      /\ Data(v) \notin DOMAIN given /\ DOMAIN given \subseteq DOMAIN heap
  BY Others
<1>2. /\ heap \in [DOMAIN heap -> Seq(Elements)] /\ DOMAIN heap \subseteq Blocks
      /\ given \in [DOMAIN given -> Nat] /\ Null \notin Blocks /\ GivenFits
      /\ \A b \in DOMAIN given : given[b] <= Len(heap[b])
  BY NullAssumption DEF IInv, TypeOK, GivenFits
<1>3. /\ Data(v) # Null => Data(v) \in DOMAIN heap
      /\ Data(v) # Null => vec[v].count \in Nat /\ vec[v].count <= Len(heap[Data(v)])
      /\ \A w \in Live : w # v /\ Data(w) # Null =>
           Data(w) # Data(v) /\ Data(w) \in DOMAIN heap /\ Data(w) \notin DOMAIN given
  BY VectorFacts DEF Live, ElementsOf
<1>4. /\ heap' \in [DOMAIN heap' -> Seq(Elements)]
      /\ \A b \in DOMAIN heap' : b \in DOMAIN heap /\ heap'[b] = heap[b]
      /\ \A b \in DOMAIN heap : b # Data(v) => b \in DOMAIN heap' /\ heap'[b] = heap[b]
  BY <1>2 DEF Without
<1>5. /\ given' \in [DOMAIN given' -> Nat] /\ DOMAIN given' \subseteq DOMAIN heap'
      /\ GivenFits'
      /\ (DOMAIN heap \ {Data(v)}) \cup DOMAIN given' = DOMAIN heap'
      /\ \A b \in DOMAIN given' : b \in DOMAIN given \/ b = Data(v)
      /\ DOMAIN given \subseteq DOMAIN given'
  <2>1. CASE heap' = Without(heap, Data(v)) /\ given' = given
    <3>1. DOMAIN heap' = DOMAIN heap \ {Data(v)}
      BY <2>1 DEF Without
    <3>2. GivenFits'
      BY <2>1, <3>1, <1>1, <1>2, <1>4 DEF GivenFits
    <3>. QED BY <2>1, <3>1, <3>2, <1>1, <1>2
  <2>2. CASE heap' = heap /\ Data(v) = Null /\ given' = given
    <3>1. DOMAIN heap \ {Data(v)} = DOMAIN heap
      BY <2>2, <1>2
    <3>2. GivenFits'
      BY <2>2, <1>2 DEF GivenFits
    <3>3. (DOMAIN heap \ {Data(v)}) \cup DOMAIN given' = DOMAIN heap'
      BY <2>2, <3>1, <1>1
    <3>4. given' \in [DOMAIN given' -> Nat] /\ DOMAIN given' \subseteq DOMAIN heap'
      BY <2>2, <1>1, <1>2
    <3>5. DOMAIN given \subseteq DOMAIN given' /\ \A b \in DOMAIN given' : b \in DOMAIN given
      BY <2>2
    <3>. QED BY <3>2, <3>3, <3>4, <3>5
  <2>3. CASE heap' = heap /\ Data(v) # Null /\ given' = With(given, Data(v), vec[v].count)
    <3>1. /\ DOMAIN given' = DOMAIN given \cup {Data(v)}
          /\ \A b \in DOMAIN given' : given'[b] = IF b = Data(v) THEN vec[v].count ELSE given[b]
      BY <2>3 DEF With
    <3>2. GivenFits'
      BY <2>3, <3>1, <1>2, <1>3 DEF GivenFits
    <3>3. given' \in [DOMAIN given' -> Nat]
      BY <2>3, <3>1, <1>2, <1>3 DEF With
    <3>4. Data(v) \in DOMAIN heap
      BY <2>3, <1>3
    <3>5. DOMAIN given' \subseteq DOMAIN heap'
      BY <2>3, <3>1, <3>4, <1>1
    <3>6. (DOMAIN heap \ {Data(v)}) \cup DOMAIN given' = DOMAIN heap'
      BY <2>3, <3>1, <3>4, <1>1
    <3>. QED BY <3>1, <3>2, <3>3, <3>5, <3>6
  <2>. QED BY <2>1, <2>2, <2>3
<1>6. /\ \A w \in Live : w # v => w \in Live' /\ Data(w)' = Data(w)
      /\ Holders' = Holders \ {v}
  BY DEF Live, Holders, Data
<1>7. PointerLive' /\ held' \in [block : Blocks \cup {Null}, index : Nat]
  <2>1. \A w \in Live : Data(w) # Null /\ Data(w) # Data(v)
                          => Data(w) \in DOMAIN heap' /\ heap'[Data(w)] = heap[Data(w)]
    BY <1>3, <1>4
  <2>. QED BY <2>1, <1>6, PointerDropped
<1>8. TypeOK'
  BY <1>2, <1>4, <1>5, <1>7 DEF TypeOK, IInv
<1>9. BlocksOwned'
  <2>. DEFINE S == {Data(w) : w \in Holders}
              T == {Data(w) : w \in Holders \ {v}}
  <2>1. {Data(w)' : w \in Holders'} = T
    BY <1>6 DEF Holders
  <2>. HIDE DEF S
  <2>2. T = S \ {Data(v)}
    BY <1>1 DEF S
  <2>. HIDE DEF T
  <2>3. T \cup DOMAIN given' = DOMAIN heap'
    BY <2>2, <1>1, <1>5 DEF S
  <2>4. \A w, x \in Holders' : w # x => Data(w)' # Data(x)'
    BY <1>6 DEF IInv, BlocksOwned, Holders, Data
  <2>5. \A w \in Holders' : Data(w)' \notin DOMAIN given'
    BY <1>3, <1>5, <1>6 DEF Holders
  <2>. QED BY <2>1, <2>3, <2>4, <2>5 DEF BlocksOwned, Holders, Data
<1>10. \A w \in Live' : /\ vec'[w].count <= vec'[w].capacity
                        /\ vec'[w].capacity = Capacity(w)'
                        /\ vec'[w].data = Null => vec'[w].capacity = 0
  <2>. SUFFICES ASSUME NEW w \in Live'
                PROVE  /\ vec'[w].count <= vec'[w].capacity
                       /\ vec'[w].capacity = Capacity(w)'
                       /\ vec'[w].data = Null => vec'[w].capacity = 0
    OBVIOUS
  <2>1. CASE w = v
    <3>1. vec'[v].data = Null /\ vec'[v].count = 0 /\ vec'[v].capacity = 0
      BY <2>1 DEF Live
    <3>. QED BY <2>1, <3>1 DEF Capacity, ElementsOf
  <2>2. CASE w # v
    BY <2>2, <1>4, OthersKeep
  <2>. QED BY <2>1, <2>2
<1>. QED BY <1>5, <1>7, <1>8, <1>9, <1>10, IdleKeeps

\* v has a new block, or none yet.
LEMMA GainedKeeps ==
  ASSUME IInv, IsIdle, NEW v \in Vectors, ~vec[v].isLive, pushing' = pushing, held' = held,
         vec' \in [Vectors -> [isLive : BOOLEAN, data : Blocks \cup {Null},
                               count : Nat, capacity : Nat]],
         \A w \in Vectors : w # v => vec'[w] = vec[w],
         vec'[v].isLive, vec'[v].count <= vec'[v].capacity, given' = given,
         \/ vec'[v].data = Null /\ vec'[v].capacity = 0 /\ heap' = heap
         \/ \E b \in Unused : \E s \in Seq(Elements) :
              /\ vec'[v].data = b /\ vec'[v].capacity = Len(s)
              /\ heap' = With(heap, b, s)
  PROVE  IInv'
<1>1. /\ heap \in [DOMAIN heap -> Seq(Elements)] /\ DOMAIN heap \subseteq Blocks
      /\ DOMAIN given \subseteq DOMAIN heap
      /\ given \in [DOMAIN given -> Nat] /\ Null \notin Blocks
      /\ \A b \in DOMAIN given : given[b] <= Len(heap[b])
  BY NullAssumption DEF IInv, TypeOK, GivenFits
<1>2. /\ heap' \in [DOMAIN heap' -> Seq(Elements)] /\ DOMAIN heap' \subseteq Blocks
      /\ \A b \in DOMAIN heap : b \in DOMAIN heap' /\ heap'[b] = heap[b]
      /\ DOMAIN heap' = DOMAIN heap \cup (IF vec'[v].data = Null THEN {} ELSE {vec'[v].data})
      /\ vec'[v].data \notin DOMAIN heap
      /\ vec'[v].data # Null => vec'[v].capacity = Len(heap'[vec'[v].data])
  <2>1. CASE vec'[v].data = Null /\ vec'[v].capacity = 0 /\ heap' = heap
    BY <2>1, <1>1
  <2>2. CASE \E b \in Unused : \E s \in Seq(Elements) :
               /\ vec'[v].data = b /\ vec'[v].capacity = Len(s)
               /\ heap' = With(heap, b, s)
    <3>1. PICK b \in Unused : \E s \in Seq(Elements) :
                /\ vec'[v].data = b /\ vec'[v].capacity = Len(s)
                /\ heap' = With(heap, b, s)
      BY <2>2
    <3>2. PICK s \in Seq(Elements) :
                /\ vec'[v].data = b /\ vec'[v].capacity = Len(s)
                /\ heap' = With(heap, b, s)
      BY <3>1
    <3>3. b \in Blocks /\ b \notin DOMAIN heap
      BY DEF Unused
    <3>4. /\ DOMAIN heap' = DOMAIN heap \cup {b} /\ heap'[b] = s
          /\ \A c \in DOMAIN heap : heap'[c] = heap[c]
          /\ heap' \in [DOMAIN heap' -> Seq(Elements)]
      BY <3>2, <3>3, <1>1 DEF With
    <3>. QED BY <3>2, <3>3, <3>4, <1>1
  <2>. QED BY <2>1, <2>2
<1>3. /\ Live' = Live \cup {v} /\ v \notin Live
      /\ \A w \in Live : Data(w)' = Data(w)
      /\ Holders' = Holders \cup (IF Data(v)' = Null THEN {} ELSE {v})
  BY DEF Live, Holders, Data
<1>4. GivenFits' /\ DOMAIN given' \subseteq DOMAIN heap'
  BY <1>1, <1>2 DEF GivenFits
<1>5. held' \in [block : Blocks \cup {Null}, index : Nat] /\ PointerLive'
  <2>1. held' \in [block : Blocks \cup {Null}, index : Nat]
    BY DEF IInv, TypeOK
  <2>2. CASE held = NoPointer
    BY <2>1, <2>2 DEF PointerLive
  <2>3. CASE held # NoPointer
    <3>1. PICK w \in Live : /\ Data(w) = held.block /\ held.block \in DOMAIN heap
                            /\ held.index \in DOMAIN heap[held.block]
      BY <2>3 DEF IInv, PointerLive, Data
    <3>2. w \in Live' /\ vec'[w].data = held.block
      BY <3>1, <1>3 DEF Data
    <3>. QED BY <2>1, <3>1, <3>2, <1>2 DEF PointerLive
  <2>. QED BY <2>1, <2>2, <2>3
<1>6. TypeOK'
  BY <1>1, <1>2, <1>4, <1>5 DEF TypeOK, IInv
<1>7. BlocksOwned'
  <2>1. /\ {Data(w) : w \in Holders} \cup DOMAIN given = DOMAIN heap
        /\ \A w \in Holders : Data(w) \in DOMAIN heap /\ Data(w) \notin DOMAIN given
        /\ \A w, x \in Holders : w # x => Data(w) # Data(x)
    BY DEF IInv, BlocksOwned, Holders, Data
  <2>2. Data(v)' = vec'[v].data
    BY DEF Data
  <2>3. {Data(w)' : w \in Holders'} =
          {Data(w) : w \in Holders} \cup (IF Data(v)' = Null THEN {} ELSE {Data(v)'})
    BY <1>3 DEF Holders
  <2>4. {Data(w)' : w \in Holders'} \cup DOMAIN given' = DOMAIN heap'
    <3>. DEFINE S == {Data(w) : w \in Holders}
    <3>. HIDE DEF S
    <3>1. S \cup (IF Data(v)' = Null THEN {} ELSE {Data(v)'}) \cup DOMAIN given' = DOMAIN heap'
      BY <2>1, <2>2, <1>2 DEF S
    <3>. QED BY <2>3, <3>1 DEF S
  <2>5. \A w \in Holders' : (w \in Holders /\ Data(w)' = Data(w)) \/ w = v
    BY <1>3 DEF Holders
  <2>6. \A w, x \in Holders' : w # x => Data(w)' # Data(x)'
    BY <2>1, <2>2, <2>5, <1>2, <1>3 DEF Holders
  <2>7. \A w \in Holders' : Data(w)' \notin DOMAIN given'
    BY <2>1, <2>2, <2>5, <1>1, <1>2 DEF Data
  <2>. QED BY <2>4, <2>6, <2>7 DEF BlocksOwned, Holders, Data
<1>8. \A w \in Live' : /\ vec'[w].count <= vec'[w].capacity
                       /\ vec'[w].capacity = Capacity(w)'
                       /\ vec'[w].data = Null => vec'[w].capacity = 0
  <2>. SUFFICES ASSUME NEW w \in Live'
                PROVE  /\ vec'[w].count <= vec'[w].capacity
                       /\ vec'[w].capacity = Capacity(w)'
                       /\ vec'[w].data = Null => vec'[w].capacity = 0
    OBVIOUS
  <2>1. CASE w = v
    <3>1. vec'[v].data = Null => vec'[v].capacity = 0
      BY <1>1 DEF Unused
    <3>. QED BY <2>1, <3>1, <1>2 DEF Capacity, ElementsOf
  <2>2. CASE w # v
    BY <2>2, <1>2, OthersKeep
  <2>. QED BY <2>1, <2>2
<1>. QED BY <1>4, <1>5, <1>6, <1>7, <1>8, IdleKeeps

\* The client frees an array or has a new one; the vectors do not know.
LEMMA ArraysKeep ==
  ASSUME IInv, IsIdle, vec' = vec, held' = held, pushing' = pushing,
         heap' \in [DOMAIN heap' -> Seq(Elements)], DOMAIN heap' \subseteq Blocks,
         given' \in [DOMAIN given' -> Nat], DOMAIN given' \subseteq DOMAIN heap',
         GivenFits', DOMAIN heap' \ DOMAIN given' = DOMAIN heap \ DOMAIN given,
         \A b \in DOMAIN heap \ DOMAIN given : heap'[b] = heap[b]
  PROVE  IInv'
<1>1. /\ {Data(w) : w \in Holders} \cup DOMAIN given = DOMAIN heap
      /\ \A w \in Holders : Data(w) \notin DOMAIN given /\ Data(w) \in DOMAIN heap
      /\ \A w, x \in Holders : w # x => Data(w) # Data(x)
  BY DEF IInv, BlocksOwned, Holders, Data
<1>2. Live' = Live /\ Holders' = Holders
  BY DEF Live, Holders, Data
<1>3. BlocksOwned'
  <2>. DEFINE S == {Data(w) : w \in Holders}
  <2>1. {Data(w)' : w \in Holders'} = S
    BY <1>2 DEF Data
  <2>2. S = DOMAIN heap \ DOMAIN given
    BY <1>1
  <2>. HIDE DEF S
  <2>3. S \cup DOMAIN given' = DOMAIN heap' /\ \A b \in S : b \notin DOMAIN given'
    BY <2>2
  <2>4. \A w \in Holders' : vec'[w].data \notin DOMAIN given'
    BY <2>3, <1>2 DEF S, Data
  <2>5. \A w, x \in Holders' : w # x => vec'[w].data # vec'[x].data
    BY <1>1, <1>2 DEF Data
  <2>. QED BY <2>1, <2>3, <2>4, <2>5 DEF BlocksOwned, Holders, Data
<1>4. PointerLive'
  <2>1. CASE held = NoPointer
    BY <2>1 DEF PointerLive
  <2>2. CASE held # NoPointer
    <3>1. PICK w \in Live : /\ vec[w].data = held.block /\ held.block \in DOMAIN heap
                            /\ held.index \in DOMAIN heap[held.block]
      BY <2>2 DEF IInv, PointerLive
    <3>2. held.block # Null
      BY <3>1, NullAssumption DEF IInv, TypeOK
    <3>3. held.block \in DOMAIN heap \ DOMAIN given
      BY <3>1, <3>2, <1>1 DEF Holders, Data
    <3>4. held.block \in DOMAIN heap' /\ heap'[held.block] = heap[held.block]
      BY <3>3
    <3>. QED BY <3>1, <3>4, <1>2 DEF PointerLive
  <2>. QED BY <2>1, <2>2
<1>5. TypeOK'
  BY DEF IInv, TypeOK
<1>6. \A w \in Live' : /\ vec'[w].count <= vec'[w].capacity
                       /\ vec'[w].capacity = Capacity(w)'
                       /\ vec'[w].data = Null => vec'[w].capacity = 0
  <2>. SUFFICES ASSUME NEW w \in Live
                PROVE  /\ vec[w].count <= vec[w].capacity
                       /\ vec[w].capacity = Capacity(w)'
                       /\ vec[w].data = Null => vec[w].capacity = 0
    BY <1>2
  <2>1. /\ vec[w].count <= vec[w].capacity
        /\ vec[w].capacity = Len(ElementsOf(Data(w)))
        /\ Data(w) = Null => vec[w].capacity = 0
    BY VectorFacts DEF Live
  <2>2. Data(w) # Null => heap'[Data(w)] = heap[Data(w)]
    BY <1>1 DEF Holders
  <2>. QED BY <2>1, <2>2 DEF Capacity, ElementsOf, Data
<1>. QED BY <1>3, <1>4, <1>5, <1>6, IdleKeeps

\* A duplicate for the client is a block of his own.
LEMMA DupContentKeeps ==
  ASSUME IInv, NEW v \in Vectors, DupContent(v)
  PROVE  IInv'
<1>1. /\ IsIdle /\ vec[v].isLive /\ vec[v].count > 0
      /\ vec' = vec /\ held' = held /\ pushing' = pushing
  BY DEF DupContent
<1>2. PICK block \in Unused :
        /\ heap' = With(heap, block, Resized(vec[v].data, vec[v].count))
        /\ given' = With(given, block, vec[v].count)
  BY DEF DupContent
<1>. DEFINE n == vec[v].count
            s == Resized(vec[v].data, n)
<1>3. s \in Seq(Elements) /\ Len(s) = n /\ n \in Nat
  BY <1>1, VectorFacts, ResizedIsSequence DEF IInv, Data
<1>. HIDE DEF s, n
<1>4. /\ heap \in [DOMAIN heap -> Seq(Elements)] /\ DOMAIN heap \subseteq Blocks
      /\ given \in [DOMAIN given -> Nat] /\ DOMAIN given \subseteq DOMAIN heap
      /\ \A b \in DOMAIN given : given[b] <= Len(heap[b])
      /\ block \in Blocks /\ block \notin DOMAIN heap
  BY DEF IInv, TypeOK, GivenFits, Unused
<1>5. /\ DOMAIN heap' = DOMAIN heap \cup {block} /\ heap'[block] = s
      /\ \A b \in DOMAIN heap : heap'[b] = heap[b]
      /\ heap' \in [DOMAIN heap' -> Seq(Elements)]
  BY <1>2, <1>3, <1>4 DEF With, s, n
<1>6. /\ DOMAIN given' = DOMAIN given \cup {block} /\ given'[block] = n
      /\ \A b \in DOMAIN given : given'[b] = given[b]
      /\ given' \in [DOMAIN given' -> Nat]
  BY <1>2, <1>3, <1>4 DEF With, n
<1>7. GivenFits'
  BY <1>3, <1>4, <1>5, <1>6 DEF GivenFits
<1>8. DOMAIN heap' \ DOMAIN given' = DOMAIN heap \ DOMAIN given
  BY <1>4, <1>5, <1>6
<1>. QED BY <1>1, <1>4, <1>5, <1>6, <1>7, <1>8, ArraysKeep

\* Freeing an array of the client takes nothing from a vector.
LEMMA FreeGivenKeeps ==
  ASSUME IInv, NEW block \in DOMAIN given, FreeGiven(block)
  PROVE  IInv'
<1>1. /\ IsIdle /\ vec' = vec /\ held' = held /\ pushing' = pushing
      /\ heap' = Without(heap, block) /\ given' = Without(given, block)
  BY DEF FreeGiven
<1>2. /\ heap \in [DOMAIN heap -> Seq(Elements)] /\ DOMAIN heap \subseteq Blocks
      /\ given \in [DOMAIN given -> Nat] /\ DOMAIN given \subseteq DOMAIN heap
      /\ \A b \in DOMAIN given : given[b] <= Len(heap[b])
  BY DEF IInv, TypeOK, GivenFits
<1>3. /\ DOMAIN heap' = DOMAIN heap \ {block}
      /\ \A b \in DOMAIN heap' : heap'[b] = heap[b]
      /\ heap' \in [DOMAIN heap' -> Seq(Elements)]
  BY <1>1, <1>2 DEF Without
<1>4. /\ DOMAIN given' = DOMAIN given \ {block}
      /\ \A b \in DOMAIN given' : given'[b] = given[b]
      /\ given' \in [DOMAIN given' -> Nat]
  BY <1>1, <1>2 DEF Without
<1>5. GivenFits'
  BY <1>2, <1>3, <1>4 DEF GivenFits
<1>. QED BY <1>1, <1>2, <1>3, <1>4, <1>5, ArraysKeep

\* Initializing, disposing, unwrapping and duplicating keep the invariant.
LEMMA LivingKeeps ==
  ASSUME IInv, NEW v \in Vectors, Living(v)
  PROVE  IInv'
<1>1. CASE InitVec(v)
  <2>1. /\ IsIdle /\ ~vec[v].isLive
        /\ vec' = [vec EXCEPT ![v] = [isLive |-> TRUE, data |-> Null,
                                      count |-> 0, capacity |-> 0]]
        /\ heap' = heap /\ given' = given /\ held' = held /\ pushing' = pushing
    BY <1>1 DEF InitVec
  <2>. DEFINE new == [isLive |-> TRUE, data |-> Null, count |-> 0, capacity |-> 0]
  <2>2. new \in [isLive : BOOLEAN, data : Blocks \cup {Null}, count : Nat, capacity : Nat]
    OBVIOUS
  <2>3. /\ vec' \in [Vectors -> [isLive : BOOLEAN, data : Blocks \cup {Null},
                                 count : Nat, capacity : Nat]]
        /\ vec'[v] = new
        /\ \A w \in Vectors : w # v => vec'[w] = vec[w]
    BY <2>1, <2>2, LiveIsKept
  <2>4. /\ vec'[v].isLive /\ vec'[v].count = 0 /\ vec'[v].capacity = 0
        /\ vec'[v].data = Null
    BY <2>3
  <2>. QED BY <2>1, <2>3, <2>4, GainedKeeps
<1>2. CASE Dispose(v)
  <2>1. /\ IsIdle /\ vec[v].isLive /\ vec' = Released(v) /\ Drops(v)
        /\ heap' = Without(heap, Data(v)) /\ given' = given /\ pushing' = pushing
    BY <1>2 DEF Dispose, Data
  <2>. QED BY <2>1, ReleasedVector, LostKeeps
<1>3. CASE Unwrap(v)
  <2>1. /\ IsIdle /\ vec[v].isLive /\ vec' = Released(v) /\ Drops(v)
        /\ heap' = heap /\ pushing' = pushing
        /\ given' = IF Data(v) = Null THEN given ELSE With(given, Data(v), vec[v].count)
    BY <1>3 DEF Unwrap, Unwrapped, Data
  <2>. QED BY <2>1, ReleasedVector, LostKeeps
<1>4. CASE DupContent(v)
  BY <1>4, DupContentKeeps
<1>5. ASSUME NEW w \in Vectors, Dup(v, w)
      PROVE  IInv'
  <2>. DEFINE n == vec[v].count
              new(data) == [isLive |-> TRUE, data |-> data, count |-> n, capacity |-> n]
              Record == [isLive : BOOLEAN, data : Blocks \cup {Null}, count : Nat, capacity : Nat]
  <2>1. /\ IsIdle /\ vec[v].isLive /\ ~vec[w].isLive
        /\ given' = given /\ held' = held /\ pushing' = pushing
    BY <1>5 DEF Dup
  <2>2. \/ n > 0 /\ \E block \in Unused :
             /\ heap' = With(heap, block, Resized(vec[v].data, n))
             /\ vec' = [vec EXCEPT ![w] = new(block)]
        \/ n = 0 /\ vec' = [vec EXCEPT ![w] = new(Null)] /\ heap' = heap
    BY <1>5 DEF Dup, DupCapacity
  <2>3. n \in Nat /\ \A data \in Blocks \cup {Null} : new(data) \in Record
    BY <2>1, VectorFacts
  <2>4. Resized(vec[v].data, n) \in Seq(Elements) /\ Len(Resized(vec[v].data, n)) = n
    BY <2>1, <2>3, VectorFacts, ResizedIsSequence DEF IInv, Data
  <2>5. \A data : /\ new(data).isLive /\ new(data).data = data
                  /\ new(data).count = n /\ new(data).capacity = n
    OBVIOUS
  <2>. HIDE DEF new, n
  <2>6. \A data \in Blocks \cup {Null} : vec' = [vec EXCEPT ![w] = new(data)] =>
          /\ vec' \in [Vectors -> Record] /\ vec'[w] = new(data)
          /\ \A x \in Vectors : x # w => vec'[x] = vec[x]
    BY <2>3, LiveIsKept
  <2>7. CASE n > 0 /\ \E block \in Unused :
             /\ heap' = With(heap, block, Resized(vec[v].data, n))
             /\ vec' = [vec EXCEPT ![w] = new(block)]
    <3>1. PICK block \in Unused :
             /\ heap' = With(heap, block, Resized(vec[v].data, n))
             /\ vec' = [vec EXCEPT ![w] = new(block)]
      BY <2>7
    <3>2. block \in Blocks
      BY DEF Unused
    <3>3. /\ vec' \in [Vectors -> Record] /\ vec'[w] = new(block)
          /\ \A x \in Vectors : x # w => vec'[x] = vec[x]
      BY <3>1, <3>2, <2>6
    <3>4. /\ vec'[w].isLive /\ vec'[w].data = block
          /\ vec'[w].count = n /\ vec'[w].capacity = n
      BY <3>3, <2>5
    <3>5. \E b \in Unused : \E s \in Seq(Elements) :
              /\ vec'[w].data = b /\ vec'[w].capacity = Len(s)
              /\ heap' = With(heap, b, s)
      BY <3>1, <3>4, <2>4
    <3>. QED BY <2>1, <2>3, <3>3, <3>4, <3>5, GainedKeeps
  <2>8. CASE n = 0 /\ vec' = [vec EXCEPT ![w] = new(Null)] /\ heap' = heap
    <3>3. /\ vec' \in [Vectors -> Record] /\ vec'[w] = new(Null)
          /\ \A x \in Vectors : x # w => vec'[x] = vec[x]
      BY <2>8, <2>6
    <3>4. /\ vec'[w].isLive /\ vec'[w].data = Null
          /\ vec'[w].count = 0 /\ vec'[w].capacity = 0
      BY <2>8, <3>3, <2>5
    <3>. QED BY <2>1, <2>8, <3>3, <3>4, GainedKeeps
  <2>. QED BY <2>2, <2>7, <2>8
<1>. QED BY <1>1, <1>2, <1>3, <1>4, <1>5 DEF Living

\* Ensuring and trimming the capacity keep it.
LEMMA SizingKeeps ==
  ASSUME IInv, NEW v \in Vectors, Sizing(v)
  PROVE  IInv'
<1>1. ASSUME NEW n \in 1 .. MaxCount, EnsureCapacity(v, n)
      PROVE  IInv'
  <2>1. /\ IsIdle /\ vec[v].isLive /\ n > vec[v].capacity /\ Drops(v)
        /\ given' = given /\ pushing' = pushing
    BY <1>1 DEF EnsureCapacity
  <2>2. PICK block \in Places(vec[v].data) :
          Moved(v, block, Resized(vec[v].data, n), vec[v].count)
    BY <1>1 DEF EnsureCapacity
  <2>3. n \in Nat /\ vec[v].count \in Nat /\ vec[v].count <= n
    BY <2>1, VectorFacts, SizesAssumption
  <2>4. Resized(vec[v].data, n) \in Seq(Elements) /\ Len(Resized(vec[v].data, n)) = n
    BY <2>1, <2>3, VectorFacts, ResizedIsSequence DEF IInv, Data
  <2>5. pushing' = NoPush
    BY <2>1 DEF IInv, PushUnderway
  <2>. QED BY <2>1, <2>2, <2>3, <2>4, <2>5, MovedKeeps
<1>2. CASE TrimCapacity(v)
  <2>1. /\ IsIdle /\ vec[v].isLive /\ Drops(v) /\ given' = given /\ pushing' = pushing
    BY <1>2 DEF TrimCapacity
  <2>2. CASE \E block \in Places(vec[v].data) :
               Moved(v, block, Resized(vec[v].data, vec[v].count), vec[v].count)
    <3>1. PICK block \in Places(vec[v].data) :
               Moved(v, block, Resized(vec[v].data, vec[v].count), vec[v].count)
      BY <2>2
    <3>2. vec[v].count \in Nat
      BY <2>1, VectorFacts
    <3>3. /\ Resized(vec[v].data, vec[v].count) \in Seq(Elements)
          /\ Len(Resized(vec[v].data, vec[v].count)) = vec[v].count
      BY <2>1, <3>2, VectorFacts, ResizedIsSequence DEF IInv, Data
    <3>4. pushing' = NoPush
      BY <2>1 DEF IInv, PushUnderway
    <3>. QED BY <2>1, <3>1, <3>2, <3>3, <3>4, MovedKeeps
  <2>3. CASE /\ vec[v].count = 0 /\ heap' = Without(heap, Data(v))
             /\ vec' = [vec EXCEPT ![v].data = Null, ![v].capacity = 0]
    <3>. DEFINE old == vec[v]
                new == [old EXCEPT !.data = Null, !.capacity = 0]
    <3>1. vec' = [vec EXCEPT ![v] = new]
      BY <2>3
    <3>2. old \in [isLive : BOOLEAN, data : Blocks \cup {Null}, count : Nat, capacity : Nat]
          /\ old.count = 0
      BY <2>3 DEF IInv, TypeOK
    <3>. HIDE DEF old
    <3>3. /\ new \in [isLive : BOOLEAN, data : Blocks \cup {Null}, count : Nat, capacity : Nat]
          /\ new.data = Null /\ new.count = 0 /\ new.capacity = 0
      BY <3>2
    <3>. HIDE DEF new
    <3>4. /\ vec' \in [Vectors -> [isLive : BOOLEAN, data : Blocks \cup {Null},
                                   count : Nat, capacity : Nat]]
          /\ vec'[v] = new
          /\ \A w \in Vectors : w # v => vec'[w] = vec[w]
      BY <3>1, <3>3, LiveIsKept
    <3>. QED BY <2>1, <2>3, <3>3, <3>4, LostKeeps
  <2>. QED BY <1>2, <2>2, <2>3 DEF TrimCapacity, Data
<1>. QED BY <1>1, <1>2 DEF Sizing

\* Assigning the two counters of one vector keeps the rest.
LEMMA CountersChanged ==
  ASSUME IInv, NEW v \in Vectors, NEW count \in Nat, NEW capacity \in Nat,
         vec' = [vec EXCEPT ![v].count = count, ![v].capacity = capacity]
  PROVE  /\ vec' \in [Vectors -> [isLive : BOOLEAN, data : Blocks \cup {Null},
                                  count : Nat, capacity : Nat]]
         /\ vec'[v].count = count /\ vec'[v].capacity = capacity
         /\ vec'[v].isLive = vec[v].isLive /\ vec'[v].data = vec[v].data
         /\ \A w \in Vectors : w # v => vec'[w] = vec[w]
<1>. DEFINE old == vec[v]
            new == [old EXCEPT !.count = count, !.capacity = capacity]
<1>1. vec' = [vec EXCEPT ![v] = new]
  OBVIOUS
<1>2. old \in [isLive : BOOLEAN, data : Blocks \cup {Null}, count : Nat, capacity : Nat]
  BY DEF IInv, TypeOK
<1>. HIDE DEF old
<1>3. /\ new \in [isLive : BOOLEAN, data : Blocks \cup {Null}, count : Nat, capacity : Nat]
      /\ new.count = count /\ new.capacity = capacity
      /\ new.isLive = old.isLive /\ new.data = old.data
  BY <1>2
<1>. HIDE DEF new
<1>4. /\ vec' \in [Vectors -> [isLive : BOOLEAN, data : Blocks \cup {Null},
                               count : Nat, capacity : Nat]]
      /\ vec'[v] = new
      /\ \A w \in Vectors : w # v => vec'[w] = vec[w]
  BY <1>1, <1>3, LiveIsKept
<1>. QED BY <1>3, <1>4 DEF old

\* The number of elements alone.
LEMMA CountChanged ==
  ASSUME IInv, NEW v \in Vectors, NEW count \in Nat,
         vec' = [vec EXCEPT ![v].count = count]
  PROVE  /\ vec' \in [Vectors -> [isLive : BOOLEAN, data : Blocks \cup {Null},
                                  count : Nat, capacity : Nat]]
         /\ vec'[v].count = count /\ vec'[v].capacity = vec[v].capacity
         /\ vec'[v].isLive = vec[v].isLive /\ vec'[v].data = vec[v].data
         /\ \A w \in Vectors : w # v => vec'[w] = vec[w]
<1>. DEFINE old == vec[v]
            new == [old EXCEPT !.count = count]
<1>1. vec' = [vec EXCEPT ![v] = new]
  OBVIOUS
<1>2. old \in [isLive : BOOLEAN, data : Blocks \cup {Null}, count : Nat, capacity : Nat]
  BY DEF IInv, TypeOK
<1>. HIDE DEF old
<1>3. /\ new \in [isLive : BOOLEAN, data : Blocks \cup {Null}, count : Nat, capacity : Nat]
      /\ new.count = count /\ new.capacity = old.capacity
      /\ new.isLive = old.isLive /\ new.data = old.data
  BY <1>2
<1>. HIDE DEF new
<1>4. /\ vec' \in [Vectors -> [isLive : BOOLEAN, data : Blocks \cup {Null},
                               count : Nat, capacity : Nat]]
      /\ vec'[v] = new
      /\ \A w \in Vectors : w # v => vec'[w] = vec[w]
  BY <1>1, <1>3, LiveIsKept
<1>. QED BY <1>3, <1>4 DEF old

\* A vector that is not pushed to has as many elements as it says.
LEMMA CountsOfOthers ==
  ASSUME IInv, NEW v \in Vectors, IsIdle \/ pushing.vector = v,
         pushing'.vector = Null \/ pushing'.vector = v,
         NEW w \in Live, w # v, vec'[w] = vec[w]
  PROVE  /\ Count(w)' <= Capacity(w)
         /\ ~IsPushing(w)' => vec'[w].capacity = Capacity(w)
<1>1. ~IsPushing(w) /\ ~IsPushing(w)' /\ w \in Vectors
  BY NullAssumption DEF IsIdle, IsPushing, Live
<1>2. Count(w)' = Count(w)
  BY <1>1 DEF Count
<1>. QED BY <1>1, <1>2 DEF IInv, CapacityTrue

\* A push into a block that has room for it.
LEMMA PushInPlaceKeeps ==
  ASSUME IInv, NEW v \in Vectors, NEW new \in Seq(Elements), NEW returnsPointer,
         PushInPlace(v, new, returnsPointer)
  PROVE  IInv'
<1>. DEFINE n == Len(new)
            count == vec[v].count
            data == Data(v)
<1>1. /\ IsIdle /\ vec[v].isLive /\ n > 0 /\ count + n <= vec[v].capacity
      /\ heap' = [heap EXCEPT ![data] = Written(heap[data], count, new)]
      /\ vec' = [vec EXCEPT ![v].count = count + n]
      /\ given' = given /\ pushing' = pushing
      /\ PointsTo(returnsPointer, v, data, count + 1)
  BY DEF PushInPlace, PushesTo, CanPush, Data
<1>2. /\ count \in Nat /\ n \in Nat /\ vec[v].capacity \in Nat
      /\ vec[v].capacity = Len(ElementsOf(data))
      /\ data # Null /\ data \in DOMAIN heap
  BY <1>1, VectorFacts
<1>3. /\ heap \in [DOMAIN heap -> Seq(Elements)] /\ heap[data] \in Seq(Elements)
      /\ Len(heap[data]) = vec[v].capacity
  BY <1>2 DEF IInv, TypeOK, ElementsOf
<1>4. /\ Written(heap[data], count, new) \in Seq(Elements)
      /\ Len(Written(heap[data], count, new)) = Len(heap[data])
  BY <1>2, <1>3, WrittenIsSequence
<1>. HIDE DEF data, count, n
<1>5. /\ heap' \in [DOMAIN heap -> Seq(Elements)]
      /\ \A b \in DOMAIN heap : Len(heap'[b]) = Len(heap[b])
  BY <1>1, <1>2, <1>3, <1>4
<1>6. /\ vec' \in [Vectors -> [isLive : BOOLEAN, data : Blocks \cup {Null},
                               count : Nat, capacity : Nat]]
      /\ vec'[v].count = count + n /\ vec'[v].capacity = vec[v].capacity
      /\ vec'[v].isLive = vec[v].isLive /\ vec'[v].data = vec[v].data
      /\ \A w \in Vectors : w # v => vec'[w] = vec[w]
  <2>1. count + n \in Nat
    BY <1>2
  <2>2. vec' = [vec EXCEPT ![v].count = count + n]
    BY <1>1
  <2>. QED BY <2>1, <2>2, CountChanged
<1>7. /\ pushing = NoPush /\ PushUnderway'
      /\ pushing' \in [vector : Vectors \cup {Null}, new : Seq(Elements),
                       returnsPointer : BOOLEAN]
  BY <1>1 DEF IInv, PushUnderway, NoPush, IsIdle, TypeOK
<1>8. \A w \in Live : /\ Count(w)' <= Capacity(w)
                      /\ ~IsPushing(w)' => vec'[w].capacity = Capacity(w)
  <2>. SUFFICES ASSUME NEW w \in Live
                PROVE  /\ Count(w)' <= Capacity(w)
                       /\ ~IsPushing(w)' => vec'[w].capacity = Capacity(w)
    OBVIOUS
  <2>1. CASE w = v
    <3>1. Count(v)' = count + n /\ Capacity(v) = vec[v].capacity
      BY <1>1, <1>2, <1>6, <1>7, NullAssumption
      DEF Count, IsPushing, NoPush, Capacity, Data, data, ElementsOf
    <3>. QED BY <2>1, <3>1, <1>1, <1>6
  <2>2. CASE w # v
    <3>1. vec'[w] = vec[w]
      BY <2>2, <1>6 DEF Live
    <3>. QED BY <2>2, <3>1, <1>1, <1>7, CountsOfOthers DEF NoPush
  <2>. QED BY <2>1, <2>2
<1>9. \/ held' = held \/ held' = NoPointer
      \/ \E w \in Holders : \E i \in DOMAIN heap[Data(w)] :
           held' = [block |-> Data(w), index |-> i]
  <2>1. count + 1 \in DOMAIN heap[data] /\ v \in Holders
    BY <1>1, <1>2, <1>3 DEF Holders, Live, data, n
  <2>. QED BY <1>1, <2>1 DEF PointsTo, Drops, data
<1>. QED BY <1>1, <1>5, <1>6, <1>7, <1>8, <1>9, InPlaceKeeps

\* A push of one element that moves the block.
LEMMA PushMovingKeeps ==
  ASSUME IInv, NEW v \in Vectors, NEW new \in Seq(Elements), NEW returnsPointer,
         PushMoving(v, new, returnsPointer)
  PROVE  IInv'
<1>. DEFINE count == vec[v].count
            capacity == Grown(vec[v].capacity)
            s == Written(Resized(vec[v].data, capacity), count, new)
<1>1. /\ IsIdle /\ vec[v].isLive /\ Len(new) = 1 /\ ~(count + 1 <= vec[v].capacity)
      /\ given' = given /\ pushing' = pushing
  BY DEF PushMoving, PushesTo, CanPush
<1>2. PICK block \in Places(vec[v].data) :
        Moved(v, block, s, count + 1) /\ PointsTo(returnsPointer, v, block, count + 1)
  BY DEF PushMoving
<1>3. /\ count \in Nat /\ vec[v].capacity \in Nat /\ count = vec[v].capacity
      /\ capacity \in Nat /\ count + 1 \in 1 .. capacity
  <2>1. count \in Nat /\ vec[v].capacity \in Nat /\ count = vec[v].capacity
    BY <1>1, VectorFacts
  <2>. QED BY <2>1, SizesAssumption DEF Grown
<1>4. s \in Seq(Elements) /\ Len(s) = capacity
  <2>. HIDE DEF capacity
  <2>1. /\ Resized(vec[v].data, capacity) \in Seq(Elements)
        /\ Len(Resized(vec[v].data, capacity)) = capacity
    BY <1>1, <1>3, VectorFacts, ResizedIsSequence DEF IInv, Data
  <2>. QED BY <2>1, <1>3, WrittenIsSequence
<1>5. pushing' = NoPush
  BY <1>1 DEF IInv, PushUnderway
<1>. HIDE DEF s, capacity
<1>6. Drops(v) \/ \E i \in DOMAIN s : held' = [block |-> block, index |-> i]
  BY <1>2, <1>3, <1>4 DEF PointsTo
<1>7. count + 1 \in Nat /\ count + 1 <= Len(s)
  BY <1>3, <1>4
<1>. HIDE DEF count
<1>. QED BY <1>1, <1>2, <1>4, <1>5, <1>6, <1>7, MovedKeeps

\* The counters of a longer push are changed before the block is.
LEMMA StartPushMultKeeps ==
  ASSUME IInv, NEW v \in Vectors, NEW new \in Seq(Elements), NEW returnsPointer \in BOOLEAN,
         StartPushMult(v, new, returnsPointer)
  PROVE  IInv'
<1>. DEFINE n == Len(new)
            count == vec[v].count
            capacity == IF vec[v].capacity = 0 THEN StartCapacity ELSE vec[v].capacity
<1>1. /\ IsIdle /\ vec[v].isLive /\ n > 0 /\ given' = given /\ heap' = heap
      /\ vec' = [vec EXCEPT ![v].count = count + n, ![v].capacity = capacity]
      /\ pushing' = [vector |-> v, new |-> new, returnsPointer |-> returnsPointer]
      /\ Drops(v)
  BY DEF StartPushMult, PushesTo
<1>2. /\ count \in Nat /\ n \in Nat /\ capacity \in Nat /\ capacity > 0
      /\ count <= Capacity(v)
  <2>1. count \in Nat /\ vec[v].capacity \in Nat
        /\ count <= vec[v].capacity /\ vec[v].capacity = Capacity(v)
    BY <1>1, VectorFacts DEF Capacity, Data
  <2>. QED BY <2>1, SizesAssumption
<1>. HIDE DEF n, count, capacity
<1>3. /\ vec' \in [Vectors -> [isLive : BOOLEAN, data : Blocks \cup {Null},
                               count : Nat, capacity : Nat]]
      /\ vec'[v].count = count + n /\ vec'[v].capacity = capacity
      /\ vec'[v].isLive = vec[v].isLive /\ vec'[v].data = vec[v].data
      /\ \A w \in Vectors : w # v => vec'[w] = vec[w]
  <2>1. count + n \in Nat
    BY <1>2
  <2>. QED BY <1>1, <1>2, <2>1, CountersChanged
<1>4. /\ pushing' \in [vector : Vectors \cup {Null}, new : Seq(Elements),
                       returnsPointer : BOOLEAN]
      /\ pushing'.vector = v /\ Len(pushing'.new) = n
  BY <1>1 DEF n
<1>5. PushUnderway'
  <2>1. v \in Live'
    BY <1>1, <1>3 DEF Live
  <2>2. n \in 1 .. vec'[v].count
    BY <1>1, <1>2, <1>3
  <2>3. pushing'.vector # Null
    BY <1>4, NullAssumption
  <2>. QED BY <2>1, <2>2, <2>3, <1>2, <1>3, <1>4 DEF PushUnderway, IsIdle
<1>6. \A w \in Live : /\ Count(w)' <= Capacity(w)
                      /\ ~IsPushing(w)' => vec'[w].capacity = Capacity(w)
  <2>. SUFFICES ASSUME NEW w \in Live
                PROVE  /\ Count(w)' <= Capacity(w)
                       /\ ~IsPushing(w)' => vec'[w].capacity = Capacity(w)
    OBVIOUS
  <2>1. CASE w = v
    <3>1. Count(v)' = count /\ IsPushing(v)'
      BY <1>2, <1>3, <1>4 DEF Count, IsPushing
    <3>. QED BY <2>1, <3>1, <1>2
  <2>2. CASE w # v
    <3>1. vec'[w] = vec[w]
      BY <2>2, <1>3 DEF Live
    <3>. QED BY <2>2, <3>1, <1>1, <1>4, CountsOfOthers
  <2>. QED BY <2>1, <2>2
<1>7. heap' \in [DOMAIN heap -> Seq(Elements)]
  BY <1>1 DEF IInv, TypeOK
<1>8. \A b \in DOMAIN heap : Len(heap'[b]) = Len(heap[b])
  BY <1>1
<1>9. held' = held \/ held' = NoPointer
  BY <1>1 DEF Drops
<1>. QED BY <1>1, <1>3, <1>4, <1>5, <1>6, <1>7, <1>8, <1>9, InPlaceKeeps

\* The capacity doubles while the block is still the old one.
LEMMA DoubleCapacityKeeps ==
  ASSUME IInv, DoubleCapacity
  PROVE  IInv'
<1>. DEFINE v == pushing.vector
            count == vec[v].count
            capacity == 2 * vec[v].capacity
<1>1. /\ ~IsIdle /\ heap' = heap /\ given' = given /\ held' = held /\ pushing' = pushing
      /\ vec' = [vec EXCEPT ![v].capacity = capacity]
  BY DEF DoubleCapacity
<1>2. /\ v \in Vectors /\ v \in Live /\ vec[v].capacity > 0 /\ Len(pushing.new) \in 1 .. count
  BY <1>1 DEF IInv, PushUnderway, Live
<1>3. count \in Nat /\ capacity \in Nat /\ capacity > 0
  BY <1>2, VectorFacts DEF Live
<1>4. /\ vec' \in [Vectors -> [isLive : BOOLEAN, data : Blocks \cup {Null},
                               count : Nat, capacity : Nat]]
      /\ vec'[v].count = count /\ vec'[v].capacity = capacity
      /\ vec'[v].isLive = vec[v].isLive /\ vec'[v].data = vec[v].data
      /\ \A w \in Vectors : w # v => vec'[w] = vec[w]
  <2>. DEFINE old == vec[v]
              new == [old EXCEPT !.capacity = capacity]
  <2>1. vec' = [vec EXCEPT ![v] = new]
    BY <1>1
  <2>2. old \in [isLive : BOOLEAN, data : Blocks \cup {Null}, count : Nat, capacity : Nat]
    BY <1>2 DEF IInv, TypeOK
  <2>. HIDE DEF old, v, capacity
  <2>3. /\ new \in [isLive : BOOLEAN, data : Blocks \cup {Null}, count : Nat, capacity : Nat]
        /\ new.count = old.count /\ new.capacity = capacity
        /\ new.isLive = old.isLive /\ new.data = old.data
    BY <2>2, <1>3
  <2>. HIDE DEF new
  <2>. QED BY <2>1, <2>3, <1>2, LiveIsKept DEF old
<1>5. PushUnderway'
  BY <1>1, <1>2, <1>3, <1>4 DEF PushUnderway, IsIdle, Live
<1>6. \A w \in Live : /\ Count(w)' <= Capacity(w)
                      /\ ~IsPushing(w)' => vec'[w].capacity = Capacity(w)
  <2>. SUFFICES ASSUME NEW w \in Live
                PROVE  /\ Count(w)' <= Capacity(w)
                       /\ ~IsPushing(w)' => vec'[w].capacity = Capacity(w)
    OBVIOUS
  <2>1. CASE w = v
    <3>1. Count(w)' = Count(w) /\ IsPushing(w)'
      BY <2>1, <1>1, <1>4 DEF Count, IsPushing
    <3>. QED BY <3>1 DEF IInv, CapacityTrue
  <2>2. CASE w # v
    <3>1. vec'[w] = vec[w]
      BY <2>2, <1>4 DEF Live
    <3>. QED BY <2>2, <3>1, <1>1, <1>2, CountsOfOthers
  <2>. QED BY <2>1, <2>2
<1>7. heap' \in [DOMAIN heap -> Seq(Elements)]
  BY <1>1 DEF IInv, TypeOK
<1>8. \A b \in DOMAIN heap : Len(heap'[b]) = Len(heap[b])
  BY <1>1
<1>9. pushing' \in [vector : Vectors \cup {Null}, new : Seq(Elements),
                    returnsPointer : BOOLEAN]
  BY <1>1 DEF IInv, TypeOK
<1>10. \A w \in Vectors : vec'[w].isLive = vec[w].isLive /\ vec'[w].data = vec[w].data
  BY <1>4
<1>. QED BY <1>1, <1>4, <1>5, <1>6, <1>7, <1>8, <1>9, <1>10, InPlaceKeeps

\* Then the block gets the length that the capacity has reached.
LEMMA EndPushMultKeeps ==
  ASSUME IInv, EndPushMult
  PROVE  IInv'
<1>. DEFINE v == pushing.vector
            count == vec[v].count
            capacity == vec[v].capacity
            s == Written(Resized(vec[v].data, capacity), OldCount, pushing.new)
<1>1. ~IsIdle /\ capacity >= count /\ given' = given /\ pushing' = NoPush
  BY DEF EndPushMult
<1>2. PICK block \in Places(vec[v].data) :
        /\ Moved(v, block, s, count)
        /\ PointsTo(pushing.returnsPointer, v, block, OldCount + 1)
  BY DEF EndPushMult
<1>3. /\ v \in Vectors /\ vec[v].isLive /\ Len(pushing.new) \in 1 .. count
      /\ pushing.new \in Seq(Elements)
  BY <1>1 DEF IInv, PushUnderway, Live, TypeOK
<1>4. count \in Nat /\ capacity \in Nat /\ OldCount \in Nat /\ OldCount + 1 \in 1 .. capacity
  <2>1. count \in Nat /\ capacity \in Nat
    BY <1>3, VectorFacts
  <2>2. OldCount = count - Len(pushing.new)
    BY DEF OldCount
  <2>. QED BY <2>1, <2>2, <1>1, <1>3
<1>5. s \in Seq(Elements) /\ Len(s) = capacity
  <2>1. /\ Resized(vec[v].data, capacity) \in Seq(Elements)
        /\ Len(Resized(vec[v].data, capacity)) = capacity
    BY <1>3, <1>4, VectorFacts, ResizedIsSequence DEF IInv, Data
  <2>. QED BY <2>1, <1>3, <1>4, WrittenIsSequence
<1>. HIDE DEF s
<1>6. Drops(v) \/ \E i \in DOMAIN s : held' = [block |-> block, index |-> i]
  BY <1>2, <1>4, <1>5 DEF PointsTo
<1>7. count <= Len(s)
  BY <1>1, <1>5
<1>. QED BY <1>1, <1>2, <1>3, <1>4, <1>5, <1>6, <1>7, MovedKeeps

\* Nothing is pushed, and no counter grows.
LEMMA AccessKeeps ==
  ASSUME IInv, IsIdle, pushing' = pushing, given' = given,
         vec' \in [Vectors -> [isLive : BOOLEAN, data : Blocks \cup {Null},
                               count : Nat, capacity : Nat]],
         \A w \in Vectors : /\ vec'[w].isLive = vec[w].isLive /\ vec'[w].data = vec[w].data
                            /\ vec'[w].capacity = vec[w].capacity
                            /\ vec'[w].count <= vec[w].count,
         heap' \in [DOMAIN heap -> Seq(Elements)],
         \A b \in DOMAIN heap : Len(heap'[b]) = Len(heap[b]),
         \/ held' = held \/ held' = NoPointer
         \/ \E v \in Holders : \E i \in DOMAIN heap[Data(v)] :
              held' = [block |-> Data(v), index |-> i]
  PROVE  IInv'
<1>1. /\ pushing = NoPush /\ PushUnderway'
      /\ pushing' \in [vector : Vectors \cup {Null}, new : Seq(Elements),
                       returnsPointer : BOOLEAN]
  BY DEF IInv, PushUnderway, NoPush, IsIdle, TypeOK
<1>2. \A w \in Live : /\ Count(w)' <= Capacity(w)
                      /\ ~IsPushing(w)' => vec'[w].capacity = Capacity(w)
  <2>. SUFFICES ASSUME NEW w \in Live
                PROVE  /\ Count(w)' <= Capacity(w)
                       /\ ~IsPushing(w)' => vec'[w].capacity = Capacity(w)
    OBVIOUS
  <2>1. /\ vec[w].count <= vec[w].capacity /\ vec[w].capacity = Capacity(w)
        /\ vec[w].count \in Nat /\ vec[w].capacity \in Nat /\ w \in Vectors
    BY VectorFacts DEF Live, Capacity, Data
  <2>2. Count(w)' = vec'[w].count - 0
    BY <1>1, <2>1, NullAssumption DEF Count, IsPushing, NoPush
  <2>3. vec'[w].count \in Nat /\ vec'[w].count <= vec[w].count
        /\ vec'[w].capacity = vec[w].capacity
    BY <2>1
  <2>4. Count(w)' = vec'[w].count
    BY <2>2, <2>3
  <2>5. vec'[w].count <= vec[w].capacity
    BY <2>1, <2>3
  <2>. QED BY <2>1, <2>3, <2>4, <2>5
<1>. QED BY <1>1, <1>2, InPlaceKeeps

\* A write to one element that is there.
LEMMA WriteKeepsLengths ==
  ASSUME IInv, NEW b \in DOMAIN heap, NEW i \in DOMAIN heap[b], NEW e \in Elements,
         heap' = [heap EXCEPT ![b][i] = e]
  PROVE  /\ heap' \in [DOMAIN heap -> Seq(Elements)]
         /\ \A c \in DOMAIN heap : Len(heap'[c]) = Len(heap[c])
<1>. DEFINE old == heap[b]
            new == [old EXCEPT ![i] = e]
<1>1. heap \in [DOMAIN heap -> Seq(Elements)] /\ old \in Seq(Elements)
  BY DEF IInv, TypeOK
<1>2. heap' = [heap EXCEPT ![b] = new]
  OBVIOUS
<1>3. i \in DOMAIN old
  OBVIOUS
<1>. HIDE DEF old
<1>4. new \in Seq(Elements) /\ Len(new) = Len(old)
  BY <1>1, <1>3
<1>. HIDE DEF new
<1>. QED BY <1>1, <1>2, <1>4 DEF old

\* Popping, clearing, setting and pointing to an element keep the invariant.
LEMMA AccessingKeeps ==
  ASSUME IInv, NEW v \in Vectors, Accessing(v)
  PROVE  IInv'
<1>0. /\ vec \in [Vectors -> [isLive : BOOLEAN, data : Blocks \cup {Null},
                              count : Nat, capacity : Nat]]
      /\ heap \in [DOMAIN heap -> Seq(Elements)]
      /\ \A w \in Vectors : vec[w].count \in Nat /\ vec[w].capacity \in Nat
  BY DEF IInv, TypeOK
<1>1. ASSUME IsIdle, vec[v].isLive, NEW i \in 1 .. vec[v].count
      PROVE  /\ v \in Holders /\ Data(v) \in DOMAIN heap /\ i \in DOMAIN heap[Data(v)]
  <2>1. /\ vec[v].count <= vec[v].capacity /\ vec[v].count \in Nat /\ vec[v].capacity \in Nat
        /\ vec[v].capacity = Len(ElementsOf(Data(v)))
        /\ Data(v) = Null => vec[v].capacity = 0
        /\ Data(v) # Null => Data(v) \in DOMAIN heap
    BY <1>1, VectorFacts
  <2>2. Data(v) # Null
    BY <2>1
  <2>3. heap[Data(v)] \in Seq(Elements)
    BY <2>1, <2>2, <1>0
  <2>. QED BY <2>1, <2>2, <2>3, <1>1 DEF ElementsOf, Holders, Live
<1>2. CASE Pop(v)
  <2>1. /\ IsIdle /\ vec[v].count > 0 /\ vec' = [vec EXCEPT ![v].count = vec[v].count - 1]
        /\ heap' = heap /\ given' = given /\ held' = held /\ pushing' = pushing
    BY <1>2 DEF Pop
  <2>2. vec[v].count - 1 \in Nat /\ vec[v].count - 1 <= vec[v].count
    BY <2>1, <1>0
  <2>3. /\ vec' \in [Vectors -> [isLive : BOOLEAN, data : Blocks \cup {Null},
                                 count : Nat, capacity : Nat]]
        /\ \A w \in Vectors : /\ vec'[w].isLive = vec[w].isLive /\ vec'[w].data = vec[w].data
                              /\ vec'[w].capacity = vec[w].capacity
                              /\ vec'[w].count <= vec[w].count
    BY <2>1, <2>2, <1>0, CountChanged
  <2>. QED BY <2>1, <2>3, <1>0, AccessKeeps
<1>3. CASE Clear(v)
  <2>1. /\ IsIdle /\ vec' = [vec EXCEPT ![v].count = 0]
        /\ heap' = heap /\ given' = given /\ held' = held /\ pushing' = pushing
    BY <1>3 DEF Clear, CountReset
  <2>2. /\ vec' \in [Vectors -> [isLive : BOOLEAN, data : Blocks \cup {Null},
                                 count : Nat, capacity : Nat]]
        /\ \A w \in Vectors : /\ vec'[w].isLive = vec[w].isLive /\ vec'[w].data = vec[w].data
                              /\ vec'[w].capacity = vec[w].capacity
                              /\ vec'[w].count <= vec[w].count
    BY <2>1, <1>0, CountChanged
  <2>. QED BY <2>1, <2>2, <1>0, AccessKeeps
<1>4. ASSUME NEW i \in 1 .. MaxCount, PtrAt(v, i)
      PROVE  IInv'
  <2>1. /\ IsIdle /\ vec[v].isLive /\ i \in 1 .. vec[v].count
        /\ held' = [block |-> Data(v), index |-> i]
        /\ vec' = vec /\ heap' = heap /\ given' = given /\ pushing' = pushing
    BY <1>4 DEF PtrAt, Data
  <2>2. \E w \in Holders : \E j \in DOMAIN heap[Data(w)] :
          held' = [block |-> Data(w), index |-> j]
    BY <2>1, <1>1
  <2>. QED BY <2>1, <2>2, <1>0, AccessKeeps
<1>5. ASSUME NEW i \in 1 .. MaxCount, NEW e \in Elements, SetElement(v, i, e)
      PROVE  IInv'
  <2>1. /\ IsIdle /\ vec[v].isLive /\ i \in 1 .. vec[v].count
        /\ heap' = [heap EXCEPT ![Data(v)][i] = e]
        /\ vec' = vec /\ given' = given /\ held' = held /\ pushing' = pushing
    BY <1>5 DEF SetElement, Data
  <2>2. /\ heap' \in [DOMAIN heap -> Seq(Elements)]
        /\ \A c \in DOMAIN heap : Len(heap'[c]) = Len(heap[c])
    BY <2>1, <1>1, WriteKeepsLengths
  <2>. QED BY <2>1, <2>2, <1>0, AccessKeeps
<1>. QED BY <1>2, <1>3, <1>4, <1>5 DEF Accessing

\* So does writing through a pointer.
LEMMA WriteHeldKeeps ==
  ASSUME IInv, NEW e \in Elements, WriteHeld(e)
  PROVE  IInv'
<1>1. /\ IsIdle /\ held # NoPointer
      /\ heap' = [heap EXCEPT ![held.block][held.index] = e]
      /\ vec' = vec /\ given' = given /\ held' = held /\ pushing' = pushing
  BY DEF WriteHeld
<1>2. held.block \in DOMAIN heap /\ held.index \in DOMAIN heap[held.block]
  BY <1>1 DEF IInv, PointerLive
<1>3. /\ heap' \in [DOMAIN heap -> Seq(Elements)]
      /\ \A c \in DOMAIN heap : Len(heap'[c]) = Len(heap[c])
  BY <1>1, <1>2, WriteKeepsLengths
<1>4. /\ vec \in [Vectors -> [isLive : BOOLEAN, data : Blocks \cup {Null},
                              count : Nat, capacity : Nat]]
      /\ \A w \in Vectors : vec[w].count \in Nat
  BY DEF IInv, TypeOK
<1>. QED BY <1>1, <1>3, <1>4, AccessKeeps

\* What rm_vec_push_empty leaves in the vector are elements, written or not.
LEMMA LeftElements ==
  ASSUME IInv, NEW v \in Vectors, IsIdle, vec[v].isLive, NEW n \in Nat \ {0}
  PROVE  Left(v, n) \in Seq(Elements) /\ Len(Left(v, n)) = n
<1>1. /\ vec[v].count \in Nat /\ vec[v].capacity \in Nat
      /\ vec[v].capacity = Len(ElementsOf(Data(v)))
      /\ Data(v) = Null => vec[v].capacity = 0
      /\ Data(v) # Null => Data(v) \in DOMAIN heap
  BY VectorFacts
<1>2. ASSUME NEW i \in 1 .. n, vec[v].count + i <= vec[v].capacity
      PROVE  heap[vec[v].data][vec[v].count + i] \in Elements
  <2>1. vec[v].count + i \in 1 .. vec[v].capacity /\ Data(v) # Null
    BY <1>1, <1>2
  <2>2. heap[Data(v)] \in Seq(Elements) /\ vec[v].capacity = Len(heap[Data(v)])
    BY <1>1, <2>1 DEF IInv, TypeOK, ElementsOf
  <2>. QED BY <2>1, <2>2 DEF Data
<1>3. \A i \in 1 .. n : (IF vec[v].count + i <= vec[v].capacity
                         THEN heap[vec[v].data][vec[v].count + i]
                         ELSE Garbage) \in Elements
  BY <1>2, GarbageAssumption
<1>. QED BY <1>3 DEF Left

\* A push adds a sequence of elements, written ones or those that are there.
LEMMA PushesAre ==
  ASSUME IInv, NEW v \in Vectors, Pushing(v)
  PROVE  \E new \in Seq(Elements), returnsPointer \in BOOLEAN :
           Push(v, new, returnsPointer) \/ PushMult(v, new, returnsPointer)
<1>. DEFINE Goal == \E new \in Seq(Elements), returnsPointer \in BOOLEAN :
                      Push(v, new, returnsPointer) \/ PushMult(v, new, returnsPointer)
<1>2. ASSUME NEW e \in Elements, Push(v, <<e>>, FALSE)
      PROVE  Goal
  <2>1. <<e>> \in Seq(Elements)
    OBVIOUS
  <2>. QED BY <1>2, <2>1
<1>3. ASSUME NEW n \in 1 .. MaxCount, NEW new \in [1 .. n -> Elements], PushMult(v, new, FALSE)
      PROVE  Goal
  <2>1. new \in Seq(Elements)
    BY SizesAssumption
  <2>. QED BY <1>3, <2>1
<1>4. ASSUME NEW n \in 1 .. MaxCount, PushMult(v, Left(v, n), TRUE)
      PROVE  Goal
  <2>1. IsIdle /\ vec[v].isLive
    BY <1>4 DEF PushMult, PushInPlace, StartPushMult, PushesTo
  <2>2. n \in Nat \ {0}
    BY SizesAssumption
  <2>3. Left(v, n) \in Seq(Elements)
    BY <2>1, <2>2, LeftElements
  <2>. QED BY <1>4, <2>3
<1>5. CASE Push(v, Left(v, 1), TRUE)
  <2>1. IsIdle /\ vec[v].isLive
    BY <1>5 DEF Push, PushInPlace, PushMoving, PushesTo
  <2>3. Left(v, 1) \in Seq(Elements)
    BY <2>1, LeftElements
  <2>. QED BY <1>5, <2>3
<1>. QED BY <1>2, <1>3, <1>4, <1>5 DEF Pushing

\* Pushing keeps the invariant.
LEMMA PushingKeeps ==
  ASSUME IInv, NEW v \in Vectors, Pushing(v)
  PROVE  IInv'
BY PushesAre, PushInPlaceKeeps, PushMovingKeeps, StartPushMultKeeps DEF Push, PushMult

-----------------------------------------------------------------------------
\* No vector is initialized and no block is allocated.
LEMMA InitHolds == Init => IInv
<1>. SUFFICES ASSUME Init PROVE IInv
  OBVIOUS
<1>0. /\ vec = [v \in Vectors |->
                  [isLive |-> FALSE, data |-> Null, count |-> 0, capacity |-> 0]]
      /\ heap = <<>> /\ given = <<>> /\ held = NoPointer /\ pushing = NoPush
  BY DEF Init
<1>1. DOMAIN <<>> = {} /\ <<>> = [x \in {} |-> 0]
  OBVIOUS
<1>2. vec \in [Vectors -> [isLive : BOOLEAN, data : Blocks \cup {Null},
                           count : Nat, capacity : Nat]]
  BY <1>0
<1>3. DOMAIN heap = {} /\ DOMAIN given = {} /\ Live = {} /\ IsIdle
  BY <1>0, <1>1 DEF Live, IsIdle, NoPush
<1>4. /\ heap \in [DOMAIN heap -> Seq(Elements)] /\ given \in [DOMAIN given -> Nat]
  BY <1>0, <1>1
<1>5. /\ held \in [block : Blocks \cup {Null}, index : Nat]
      /\ pushing \in [vector : Vectors \cup {Null}, new : Seq(Elements),
                      returnsPointer : BOOLEAN]
  BY <1>0 DEF NoPointer, NoPush
<1>6. TypeOK
  BY <1>2, <1>3, <1>4, <1>5 DEF TypeOK
<1>. QED BY <1>0, <1>3, <1>6 DEF IInv, CapacityTrue, BlocksOwned, PointerLive, PushUnderway,
         GivenFits

\* The invariant is inductive.
LEMMA InvStep == IInv /\ [Next]_vars => IInv'
<1>. SUFFICES ASSUME IInv, [Next]_vars PROVE IInv'
  OBVIOUS
<1>1. ASSUME NEW v \in Vectors, Living(v) \/ Sizing(v) \/ Pushing(v) \/ Accessing(v)
      PROVE  IInv'
  BY <1>1, LivingKeeps, SizingKeeps, PushingKeeps, AccessingKeeps
<1>2. ASSUME NEW block \in DOMAIN given, FreeGiven(block) PROVE IInv'
  BY <1>2, FreeGivenKeeps
<1>3. ASSUME NEW e \in Elements, WriteHeld(e) PROVE IInv'
  BY <1>3, WriteHeldKeeps
<1>4. CASE DoubleCapacity \/ EndPushMult
  BY <1>4, DoubleCapacityKeeps, EndPushMultKeeps
<1>5. CASE UNCHANGED vars
  BY <1>5 DEF vars, IInv, TypeOK, CapacityTrue, BlocksOwned, PointerLive, PushUnderway,
     GivenFits, Live, Count, Capacity, ElementsOf, IsPushing, IsIdle
<1>. QED BY <1>1, <1>2, <1>3, <1>4, <1>5 DEF Next

\* Between and inside the operations of the vectors, the invariant holds.
THEOREM InvariantHolds == Spec => []IInv
BY InitHolds, InvStep, PTL DEF Spec

\* The types of the vectors and of the heap hold.
THEOREM TypesHold == Spec => []TypeOK
<1>1. IInv => TypeOK
  BY DEF IInv
<1>. QED BY <1>1, InvariantHolds, PTL

\* "capacity" is what fits into the block, for any number of vectors, any start
\* capacity and any sequence of operations (rm_vec.h:15).
THEOREM CapacityIsTrue == Spec => []CapacityTrue
<1>1. IInv => CapacityTrue
  BY DEF IInv
<1>. QED BY <1>1, InvariantHolds, PTL

\* Nothing leaks, nothing has two owners.
THEOREM BlocksAreOwned == Spec => []BlocksOwned
<1>1. IInv => BlocksOwned
  BY DEF IInv
<1>. QED BY <1>1, InvariantHolds, PTL

\* A pointer to an element is good until an operation that ends it.
THEOREM PointersAreLive == Spec => []PointerLive
<1>1. IInv => PointerLive
  BY DEF IInv
<1>. QED BY <1>1, InvariantHolds, PTL

-----------------------------------------------------------------------------
\* An operation on a vector that lives changes no block that it does not own.
LEMMA OwnBlocksOnly ==
  ASSUME IInv, NEW v \in Vectors,
         Living(v) \/ Sizing(v) \/ Pushing(v) \/ Accessing(v),
         NEW b \in DOMAIN heap, vec[v].isLive => b # Data(v)
  PROVE  b \in DOMAIN heap' /\ heap'[b] = heap[b]
<1>1. b \in DOMAIN heap /\ b \in Blocks /\ b # Null
  BY NullAssumption DEF IInv, TypeOK
<1>2. vec[v].isLive => b # Data(v)
  OBVIOUS
<1>3. ASSUME NEW block \in Places(Data(v)), NEW s, vec[v].isLive,
             heap' = HeapWith(Data(v), block, s)
      PROVE  b \in DOMAIN heap' /\ heap'[b] = heap[b]
  <2>1. block # b
    BY <1>1, <1>2, <1>3 DEF Places, Unused
  <2>. QED BY <2>1, <1>1, <1>2, <1>3 DEF HeapWith, With, Without
<1>4. ASSUME NEW block \in Unused, NEW s, heap' = With(heap, block, s)
      PROVE  b \in DOMAIN heap' /\ heap'[b] = heap[b]
  BY <1>1, <1>4 DEF With, Unused
<1>5. ASSUME vec[v].isLive, heap' = Without(heap, Data(v)) PROVE b \in DOMAIN heap' /\ heap'[b] = heap[b]
  BY <1>1, <1>2, <1>5 DEF Without
<1>6. ASSUME vec[v].isLive, NEW s, heap' = [heap EXCEPT ![Data(v)] = s] PROVE b \in DOMAIN heap' /\ heap'[b] = heap[b]
  BY <1>1, <1>2, <1>6 
<1>7. CASE Living(v)
  BY <1>4, <1>5, <1>7
  DEF Living, InitVec, Dispose, Unwrap, DupContent, Dup, Data
<1>8. CASE Sizing(v)
  BY <1>3, <1>5, <1>8 DEF Sizing, EnsureCapacity, TrimCapacity, Moved, Data
<1>9. ASSUME NEW new, NEW returnsPointer,
             \/ PushInPlace(v, new, returnsPointer) \/ PushMoving(v, new, returnsPointer)
             \/ StartPushMult(v, new, returnsPointer)
      PROVE  b \in DOMAIN heap' /\ heap'[b] = heap[b]
  BY <1>3, <1>6, <1>9 DEF PushInPlace, PushMoving, StartPushMult, PushesTo, Moved, Data
<1>10. CASE Pushing(v)
  BY <1>9, <1>10 DEF Pushing, Push, PushMult
<1>11. CASE Accessing(v)
  <2>1. ASSUME NEW i, NEW e, SetElement(v, i, e) PROVE b \in DOMAIN heap' /\ heap'[b] = heap[b]
    BY <2>1, <1>6 DEF SetElement, Data
  <2>. QED BY <2>1, <1>11 DEF Accessing, Pop, Clear, CountReset, PtrAt
<1>. QED BY <1>7, <1>8, <1>10, <1>11

\* No step changes an array that the client was given.
LEMMA GivenStep ==
  ASSUME IInv, [Next]_vars, NEW b \in DOMAIN given, b \in DOMAIN heap', b \in DOMAIN given'
  PROVE  heap'[b] = heap[b]
<1>1. b \in DOMAIN heap
  BY DEF IInv, TypeOK
<1>2. ASSUME NEW v \in Vectors, Living(v) \/ Sizing(v) \/ Pushing(v) \/ Accessing(v)
      PROVE  heap'[b] = heap[b]
  <2>1. vec[v].isLive => b # Data(v)
    BY <1>1, VectorFacts, NullAssumption DEF IInv, TypeOK
  <2>. QED BY <1>1, <1>2, <2>1, OwnBlocksOnly
<1>3. ASSUME NEW block \in DOMAIN given, FreeGiven(block)
      PROVE  heap'[b] = heap[b]
  BY <1>1, <1>3 DEF FreeGiven, Without
<1>4. ASSUME NEW e \in Elements, WriteHeld(e)
      PROVE  heap'[b] = heap[b]
  <2>1. /\ held.block \in DOMAIN heap
        /\ \E v \in Live : vec[v].data = held.block
        /\ heap' = [heap EXCEPT ![held.block][held.index] = e]
    BY <1>4 DEF WriteHeld, IInv, PointerLive
  <2>2. held.block # b
    BY <2>1, VectorFacts, NullAssumption, ZenonT(40) DEF Live, Data, IInv, TypeOK
  <2>. QED BY <2>1, <2>2, <1>1
<1>5. CASE EndPushMult
  <2>. DEFINE v == pushing.vector
  <2>1. v \in Vectors /\ vec[v].isLive
    BY <1>5 DEF EndPushMult, IInv, PushUnderway, Live
  <2>2. b # Data(v) /\ b # Null
    BY <2>1, <1>1, VectorFacts, NullAssumption DEF IInv, TypeOK
  <2>3. PICK block \in Places(Data(v)) : \E s : heap' = HeapWith(Data(v), block, s)
    BY <1>5 DEF EndPushMult, Moved, Data
  <2>4. block # b
    BY <2>2, <1>1 DEF Places, Unused
  <2>. HIDE DEF v
  <2>. QED BY <2>2, <2>3, <2>4, <1>1 DEF HeapWith, With, Without
<1>6. CASE DoubleCapacity \/ UNCHANGED vars
  BY <1>6 DEF DoubleCapacity, vars
<1>. QED BY <1>2, <1>3, <1>4, <1>5, <1>6 DEF Next

\* What rm_vec_unwrap and rm_vec_dup_content return is the client's alone.
THEOREM GivenIsUntouched == Spec => GivenUntouched
<1>. DEFINE Untouched ==
       \A block \in DOMAIN given \cap DOMAIN given' :
         /\ block \in DOMAIN heap \cap DOMAIN heap'
         /\ heap'[block] = heap[block]
         /\ given'[block] <= Len(heap[block])
<1>1. IInv /\ IInv' /\ [Next]_vars => Untouched
  <2>. SUFFICES ASSUME IInv, IInv', [Next]_vars, NEW b \in DOMAIN given, b \in DOMAIN given'
                PROVE  /\ b \in DOMAIN heap /\ b \in DOMAIN heap'
                       /\ heap'[b] = heap[b] /\ given'[b] <= Len(heap[b])
    OBVIOUS
  <2>1. b \in DOMAIN heap /\ b \in DOMAIN heap' /\ given'[b] <= Len(heap'[b])
    BY DEF IInv, TypeOK, GivenFits
  <2>. QED BY <2>1, GivenStep
<1>. QED BY <1>1, InvariantHolds, PTL DEF Spec, GivenUntouched

-----------------------------------------------------------------------------
(***************************************************************************)
(* The refinement: every step of Vec is a step on one of the sequences or  *)
(* leaves all of them.                                                     *)
(***************************************************************************)
\* What a vector shows is what its block begins with.
ShowsItsBlock ==
  \A v \in Live :
    /\ Count(v) \in Nat
    /\ Count(v) > 0 => /\ Data(v) \in DOMAIN heap /\ heap[Data(v)] \in Seq(Elements)
                       /\ Count(v) <= Len(heap[Data(v)])
    /\ Contents[v] = [i \in 1 .. Count(v) |-> heap[Data(v)][i]]
    /\ Contents[v] \in Seq(Elements) /\ Len(Contents[v]) = Count(v)
    /\ Contents[v] # Null

\* What a vector shows is a sequence of elements.
LEMMA ShownIs == IInv => ShowsItsBlock
<1>. SUFFICES ASSUME IInv, NEW v \in Live
              PROVE  /\ Count(v) \in Nat
                     /\ Count(v) > 0 =>
                          /\ Data(v) \in DOMAIN heap /\ heap[Data(v)] \in Seq(Elements)
                          /\ Count(v) <= Len(heap[Data(v)])
                     /\ Contents[v] = [i \in 1 .. Count(v) |-> heap[Data(v)][i]]
                     /\ Contents[v] \in Seq(Elements) /\ Len(Contents[v]) = Count(v)
                     /\ Contents[v] # Null
  BY DEF ShowsItsBlock
<1>1. /\ v \in Vectors /\ vec[v].isLive /\ vec[v].count \in Nat
      /\ Data(v) # Null => Data(v) \in DOMAIN heap
      /\ IsIdle => vec[v].count <= vec[v].capacity
  BY VectorFacts DEF Live
<1>3. Count(v) \in Nat
  <2>1. CASE IsPushing(v)
    BY <2>1, <1>1, NullAssumption DEF IInv, PushUnderway, IsIdle, IsPushing, Count
  <2>2. CASE ~IsPushing(v)
    BY <2>2, <1>1 DEF Count
  <2>. QED BY <2>1, <2>2
<1>4. Count(v) > 0 => /\ Data(v) \in DOMAIN heap /\ heap[Data(v)] \in Seq(Elements)
                      /\ Count(v) <= Len(heap[Data(v)])
  <2>1. Count(v) <= Capacity(v) /\ (Data(v) = Null => Capacity(v) = 0)
    BY DEF IInv, CapacityTrue, Data
  <2>. QED BY <2>1, <1>1, <1>3 DEF IInv, TypeOK, Capacity, ElementsOf, Data
<1>5. Contents[v] = [i \in 1 .. Count(v) |-> heap[Data(v)][i]]
  BY <1>1 DEF Contents, Count, IsPushing, Data
<1>6. \A i \in 1 .. Count(v) : heap[Data(v)][i] \in Elements
  BY <1>3, <1>4
<1>7. Contents[v] \in Seq(Elements) /\ Len(Contents[v]) = Count(v)
  BY <1>3, <1>5, <1>6
<1>8. Contents[v] # Null
  BY <1>7, NullAssumption
<1>. QED BY <1>3, <1>4, <1>5, <1>7, <1>8

\* A vector whose number of elements and whose elements stay shows the same.
LEMMA ShownKept ==
  ASSUME IInv, NEW v \in Vectors,
         vec'[v].isLive = vec[v].isLive,
         vec[v].isLive => /\ Count(v)' = Count(v)
                          /\ \A i \in 1 .. Count(v) : heap'[vec'[v].data][i] = heap[Data(v)][i]
  PROVE  Contents'[v] = Contents[v]
BY DEF Contents, Count, IsPushing, Data

OthersStay(v) == \A w \in Vectors : w # v => Contents'[w] = Contents[w]

\* When the others stay, the sequence of one vector is exchanged.
LEMMA OneChanges ==
  ASSUME NEW v \in Vectors, OthersStay(v)
  PROVE  Contents' = [Contents EXCEPT ![v] = Contents'[v]]
<1>1. /\ DOMAIN Contents = Vectors /\ DOMAIN Contents' = Vectors
      /\ Contents = [w \in Vectors |-> Contents[w]]
      /\ Contents' = [w \in Vectors |-> Contents'[w]]
  BY DEF Contents, Count, IsPushing
<1>. QED BY <1>1 DEF OthersStay

\* A vector may keep its elements, and have more.
LEMMA ExtendsIt ==
  ASSUME IInv, IInv', NEW v \in Live, v \in Live', OthersStay(v),
         Count(v) <= Count(v)',
         \A i \in 1 .. Count(v) : heap'[vec'[v].data][i] = heap[Data(v)][i]
  PROVE  Abstract!Next
<1>1. /\ v \in Vectors /\ Count(v) \in Nat
      /\ Contents[v] = [i \in 1 .. Count(v) |-> heap[Data(v)][i]]
      /\ Contents[v] \in Seq(Elements) /\ Len(Contents[v]) = Count(v) /\ Contents[v] # Null
  BY ShownIs DEF ShowsItsBlock, Live
<1>2. ShowsItsBlock'
  BY ShownIs, PTL
<1>3. /\ Count(v)' \in Nat
      /\ Contents'[v] = [i \in 1 .. Count(v)' |-> heap'[vec'[v].data][i]]
      /\ Contents'[v] \in Seq(Elements) /\ Len(Contents'[v]) = Count(v)' /\ Contents'[v] # Null
  BY <1>2 DEF ShowsItsBlock, Data
<1>4. \A i \in DOMAIN Contents[v] : Contents'[v][i] = Contents[v][i]
  BY <1>1, <1>3
<1>5. Contents' = [Contents EXCEPT ![v] = Contents'[v]]
  BY <1>1, OneChanges
<1>6. Abstract!Extend(v)
  BY <1>1, <1>3, <1>4, <1>5 DEF Abstract!Extend, Abstract!IsLive, Abstract!Becomes
<1>. QED BY <1>1, <1>6 DEF Abstract!Next

\* What happens to one vector does not happen to another one.
LEMMA OthersKept ==
  ASSUME IInv, NEW v \in Vectors,
         pushing.vector \in {Null, v}, pushing'.vector \in {Null, v},
         \A w \in Vectors : w # v => vec'[w] = vec[w],
         \A b \in DOMAIN heap : (vec[v].isLive => b # Data(v))
                                  => b \in DOMAIN heap' /\ heap'[b] = heap[b]
  PROVE  OthersStay(v)
<1>1. ASSUME NEW w \in Vectors, w # v
      PROVE  Contents'[w] = Contents[w]
  <2>1. vec'[w] = vec[w]
    BY <1>1
  <2>2. Count(w)' = Count(w)
    BY <1>1, <2>1, NullAssumption DEF Count, IsPushing
  <2>3. ASSUME vec[w].isLive, NEW i \in 1 .. Count(w)
        PROVE  heap'[vec'[w].data][i] = heap[Data(w)][i]
    <3>1. w \in Live
      BY <1>1, <2>3 DEF Live
    <3>2. Data(w) \in DOMAIN heap
      <4>1. Count(w) \in Nat /\ (Count(w) > 0 => Data(w) \in DOMAIN heap)
        BY <3>1, ShownIs DEF ShowsItsBlock
      <4>2. Count(w) > 0
        BY <2>3, <4>1
      <4>. QED BY <4>1, <4>2
    <3>3. vec[v].isLive => Data(w) # Data(v)
      BY <3>2, <2>3, <1>1, VectorFacts, NullAssumption DEF IInv, TypeOK
    <3>4. heap'[Data(w)] = heap[Data(w)]
      BY <3>2, <3>3
    <3>. QED BY <3>4, <2>1 DEF Data
  <2>. QED BY <1>1, <2>1, <2>2, <2>3, ShownKept
<1>. QED BY <1>1 DEF OthersStay

\* The operations on a vector leave the others as they are.
LEMMA OthersUntouched ==
  ASSUME IInv, NEW v \in Vectors,
         \/ InitVec(v) \/ Dispose(v) \/ Unwrap(v) \/ DupContent(v)
         \/ Sizing(v) \/ Pushing(v) \/ Accessing(v)
  PROVE  OthersStay(v)
<1>1. IsIdle
  BY DEF InitVec, Dispose, Unwrap, DupContent, Sizing, EnsureCapacity, TrimCapacity,
     Pushing, Push, PushMult, PushInPlace, PushMoving, StartPushMult, PushesTo,
     Accessing, Pop, Clear, PtrAt, SetElement
<1>2. /\ vec \in [Vectors -> [isLive : BOOLEAN, data : Blocks \cup {Null},
                              count : Nat, capacity : Nat]]
      /\ pushing.vector = Null
  BY <1>1 DEF IInv, TypeOK, IsIdle
<1>3. \A w \in Vectors : w # v => vec'[w] = vec[w]
  BY <1>2 DEF InitVec, Dispose, Unwrap, Unwrapped, Released, DupContent, Sizing,
     EnsureCapacity, TrimCapacity, Moved, Pushing, Push, PushMult, PushInPlace,
     PushMoving, StartPushMult, Accessing, Pop, Clear, CountReset, PtrAt, SetElement
<1>4. pushing'.vector \in {Null, v}
  <2>1. ASSUME NEW new, NEW returnsPointer,
               Push(v, new, returnsPointer) \/ PushMult(v, new, returnsPointer)
        PROVE  pushing'.vector \in {Null, v}
    <3>1. CASE PushInPlace(v, new, returnsPointer) \/ PushMoving(v, new, returnsPointer)
      BY <3>1, <1>2 DEF PushInPlace, PushMoving
    <3>2. CASE StartPushMult(v, new, returnsPointer)
      BY <3>2 DEF StartPushMult
    <3>. QED BY <2>1, <3>1, <3>2 DEF Push, PushMult
  <2>2. CASE Pushing(v)
    BY <2>1, <2>2 DEF Pushing
  <2>3. CASE InitVec(v) \/ Dispose(v) \/ Unwrap(v) \/ DupContent(v) \/ Sizing(v)
    BY <2>3, <1>2 DEF InitVec, Dispose, Unwrap, DupContent, Sizing,
       EnsureCapacity, TrimCapacity
  <2>4. CASE Accessing(v)
    BY <2>4, <1>2 DEF Accessing, Pop, Clear, PtrAt, SetElement
  <2>. QED BY <2>2, <2>3, <2>4
<1>5. \A b \in DOMAIN heap : (vec[v].isLive => b # Data(v))
                               => b \in DOMAIN heap' /\ heap'[b] = heap[b]
  BY OwnBlocksOnly DEF Living
<1>. QED BY <1>2, <1>3, <1>4, <1>5, OthersKept

-----------------------------------------------------------------------------
\* Between two calls every element counts.
LEMMA IdleCount ==
  ASSUME IInv, NEW v \in Vectors, IsIdle
  PROVE  Count(v) = vec[v].count /\ Count(v) \in Nat
<1>1. ~IsPushing(v)
  BY NullAssumption DEF IsIdle, IsPushing
<1>. QED BY <1>1 DEF Count, IInv, TypeOK

\* A block that is as long as before or longer begins with the same elements.
LEMMA ResizedBegins ==
  ASSUME IInv, NEW v \in Live, NEW n \in Nat, NEW i \in 1 .. Count(v), i <= n
  PROVE  /\ Resized(Data(v), n)[i] = heap[Data(v)][i]
         /\ i \in DOMAIN Resized(Data(v), n)
<1>1. Count(v) \in Nat
  BY ShownIs DEF ShowsItsBlock
<1>2. /\ Data(v) \in DOMAIN heap /\ heap[Data(v)] \in Seq(Elements)
      /\ Count(v) <= Len(heap[Data(v)])
  <2>1. Count(v) > 0
    BY <1>1
  <2>. QED BY <2>1, ShownIs DEF ShowsItsBlock
<1>3. Data(v) # Null
  BY <1>2, NullAssumption DEF IInv, TypeOK
<1>4. i \in DOMAIN ElementsOf(Data(v)) /\ i \in 1 .. n
  BY <1>1, <1>2, <1>3 DEF ElementsOf
<1>. QED BY <1>4 DEF Resized

\* New elements are written behind those that are there.
LEMMA WrittenBegins ==
  ASSUME NEW s, NEW new, NEW count \in Nat, NEW i \in 1 .. count, i \in DOMAIN s
  PROVE  Written(s, count, new)[i] = s[i]
<1>1. i \notin count + 1 .. count + Len(new)
  OBVIOUS
<1>. QED BY <1>1 DEF Written

\* The elements of v are at the beginning of another block, or of the same.
LEMMA MovedExtends ==
  ASSUME IInv, IInv', NEW v \in Live, OthersStay(v), NEW block, NEW s, NEW count,
         Moved(v, block, s, count), Count(v) <= Count(v)',
         \A i \in 1 .. Count(v) : s[i] = heap[Data(v)][i]
  PROVE  Abstract!Next
<1>1. v \in Vectors /\ vec[v].isLive /\ vec[v] \in [isLive : BOOLEAN,
         data : Blocks \cup {Null}, count : Nat, capacity : Nat]
      /\ vec \in [Vectors -> [isLive : BOOLEAN, data : Blocks \cup {Null},
                              count : Nat, capacity : Nat]]
  BY DEF IInv, TypeOK, Live
<1>2. vec'[v].isLive /\ vec'[v].data = block
  BY <1>1 DEF Moved
<1>3. heap'[block] = s
  BY DEF Moved, HeapWith, With
<1>4. v \in Live'
  BY <1>1, <1>2 DEF Live
<1>. QED BY <1>2, <1>3, <1>4, ExtendsIt

\* The same in the next state, for a vector that no push is under way of.
LEMMA CountNext ==
  ASSUME IInv', NEW v \in Vectors, pushing'.vector # v
  PROVE  Count(v)' = vec'[v].count
<1>1. vec'[v].count \in Nat
  BY DEF IInv, TypeOK
<1>2. ~IsPushing(v)'
  BY DEF IsPushing
<1>. QED BY <1>1, <1>2 DEF Count

\* Initializing a vector creates an empty sequence.
LEMMA InitVecCreates ==
  ASSUME IInv, IInv', NEW v \in Vectors, InitVec(v)
  PROVE  Abstract!Next
<1>1. /\ IsIdle /\ ~vec[v].isLive /\ pushing' = pushing
      /\ vec'[v].isLive /\ vec'[v].count = 0
  BY DEF InitVec, IInv, TypeOK
<1>2. v \in Live' /\ Count(v)' = 0
  <2>1. pushing'.vector # v
    BY <1>1, NullAssumption DEF IsIdle
  <2>2. Count(v)' = vec'[v].count
    BY <2>1, CountNext
  <2>. QED BY <1>1, <2>2 DEF Live
<1>3. ShowsItsBlock'
  BY ShownIs, PTL
<1>4. Contents'[v] \in Seq(Elements) /\ Len(Contents'[v]) = 0
  BY <1>2, <1>3 DEF ShowsItsBlock
<1>5. Contents'[v] = <<>>
  BY <1>4
<1>6. Contents[v] = Null
  BY <1>1 DEF Contents, Count, IsPushing
<1>7. Contents' = [Contents EXCEPT ![v] = Contents'[v]]
  BY OthersUntouched, OneChanges
<1>8. Abstract!Create(v)
  BY <1>5, <1>6, <1>7 DEF Abstract!Create, Abstract!IsLive, Abstract!Becomes
<1>. QED BY <1>8 DEF Abstract!Next

\* Disposing and unwrapping end it.
LEMMA EndsDrop ==
  ASSUME IInv, IInv', NEW v \in Vectors, Dispose(v) \/ Unwrap(v)
  PROVE  Abstract!Next
<1>1. v \in Live /\ vec' = Released(v)
  BY DEF Dispose, Unwrap, Unwrapped, Live
<1>2. ~vec'[v].isLive
  BY <1>1, ReleasedVector
<1>3. Contents'[v] = Null
  BY <1>2 DEF Contents, Count, IsPushing
<1>4. Contents[v] # Null
  BY <1>1, ShownIs DEF ShowsItsBlock
<1>5. Contents' = [Contents EXCEPT ![v] = Contents'[v]]
  BY OthersUntouched, OneChanges
<1>6. Abstract!Drop(v)
  BY <1>3, <1>4, <1>5 DEF Abstract!Drop, Abstract!IsLive, Abstract!Becomes
<1>. QED BY <1>6 DEF Abstract!Next

\* A duplicate is a copy.
LEMMA DupCopies ==
  ASSUME IInv, IInv', NEW v \in Vectors, NEW w \in Vectors, Dup(v, w)
  PROVE  Abstract!Next
<1>1. /\ IsIdle /\ vec[v].isLive /\ ~vec[w].isLive /\ v # w
      /\ pushing' = pushing /\ pushing.vector = Null
  BY DEF Dup, IsIdle
<1>2. /\ Count(v) = vec[v].count /\ Count(v) \in Nat /\ v \in Live
      /\ vec \in [Vectors -> [isLive : BOOLEAN, data : Blocks \cup {Null},
                              count : Nat, capacity : Nat]]
  BY <1>1, IdleCount DEF Live, IInv, TypeOK
<1>3. /\ vec'[w].isLive /\ vec'[w].count = Count(v)
      /\ \A u \in Vectors : u # w => vec'[u] = vec[u]
      /\ \/ /\ Count(v) > 0
            /\ \E block \in Unused :
                 /\ heap' = With(heap, block, Resized(Data(v), Count(v)))
                 /\ vec'[w].data = block
         \/ Count(v) = 0 /\ heap' = heap
  BY <1>2 DEF Dup, Data, DupCapacity
<1>4. \A b \in DOMAIN heap : b \in DOMAIN heap' /\ heap'[b] = heap[b]
  BY <1>3 DEF With, Unused
<1>5. OthersStay(w)
  BY <1>1, <1>3, <1>4, OthersKept
<1>6. w \in Live' /\ Count(w)' = Count(v)
  <2>1. pushing'.vector # w
    BY <1>1, NullAssumption
  <2>2. Count(w)' = vec'[w].count
    BY <1>2, <1>3, <2>1 DEF Count, IsPushing
  <2>. QED BY <1>3, <2>2 DEF Live
<1>7. ShowsItsBlock /\ ShowsItsBlock'
  BY ShownIs, PTL
<1>8. /\ Contents[v] = [i \in 1 .. Count(v) |-> heap[Data(v)][i]]
      /\ Contents'[w] = [i \in 1 .. Count(v) |-> heap'[vec'[w].data][i]]
      /\ Contents[v] # Null /\ Contents[v] \in Seq(Elements)
  BY <1>2, <1>6, <1>7 DEF ShowsItsBlock, Data
<1>9. \A i \in 1 .. Count(v) : heap'[vec'[w].data][i] = heap[Data(v)][i]
  <2>. SUFFICES ASSUME NEW i \in 1 .. Count(v)
                PROVE  heap'[vec'[w].data][i] = heap[Data(v)][i]
    OBVIOUS
  <2>1. Count(v) > 0
    BY <1>2
  <2>2. heap'[vec'[w].data] = Resized(Data(v), Count(v))
    <3>1. PICK block \in Unused :
            /\ heap' = With(heap, block, Resized(Data(v), Count(v)))
            /\ vec'[w].data = block
      BY <2>1, <1>3
    <3>2. With(heap, block, Resized(Data(v), Count(v)))[block] = Resized(Data(v), Count(v))
      BY DEF With
    <3>. QED BY <3>1, <3>2
  <2>. QED BY <2>2, <1>2, ResizedBegins
<1>10. Contents'[w] = Contents[v]
  BY <1>8, <1>9
<1>11. Contents[w] = Null
  BY <1>1 DEF Contents, Count, IsPushing
<1>12. Contents' = [Contents EXCEPT ![w] = Contents'[w]]
  BY <1>5, OneChanges
<1>13. Abstract!Copy(v, w)
  BY <1>8, <1>10, <1>11, <1>12 DEF Abstract!Copy, Abstract!IsLive, Abstract!Becomes
<1>. QED BY <1>13 DEF Abstract!Next

-----------------------------------------------------------------------------
\* The last element goes.
LEMMA PopRemoves ==
  ASSUME IInv, IInv', NEW v \in Vectors, Pop(v)
  PROVE  Abstract!Next
<1>1. /\ IsIdle /\ vec[v].isLive /\ vec[v].count > 0 /\ heap' = heap
      /\ vec' = [vec EXCEPT ![v].count = @ - 1] /\ pushing' = pushing
  BY DEF Pop
<1>2. Count(v) = vec[v].count /\ Count(v) \in Nat /\ v \in Live
  BY <1>1, IdleCount DEF Live
<1>3. /\ vec'[v].isLive /\ vec'[v].count = Count(v) - 1 /\ vec'[v].data = Data(v)
  BY <1>1, <1>2 DEF IInv, TypeOK, Data
<1>4. v \in Live' /\ Count(v)' = Count(v) - 1
  <2>1. pushing'.vector # v
    BY <1>1, NullAssumption DEF IsIdle
  <2>2. Count(v)' = vec'[v].count
    BY <2>1, CountNext
  <2>. QED BY <1>3, <2>2 DEF Live
<1>5. ShowsItsBlock /\ ShowsItsBlock'
  BY ShownIs, PTL
<1>6. /\ Contents[v] = [i \in 1 .. Count(v) |-> heap[Data(v)][i]]
      /\ Contents'[v] = [i \in 1 .. Count(v) - 1 |-> heap[Data(v)][i]]
      /\ Contents[v] # Null /\ Contents[v] \in Seq(Elements)
      /\ Len(Contents[v]) = Count(v)
  BY <1>1, <1>2, <1>3, <1>4, <1>5 DEF ShowsItsBlock, Data
<1>7. Contents'[v] = SubSeq(Contents[v], 1, Len(Contents[v]) - 1) /\ Contents[v] # <<>>
  BY <1>1, <1>2, <1>6
<1>8. Contents' = [Contents EXCEPT ![v] = Contents'[v]]
  BY OthersUntouched, OneChanges DEF Accessing
<1>9. Abstract!RemoveLast(v)
  BY <1>6, <1>7, <1>8 DEF Abstract!RemoveLast, Abstract!IsLive, Abstract!Becomes
<1>. QED BY <1>9 DEF Abstract!Next

\* Clearing leaves an empty sequence.
LEMMA ClearEmpties ==
  ASSUME IInv, IInv', NEW v \in Vectors, Clear(v)
  PROVE  Abstract!Next
<1>1. /\ IsIdle /\ vec[v].isLive /\ vec' = [vec EXCEPT ![v].count = 0]
      /\ pushing' = pushing
  BY DEF Clear, CountReset
<1>2. vec'[v].isLive /\ vec'[v].count = 0 /\ v \in Live
  BY <1>1 DEF IInv, TypeOK, Live
<1>3. v \in Live' /\ Count(v)' = 0
  <2>1. pushing'.vector # v
    BY <1>1, NullAssumption DEF IsIdle
  <2>2. Count(v)' = vec'[v].count
    BY <2>1, CountNext
  <2>. QED BY <1>2, <2>2 DEF Live
<1>4. ShowsItsBlock /\ ShowsItsBlock'
  BY ShownIs, PTL
<1>5. Contents'[v] \in Seq(Elements) /\ Len(Contents'[v]) = 0 /\ Contents[v] # Null
  BY <1>2, <1>3, <1>4 DEF ShowsItsBlock
<1>6. Contents'[v] = <<>>
  BY <1>5
<1>7. Contents' = [Contents EXCEPT ![v] = Contents'[v]]
  BY OthersUntouched, OneChanges DEF Accessing
<1>8. Abstract!Empty(v)
  BY <1>5, <1>6, <1>7 DEF Abstract!Empty, Abstract!IsLive, Abstract!Becomes
<1>. QED BY <1>8 DEF Abstract!Next

\* A vector keeps its number of elements when nothing but the heap changes.
LEMMA SameCounts ==
  ASSUME NEW v \in Vectors, vec' = vec, pushing' = pushing
  PROVE  Count(v)' = Count(v) /\ Data(v)' = Data(v) /\ Live' = Live
BY DEF Count, IsPushing, Data, Live

\* Writing an element of a block replaces an element, or none of the sequence.
LEMMA WriteReplaces ==
  ASSUME IInv, IInv', NEW v \in Live, NEW i \in DOMAIN heap[Data(v)], NEW e \in Elements,
         Data(v) \in DOMAIN heap, IsIdle,
         vec' = vec, pushing' = pushing, heap' = [heap EXCEPT ![Data(v)][i] = e]
  PROVE  Abstract!Next
<1>1. /\ v \in Vectors /\ vec[v].isLive /\ pushing.vector = Null
      /\ heap \in [DOMAIN heap -> Seq(Elements)]
  BY DEF Live, IInv, TypeOK, IsIdle
<1>2. Count(v)' = Count(v) /\ Data(v)' = Data(v) /\ v \in Live' /\ Count(v) \in Nat
  BY <1>1, SameCounts, IdleCount
<1>3. heap'[Data(v)] = [heap[Data(v)] EXCEPT ![i] = e]
  BY <1>1
<1>4. OthersStay(v)
  <2>1. \A b \in DOMAIN heap : (vec[v].isLive => b # Data(v))
                               => b \in DOMAIN heap' /\ heap'[b] = heap[b]
    BY <1>1
  <2>. QED BY <1>1, <2>1, OthersKept
<1>5. ASSUME ~(i <= Count(v)) PROVE Abstract!Next
  <2>1. \A j \in 1 .. Count(v) : heap'[vec'[v].data][j] = heap[Data(v)][j]
    <3>. SUFFICES ASSUME NEW j \in 1 .. Count(v)
                  PROVE  heap'[Data(v)][j] = heap[Data(v)][j]
      BY DEF Data
    <3>1. j # i
      BY <1>2, <1>5
    <3>2. heap[Data(v)] \in Seq(Elements) /\ Count(v) <= Len(heap[Data(v)])
      <4>1. Count(v) > 0
        BY <1>2
      <4>. QED BY <4>1, ShownIs DEF ShowsItsBlock
    <3>3. j \in DOMAIN heap[Data(v)]
      BY <1>2, <3>2
    <3>. QED BY <3>1, <3>3, <1>3
  <2>2. Count(v) <= Count(v)'
    BY <1>2
  <2>. QED BY <1>2, <1>4, <2>1, <2>2, ExtendsIt
<1>6. ASSUME i <= Count(v) PROVE Abstract!Next
  <2>1. ShowsItsBlock /\ ShowsItsBlock'
    BY ShownIs, PTL
  <2>2. /\ Contents[v] = [j \in 1 .. Count(v) |-> heap[Data(v)][j]]
        /\ Contents'[v] = [j \in 1 .. Count(v) |-> heap'[Data(v)][j]]
        /\ Contents[v] # Null
    BY <2>1, <1>2 DEF ShowsItsBlock
  <2>3. i \in 1 .. Count(v) /\ Count(v) <= Len(heap[Data(v)])
        /\ heap[Data(v)] \in Seq(Elements)
    <3>1. i \in 1 .. Len(heap[Data(v)])
      BY <1>1
    <3>2. Count(v) > 0
      BY <1>2, <1>6, <3>1
    <3>3. Count(v) <= Len(heap[Data(v)]) /\ heap[Data(v)] \in Seq(Elements)
      BY <3>2, <2>1 DEF ShowsItsBlock
    <3>. QED BY <1>2, <1>6, <3>1, <3>3
  <2>4. \A j \in 1 .. Count(v) : heap'[Data(v)][j] = IF j = i THEN e ELSE heap[Data(v)][j]
    BY <1>2, <1>3, <2>3
  <2>5. Contents'[v] = [Contents[v] EXCEPT ![i] = e]
    BY <2>2, <2>3, <2>4
  <2>6. Contents' = [Contents EXCEPT ![v] = Contents'[v]]
    BY <1>1, <1>4, OneChanges
  <2>7. Contents' = [Contents EXCEPT ![v][i] = e] /\ i \in DOMAIN Contents[v]
    BY <2>2, <2>3, <2>5, <2>6
  <2>8. Abstract!Replace(v)
    BY <2>2, <2>7 DEF Abstract!Replace, Abstract!IsLive
  <2>. QED BY <1>1, <2>8 DEF Abstract!Next
<1>7. i <= Count(v) \/ ~(i <= Count(v))
  OBVIOUS
<1>. QED BY <1>5, <1>6, <1>7

\* Writing to the heap through an index or through a pointer.
LEMMA SetElementReplaces ==
  ASSUME IInv, IInv', NEW v \in Vectors, NEW i, NEW e \in Elements, SetElement(v, i, e)
  PROVE  Abstract!Next
<1>1. /\ IsIdle /\ vec[v].isLive /\ i \in 1 .. vec[v].count /\ v \in Live
      /\ heap' = [heap EXCEPT ![Data(v)][i] = e] /\ vec' = vec /\ pushing' = pushing
  BY DEF SetElement, Data, Live
<1>2. Count(v) = vec[v].count /\ Count(v) \in Nat
  BY <1>1, IdleCount
<1>3. Count(v) > 0
  BY <1>1, <1>2
<1>4. /\ Data(v) \in DOMAIN heap /\ heap[Data(v)] \in Seq(Elements)
      /\ Count(v) <= Len(heap[Data(v)])
  BY <1>1, <1>3, ShownIs DEF ShowsItsBlock
<1>5. i \in DOMAIN heap[Data(v)]
  BY <1>1, <1>2, <1>4
<1>. QED BY <1>1, <1>4, <1>5, WriteReplaces

\* The pointer that the client holds is into the block of some vector.
LEMMA WriteHeldReplaces ==
  ASSUME IInv, IInv', NEW e \in Elements, WriteHeld(e)
  PROVE  Abstract!Next
<1>1. /\ IsIdle /\ held # NoPointer /\ vec' = vec /\ pushing' = pushing
      /\ heap' = [heap EXCEPT ![held.block][held.index] = e]
  BY DEF WriteHeld
<1>2. PICK v \in Live : Data(v) = held.block
  BY <1>1 DEF IInv, PointerLive, Data
<1>3. held.block \in DOMAIN heap /\ held.index \in DOMAIN heap[held.block]
  BY <1>1 DEF IInv, PointerLive
<1>. QED BY <1>1, <1>2, <1>3, WriteReplaces

-----------------------------------------------------------------------------
\* Another size of the block, or of none, changes no element.
LEMMA SizingExtends ==
  ASSUME IInv, IInv', NEW v \in Vectors, Sizing(v)
  PROVE  Abstract!Next
<1>1. /\ IsIdle /\ v \in Live /\ pushing' = pushing /\ pushing'.vector # v
  BY NullAssumption DEF Sizing, EnsureCapacity, TrimCapacity, Live, IsIdle
<1>2. /\ Count(v) = vec[v].count /\ Count(v) \in Nat /\ Count(v)' = vec'[v].count
      /\ vec[v].count <= vec[v].capacity /\ vec[v].capacity \in Nat
  BY <1>1, IdleCount, CountNext, VectorFacts DEF Live
<1>3. OthersStay(v)
  BY OthersUntouched
<1>4. vec \in [Vectors -> [isLive : BOOLEAN, data : Blocks \cup {Null},
                          count : Nat, capacity : Nat]]
  BY DEF IInv, TypeOK
<1>5. ASSUME NEW n \in Nat, Count(v) <= n, NEW block,
             Moved(v, block, Resized(vec[v].data, n), vec[v].count)
      PROVE  Abstract!Next
  <2>1. vec'[v].count = vec[v].count
    BY <1>4, <1>5 DEF Moved
  <2>2. \A i \in 1 .. Count(v) : Resized(vec[v].data, n)[i] = heap[Data(v)][i]
    BY <1>1, <1>2, <1>5, ResizedBegins DEF Data
  <2>3. Count(v) <= Count(v)'
    BY <1>2, <2>1
  <2>. QED BY <1>1, <1>3, <1>5, <2>2, <2>3, MovedExtends
<1>6. ASSUME NEW n \in 1 .. MaxCount, EnsureCapacity(v, n) PROVE Abstract!Next
  <2>1. n \in Nat /\ Count(v) <= n
    BY <1>2, <1>6, SizesAssumption DEF EnsureCapacity
  <2>. QED BY <1>5, <1>6, <2>1 DEF EnsureCapacity
<1>7. CASE TrimCapacity(v) /\ vec[v].count > 0
  BY <1>2, <1>5, <1>7 DEF TrimCapacity
<1>8. CASE TrimCapacity(v) /\ ~(vec[v].count > 0)
  <2>1. Count(v) = 0
    BY <1>2, <1>8
  <2>2. /\ vec' = [vec EXCEPT ![v].data = Null, ![v].capacity = 0]
    BY <1>8 DEF TrimCapacity
  <2>3. vec'[v].isLive /\ vec'[v].count = vec[v].count
    BY <1>1, <1>4, <2>2 DEF Live
  <2>4. v \in Live' /\ Count(v) <= Count(v)'
    BY <1>1, <1>2, <2>3 DEF Live
  <2>5. \A i \in 1 .. Count(v) : heap'[vec'[v].data][i] = heap[Data(v)][i]
    BY <2>1
  <2>. QED BY <1>1, <1>3, <2>4, <2>5, ExtendsIt
<1>. QED BY <1>6, <1>7, <1>8 DEF Sizing

\* A pointer to an element, and a duplicate for the client, change no vector.
LEMMA NothingExtends ==
  ASSUME IInv, IInv', NEW v \in Vectors,
         DupContent(v) \/ \E i \in 1 .. MaxCount : PtrAt(v, i)
  PROVE  Abstract!Next
<1>1. /\ v \in Live /\ vec' = vec /\ pushing' = pushing
  BY DEF DupContent, PtrAt, Live
<1>2. Count(v)' = Count(v) /\ Data(v)' = Data(v) /\ v \in Live'
  BY <1>1, SameCounts DEF Live
<1>3. Count(v) \in Nat /\ (Count(v) > 0 => Data(v) \in DOMAIN heap)
  BY <1>1, ShownIs DEF ShowsItsBlock
<1>4. \A b \in DOMAIN heap : heap'[b] = heap[b]
  BY DEF DupContent, PtrAt, With, Unused
<1>5. \A i \in 1 .. Count(v) : heap'[vec'[v].data][i] = heap[Data(v)][i]
  BY <1>2, <1>3, <1>4 DEF Data
<1>6. OthersStay(v)
  BY OthersUntouched DEF Accessing
<1>7. Count(v) <= Count(v)'
  BY <1>2, <1>3
<1>. QED BY <1>1, <1>2, <1>5, <1>6, <1>7, ExtendsIt

-----------------------------------------------------------------------------
\* A push that is done at once.
LEMMA PushInPlaceExtends ==
  ASSUME IInv, IInv', NEW v \in Vectors, NEW new \in Seq(Elements), NEW returnsPointer,
         PushInPlace(v, new, returnsPointer), OthersStay(v)
  PROVE  Abstract!Next
<1>1. /\ IsIdle /\ v \in Live /\ pushing' = pushing /\ Len(new) > 0
      /\ heap' = [heap EXCEPT ![Data(v)] = Written(heap[Data(v)], vec[v].count, new)]
      /\ vec' = [vec EXCEPT ![v].count = @ + Len(new)]
      /\ vec[v].count + Len(new) <= vec[v].capacity
  BY DEF PushInPlace, PushesTo, CanPush, Live, Data
<1>2. pushing'.vector # v
  BY <1>1, NullAssumption DEF IsIdle
<1>3. /\ Count(v) = vec[v].count /\ Count(v) \in Nat /\ Count(v)' = vec'[v].count
      /\ Len(new) \in Nat
      /\ vec \in [Vectors -> [isLive : BOOLEAN, data : Blocks \cup {Null},
                              count : Nat, capacity : Nat]]
  BY <1>1, <1>2, IdleCount, CountNext, SMTT(20) DEF IInv, TypeOK
<1>4. /\ vec'[v].isLive /\ vec'[v].data = Data(v)
      /\ vec'[v].count = vec[v].count + Len(new)
  BY <1>1, <1>3 DEF Live, Data
<1>5. \A i \in 1 .. Count(v) : heap'[vec'[v].data][i] = heap[Data(v)][i]
  <2>. SUFFICES ASSUME NEW i \in 1 .. Count(v)
                PROVE  heap'[Data(v)][i] = heap[Data(v)][i]
    BY <1>4
  <2>1. Count(v) > 0
    BY <1>3
  <2>2. /\ Data(v) \in DOMAIN heap /\ heap[Data(v)] \in Seq(Elements)
        /\ Count(v) <= Len(heap[Data(v)])
    BY <1>1, <2>1, ShownIs DEF ShowsItsBlock
  <2>3. i \in DOMAIN heap[Data(v)]
    BY <1>3, <2>2
  <2>4. Written(heap[Data(v)], vec[v].count, new)[i] = heap[Data(v)][i]
    BY <1>3, <2>3, WrittenBegins
  <2>. QED BY <1>1, <2>2, <2>4 DEF IInv, TypeOK
<1>6. v \in Live' /\ Count(v) <= Count(v)'
  BY <1>1, <1>3, <1>4 DEF Live
<1>. QED BY <1>1, <1>5, <1>6, ExtendsIt

\* A push of one element into a block that moves.
LEMMA PushMovingExtends ==
  ASSUME IInv, IInv', NEW v \in Vectors, NEW new \in Seq(Elements), NEW returnsPointer,
         PushMoving(v, new, returnsPointer), OthersStay(v)
  PROVE  Abstract!Next
<1>1. /\ IsIdle /\ v \in Live /\ pushing' = pushing
      /\ ~(vec[v].count + 1 <= vec[v].capacity)
  BY DEF PushMoving, PushesTo, CanPush, Live
<1>2. pushing'.vector # v
  BY <1>1, NullAssumption DEF IsIdle
<1>3. /\ Count(v) = vec[v].count /\ Count(v) \in Nat /\ Count(v)' = vec'[v].count
      /\ vec[v].count <= vec[v].capacity /\ vec[v].capacity \in Nat
  BY <1>1, <1>2, IdleCount, CountNext, VectorFacts DEF Live
<1>4. vec \in [Vectors -> [isLive : BOOLEAN, data : Blocks \cup {Null},
                          count : Nat, capacity : Nat]]
  BY DEF IInv, TypeOK
<1>. DEFINE n == Grown(vec[v].capacity)
            s == Written(Resized(vec[v].data, n), vec[v].count, new)
<1>5. PICK block : Moved(v, block, s, vec[v].count + 1)
  BY DEF PushMoving
<1>6. n \in Nat /\ Count(v) <= n
  BY <1>3, SizesAssumption DEF Grown
<1>7. \A i \in 1 .. Count(v) : s[i] = heap[Data(v)][i]
  BY <1>1, <1>3, <1>6, ResizedBegins, WrittenBegins DEF Data
<1>8. Count(v) <= Count(v)'
  BY <1>3, <1>4, <1>5 DEF Moved
<1>. QED BY <1>1, <1>5, <1>7, <1>8, MovedExtends

\* The beginning and the steps of a longer push change no element.
LEMMA StartPushMultExtends ==
  ASSUME IInv, IInv', NEW v \in Vectors, NEW new \in Seq(Elements), NEW returnsPointer,
         StartPushMult(v, new, returnsPointer), OthersStay(v)
  PROVE  Abstract!Next
<1>1. /\ IsIdle /\ v \in Live /\ heap' = heap
      /\ vec' = [vec EXCEPT ![v].count = @ + Len(new),
                            ![v].capacity = IF @ = 0 THEN StartCapacity ELSE @]
      /\ pushing' = [vector |-> v, new |-> new, returnsPointer |-> returnsPointer]
  BY DEF StartPushMult, PushesTo, Live
<1>2. Count(v) = vec[v].count /\ Count(v) \in Nat /\ Len(new) \in Nat
  BY <1>1, IdleCount
<1>3. vec \in [Vectors -> [isLive : BOOLEAN, data : Blocks \cup {Null},
                          count : Nat, capacity : Nat]]
  BY DEF IInv, TypeOK
<1>4. /\ vec'[v].isLive /\ vec'[v].data = Data(v)
      /\ vec'[v].count = vec[v].count + Len(new)
  BY <1>1, <1>3 DEF Live, Data
<1>5. Count(v)' = vec'[v].count - Len(new)
  BY <1>1 DEF Count, IsPushing
<1>6. v \in Live' /\ Count(v) <= Count(v)'
  BY <1>1, <1>2, <1>4, <1>5 DEF Live
<1>7. \A i \in 1 .. Count(v) : heap'[vec'[v].data][i] = heap[Data(v)][i]
  BY <1>1, <1>4
<1>. QED BY <1>6, <1>7, <1>1, ExtendsIt

\* Every push extends the sequence, or is the beginning of one that will.
LEMMA PushingExtends ==
  ASSUME IInv, IInv', NEW v \in Vectors, Pushing(v)
  PROVE  Abstract!Next
<1>1. OthersStay(v)
  BY OthersUntouched
<1>. QED BY <1>1, PushesAre, PushInPlaceExtends, PushMovingExtends, StartPushMultExtends
         DEF Push, PushMult

\* What a push that is under way is a push to.
LEMMA UnderwayFacts ==
  ASSUME IInv, ~IsIdle, NEW v, v = pushing.vector
  PROVE  /\ v \in Live /\ v \in Vectors /\ Count(v) = OldCount /\ Count(v) \in Nat
         /\ pushing.new \in Seq(Elements) /\ Len(pushing.new) \in Nat
         /\ vec[v].count = Count(v) + Len(pushing.new)
         /\ vec[v].capacity \in Nat
         /\ vec \in [Vectors -> [isLive : BOOLEAN, data : Blocks \cup {Null},
                                 count : Nat, capacity : Nat]]
<1>1. /\ v \in Live /\ v \in Vectors /\ Len(pushing.new) \in 1 .. vec[v].count
      /\ pushing.new \in Seq(Elements)
      /\ vec \in [Vectors -> [isLive : BOOLEAN, data : Blocks \cup {Null},
                              count : Nat, capacity : Nat]]
  BY DEF IInv, PushUnderway, TypeOK, Live
<1>2. Count(v) = vec[v].count - Len(pushing.new)
  BY DEF Count, IsPushing
<1>3. Count(v) = OldCount
  BY <1>2 DEF OldCount
<1>. QED BY <1>1, <1>2, <1>3

\* While the capacity doubles no element is touched.
LEMMA DoubleCapacityExtends ==
  ASSUME IInv, IInv', DoubleCapacity
  PROVE  Abstract!Next
<1>. DEFINE v == pushing.vector
<1>1. /\ ~IsIdle /\ heap' = heap /\ pushing' = pushing
      /\ vec' = [vec EXCEPT ![v].capacity = 2 * @]
  BY DEF DoubleCapacity
<1>. HIDE DEF v
<1>2. v = pushing.vector
  BY DEF v
<1>3. /\ v \in Live /\ v \in Vectors /\ Count(v) \in Nat
      /\ vec \in [Vectors -> [isLive : BOOLEAN, data : Blocks \cup {Null},
                              count : Nat, capacity : Nat]]
  BY <1>1, <1>2, UnderwayFacts
<1>4. /\ vec'[v].isLive /\ vec'[v].data = Data(v) /\ vec'[v].count = vec[v].count
      /\ \A w \in Vectors : w # v => vec'[w] = vec[w]
  BY <1>1, <1>3 DEF Live, Data
<1>5. OthersStay(v)
  BY <1>1, <1>2, <1>3, <1>4, OthersKept
<1>6. \A w \in Vectors : w = v => Count(w)' = Count(w)
  BY <1>1, <1>4 DEF Count, IsPushing
<1>7. \E w \in Live : /\ w \in Live' /\ OthersStay(w) /\ Count(w)' = Count(w)
                     /\ Count(w) \in Nat
                     /\ \A i \in 1 .. Count(w) : heap'[vec'[w].data][i] = heap[Data(w)][i]
  BY <1>1, <1>3, <1>4, <1>5, <1>6 DEF Live, Data
<1>. QED BY <1>7, ExtendsIt

\* The end of a longer push: now its elements count.
LEMMA EndPushMultExtends ==
  ASSUME IInv, IInv', EndPushMult
  PROVE  Abstract!Next
<1>1. ~IsIdle
  BY DEF EndPushMult
<1>2. PICK v \in Live : v = pushing.vector
  BY <1>1 DEF IInv, PushUnderway
<1>. DEFINE s == Written(Resized(vec[v].data, vec[v].capacity), OldCount, pushing.new)
<1>3. PICK block \in Places(vec[v].data) : Moved(v, block, s, vec[v].count)
  BY <1>2 DEF EndPushMult
<1>4. /\ ~IsIdle /\ pushing' = NoPush /\ vec[v].capacity >= vec[v].count
  BY <1>2 DEF EndPushMult
<1>5. /\ v \in Live /\ v \in Vectors /\ Count(v) = OldCount /\ Count(v) \in Nat
      /\ vec[v].count = Count(v) + Len(pushing.new) /\ vec[v].capacity \in Nat
      /\ Len(pushing.new) \in Nat
      /\ vec \in [Vectors -> [isLive : BOOLEAN, data : Blocks \cup {Null},
                              count : Nat, capacity : Nat]]
  BY <1>4, <1>2, UnderwayFacts
<1>6. pushing'.vector = Null /\ pushing'.vector # v
  BY <1>4, <1>5, NullAssumption DEF NoPush
<1>7. /\ vec'[v].count = vec[v].count /\ \A w \in Vectors : w # v => vec'[w] = vec[w]
  BY <1>3, <1>5 DEF Moved
<1>8. Count(v)' = vec[v].count
  BY <1>5, <1>6, <1>7, CountNext
<1>9. \A i \in 1 .. Count(v) : s[i] = heap[Data(v)][i]
  BY <1>4, <1>5, ResizedBegins, WrittenBegins DEF Data
<1>10. \A b \in DOMAIN heap : b # Data(v) => b \in DOMAIN heap' /\ heap'[b] = heap[b]
  <2>1. block \in Unused \/ block = Data(v)
    BY <1>3 DEF Places, Data
  <2>2. heap' = With(Without(heap, Data(v)), block, s)
    BY <1>3 DEF Moved, HeapWith, Data
  <2>. HIDE DEF s
  <2>. QED BY <2>1, <2>2 DEF With, Without, Unused
<1>11. OthersStay(v)
  BY <1>2, <1>5, <1>6, <1>7, <1>10, OthersKept DEF Live
<1>12. Moved(v, block, s, vec[v].count) /\ Count(v) <= Count(v)'
  BY <1>3, <1>5, <1>8
<1>. QED BY <1>5, <1>9, <1>11, <1>12, MovedExtends

\* Freeing an array that was given to the client changes no vector.
LEMMA FreeGivenStutters ==
  ASSUME IInv, NEW block \in DOMAIN given, FreeGiven(block)
  PROVE  Contents' = Contents
<1>1. /\ vec' = vec /\ pushing' = pushing /\ heap' = Without(heap, block)
  BY DEF FreeGiven
<1>2. ASSUME NEW v \in Vectors PROVE Contents'[v] = Contents[v]
  <2>1. Count(v)' = Count(v)
    BY <1>1, SameCounts
  <2>2. ASSUME vec[v].isLive, NEW i \in 1 .. Count(v)
        PROVE  heap'[vec'[v].data][i] = heap[Data(v)][i]
    <3>1. v \in Live
      BY <2>2 DEF Live
    <3>2. Count(v) \in Nat /\ (Count(v) > 0 => Data(v) \in DOMAIN heap)
      BY <3>1, ShownIs DEF ShowsItsBlock
    <3>3. Count(v) > 0
      BY <2>2, <3>2
    <3>4. Data(v) \in DOMAIN heap /\ Data(v) \notin DOMAIN given
      BY <2>2, <3>2, <3>3, VectorFacts, NullAssumption DEF IInv, TypeOK
    <3>. QED BY <1>1, <3>4 DEF Without, Data
  <2>. QED BY <1>1, <2>1, <2>2, ShownKept
<1>3. /\ DOMAIN Contents = Vectors /\ DOMAIN Contents' = Vectors
      /\ Contents = [w \in Vectors |-> Contents[w]]
      /\ Contents' = [w \in Vectors |-> Contents'[w]]
  BY DEF Contents, Count, IsPushing
<1>. QED BY <1>2, <1>3

\* No vector is initialized.
LEMMA InitRefined == Init => Abstract!Init
BY DEF Init, Abstract!Init, Contents, Count, IsPushing

\* Every step of the vectors is a step of the sequences or leaves them.
LEMMA StepRefined ==
  ASSUME IInv, IInv', [Next]_vars
  PROVE  [Abstract!Next]_Contents
<1>1. ASSUME NEW v \in Vectors, Living(v) PROVE Abstract!Next
  BY <1>1, InitVecCreates, EndsDrop, NothingExtends, DupCopies DEF Living
<1>2. ASSUME NEW v \in Vectors, Accessing(v) PROVE Abstract!Next
  BY <1>2, PopRemoves, ClearEmpties, NothingExtends, SetElementReplaces DEF Accessing
<1>3. ASSUME NEW v \in Vectors, Sizing(v) \/ Pushing(v) PROVE Abstract!Next
  BY <1>3, SizingExtends, PushingExtends
<1>4. ASSUME NEW block \in DOMAIN given, FreeGiven(block) PROVE Contents' = Contents
  BY <1>4, FreeGivenStutters
<1>5. ASSUME NEW e \in Elements, WriteHeld(e) PROVE Abstract!Next
  BY <1>5, WriteHeldReplaces
<1>6. ASSUME UNCHANGED vars PROVE Contents' = Contents
  BY <1>6 DEF vars, Contents, Count, IsPushing
<1>. QED BY <1>1, <1>2, <1>3, <1>4, <1>5, <1>6, DoubleCapacityExtends, EndPushMultExtends
         DEF Next

\* A vector implements a sequence, for any number of vectors and blocks, any
\* elements, any start capacity: what was pushed is there and in its order until
\* it is popped or overwritten, wherever reallocations moved it, and a duplicate
\* shares nothing with its original.
THEOREM VectorsAreSequences == Spec => ImplementsArrays
<1>1. Spec => []IInv
  BY InvariantHolds
<1>2. IInv /\ IInv' /\ [Next]_vars => [Abstract!Next]_Contents
  BY StepRefined
<1>. QED BY <1>1, <1>2, InitRefined, PTL DEF Spec, ImplementsArrays, Abstract!Spec

-----------------------------------------------------------------------------
(***************************************************************************)
(* The end that a sequence gets is what was pushed.                        *)
(***************************************************************************)
\* New elements are written one behind the other.
LEMMA WrittenEnds ==
  ASSUME NEW s, NEW new, NEW count \in Nat, Len(new) \in Nat,
         NEW i \in 1 .. Len(new), count + i \in DOMAIN s
  PROVE  Written(s, count, new)[count + i] = new[i]
<1>1. count + i \in count + 1 .. count + Len(new) /\ count + i - count = i
  OBVIOUS
<1>. QED BY <1>1 DEF Written

\* A vector whose block begins with the old elements and goes on with new ones.
LEMMA AppendsIt ==
  ASSUME IInv, IInv', NEW v \in Live, v \in Live', NEW new \in Seq(Elements),
         Count(v)' = Count(v) + Len(new), NEW s, heap'[vec'[v].data] = s,
         \A i \in 1 .. Count(v) : s[i] = heap[Data(v)][i],
         \A i \in 1 .. Len(new) : s[Count(v) + i] = new[i]
  PROVE  Appends(v, new)
<1>1. /\ Count(v) \in Nat /\ Len(Contents[v]) = Count(v)
      /\ Contents[v] \in Seq(Elements)
      /\ Contents[v] = [i \in 1 .. Count(v) |-> heap[Data(v)][i]]
  BY ShownIs DEF ShowsItsBlock
<1>2. ShowsItsBlock'
  BY ShownIs, PTL
<1>3. Contents'[v] = [i \in 1 .. Count(v) + Len(new) |-> s[i]]
  BY <1>2 DEF ShowsItsBlock, Data
<1>4. Contents[v] \o new = [i \in 1 .. Count(v) + Len(new) |->
                             IF i <= Count(v) THEN Contents[v][i]
                             ELSE new[i - Count(v)]]
  BY <1>1
<1>5. ASSUME NEW i \in 1 .. Count(v) + Len(new)
      PROVE  s[i] = IF i <= Count(v) THEN Contents[v][i] ELSE new[i - Count(v)]
  <2>1. Len(new) \in Nat
    OBVIOUS
  <2>2. CASE i <= Count(v)
    BY <1>1, <2>1, <2>2
  <2>3. CASE ~(i <= Count(v))
    <3>1. i - Count(v) \in 1 .. Len(new) /\ Count(v) + (i - Count(v)) = i
      BY <1>1, <2>1, <2>3
    <3>. QED BY <2>3, <3>1
  <2>. QED BY <2>2, <2>3
<1>. QED BY <1>3, <1>4, <1>5 DEF Appends

\* A block that is long enough is written like that.
LEMMA WrittenAppends ==
  ASSUME IInv, IInv', NEW v \in Live, v \in Live', NEW new \in Seq(Elements),
         Count(v)' = Count(v) + Len(new), NEW s, Count(v)' <= Len(s), DOMAIN s = 1 .. Len(s),
         Len(s) \in Nat,
         heap'[vec'[v].data] = Written(s, Count(v), new),
         \A i \in 1 .. Count(v) : s[i] = heap[Data(v)][i]
  PROVE  Appends(v, new)
<1>. DEFINE t == Written(s, Count(v), new)
<1>1. Count(v) \in Nat /\ Len(new) \in Nat
  <2>1. Count(v) \in Nat
    BY ONLY IInv, v \in Live, ShownIs DEF ShowsItsBlock
  <2>. QED BY ONLY <2>1, new \in Seq(Elements)
<1>2. \A i \in 1 .. Count(v) : t[i] = heap[Data(v)][i]
  <2>. SUFFICES ASSUME NEW i \in 1 .. Count(v)
                PROVE  t[i] = heap[Data(v)][i]
    OBVIOUS
  <2>1. i \in DOMAIN s
    BY <1>1
  <2>. QED BY <1>1, <2>1, WrittenBegins
<1>3. \A i \in 1 .. Len(new) : t[Count(v) + i] = new[i]
  <2>. SUFFICES ASSUME NEW i \in 1 .. Len(new)
                PROVE  t[Count(v) + i] = new[i]
    OBVIOUS
  <2>1. Count(v) + i \in DOMAIN s
    BY <1>1
  <2>. QED BY <1>1, <2>1, WrittenEnds
<1>4. heap'[vec'[v].data] = t
  OBVIOUS
<1>. HIDE DEF t
<1>. QED BY <1>2, <1>3, <1>4, AppendsIt

\* A push that finds room.
LEMMA PushInPlaceAppends ==
  ASSUME IInv, IInv', NEW v \in Vectors, NEW new \in Seq(Elements),
         PushInPlace(v, new, FALSE)
  PROVE  Appends(v, new)
<1>1. /\ IsIdle /\ v \in Live /\ pushing' = pushing /\ Len(new) > 0 /\ Len(new) \in Nat
      /\ heap' = [heap EXCEPT ![Data(v)] = Written(heap[Data(v)], vec[v].count, new)]
      /\ vec' = [vec EXCEPT ![v].count = @ + Len(new)]
      /\ vec[v].count + Len(new) <= vec[v].capacity
  BY DEF PushInPlace, PushesTo, CanPush, Live, Data
<1>2. pushing'.vector # v
  BY <1>1, NullAssumption DEF IsIdle
<1>3. /\ Count(v) = vec[v].count /\ Count(v) \in Nat /\ Count(v)' = vec'[v].count
      /\ vec \in [Vectors -> [isLive : BOOLEAN, data : Blocks \cup {Null},
                              count : Nat, capacity : Nat]]
  BY <1>1, <1>2, IdleCount, CountNext, SMTT(20) DEF IInv, TypeOK
<1>4. /\ vec'[v].isLive /\ vec'[v].data = Data(v)
      /\ vec'[v].count = vec[v].count + Len(new)
  BY <1>1, <1>3 DEF Live, Data
<1>5. /\ Data(v) \in DOMAIN heap /\ heap[Data(v)] \in Seq(Elements)
      /\ vec[v].capacity = Len(heap[Data(v)])
  <2>1. /\ vec[v].capacity = Len(ElementsOf(Data(v)))
        /\ Data(v) = Null => vec[v].capacity = 0
        /\ Data(v) # Null => Data(v) \in DOMAIN heap
    BY <1>1, VectorFacts DEF Live
  <2>2. Data(v) # Null
    BY <1>1, <1>3, <2>1
  <2>. QED BY <2>1, <2>2 DEF IInv, TypeOK, ElementsOf
<1>6. heap'[vec'[v].data] = Written(heap[Data(v)], Count(v), new)
  BY <1>1, <1>3, <1>4, <1>5
<1>7. v \in Live' /\ Count(v)' = Count(v) + Len(new)
  BY <1>1, <1>3, <1>4 DEF Live
<1>8. /\ Count(v)' <= Len(heap[Data(v)]) /\ Len(heap[Data(v)]) \in Nat
      /\ DOMAIN heap[Data(v)] = 1 .. Len(heap[Data(v)])
  BY <1>1, <1>3, <1>5, <1>7
<1>. QED BY <1>1, <1>6, <1>7, <1>8, WrittenAppends

\* A block that moves, or is made longer where it is.
LEMMA MovedAppends ==
  ASSUME IInv, IInv', NEW v \in Live, NEW new \in Seq(Elements), NEW n \in Nat,
         NEW block, NEW count,
         Moved(v, block, Written(Resized(Data(v), n), Count(v), new), count),
         Count(v)' = Count(v) + Len(new), Count(v)' <= n
  PROVE  Appends(v, new)
<1>. DEFINE s == Resized(Data(v), n)
<1>1. Count(v) \in Nat /\ Len(new) \in Nat
  <2>1. Count(v) \in Nat
    BY ONLY IInv, v \in Live, ShownIs DEF ShowsItsBlock
  <2>. QED BY ONLY <2>1, new \in Seq(Elements)
<1>2. v \in Vectors /\ vec[v].isLive
      /\ vec \in [Vectors -> [isLive : BOOLEAN, data : Blocks \cup {Null},
                              count : Nat, capacity : Nat]]
  BY DEF IInv, TypeOK, Live
<1>3. vec'[v].isLive /\ vec'[v].data = block /\ heap'[block] = Written(s, Count(v), new)
  BY <1>2 DEF Moved, HeapWith, With
<1>4. v \in Live'
  BY <1>2, <1>3 DEF Live
<1>5. DOMAIN s = 1 .. n /\ Len(s) = n
  BY DEF Resized
<1>6. \A i \in 1 .. Count(v) : s[i] = heap[Data(v)][i]
  BY <1>1, ResizedBegins
<1>7. heap'[vec'[v].data] = Written(s, Count(v), new)
  BY <1>3
<1>8. Count(v)' <= Len(s) /\ DOMAIN s = 1 .. Len(s) /\ Len(s) \in Nat
  BY <1>5
<1>. HIDE DEF s
<1>. QED BY <1>4, <1>6, <1>7, <1>8, WrittenAppends

\* A push of one element that does not find room.
LEMMA PushMovingAppends ==
  ASSUME IInv, IInv', NEW v \in Vectors, NEW new \in Seq(Elements),
         PushMoving(v, new, FALSE)
  PROVE  Appends(v, new)
<1>1. /\ IsIdle /\ v \in Live /\ pushing' = pushing /\ Len(new) = 1
  BY DEF PushMoving, PushesTo, Live
<1>2. pushing'.vector # v
  BY <1>1, NullAssumption DEF IsIdle
<1>3. /\ Count(v) = vec[v].count /\ Count(v) \in Nat /\ Count(v)' = vec'[v].count
      /\ vec[v].count <= vec[v].capacity /\ vec[v].capacity \in Nat
  BY <1>1, <1>2, IdleCount, CountNext, VectorFacts DEF Live
<1>4. vec \in [Vectors -> [isLive : BOOLEAN, data : Blocks \cup {Null},
                          count : Nat, capacity : Nat]]
  BY DEF IInv, TypeOK
<1>. DEFINE n == Grown(vec[v].capacity)
<1>5. PICK block : Moved(v, block, Written(Resized(Data(v), n), Count(v), new),
                         vec[v].count + 1)
  BY <1>3 DEF PushMoving, Data
<1>6. n \in Nat /\ Count(v) + 1 <= n
  BY <1>3, SizesAssumption DEF Grown
<1>7. Count(v)' = Count(v) + Len(new)
  BY <1>1, <1>3, <1>4, <1>5 DEF Moved
<1>. HIDE DEF n
<1>. QED BY <1>1, <1>5, <1>6, <1>7, MovedAppends

\* The end of a longer push.
LEMMA EndPushMultAppends ==
  ASSUME IInv, IInv', NEW v \in Vectors, IsPushing(v), EndPushMult
  PROVE  Appends(v, pushing.new)
<1>1. ~IsIdle /\ v = pushing.vector /\ pushing' = NoPush
      /\ vec[v].capacity >= vec[v].count
  BY DEF EndPushMult, IsPushing
<1>2. /\ v \in Live /\ Count(v) = OldCount /\ Count(v) \in Nat
      /\ pushing.new \in Seq(Elements) /\ Len(pushing.new) \in Nat
      /\ vec[v].count = Count(v) + Len(pushing.new) /\ vec[v].capacity \in Nat
      /\ vec \in [Vectors -> [isLive : BOOLEAN, data : Blocks \cup {Null},
                              count : Nat, capacity : Nat]]
  BY <1>1, UnderwayFacts
<1>3. PICK block : Moved(v, block, Written(Resized(Data(v), vec[v].capacity), Count(v),
                                           pushing.new), vec[v].count)
  BY <1>1, <1>2 DEF EndPushMult, Data
<1>4. vec'[v].count = vec[v].count
  BY <1>2, <1>3 DEF Moved
<1>5. pushing'.vector # v
  BY <1>1, NullAssumption DEF NoPush
<1>6. Count(v)' = Count(v) + Len(pushing.new) /\ Count(v)' <= vec[v].capacity
  BY <1>1, <1>2, <1>4, <1>5, CountNext
<1>. QED BY <1>2, <1>3, <1>6, MovedAppends

\* What is pushed is what the vector ends with, for any number of vectors, blocks
\* and elements: in the block as it is, in one that moves with the push, and at
\* the end of a push that waited for its capacity to be doubled.
THEOREM PushedIsAppended == Spec => PushesAppend
<1>. DEFINE Pushed ==
       \A v \in Vectors :
         /\ \A e \in Elements : Push(v, <<e>>, FALSE) => Appends(v, <<e>>)
         /\ \A n \in 1 .. MaxCount : \A new \in [1 .. n -> Elements] :
              PushInPlace(v, new, FALSE) => Appends(v, new)
         /\ IsPushing(v) /\ EndPushMult => Appends(v, pushing.new)
<1>1. IInv /\ IInv' => Pushed
  <2>. SUFFICES ASSUME IInv, IInv', NEW v \in Vectors
                PROVE  /\ \A e \in Elements : Push(v, <<e>>, FALSE) => Appends(v, <<e>>)
                       /\ \A n \in 1 .. MaxCount : \A new \in [1 .. n -> Elements] :
                            PushInPlace(v, new, FALSE) => Appends(v, new)
                       /\ IsPushing(v) /\ EndPushMult => Appends(v, pushing.new)
    OBVIOUS
  <2>1. ASSUME NEW e \in Elements, Push(v, <<e>>, FALSE) PROVE Appends(v, <<e>>)
    <3>1. <<e>> \in Seq(Elements)
      OBVIOUS
    <3>. QED BY <2>1, <3>1, PushInPlaceAppends, PushMovingAppends DEF Push
  <2>2. ASSUME NEW n \in 1 .. MaxCount, NEW new \in [1 .. n -> Elements],
               PushInPlace(v, new, FALSE)
        PROVE  Appends(v, new)
    <3>1. new \in Seq(Elements)
      BY SizesAssumption
    <3>. QED BY <2>2, <3>1, PushInPlaceAppends
  <2>. QED BY <2>1, <2>2, EndPushMultAppends
<1>. QED BY <1>1, InvariantHolds, PTL DEF PushesAppend
=============================================================================
