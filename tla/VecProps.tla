------------------------------ MODULE VecProps ------------------------------
(***************************************************************************)
(* What the clients of the vector rely on.                                 *)
(***************************************************************************)
EXTENDS Vec

Live == {v \in Vectors : vec[v].isLive}
IsPushing(v) == pushing.vector = v
\* The elements that are there: a push counts when it is through.
Count(v) == vec[v].count - (IF IsPushing(v) THEN Len(pushing.new) ELSE 0)
Capacity(v) == Len(ElementsOf(vec[v].data))

TypeOK ==
  /\ vec \in [Vectors -> [isLive : BOOLEAN, data : Blocks \cup {Null},
                          count : Nat, capacity : Nat]]
  /\ DOMAIN heap \subseteq Blocks /\ heap \in [DOMAIN heap -> Seq(Elements)]
  /\ DOMAIN given \subseteq DOMAIN heap /\ given \in [DOMAIN given -> Nat]
  /\ held \in [block : Blocks \cup {Null}, index : Nat]
  /\ pushing \in [vector : Vectors \cup {Null}, new : Seq(Elements),
                  returnsPointer : BOOLEAN]

\* "capacity" is the number of elements that could be contained without a
\* realloc (which is always >= "count")" (rm_vec.h:15): between two calls the
\* block has exactly as many elements as the vector says, and no fewer than
\* are in it; after a duplication, a trim and an ensured capacity as well.
CapacityTrue ==
  \A v \in Live :
    /\ Count(v) <= Capacity(v)
    /\ ~IsPushing(v) => vec[v].capacity = Capacity(v)
    /\ vec[v].data = Null => Capacity(v) = 0

\* Every block of the heap has one owner that will free it, a vector or the
\* client that it was given to: nothing leaks, nothing is freed twice, and no
\* two vectors share their elements ("No risk of double-free", rm_vec.h:267).
BlocksOwned ==
  LET holders == {v \in Live : vec[v].data # Null}
  IN  /\ {vec[v].data : v \in holders} \cup DOMAIN given = DOMAIN heap
      /\ \A v, w \in holders : v # w => vec[v].data # vec[w].data
      /\ \A v \in holders : vec[v].data \notin DOMAIN given

\* A pointer to an element stays good until one of the operations that the
\* comment on rm_vec_ptr_at names: popping, setting and clearing keep it.
PointerLive ==
  held # NoPointer =>
    /\ held.block \in DOMAIN heap /\ held.index \in DOMAIN heap[held.block]
    /\ \E v \in Live : vec[v].data = held.block

\* The arrays that unwrapping and duplicating handed to the client are his:
\* no operation on a vector changes them, and they are as long as he was told.
GivenUntouched ==
  [][\A block \in DOMAIN given \cap DOMAIN given' :
       /\ block \in DOMAIN heap \cap DOMAIN heap'
       /\ heap'[block] = heap[block]
       /\ given'[block] <= Len(heap[block])]_vars

\* A vector is a sequence, and a duplicate shares nothing with its original.
Contents ==
  [v \in Vectors |->
     IF vec[v].isLive THEN [i \in 1 .. Count(v) |-> heap[vec[v].data][i]] ELSE Null]
Abstract == INSTANCE Arrays WITH contents <- Contents, Absent <- Null
ImplementsArrays == Abstract!Spec

\* What was pushed is what the vector ends with, in its order: one element that
\* stays or moves with the block (rm_vec.h:128), several that find room, and
\* several that had to wait while the capacity was doubled (rm_vec.h:137).
Appends(v, new) == Contents'[v] = Contents[v] \o new
PushesAppend ==
  [][\A v \in Vectors :
       /\ \A e \in Elements : Push(v, <<e>>, FALSE) => Appends(v, <<e>>)
       /\ \A n \in 1 .. MaxCount : \A new \in [1 .. n -> Elements] :
            PushInPlace(v, new, FALSE) => Appends(v, new)
       /\ IsPushing(v) /\ EndPushMult => Appends(v, pushing.new)]_vars
-----------------------------------------------------------------------------
\* The inductive invariant: what holds between the steps of a push as well.

PushUnderway ==
  IF IsIdle THEN pushing = NoPush
  ELSE /\ pushing.vector \in Live /\ vec[pushing.vector].capacity > 0
       /\ Len(pushing.new) \in 1 .. vec[pushing.vector].count

GivenFits == \A block \in DOMAIN given : given[block] <= Len(heap[block])

IInv ==
  TypeOK /\ CapacityTrue /\ BlocksOwned /\ PointerLive /\ PushUnderway /\ GivenFits
=============================================================================
