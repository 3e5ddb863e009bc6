-------------------------------- MODULE Vec ---------------------------------
(***************************************************************************)
(* The vector (src/include/rm_vec.h) that the hashmap keeps its collisions *)
(* in and the stripifiers collect vertex IDs and strips in: a block of the *)
(* heap, the number of elements in it and the number that fit.             *)
(*                                                                         *)
(* The client calls the operations in any order that the comments of the   *)
(* header allow: a vector that was disposed or unwrapped keeps its pointer *)
(* and must be initialized before it is used again, and a pointer to an    *)
(* element is dropped before an operation that may move the elements.      *)
(***************************************************************************)
EXTENDS Integers, Sequences

CONSTANTS
  Vectors, Blocks, \* the variables of the client, the addresses of the heap
  Elements,
  Garbage,         \* one of them: what an element that was not written reads as
  StartCapacity,   \* RM_VEC_START_CAPACITY
  MaxCount,        \* a bound: no more elements are asked for
  Null             \* neither a block nor a vector nor a sequence

ASSUME SizesAssumption == StartCapacity \in Nat \ {0} /\ MaxCount \in Nat
ASSUME NullAssumption == Null \notin Blocks \cup Vectors \cup Seq(Elements)
ASSUME GarbageAssumption == Garbage \in Elements

VARIABLES
  vec,      \* [isLive, data, count, capacity] of each vector
  heap,     \* the elements in each allocated block
  given,    \* the blocks that the client has to free, and their lengths
  held,     \* a pointer to an element that the client holds
  pushing   \* the push of several elements that is under way

vars == <<vec, heap, given, held, pushing>>

NoPointer == [block |-> Null, index |-> 0]
NoPush == [vector |-> Null, new |-> <<>>, returnsPointer |-> FALSE]
IsIdle == pushing.vector = Null

Init ==
  /\ vec = [v \in Vectors |->
              [isLive |-> FALSE, data |-> Null, count |-> 0, capacity |-> 0]]
  /\ heap = <<>> /\ given = <<>>
  /\ held = NoPointer /\ pushing = NoPush

-----------------------------------------------------------------------------
\* The heap.

Unused == Blocks \ DOMAIN heap
Without(f, x) == [y \in DOMAIN f \ {x} |-> f[y]]
With(f, x, val) == [y \in DOMAIN f \cup {x} |-> IF y = x THEN val ELSE f[y]]

\* The block that data points to, cut or lengthened to n elements.
ElementsOf(data) == IF data = Null THEN <<>> ELSE heap[data]
Resized(data, n) ==
  [i \in 1 .. n |-> IF i \in DOMAIN ElementsOf(data) THEN heap[data][i] ELSE Garbage]

\* Mutant: the elements are allocated anew and the old block is forgotten.
HeapLeaking(data, block, s) == With(heap, block, s)

\* Where block takes the place of data.
HeapWith(data, block, s) == With(Without(heap, data), block, s)

\* rm_realloc: the block stays where it is or moves.  The program ends when
\* there is no place, so that only steps that find one are of interest.
Places(data) == Unused \cup ({data} \ {Null})

-----------------------------------------------------------------------------
\* The life of a vector.

InitVec(v) ==
  /\ IsIdle /\ ~vec[v].isLive
  /\ vec' = [vec EXCEPT ![v] = [isLive |-> TRUE, data |-> Null,
                                count |-> 0, capacity |-> 0]]
  /\ UNCHANGED <<heap, given, held, pushing>>

\* The client does not use a pointer into the vector any more.
Drops(v) == held' = IF held.block = vec[v].data THEN NoPointer ELSE held

\* The counters are reset; data keeps its value.
Released(v) == [vec EXCEPT ![v].isLive = FALSE, ![v].count = 0, ![v].capacity = 0]

Dispose(v) ==
  /\ IsIdle /\ vec[v].isLive
  /\ vec' = Released(v)
  /\ heap' = Without(heap, vec[v].data)
  /\ Drops(v)
  /\ UNCHANGED <<given, pushing>>

\* Mutant: unwrapping leaves the vector as it is.
StillLive(v) == vec

Unwrapped(v) == Released(v)

Unwrap(v) ==
  /\ IsIdle /\ vec[v].isLive
  /\ vec' = Unwrapped(v)
  /\ given' = IF vec[v].data = Null THEN given
              ELSE With(given, vec[v].data, vec[v].count)
  /\ Drops(v)
  /\ UNCHANGED <<heap, pushing>>

\* rm_vec_dup_content of a vector that is not empty; of an empty one it is null.
DupContent(v) ==
  /\ IsIdle /\ vec[v].isLive /\ vec[v].count > 0
  /\ \E block \in Unused :
       /\ heap' = With(heap, block, Resized(vec[v].data, vec[v].count))
       /\ given' = With(given, block, vec[v].count)
  /\ UNCHANGED <<vec, held, pushing>>

\* Mutant: the duplicate is said to have the capacity of the original.
SameCapacity(v) == vec[v].capacity

DupCapacity(v) == vec[v].count

Dup(v, w) ==
  LET duplicate(data) == [isLive |-> TRUE, data |-> data, count |-> vec[v].count,
                          capacity |-> DupCapacity(v)]
  IN  /\ IsIdle /\ vec[v].isLive /\ ~vec[w].isLive
      /\ \/ /\ vec[v].count > 0
            /\ \E block \in Unused :
                 /\ heap' = With(heap, block, Resized(vec[v].data, vec[v].count))
                 /\ vec' = [vec EXCEPT ![w] = duplicate(block)]
         \/ /\ vec[v].count = 0
            /\ vec' = [vec EXCEPT ![w] = duplicate(Null)]
            /\ UNCHANGED heap
      /\ UNCHANGED <<given, held, pushing>>

\* rm_free of an array that the client was given.
FreeGiven(block) ==
  /\ IsIdle
  /\ heap' = Without(heap, block)
  /\ given' = Without(given, block)
  /\ UNCHANGED <<vec, held, pushing>>

-----------------------------------------------------------------------------
\* Capacity.

\* v gets a block of n elements, or loses its block if n is 0.
Moved(v, block, s, count) ==
  /\ heap' = HeapWith(vec[v].data, block, s)
  /\ vec' = [vec EXCEPT ![v].data = block, ![v].count = count,
                        ![v].capacity = Len(s)]

EnsureCapacity(v, n) ==
  /\ IsIdle /\ vec[v].isLive /\ n > vec[v].capacity
  /\ \E block \in Places(vec[v].data) :
       Moved(v, block, Resized(vec[v].data, n), vec[v].count)
  /\ Drops(v)
  /\ UNCHANGED <<given, pushing>>

TrimCapacity(v) ==
  /\ IsIdle /\ vec[v].isLive /\ vec[v].count # vec[v].capacity
  /\ \/ /\ vec[v].count > 0
        /\ \E block \in Places(vec[v].data) :
             Moved(v, block, Resized(vec[v].data, vec[v].count), vec[v].count)
     \/ /\ vec[v].count = 0
        /\ heap' = Without(heap, vec[v].data)
        /\ vec' = [vec EXCEPT ![v].data = Null, ![v].capacity = 0]
  /\ Drops(v)
  /\ UNCHANGED <<given, pushing>>

-----------------------------------------------------------------------------
\* Pushing.

Grown(capacity) == IF capacity = 0 THEN StartCapacity ELSE 2 * capacity

CanPush(v, n) == vec[v].count + n <= vec[v].capacity
PushesTo(v, n) ==
  IsIdle /\ vec[v].isLive /\ n > 0 /\ vec[v].count + n <= MaxCount

\* Mutant: the source is not advanced and the first element is written each time.
WrittenAlike(s, count, new) ==
  [i \in DOMAIN s |-> IF i \in count + 1 .. count + Len(new) THEN new[1] ELSE s[i]]

\* The elements new, written behind the first count ones of a block.
Written(s, count, new) ==
  [i \in DOMAIN s |-> IF i \in count + 1 .. count + Len(new) THEN new[i - count]
                      ELSE s[i]]

PointsTo(returnsPointer, v, block, i) ==
  IF returnsPointer THEN held' = [block |-> block, index |-> i] ELSE Drops(v)

\* There is room: nothing moves.  An empty element keeps what the block holds.
PushInPlace(v, new, returnsPointer) ==
  /\ PushesTo(v, Len(new)) /\ CanPush(v, Len(new))
  /\ heap' = [heap EXCEPT ![vec[v].data] = Written(@, vec[v].count, new)]
  /\ vec' = [vec EXCEPT ![v].count = @ + Len(new)]
  /\ PointsTo(returnsPointer, v, vec[v].data, vec[v].count + 1)
  /\ UNCHANGED <<given, pushing>>

PushMoving(v, new, returnsPointer) ==
  LET count == vec[v].count
  IN  /\ PushesTo(v, 1) /\ Len(new) = 1 /\ ~CanPush(v, 1)
      /\ \E block \in Places(vec[v].data) :
           /\ Moved(v, block,
                    Written(Resized(vec[v].data, Grown(vec[v].capacity)), count, new),
                    count + 1)
           /\ PointsTo(returnsPointer, v, block, count + 1)
      /\ UNCHANGED <<given, pushing>>

\* Several elements: the counters change at once, the capacity doubles until
\* it is large enough, and the block is reallocated then.
StartPushMult(v, new, returnsPointer) ==
  /\ PushesTo(v, Len(new)) /\ ~CanPush(v, Len(new)) /\ Places(vec[v].data) # {}
  /\ vec' = [vec EXCEPT ![v].count = @ + Len(new),
                        ![v].capacity = IF @ = 0 THEN StartCapacity ELSE @]
  /\ pushing' = [vector |-> v, new |-> new, returnsPointer |-> returnsPointer]
  /\ Drops(v)
  /\ UNCHANGED <<heap, given>>

DoubleCapacity ==
  LET v == pushing.vector
  IN  /\ ~IsIdle /\ vec[v].capacity < vec[v].count
      /\ vec' = [vec EXCEPT ![v].capacity = 2 * @]
      /\ UNCHANGED <<heap, given, held, pushing>>

\* Mutant: the new elements are written one place too early.
OldCountLessOne == vec[pushing.vector].count - Len(pushing.new) - 1

OldCount == vec[pushing.vector].count - Len(pushing.new)

EndPushMult ==
  LET v == pushing.vector
  IN  /\ ~IsIdle /\ vec[v].capacity >= vec[v].count
      /\ \E block \in Places(vec[v].data) :
           /\ Moved(v, block,
                    Written(Resized(vec[v].data, vec[v].capacity), OldCount,
                            pushing.new),
                    vec[v].count)
           /\ PointsTo(pushing.returnsPointer, v, block, OldCount + 1)
      /\ pushing' = NoPush
      /\ UNCHANGED given

\* The elements that rm_vec_push_empty and rm_vec_push_empty_mult leave: what
\* the block holds there, and whatever is in the memory behind it.
Left(v, n) ==
  [i \in 1 .. n |-> IF vec[v].count + i <= vec[v].capacity
                    THEN heap[vec[v].data][vec[v].count + i] ELSE Garbage]

Push(v, new, returnsPointer) ==
  PushInPlace(v, new, returnsPointer) \/ PushMoving(v, new, returnsPointer)
PushMult(v, new, returnsPointer) ==
  PushInPlace(v, new, returnsPointer) \/ StartPushMult(v, new, returnsPointer)

-----------------------------------------------------------------------------
\* The elements.

Pop(v) ==
  /\ IsIdle /\ vec[v].isLive /\ vec[v].count > 0
  /\ vec' = [vec EXCEPT ![v].count = @ - 1]
  /\ UNCHANGED <<heap, given, held, pushing>>

SetElement(v, i, e) ==
  /\ IsIdle /\ vec[v].isLive /\ i \in 1 .. vec[v].count
  /\ heap' = [heap EXCEPT ![vec[v].data][i] = e]
  /\ UNCHANGED <<vec, given, held, pushing>>

\* Mutant: the block is freed, too.
Emptied(v) == /\ heap' = Without(heap, vec[v].data)
              /\ vec' = [vec EXCEPT ![v].count = 0, ![v].capacity = 0, ![v].data = Null]

CountReset(v) == vec' = [vec EXCEPT ![v].count = 0] /\ UNCHANGED heap

Clear(v) ==
  /\ IsIdle /\ vec[v].isLive
  /\ CountReset(v)
  /\ UNCHANGED <<given, held, pushing>>

PtrAt(v, i) ==
  /\ IsIdle /\ vec[v].isLive /\ i \in 1 .. vec[v].count
  /\ held' = [block |-> vec[v].data, index |-> i]
  /\ UNCHANGED <<vec, heap, given, pushing>>

\* The client writes to the element that it holds a pointer to.
WriteHeld(e) ==
  /\ IsIdle /\ held # NoPointer
  /\ heap' = [heap EXCEPT ![held.block][held.index] = e]
  /\ UNCHANGED <<vec, given, held, pushing>>

-----------------------------------------------------------------------------
Living(v) ==
  \/ InitVec(v) \/ Dispose(v) \/ Unwrap(v) \/ DupContent(v)
  \/ \E w \in Vectors : Dup(v, w)
Sizing(v) == TrimCapacity(v) \/ \E n \in 1 .. MaxCount : EnsureCapacity(v, n)
Pushing(v) ==
  \/ \E e \in Elements : Push(v, <<e>>, FALSE)
  \/ Push(v, Left(v, 1), TRUE)
  \/ \E n \in 1 .. MaxCount :
       \/ \E new \in [1 .. n -> Elements] : PushMult(v, new, FALSE)
       \/ PushMult(v, Left(v, n), TRUE)
Accessing(v) ==
  \/ Pop(v) \/ Clear(v)
  \/ \E i \in 1 .. MaxCount : PtrAt(v, i) \/ \E e \in Elements : SetElement(v, i, e)

Next ==
  \/ \E v \in Vectors : Living(v) \/ Sizing(v) \/ Pushing(v) \/ Accessing(v)
  \/ \E block \in DOMAIN given : FreeGiven(block)
  \/ DoubleCapacity \/ EndPushMult
  \/ \E e \in Elements : WriteHeld(e)

Spec == Init /\ [][Next]_vars
=============================================================================
