------------------------------ MODULE HashMap -------------------------------
(***************************************************************************)
(* The generic hashmap (src/include/rm_hashmap.h) that build_tris and the  *)
(* verifier are instances of.  A bucket holds one entry; the others of its *)
(* hash lie in the collision vector, linked by index, and so do the unused *)
(* cells of that vector: the supply list.  Doubling the table splits each  *)
(* bucket in two by the next bit of the hashes.                            *)
(***************************************************************************)
EXTENDS Integers, SequencesExt, FiniteSetsExt
CONSTANTS
  Keys, Values,    \* both contain 0, which zeroed memory reads as
  Merge(_, _),     \* the old and the new value combined
  Setups,          \* [hash: a hash of each key used,
                   \*  ref: the key that the ref function makes of each one,
                   \*  initial: buckets asked for, or
                   \*  items: how many pairs they are to be sufficient for,
                   \*  load: <<n, d>>, a load factor of n/d,
                   \*  updates: the <<value, mode>>s used, mayClear: BOOLEAN]
  HashBits,        \* the width of a hash
  StartBuckets,    \* RM_HASHMAP_START_BUCKET_COUNT
  MaxBuckets,      \* RM_HASHMAP_MAX_BUCKETS_COUNT
  Unlimited,       \* SIZE_MAX
  EntryWords       \* how many pointers are as large as an entry

ASSUME SizesAssumption ==
  /\ {HashBits, StartBuckets, MaxBuckets, Unlimited, EntryWords} \subseteq Nat \ {0}
  /\ 0 \in Keys \cap Values

VARIABLES
  setup, map, answer,
  refs   \* how often each key and value was referenced and not unreferenced yet
vars == <<setup, map, answer, refs>>

D == INSTANCE Dictionary WITH dict <- << >>

None == 0                       \* RM_HASHMAP_NO_MORE_ENTRIES
NoHash == 0                     \* RM_HASHMAP_HASH_EMPTY
ZeroEntry == [hash |-> NoHash, next |-> None, key |-> 0, value |-> 0]

Threshold(n) ==
  IF n = MaxBuckets THEN Unlimited
  ELSE LET t == (setup.load[1] * n) \div setup.load[2]
       IN  IF t < 1 THEN 1 ELSE t

PowersOfTwo == {2 ^ b : b \in 0 .. HashBits}
CeiledToPowerOfTwo(n) ==
  CHOOSE p \in PowersOfTwo : n <= p /\ \A q \in PowersOfTwo : n <= q => p <= q

\* Mutant: the quotient is only rounded down.
RoundedDown(items) == (items * setup.load[2]) \div setup.load[1]

(* rm_hashmap_get_sufficient_bucket_count *)
SufficientBuckets(items) == (items * setup.load[2]) \div setup.load[1] + 1

AskedFor == IF setup.items > 0 THEN SufficientBuckets(setup.items) ELSE setup.initial

ZeroBuckets(n) == [b \in 0 .. n - 1 |-> ZeroEntry]
InitialBuckets == IF AskedFor = 0 THEN 0 ELSE CeiledToPowerOfTwo(AskedFor)

NewMap == [count |-> 0, bucketsCount |-> InitialBuckets,
           buckets |-> ZeroBuckets(InitialBuckets), collisions |-> << >>,
           supply |-> None, threshold |-> Threshold(InitialBuckets)]

Init ==
  /\ setup \in Setups
  /\ map = NewMap
  /\ answer = D!NotFound
  /\ refs = [keys |-> [k \in Keys |-> 0], values |-> [v \in Values |-> 0]]

-----------------------------------------------------------------------------
\* Mutant: the hash of 0 is stored as it is.
HashKeyAsIs(k) == setup.hash[k]

(* A hash of 0 would mark an empty entry: it becomes the topmost bit. *)
HashKey(k) == IF setup.hash[k] = NoHash THEN 2 ^ (HashBits - 1) ELSE setup.hash[k]

BucketFor(m, k) == HashKey(k) % m.bucketsCount

(* The cells of the collision vector that are linked from index first on. *)
Linked(m, first) ==
  LET n == Len(m.collisions)
      from[i \in 0 .. n] ==
        LET before == from[i - 1]
            next == IF i = 1 THEN first ELSE m.collisions[before[i - 1]].next
        IN  IF i = 0 THEN << >>
            ELSE IF Len(before) < i - 1 \/ next \notin 1 .. n THEN before
            ELSE Append(before, next)
  IN  from[n]

(* The cells of a bucket: its base, called 0, then cells of the vector. *)
Chain(m, b) ==
  IF m.buckets[b].hash = NoHash THEN << >> ELSE <<0>> \o Linked(m, m.buckets[b].next)

Entry(m, b, c) == IF c = 0 THEN m.buckets[b] ELSE m.collisions[c]
Stored(m, b, c, e) ==
  IF c = 0 THEN [m EXCEPT !.buckets[b] = e] ELSE [m EXCEPT !.collisions[c] = e]

(* Keys are equal if the ref function makes the same of them. *)
AreEqual(j, k) == setup.ref[j] = setup.ref[k]
Matches(m, b, c, k) ==
  Entry(m, b, c).hash = HashKey(k) /\ AreEqual(Entry(m, b, c).key, k)

(* The cells that hold key k: none or one; find_entry returns the first. *)
CellsOf(m, k) ==
  IF m.bucketsCount = 0 THEN << >>
  ELSE LET b == BucketFor(m, k)
       IN  SelectSeq(Chain(m, b), LAMBDA c : Matches(m, b, c, k))
ContainsKey(m, k) == CellsOf(m, k) # << >>
CellOf(m, k) == Head(CellsOf(m, k))
ValueOf(m, k) == Entry(m, BucketFor(m, k), CellOf(m, k)).value

AnswerTo(k) == IF ContainsKey(map, k) THEN D!Found(ValueOf(map, k)) ELSE D!NotFound

\* Mutant: a cell that is no longer used is not put into the supply list.
Forgotten(m, c) == m

Freed(m, c) == [m EXCEPT !.collisions[c].next = m.supply, !.supply = c]

-----------------------------------------------------------------------------
(* Doubling.  The entries of bucket b whose next bit is 0 stay, the others *)
(* move to bucket n + b; the first of each becomes the base of its bucket, *)
(* so that the one that was not a base before leaves a cell to the supply. *)
BitIsSet(m, hash) == (hash \div m.bucketsCount) % 2 = 1

Ones(m, b) == SelectSeq(Chain(m, b), LAMBDA c : BitIsSet(m, Entry(m, b, c).hash))
Zeros(m, b) == SelectSeq(Chain(m, b), LAMBDA c : ~BitIsSet(m, Entry(m, b, c).hash))

After(list, p) == IF p < Len(list) THEN list[p + 1] ELSE None

NewBase(m, b, list) == [Entry(m, b, Head(list)) EXCEPT !.next = After(list, 1)]
\* Mutant: a bucket that all entries leave keeps its base.
EmptyBaseKept(m, b) == m.buckets[b]

EmptyBase(m, b) == [m.buckets[b] EXCEPT !.hash = NoHash]

SplitBuckets(m) ==
  LET n == m.bucketsCount
  IN  [b \in 0 .. 2 * n - 1 |->
         IF b < n THEN IF Zeros(m, b) = << >> THEN EmptyBase(m, b)
                       ELSE NewBase(m, b, Zeros(m, b))
         ELSE IF Ones(m, b - n) = << >> THEN ZeroEntry
              ELSE NewBase(m, b - n, Ones(m, b - n))]

(* The cells that became bases, in the order of their buckets. *)
Promoted(m) ==
  LET heads(b) == SelectSeq(<<Zeros(m, b), Ones(m, b)>>, LAMBDA l : l # << >> /\ Head(l) # 0)
  IN  FlattenSeq([b \in 1 .. m.bucketsCount |->
        IF heads(b - 1) = << >> THEN << >> ELSE <<Head(heads(b - 1)[1])>>])

SplitCollisions(m) ==
  LET promoted == Promoted(m)
      lists == {Zeros(m, b) : b \in DOMAIN m.buckets} \cup {Ones(m, b) : b \in DOMAIN m.buckets}
      places(c) == {<<l, p>> \in {<<l, p>> \in lists \X (2 .. m.count) : p <= Len(l)} : l[p] = c}
      next(c) ==
        IF \E p \in DOMAIN promoted : promoted[p] = c
        THEN LET p == CHOOSE p \in DOMAIN promoted : promoted[p] = c
             IN  IF p = 1 THEN m.supply ELSE promoted[p - 1]
        ELSE IF places(c) = {} THEN m.collisions[c].next
        ELSE LET at == CHOOSE at \in places(c) : TRUE IN After(at[1], at[2])
  IN  [c \in DOMAIN m.collisions |-> [m.collisions[c] EXCEPT !.next = next(c)]]

Resized(m) ==
  [m EXCEPT !.bucketsCount = 2 * @, !.threshold = Threshold(2 * m.bucketsCount),
            !.buckets = SplitBuckets(m), !.collisions = SplitCollisions(m),
            !.supply = IF Promoted(m) = << >> THEN @ ELSE Last(Promoted(m))]

-----------------------------------------------------------------------------
(* An entry for a key that is not there: the base of its bucket, or a cell *)
(* at the end of its chain, taken from the supply list or from the vector. *)
WithNext(m, b, c, next) == Stored(m, b, c, [Entry(m, b, c) EXCEPT !.next = next])

AfterTake(m) == IF m.supply = None THEN None ELSE m.collisions[m.supply].next

Inserted(m, k, v) ==
  LET b == BucketFor(m, k)
      chain == Chain(m, b)
      entry == [hash |-> HashKey(k), next |-> None, key |-> setup.ref[k], value |-> v]
      slot == IF m.supply # None THEN m.supply ELSE Len(m.collisions) + 1
      linked == WithNext(m, b, Last(chain), slot)
  IN  IF chain = << >> THEN [m EXCEPT !.buckets[b] = entry, !.count = @ + 1]
      ELSE [linked EXCEPT
              !.count = @ + 1,
              !.supply = AfterTake(m),
              !.collisions = IF slot = Len(@) + 1 THEN Append(@, entry)
                             ELSE [@ EXCEPT ![slot] = entry]]

Grown(m) == IF m.count > m.threshold THEN Resized(m) ELSE m

(* The first entry allocates the buckets. *)
Ready(mode) ==
  IF map.bucketsCount = 0 /\ D!Inserts(mode)
  THEN [map EXCEPT !.bucketsCount = StartBuckets, !.buckets = ZeroBuckets(StartBuckets),
                   !.threshold = Threshold(StartBuckets)]
  ELSE map

(* Taking and releasing ownership with the ref and unref functions. *)
Ref(r, k, v) == [r EXCEPT !.keys[k] = @ + 1, !.values[v] = @ + 1]
Unref(r, k, v) == [r EXCEPT !.keys[k] = @ - 1, !.values[v] = @ - 1]

(* A value that takes the place of another is referenced; the other one is *)
(* unreferenced by the caller of update, as its comment asks, or by set.   *)
Replaced(old, new, mode) ==
  IF mode = "Insert" THEN refs
  ELSE [refs EXCEPT !.values = [v \in Values |->
          @[v] + (IF v = new THEN 1 ELSE 0) - (IF v = old THEN 1 ELSE 0)]]

Update(k, v, mode) ==
  /\ answer' = AnswerTo(k)
  /\ refs' = IF ContainsKey(map, k)
             THEN Replaced(ValueOf(map, k), D!Updated(ValueOf(map, k), v, mode), mode)
             ELSE IF D!Inserts(mode) THEN Ref(refs, setup.ref[k], v) ELSE refs
  /\ map' = IF ContainsKey(map, k)
            THEN LET b == BucketFor(map, k)
                     c == CellOf(map, k)
                 IN  Stored(map, b, c, [Entry(map, b, c) EXCEPT
                                          !.value = D!Updated(@, v, mode)])
            ELSE IF D!Inserts(mode) THEN Grown(Inserted(Ready(mode), k, v))
            ELSE map
  /\ UNCHANGED setup

Before(m, b, c) ==
  LET p == CHOOSE p \in DOMAIN Chain(m, b) : Chain(m, b)[p] = c IN Chain(m, b)[p - 1]

(* The base of a bucket is replaced by the cell after it, if there is one. *)
Unlinked(m, k) ==
  LET b == BucketFor(m, k)
      c == CellOf(m, k)
      next == Entry(m, b, c).next
  IN  IF c # 0 THEN Freed(WithNext(m, b, Before(m, b, c), next), c)
      ELSE IF next # None THEN Freed(Stored(m, b, 0, m.collisions[next]), next)
      ELSE Stored(m, b, 0, EmptyBase(m, b))

RemoveKey(k) ==
  /\ answer' = [found |-> ContainsKey(map, k)]
  /\ map' = IF ContainsKey(map, k) THEN [Unlinked(map, k) EXCEPT !.count = @ - 1] ELSE map
  /\ refs' = IF ContainsKey(map, k) THEN Unref(refs, k, ValueOf(map, k)) ELSE refs
  /\ UNCHANGED setup

Get(k) == answer' = AnswerTo(k) /\ UNCHANGED <<setup, map, refs>>

-----------------------------------------------------------------------------
(* for_each passes the cells bucket by bucket.  When the function that it  *)
(* calls returns false, at one of the keys stops, it leaves the bucket.    *)
UpTo(m, b, stops) ==
  LET chain == Chain(m, b)
      stopAt == {p \in DOMAIN chain : Entry(m, b, chain[p]).key \in stops}
  IN  IF stopAt = {} THEN chain
      ELSE SubSeq(chain, 1, CHOOSE p \in stopAt : \A q \in stopAt : p <= q)

VisitedUntil(m, stops) ==
  FlattenSeq([b \in 1 .. m.bucketsCount |->
    LET cells == UpTo(m, b - 1, stops)
    IN  [p \in DOMAIN cells |-> Entry(m, b - 1, cells[p])]])
Visited(m) == VisitedUntil(m, {})

(* debug_for_each also tells the base of a bucket from its collisions. *)
Collided(m) ==
  UNION {{Entry(m, b, Chain(m, b)[p]).key : p \in 2 .. Len(Chain(m, b))} : b \in DOMAIN m.buckets}

\* Mutant: a pair that lies in the collision vector is overlooked.
BasesUnreferenced(m) ==
  LET times(S(_)) == Cardinality({b \in DOMAIN m.buckets : m.buckets[b].hash # NoHash /\ S(m.buckets[b])})
  IN  [keys |-> [k \in Keys |-> refs.keys[k] - times(LAMBDA e : e.key = k)],
       values |-> [v \in Values |-> refs.values[v] - times(LAMBDA e : e.value = v)]]

(* unref_all: every pair that the map counts is unreferenced. *)
AllUnreferenced(m) ==
  LET times(S(_)) == IF m.count = 0 THEN 0 ELSE Len(SelectSeq(Visited(m), S))
  IN  [keys |-> [k \in Keys |-> refs.keys[k] - times(LAMBDA e : e.key = k)],
       values |-> [v \in Values |-> refs.values[v] - times(LAMBDA e : e.value = v)]]

(* The buckets and the collision vector are freed; a new map is made. *)
DisposeAndInit ==
  /\ refs' = AllUnreferenced(map)
  /\ map' = NewMap
  /\ UNCHANGED <<setup, answer>>

(* As many words are zeroed as there are buckets; the first two words of an *)
(* entry are its hash and its link.                                         *)
Cleared(b) ==
  [map.buckets[b] EXCEPT
     !.hash = IF EntryWords * b < map.bucketsCount THEN NoHash ELSE @,
     !.next = IF EntryWords * b + 1 < map.bucketsCount THEN None ELSE @]

Clear ==
  /\ setup.mayClear
  /\ map' = [map EXCEPT !.count = 0, !.collisions = << >>, !.supply = None,
                        !.buckets = [b \in DOMAIN @ |-> Cleared(b)]]
  /\ refs' = AllUnreferenced(map)
  /\ UNCHANGED <<setup, answer>>

Next == \/ \E k \in DOMAIN setup.hash :
             \/ \E u \in setup.updates : Update(k, u[1], u[2])
             \/ RemoveKey(k)
             \/ Get(k)
        \/ Clear
        \/ DisposeAndInit

Spec == Init /\ [][Next]_vars

=============================================================================
