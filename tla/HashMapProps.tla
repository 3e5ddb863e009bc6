--------------------------- MODULE HashMapProps -----------------------------
(***************************************************************************)
(* What must hold of the hashmap, whatever calls are made in what order.   *)
(***************************************************************************)
EXTENDS HashMap

KeysFound == {setup.ref[k] : k \in {j \in DOMAIN setup.hash : ContainsKey(map, j)}}
KeysVisited(stops) == [i \in DOMAIN VisitedUntil(map, stops) |-> VisitedUntil(map, stops)[i].key]

(* The map is a dictionary for its callers: every update mode, every      *)
(* removal and every lookup answers for the key it was called with, even  *)
(* if keys share a hash or a bucket, across removals and doublings.       *)
Abstract ==
  INSTANCE Dictionary
    WITH dict <- [k \in KeysFound |-> ValueOf(map, k)]
ImplementsDictionary == Abstract!Spec

(* No cell of the collision vector is lost or has two owners: it lies on   *)
(* the chain of one bucket or on the supply list, and once.  A cell lost   *)
(* is a leak that no lookup shows, one owned twice a key that vanishes at  *)
(* a later insertion (add_to_supply_list in remove and resize, the pull    *)
(* from the supply list in update).                                        *)
CellsOwnedOnce ==
  LET chains == [b \in 1 .. map.bucketsCount |->
                   SelectSeq(Chain(map, b - 1), LAMBDA c : c # 0)]
      owned == FlattenSeq(chains) \o Linked(map, map.supply)
  IN  /\ IsInjective(owned)
      /\ ToSet(owned) = DOMAIN map.collisions

(* Iteration passes every key that a lookup finds, once, and no other, and *)
(* their number is the count that the threshold is compared with           *)
(* (for_each; resize must not leave the base of a bucket behind).  As many *)
(* of them as the debug version calls collisions lie in the cells that are *)
(* in use.                                                                 *)
IterationExact ==
  /\ IsInjective(KeysVisited({}))
  /\ ToSet(KeysVisited({})) = KeysFound
  /\ Len(KeysVisited({})) = map.count
  /\ Cardinality(Collided(map)) = Len(map.collisions) - Len(Linked(map, map.supply))

(* "Invoke the iteration function [...] while "true" is returned"          *)
(* (rm_hashmap.h:735): nothing is passed after the key at which it returns *)
(* false.                                                                  *)
StopsWhenTold ==
  \A k \in KeysFound : Last(KeysVisited({k})) = k

(* "Ref and unref functions: They are used to take resp. release ownership *)
(* of a hashmap key or value" (rm_hashmap.h:1148): what was referenced and *)
(* not unreferenced yet is what the map holds, each pair once, whatever    *)
(* was replaced, merged, removed and disposed of before.                   *)
RefsHeld ==
  LET times(S(_)) == Len(SelectSeq(Visited(map), S))
  IN  /\ \A k \in Keys : refs.keys[k] = times(LAMBDA e : e.key = k)
      /\ \A v \in Values : refs.values[v] = times(LAMBDA e : e.value = v)

(* A map that was asked for enough buckets is not resized before it holds  *)
(* more pairs than that (rm_hashmap_get_sufficient_bucket_count, which is  *)
(* rounded up, against the threshold, which is rounded down and clamped).  *)
NoEarlyResize ==
  [][map'.bucketsCount > map.bucketsCount => map'.count > setup.items]_vars

(* "Clear the given hashmap" (rm_hashmap.h:303): a map that counts no pair *)
(* finds no key.                                                           *)
ClearEmpties == map.count = 0 => \A k \in DOMAIN setup.hash : ~ContainsKey(map, k)
=============================================================================
