----------------------------- MODULE MCHashMap ------------------------------
(***************************************************************************)
(* Small hashmaps: every chain and split of four keys in tables that are   *)
(* allocated at the first insertion, that double, and that never do.       *)
(***************************************************************************)
EXTENDS HashMapProps

MCKeys == 0 .. 3
MCValues == {0, 1}
MCMerge(old, new) == 1 - old

EveryUpdate == MCValues \X D!Modes
Setup(hash, initial, load, updates, mayClear) ==
  [hash |-> [k \in 0 .. Len(hash) - 1 |-> hash[k + 1]],
   ref |-> [k \in 0 .. Len(hash) - 1 |-> k], initial |-> initial, items |-> 0,
   load |-> load, updates |-> updates, mayClear |-> mayClear]
For(items, base) == [base EXCEPT !.items = items]

\* Four keys whose chain splits in two, then in four; buckets that hold several
\* entries at the threshold of 1; a table that starts unallocated and reaches
\* the maximum; three keys of one bucket, which may be cleared; a table that is
\* to be large enough for two pairs and gets a third.
MCSetups == {Setup(<<0, 1, 2, 3>>, 1, <<3, 1>>, {<<0, "Insert">>}, FALSE),
             Setup(<<1, 5, 3>>, 2, <<1, 2>>, EveryUpdate, FALSE),
             Setup(<<0, 8, 1>>, 0, <<1, 4>>, EveryUpdate, FALSE),
             Setup(<<0, 8, 0>>, 1, <<9, 1>>, EveryUpdate, TRUE),
             For(2, Setup(<<1, 5, 2>>, 0, <<3, 4>>, {<<0, "Insert">>}, FALSE))}

\* The maps of the library have more than one bucket.
MCClearedSetups == {Setup(<<0, 1, 2, 3>>, 3, <<3, 4>>, EveryUpdate, TRUE)}

\* The ref function duplicates a key: what it makes of 0 and 1 is stored as 2
\* and 3.
MCDuplicatingSetups ==
  {[Setup(<<1, 5, 1, 5>>, 2, <<3, 4>>, EveryUpdate, FALSE) EXCEPT
      !.ref = [k \in 0 .. 3 |-> IF k < 2 THEN k + 2 ELSE k]]}
=============================================================================
