---------------------------- MODULE MCHashTable ----------------------------
(* Model checking of HashTable: keys that collide, and two cases of one. *)
EXTENDS HashTable, TLC

CONSTANTS key1, KEY1, key2

LowerCase == [k \in Keys |-> IF k = KEY1 THEN key1 ELSE k]

(* The second one sends every key to the same bucket. *)
Spread == [k \in Keys |-> IF k = key1 THEN 1 ELSE IF k = KEY1 THEN 4 ELSE 5]
Same == [k \in Keys |-> 3]

TwoHashes == {Spread, Same}
FewThresholds == {<<0, 2>>}
FewOptions == {{"IGNORE_CASE", "FREE_DATA"}}
Sym == Permutations(Data)

(* No iteration is followed in a table whose thresholds were changed. *)
Apart == low = 0 => ~iter.on

(* cfuhash.h of cfuhash_num_entries: "Returns the number entries in the    *)
(* hash."  cfuhash_foreach_remove leaves the counter as it was.            *)
EntriesExact == status = "running" => entries = Len(Traversal)
=============================================================================
