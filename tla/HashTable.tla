----------------------------- MODULE HashTable -----------------------------
(***************************************************************************)
(* The chained hash table of lib/cfuhash.c, which is the code generator's  *)
(* symbol table.  One action per function of its interface that changes    *)
(* the table or answers a question about it.                               *)
(*                                                                         *)
(* A key is a member of Keys; Lower gives its lower-case form.  buckets[b] *)
(* is the chain of bucket b - 1, newest entry first.  The thresholds high  *)
(* and low count quarters, so that the code's floating-point divisions are *)
(* exact.  The build defines no HAVE_PTHREAD_H: locks are empty.           *)
(***************************************************************************)
EXTENDS Integers, SequencesExt, Functions

CONSTANTS
  Keys,         \* keys considered
  Lower,        \* [Keys -> Keys], idempotent: tolower on every character
  Data,         \* data considered, never the NULL pointer
  NULL,
  Hashes,       \* hash functions considered
  Default,      \* the one a table made by cfuhash_merge starts with
  Sizes,        \* initial sizes considered
  Options,      \* sets of flags considered for cfuhash_new_with_flags
  Toggled,      \* flags considered for cfuhash_set_flag, cfuhash_clear_flag
  Thresholds,   \* arguments of cfuhash_set_thresholds, <<low, high>>; with
                \* <<0, 0>> cfuhash_rehash divides by zero
  MaxEntries,   \* bound: the counter `entries'
  MaxOther      \* bound: entries of another table

Flag == {"FROZEN", "FROZEN_UNTIL_GROWS", "FREE_DATA", "IGNORE_CASE"}

ASSUME HashTableAssumption ==
  /\ Lower \in [Keys -> Keys] /\ \A k \in Keys : Lower[Lower[k]] = Lower[k]
  /\ NULL \notin Data \cup Keys
  /\ Hashes \subseteq [Keys -> Nat] /\ Default \in Hashes
  /\ Sizes \subseteq Nat
  /\ Options \subseteq SUBSET Flag
  /\ Toggled \subseteq {"FROZEN", "FROZEN_UNTIL_GROWS"}
  /\ Thresholds \subseteq {t \in Int \X Int : t[2] # 0}
  /\ {MaxEntries, MaxOther} \subseteq Nat

VARIABLES
  buckets,      \* the chains
  entries,      \* the counter of entries
  flags,
  hash_func,
  low, high,    \* thresholds
  free_fn,      \* whether a free function is set
  resized,      \* resized_count > 0
  iter,         \* the position of cfuhash_next, and history of the iteration
  live,         \* history: data handed over by put and not freed since
  res,          \* the last call, with its arguments, and its answer
  copy,         \* in cfuhash_copy: what is still to be put, and history
  status        \* running, copying, destroyed, or undefined after a use
                \* after free

vars == <<buckets, entries, flags, hash_func, low, high, free_fn, resized,
          iter, live, res, copy, status>>

-----------------------------------------------------------------------------
(* Keys, chains and sizes.                                                 *)

Entry == [key: Keys, data: Data]

Num(bs) == Len(bs)

Folded(key) == IF "IGNORE_CASE" \in flags THEN Lower[key] ELSE key

(* hash_value: the bucket of a key among n. *)
Slot(key, n) == 1 + (hash_func[Folded(key)] % n)

(* Mutant: only the first entry of a chain is looked at. *)
FindHead(key) ==
  LET chain == buckets[Slot(key, Num(buckets))]
  IN IF chain # <<>> /\ Folded(chain[1].key) = Folded(key) THEN 1 ELSE 0

(* The place of the key in its chain, 0 if it is not there. *)
Find(key) ==
  LET chain == buckets[Slot(key, Num(buckets))]
      is == {i \in 1..Len(chain) : Folded(chain[i].key) = Folded(key)}
  IN IF is = {} THEN 0 ELSE CHOOSE i \in is : \A j \in is : i <= j

Traversal == FlattenSeq(buckets)
Stored == UNION {Range(buckets[b]) : b \in 1..Num(buckets)}
StoredKeys == {e.key : e \in Stored}
StoredData == {e.data : e \in Stored}

PowerOfTwo[k \in Nat] == IF k = 0 THEN 1 ELSE 2 * PowerOfTwo[k - 1]

(* hash_size: the least power of two that is not below s. *)
HashSize(s) ==
  CHOOSE p \in {PowerOfTwo[k] : k \in 0..s} :
    p >= s /\ \A k \in 0..s : PowerOfTwo[k] >= s => p <= PowerOfTwo[k]

(* Mutant: room for just the entries there are. *)
NewSizeTight(n) == HashSize(n)
NewSize(n) == HashSize((4 * 2 * n) \div (high + low))

NewSlot(e, n) == Slot(e.key, n)

(* The elements of s that are in S, in their order. *)
Chosen(s, S) ==
  LET some[n \in 0..Len(s)] ==
        IF n = 0 THEN <<>>
        ELSE IF s[n] \in S THEN Append(some[n - 1], s[n]) ELSE some[n - 1]
  IN some[Len(s)]

(* cfuhash_rehash of the chains bs that hold n entries: chain by chain the *)
(* entries move to the front of their new chains.                          *)
Rehashed(bs, n) ==
  LET size == NewSize(n)
      all == FlattenSeq(bs)
  IN IF size = Num(bs) THEN bs
     ELSE [b \in 1..size |->
             Reverse(Chosen(all, {e \in Range(all) : NewSlot(e, size) = b}))]

-----------------------------------------------------------------------------
(* Answers and iteration.                                                  *)

(* An answer names the call with the key and the datum passed. *)
Answer(call, found, data, keys, n) ==
  [call |-> call, found |-> found, data |-> data, keys |-> keys, n |-> n]

Nothing(call) == Answer(call, FALSE, NULL, {}, 0)

(* on: between cfuhash_each and the end; idx: each_bucket_index + 1;       *)
(* cur: the key of each_chain_entry, NULL once that entry was freed.       *)
(* History, until the table is resized (moved) or that entry freed: the    *)
(* keys that were there all the time, and those of them returned so far.   *)
Idle == [on |-> FALSE, idx |-> 0, cur |-> NULL, seen |-> {}, since |-> {},
         moved |-> FALSE]

(* The entries with the keys gone are removed, and the table may resize. *)
Disturb(gone) ==
  iter' = IF ~iter.on THEN iter
          ELSE LET cur == IF iter.cur \in gone THEN NULL ELSE iter.cur
                   moved == iter.moved \/ Num(buckets') # Num(buckets)
                   kept == IF moved \/ cur = NULL THEN {} ELSE Keys \ gone
               IN [iter EXCEPT !.cur = cur, !.moved = moved,
                               !.seen = @ \cap kept, !.since = @ \cap kept]

Resize(bs, n, when) ==
  /\ buckets' = IF when THEN Rehashed(bs, n) ELSE bs
  /\ resized' = (resized \/ Num(buckets') # Num(bs))

MayShrink == /\ "FROZEN" \notin flags
             /\ "FROZEN_UNTIL_GROWS" \in flags => resized

Shrink(bs, n, removed) ==
  Resize(bs, n, removed /\ MayShrink /\ 4 * n < low * Num(bs))

Running == status = "running"
Tuning == UNCHANGED <<flags, hash_func, low, high, free_fn>>
Table == UNCHANGED <<buckets, entries, resized>>

-----------------------------------------------------------------------------
(* Operations.                                                             *)

(* cfuhash_get_data *)
Get(key) ==
  /\ Running
  /\ LET i == Find(key)
         call == <<"get", key>>
     IN res' = IF i = 0 THEN Nothing(call)
               ELSE Answer(call, TRUE, buckets[Slot(key, Num(buckets))][i].data, {}, 0)
  /\ Table /\ Tuning /\ UNCHANGED <<iter, live, status>>

(* Mutant: the old datum is returned after it was freed. *)
OldAnyway(data) == data
OldData(data) == IF free_fn THEN NULL ELSE data

Freed(data) == IF free_fn THEN data ELSE {}

(* cfuhash_put_data of a key that is there. *)
Replace(key, d) ==
  /\ Find(key) # 0
  /\ LET b == Slot(key, Num(buckets))
         old == buckets[b][Find(key)].data
     IN /\ buckets' = [buckets EXCEPT ![b][Find(key)].data = d]
        /\ res' = Answer(<<"put", key, d>>, TRUE, OldData(old), {}, 0)
        /\ live' = (live \ Freed({old})) \cup {d}
  /\ Tuning /\ UNCHANGED <<entries, resized, iter>>

(* cfuhash_put_data of a new key: the table may grow. *)
Add(key, d) ==
  /\ Find(key) = 0
  /\ entries < MaxEntries
  /\ LET added == [buckets EXCEPT ![Slot(key, Num(buckets))] =
                     <<[key |-> key, data |-> d]>> \o @]
     IN Resize(added, entries + 1,
               "FROZEN" \notin flags /\ 4 * (entries + 1) > high * Num(added))
  /\ entries' = entries + 1
  /\ res' = Nothing(<<"put", key, d>>)
  /\ live' = live \cup {d}
  /\ Disturb({})
  /\ Tuning

(* The caller hands a datum over once. *)
Put(key, d) ==
  /\ Running
  /\ d \notin StoredData
  /\ Add(key, d) \/ Replace(key, d)
  /\ UNCHANGED status

(* Mutant: the counter is decremented whether or not the key was there. *)
OneLess(found) == entries - 1
EntriesLeft(found) == IF found THEN entries - 1 ELSE entries

(* cfuhash_delete_data *)
Delete(key) ==
  /\ Running
  /\ LET b == Slot(key, Num(buckets))
         i == Find(key)
         left == IF i = 0 THEN buckets ELSE [buckets EXCEPT ![b] = RemoveAt(@, i)]
         gone == IF i = 0 THEN {} ELSE {buckets[b][i]}
     IN /\ entries' = EntriesLeft(i # 0)
        /\ Shrink(left, entries', i # 0)
        /\ res' = Answer(<<"delete", key>>, FALSE,
                         IF i = 0 THEN NULL ELSE OldData(buckets[b][i].data), {}, 0)
        /\ live' = live \ Freed({e.data : e \in gone})
        /\ Disturb({e.key : e \in gone})
  /\ Tuning /\ UNCHANGED status

(* cfuhash_clear *)
Clear ==
  /\ Running
  /\ Shrink([b \in 1..Num(buckets) |-> <<>>], 0, TRUE)
  /\ entries' = 0
  /\ res' = Nothing(<<"clear">>)
  /\ live' = live \ Freed(StoredData)
  /\ Disturb(StoredKeys)
  /\ Tuning /\ UNCHANGED status

(* The removed entries that have no retained one before them: they are     *)
(* destroyed without the caller's free function ff.                        *)
Heads(ks) ==
  UNION {{buckets[b][i].key : i \in {i \in 1..Len(buckets[b]) :
                                     \A j \in 1..i : buckets[b][j].key \in ks}} :
         b \in 1..Num(buckets)}

(* Mutant: entries that are unlinked from the front are not freed. *)
DestroyedButHeads(ks, ff) ==
  {e.data : e \in {e \in Stored : e.key \in ks \ Heads(ks)}}
Destroyed(ks, ff) ==
  {e.data : e \in {e \in Stored :
     /\ e.key \in ks
     /\ free_fn \/ "FREE_DATA" \in flags \/ (ff /\ e.key \notin Heads(ks))}}

(* cfuhash_foreach_remove, whose callback accepts the entries with the     *)
(* keys ks.  Neither the counter nor the size is brought up to date.       *)
ForeachRemove(ks, ff) ==
  /\ Running
  /\ buckets' = [b \in 1..Num(buckets) |->
                   Chosen(buckets[b], {e \in Stored : e.key \notin ks})]
  /\ res' = Answer(<<"remove", ks>>, FALSE, NULL, {}, Cardinality(ks))
  /\ live' = live \ Destroyed(ks, ff)
  /\ Disturb(ks)
  /\ Tuning /\ UNCHANGED <<entries, resized, status>>

(* cfuhash_keys_data stops when it found as many keys as were counted. *)
Listed ==
  SubSeq(Traversal, 1, IF Len(Traversal) <= entries THEN Len(Traversal) ELSE entries)

KeysData ==
  /\ Running
  /\ res' = Answer(<<"keys">>, FALSE, NULL,
                   {Folded(e.key) : e \in Range(Listed)}, Len(Listed))
  /\ Table /\ Tuning /\ UNCHANGED <<iter, live, status>>

(* The first entry of a bucket behind idx. *)
NextChain(idx) ==
  LET bs == {b \in (idx + 1)..Num(buckets) : buckets[b] # <<>>}
  IN IF bs = {} THEN 0 ELSE CHOOSE b \in bs : \A c \in bs : b <= c

(* Mutant: a chain is left after its first entry. *)
SuccessorNone(key) == NULL
(* The key behind this one in its chain, or NULL. *)
Successor(key) ==
  LET chain == buckets[Slot(key, Num(buckets))]
      is == {i \in 2..Len(chain) : chain[i - 1].key = key}
  IN IF is = {} THEN NULL ELSE chain[CHOOSE i \in is : TRUE].key

(* it stands on the entry returned, or is at its end. *)
Yield(call, it) ==
  IF it.idx = 0
    THEN iter' = Idle /\ res' = Nothing(call)
    ELSE LET e == CHOOSE e \in Stored : e.key = it.cur
         IN /\ iter' = [it EXCEPT !.on = TRUE, !.seen = @ \cup ({it.cur} \cap it.since)]
            /\ res' = Answer(call, TRUE, e.data, {Folded(it.cur)}, 0)

Move(it, idx) ==
  [it EXCEPT !.idx = idx,
             !.cur = IF idx = 0 THEN NULL ELSE buckets[idx][1].key]

(* cfuhash_each_data *)
EachData ==
  /\ Running
  /\ Yield(<<"each">>, Move([Idle EXCEPT !.since = StoredKeys], NextChain(0)))
  /\ Table /\ Tuning /\ UNCHANGED <<live, status>>

(* cfuhash_next_data; its caller stops at the end. *)
NextData ==
  /\ Running
  /\ iter.on /\ iter.cur # NULL
  /\ Yield(<<"next">>, IF Successor(iter.cur) # NULL
                         THEN [iter EXCEPT !.cur = Successor(iter.cur)]
                         ELSE Move(iter, NextChain(iter.idx)))
  /\ Table /\ Tuning /\ UNCHANGED <<live, status>>

(* The entry that was returned last was freed, and is read. *)
NextFreed ==
  /\ Running
  /\ iter.on /\ iter.cur = NULL
  /\ status' = "undefined"
  /\ Table /\ Tuning /\ UNCHANGED <<iter, live, res>>

(* cfuhash_rehash *)
Rehash ==
  /\ Running
  /\ Resize(buckets, entries, TRUE)
  /\ res' = Nothing(<<"tune">>)
  /\ Disturb({})
  /\ Tuning /\ UNCHANGED <<entries, live, status>>

(* Mutant: the hash function may change at any time. *)
HashMayChangeAlways(n) == TRUE
HashMayChange(n) == n = 0

(* cfuhash_set_hash_function *)
SetHash(f) ==
  /\ Running
  /\ hash_func' = IF HashMayChange(entries) THEN f ELSE hash_func
  /\ res' = Nothing(<<"tune">>)
  /\ Table /\ UNCHANGED <<flags, low, high, free_fn, iter, live, status>>

(* cfuhash_set_thresholds: a negative argument keeps the old value. *)
SetThresholds(t) ==
  /\ Running
  /\ LET l == IF t[1] < 0 THEN low ELSE t[1]
         h == IF t[2] < 0 THEN high ELSE t[2]
     IN IF h < l THEN UNCHANGED <<low, high>> ELSE low' = l /\ high' = h
  /\ res' = Nothing(<<"tune">>)
  /\ Table /\ UNCHANGED <<flags, hash_func, free_fn, iter, live, status>>

(* cfuhash_set_flag, cfuhash_clear_flag, for flags that steer resizing. *)
SetFlag(f) ==
  /\ Running
  /\ flags' = IF f \in flags THEN flags \ {f} ELSE flags \cup {f}
  /\ res' = Nothing(<<"tune">>)
  /\ Table /\ UNCHANGED <<hash_func, low, high, free_fn, iter, live, status>>

NoCopy == [todo |-> <<>>, goal |-> [k \in Keys |-> {NULL}]]

(* The entries of src are put one after the other, with the flags fs.      *)
(* goal: the data a key may have in the end, one of those that `over' has  *)
(* for it, or else `under'.                                                *)
Begin(call, src, over, under, fs) ==
  LET fold(k) == IF "IGNORE_CASE" \in fs THEN Lower[k] ELSE k
      of(es, k) == {e.data : e \in {e \in es : fold(e.key) = k}}
      goal(k) == IF of(over, k) # {} THEN of(over, k)
                 ELSE IF of(under, k) # {} THEN of(under, k) ELSE {NULL}
  IN /\ copy' = IF src = <<>> THEN NoCopy
                ELSE [todo |-> src, goal |-> [k \in Keys |-> goal(k)]]
     /\ status' = IF src = <<>> THEN "running" ELSE "copying"
     /\ res' = Nothing(call)

(* cfuhash_copy into this table, from another one that lists src.          *)
Copy(src) ==
  /\ Running
  /\ entries + Len(src) <= MaxEntries
  /\ Begin(<<"tune">>, src, Range(src), Stored, flags)
  /\ Table /\ Tuning /\ UNCHANGED <<iter, live>>

(* Mutant: the second table is copied first. *)
MergedSecondFirst(first, second) == second \o first
Merged(first, second) == first \o second

(* cfuhash_merge of this table and another one that lists src; the caller  *)
(* goes on with the new table.                                             *)
Merge(src, options) ==
  /\ Running
  /\ entries + Len(src) <= MaxEntries
  /\ buckets' = [b \in 1..HashSize(entries + Len(src)) |-> <<>>]
  /\ Begin(<<"merge">>, Merged(Listed, src), Range(src), Stored, options)
  /\ flags' = options \cup {"FROZEN_UNTIL_GROWS"}
  /\ hash_func' = Default
  /\ entries' = 0 /\ low' = 1 /\ high' = 3 /\ free_fn' = FALSE /\ resized' = FALSE
  /\ iter' = Idle
  /\ UNCHANGED live

CopyNext ==
  /\ status = "copying"
  /\ LET e == Head(copy.todo) IN Add(e.key, e.data) \/ Replace(e.key, e.data)
  /\ IF Len(copy.todo) = 1
       THEN copy' = NoCopy /\ status' = "running"
       ELSE copy' = [copy EXCEPT !.todo = Tail(@)] /\ UNCHANGED status

(* cfuhash_destroy, cfuhash_destroy_with_free_fn *)
Destroy(ff) ==
  /\ Running
  /\ status' = "destroyed"
  /\ buckets' = <<>>
  /\ live' = IF ff \/ free_fn \/ "FREE_DATA" \in flags THEN live \ StoredData ELSE live
  /\ res' = Nothing(<<"destroy">>)
  /\ iter' = Idle
  /\ Tuning /\ UNCHANGED <<entries, resized>>

Ended == status \in {"destroyed", "undefined"} /\ UNCHANGED vars

Operation ==
  \/ \E key \in Keys : Get(key) \/ Delete(key) \/ \E d \in Data : Put(key, d)
  \/ Clear \/ KeysData \/ EachData \/ NextData \/ NextFreed \/ Rehash
  \/ \E ff \in BOOLEAN : \/ Destroy(ff)
                         \/ \E ks \in SUBSET StoredKeys : ForeachRemove(ks, ff)
  \/ \E f \in Hashes : SetHash(f)
  \/ \E f \in Toggled : SetFlag(f)
  \/ \E t \in Thresholds : SetThresholds(t)
  \/ Ended

(* What another table may list; it holds other data. *)
Lists ==
  {src \in BoundedSeq([key: Keys, data: Data \ StoredData], MaxOther) :
     \A i, j \in 1..Len(src) : i # j =>
       src[i].key # src[j].key /\ src[i].data # src[j].data}

Next ==
  \/ Operation /\ UNCHANGED copy
  \/ \E src \in Lists : Copy(src) \/ \E o \in Options : Merge(src, o)
  \/ CopyNext

(* cfuhash_new_with_initial_size, _with_flags and _with_free_fn. *)
New(size, options, freed) ==
  /\ buckets = [b \in 1..HashSize(IF size = 0 THEN 8 ELSE size) |-> <<>>]
  /\ flags = options \cup {"FROZEN_UNTIL_GROWS"}
  /\ free_fn = freed

Init ==
  /\ \/ \E s \in Sizes : New(s, {}, FALSE)
     \/ \E o \in Options : New(8, o, FALSE)
     \/ New(8, {}, TRUE)
  /\ entries = 0
  /\ hash_func \in Hashes
  /\ low = 1 /\ high = 3
  /\ resized = FALSE
  /\ iter = Idle
  /\ live = {}
  /\ res = Nothing(<<"new">>)
  /\ copy = NoCopy
  /\ status = "running"

Spec == Init /\ [][Next]_vars

-----------------------------------------------------------------------------
(* Properties.                                                             *)

(* Every variable has its type; the number of buckets is a power of two. *)
TypeOK ==
  /\ buckets \in Seq(Seq(Entry))
  /\ Running => \E k \in 0..Num(buckets) : Num(buckets) = PowerOfTwo[k]
  /\ entries \in Nat
  /\ flags \subseteq Flag
  /\ hash_func \in Hashes
  /\ low \in Nat /\ high \in Nat
  /\ {free_fn, resized} \subseteq BOOLEAN
  /\ iter.on => iter.idx \in Nat \ {0}
  /\ live \subseteq Data
  /\ copy.todo \in Seq(Entry)
  /\ status \in {"running", "copying", "destroyed", "undefined"}

(* Every entry is in the bucket its key hashes to, under the hash function *)
(* and the number of buckets of the moment, and no key is stored twice.    *)
(* For that, and lest cfuhash_keys leaves a key out ("this should never    *)
(* happen"), the counter never falls below the number of entries.          *)
Placed ==
  /\ Len(Traversal) <= entries
  /\ \A b \in 1..Num(buckets) : \A i \in 1..Len(buckets[b]) :
       LET key == buckets[b][i].key
       IN /\ Slot(key, Num(buckets)) = b
          /\ \A j \in 1..(i - 1) : Folded(buckets[b][j].key) # Folded(key)

(* With a free function, the data that were handed over and not freed are  *)
(* exactly those in the table: none is freed while it is in use, freed     *)
(* twice or forgotten, and no answer points to freed memory.               *)
Owned ==
  free_fn => /\ live = StoredData
             /\ status = "running" => res.data \in StoredData \cup {NULL}

(* A call that adds an entry or changes the number of buckets leaves the   *)
(* load within the thresholds, so that the next one need not undo it.      *)
LoadKept ==
  [][/\ entries' > entries /\ "FROZEN" \notin flags => 4 * entries' <= high * Num(buckets')
     /\ Running' /\ Num(buckets') # Num(buckets) /\ entries' # 0 =>
          /\ 4 * entries' <= high * Num(buckets')
          /\ low * Num(buckets') <= 4 * entries'
    ]_vars

(* An iteration during which the table was not resized returns every entry *)
(* that was there all the time exactly once, whatever else was added and   *)
(* removed meanwhile.                                                      *)
IterationExact ==
  [][NextData /\ ~iter.moved =>
       IF res'.found THEN iter'.cur \notin iter.seen
       ELSE iter.since = iter.seen]_vars

(* A key stands for all those it is equal to. *)
MapOf ==
  LET stored == Stored
  IN [key \in Keys |->
        LET is == {e \in stored : Folded(e.key) = key}
        IN IF is = {} THEN NULL ELSE (CHOOSE e \in is : TRUE).data]

(* cfuhash_copy and cfuhash_merge carry every entry over: a key ends up    *)
(* with a datum that the copied table, of two merged ones the second, has  *)
(* for it, or else with that of the other one.  Only where two keys of one *)
(* table become one by IGNORE_CASE is either datum as good.                *)
CopyExact ==
  [][status = "copying" /\ Running' => \A k \in Keys : MapOf'[k] \in copy.goal[k]]_vars

(* What the keys stand for. *)
Themselves == [key \in Keys |-> key]
FoldOf == IF "IGNORE_CASE" \in flags THEN Lower ELSE Themselves

Abstract == INSTANCE Map WITH map <- MapOf, fold <- FoldOf, owns <- free_fn

(* The table is a map: through collisions, growth, shrinking, removal and  *)
(* changes of its parameters every call answers for the key, and stores    *)
(* the datum, that were passed to it as a map would.                       *)
ImplementsMap == Abstract!Spec
=============================================================================
