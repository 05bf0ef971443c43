-------------------------------- MODULE Map --------------------------------
(***************************************************************************)
(* What a hash table promises: a map from keys to data, whatever buckets,  *)
(* chains, sizes and counters it keeps.  Every answer names the call it    *)
(* answers, with the key and the datum the caller passed.                  *)
(***************************************************************************)
EXTENDS Naturals, FiniteSets

CONSTANTS Keys, Data, NULL

VARIABLES
  map,
  fold,         \* what a caller's key stands for, equal for equal keys
  owns,         \* the table frees a datum that leaves it
  res           \* the last call and its answer

Parameters == <<fold, owns>>

Content == {k \in Keys : map[k] # NULL}
Empty == [k \in Keys |-> NULL]
Foldings == {f \in [Keys -> Keys] : \A k \in Keys : f[f[k]] = f[k]}

Answer(call, found, data, keys, n) ==
  [call |-> call, found |-> found, data |-> data, keys |-> keys, n |-> n]

Nothing(call) == Answer(call, FALSE, NULL, {}, 0)

(* The call is compared first, lest TLC works out the answers of others. *)
Answers(call, found, data, keys, n) ==
  res'.call = call /\ res' = Answer(call, found, data, keys, n)

AnswersNothing(call) == Answers(call, FALSE, NULL, {}, 0)

Init ==
  /\ map = Empty
  /\ fold \in Foldings
  /\ owns \in BOOLEAN
  /\ res = Nothing(<<"new">>)

Get(key) ==
  /\ Answers(<<"get", key>>, map[fold[key]] # NULL, map[fold[key]], {}, 0)
  /\ UNCHANGED <<map, Parameters>>

(* The datum of the key is given back, unless it is freed. *)
Back(key) == IF owns THEN NULL ELSE map[fold[key]]

Put(key, d) ==
  /\ Answers(<<"put", key, d>>, map[fold[key]] # NULL, Back(key), {}, 0)
  /\ map' = [map EXCEPT ![fold[key]] = d]
  /\ UNCHANGED Parameters

Delete(key) ==
  /\ Answers(<<"delete", key>>, FALSE, Back(key), {}, 0)
  /\ map' = [map EXCEPT ![fold[key]] = NULL]
  /\ UNCHANGED Parameters

(* The entries whose keys a callback accepts. *)
Remove(keys) ==
  LET gone == {fold[key] : key \in keys}
  IN /\ Answers(<<"remove", keys>>, FALSE, NULL, {}, Cardinality(gone))
     /\ gone \subseteq Content
     /\ map' = [k \in Keys |-> IF k \in gone THEN NULL ELSE map[k]]
     /\ UNCHANGED Parameters

AllKeys ==
  /\ Answers(<<"keys">>, FALSE, NULL, Content, Cardinality(Content))
  /\ UNCHANGED <<map, Parameters>>

(* An iteration starts with an entry if there is one, and goes on with one *)
(* or ends.                                                                *)
One(call) ==
  res'.call = call /\ \E k \in Content : Answers(call, TRUE, map[k], {k}, 0)

Each ==
  /\ \/ One(<<"each">>)
     \/ AnswersNothing(<<"each">>) /\ Content = {}
  /\ UNCHANGED <<map, Parameters>>

More ==
  /\ One(<<"next">>) \/ AnswersNothing(<<"next">>)
  /\ UNCHANGED <<map, Parameters>>

Clear ==
  /\ AnswersNothing(<<"clear">>) \/ AnswersNothing(<<"destroy">>)
  /\ map' = Empty
  /\ UNCHANGED Parameters

(* A merge goes on with a table of its own, to be filled by calls of put. *)
Merge ==
  /\ AnswersNothing(<<"merge">>)
  /\ map' = Empty
  /\ fold' \in Foldings
  /\ owns' = FALSE

(* Calls about sizes, and the start of a copy. *)
Tune == AnswersNothing(<<"tune">>) /\ UNCHANGED <<map, Parameters>>

Next ==
  \/ Tune \/ Each \/ More \/ AllKeys \/ Clear \/ Merge
  \/ \E key \in Keys : Get(key) \/ Delete(key) \/ \E d \in Data : Put(key, d)
  \/ \E keys \in SUBSET Keys : Remove(keys)

Spec == Init /\ [][Next]_<<map, Parameters, res>>
=============================================================================
