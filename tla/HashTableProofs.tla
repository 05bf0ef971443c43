--------------------------- MODULE HashTableProofs --------------------------
(***************************************************************************)
(* Proofs about HashTable, for every set of keys and data, every hash      *)
(* function and every size.  The chains are reasoned about as sets of      *)
(* entries; the first part says what the recursive helpers on sequences    *)
(* do to these, by least counterexamples.                                  *)
(***************************************************************************)
EXTENDS HashTable, NatLemmas, FiniteSetTheorems, SequenceTheorems, TLAPS

-----------------------------------------------------------------------------
(* Chosen and FlattenSeq.                                                  *)

(* What is chosen of ever more of s. *)
Choosing(f, s, S) ==
  /\ f[0] = <<>>
  /\ \A n \in 1..Len(s) :
       f[n] = IF s[n] \in S THEN Append(f[n - 1], s[n]) ELSE f[n - 1]

LEMMA ChosenSteps ==
  ASSUME NEW E, NEW s \in Seq(E), NEW S
  PROVE  \E f \in [0..Len(s) -> Seq(E)] : Chosen(s, S) = f[Len(s)] /\ Choosing(f, s, S)
<1> DEFINE Def(f) == [n \in 0..Len(s) |->
                        IF n = 0 THEN <<>>
                        ELSE IF s[n] \in S THEN Append(f[n - 1], s[n]) ELSE f[n - 1]]
           step == [i \in Nat |-> [x \in Seq(E) |->
                      IF i \in 1..Len(s) /\ s[i] \in S THEN Append(x, s[i]) ELSE x]]
           some == CHOOSE f : f = Def(f)
<1>1. Len(s) \in Nat /\ <<>> \in Seq(E)
  BY EmptySeq
<1>2. \A i \in Nat, x \in Seq(E) :
        /\ step[i][x] = IF i \in 1..Len(s) /\ s[i] \in S THEN Append(x, s[i]) ELSE x
        /\ step[i][x] \in Seq(E)
  OBVIOUS
<1>3. PICK f \in [0..Len(s) -> Seq(E)] :
        f[0] = <<>> /\ \A i \in 1..Len(s) : f[i] = step[i][f[i - 1]]
  <2>1. Keeps(step, Seq(E))
    BY <1>2 DEF Keeps
  <2> HIDE DEF step
  <2>2. Runs(<<>>, step, Seq(E), Len(s)) # {}
    BY <1>1, <2>1, Recursion
  <2> QED
    BY <2>2 DEF Runs
<1>4. \A n \in 1..Len(s) :
        f[n] = IF s[n] \in S THEN Append(f[n - 1], s[n]) ELSE f[n - 1]
  <2> HIDE DEF step
  <2> TAKE n \in 1..Len(s)
  <2>1. n \in Nat /\ n - 1 \in 0..Len(s)
    BY <1>1
  <2>2. f[n - 1] \in Seq(E)
    BY <2>1
  <2> QED
    BY <1>2, <1>3, <2>1, <2>2
<1>5. f = Def(f)
  <2>1. \A n \in 0..Len(s) :
          f[n] = IF n = 0 THEN <<>>
                 ELSE IF s[n] \in S THEN Append(f[n - 1], s[n]) ELSE f[n - 1]
    <3> HIDE DEF Def, some, step
    <3> TAKE n \in 0..Len(s)
    <3>1. n = 0 \/ n \in 1..Len(s)
      BY <1>1
    <3>2. n \in 1..Len(s) => n # 0
      OBVIOUS
    <3> QED
      BY <1>3, <1>4, <3>1, <3>2
  <2> QED
    BY <2>1
<1>6. some = Def(some)
  <2> HIDE DEF Def
  <2> QED
    BY <1>5
<1>7. Chosen(s, S) = some[Len(s)]
  BY DEF Chosen
<1>8. /\ some[0] = <<>>
      /\ \A n \in 1..Len(s) :
           some[n] = IF s[n] \in S THEN Append(some[n - 1], s[n]) ELSE some[n - 1]
  <2> HIDE DEF some
  <2>1. \A n \in 0..Len(s) : some[n] = Def(some)[n]
    BY <1>6
  <2>2. 0 \in 0..Len(s) /\ \A n \in 1..Len(s) : n \in 0..Len(s) /\ n # 0
    BY <1>1
  <2> QED
    BY <2>1, <2>2
<1>9. \A n \in 0..Len(s) : some[n] \in Seq(E)
  <2> HIDE DEF some, Def
  <2> DEFINE G == {n \in Nat : n <= Len(s) => some[n] \in Seq(E)}
  <2>1. 0 \in G
    BY <1>1, <1>8
  <2>2. ASSUME NEW n \in Nat, n \in G PROVE n + 1 \in G
    <3> SUFFICES ASSUME n + 1 <= Len(s) PROVE some[n + 1] \in Seq(E)
      OBVIOUS
    <3>1. n <= Len(s) /\ n + 1 \in 1..Len(s) /\ (n + 1) - 1 = n
      BY <1>1
    <3>2. some[n] \in Seq(E) /\ s[n + 1] \in E
      BY <2>2, <3>1
    <3>3. some[n + 1] = IF s[n + 1] \in S THEN Append(some[n], s[n + 1]) ELSE some[n]
      BY <1>8, <3>1
    <3> QED
      BY <3>2, <3>3
  <2>3. Nat \subseteq G
    <3> HIDE DEF G
    <3> QED
      BY <2>1, <2>2, Induction
  <2> QED
    BY <1>1, <2>3
<1>10. some \in [0..Len(s) -> Seq(E)]
  <2>1. some = [n \in 0..Len(s) |-> some[n]]
    <3> HIDE DEF some
    <3> QED
      BY <1>6
  <2> HIDE DEF some, Def
  <2> QED
    BY <1>9, <2>1
<1> HIDE DEF some, Def
<1> QED
  BY <1>7, <1>8, <1>10 DEF Choosing

LEMMA FlattenSteps ==
  ASSUME NEW E, NEW s \in Seq(Seq(E))
  PROVE  \E f \in [0..Len(s) -> Seq(E)] :
           /\ FlattenSeq(s) = f[Len(s)]
           /\ f[0] = <<>>
           /\ \A n \in 1..Len(s) : f[n] = f[n - 1] \o s[n]
<1> DEFINE Def(f) == [n \in 1..Len(s) |-> IF n = 1 THEN s[n] ELSE f[n - 1] \o s[n]]
           step == [i \in Nat |-> [x \in Seq(E) |->
                      IF i \in 1..Len(s) THEN x \o s[i] ELSE x]]
           some == CHOOSE f : f = Def(f)
           all == [n \in 0..Len(s) |-> IF n = 0 THEN <<>> ELSE some[n]]
<1>1. Len(s) \in Nat /\ <<>> \in Seq(E)
  BY EmptySeq
<1>0. \A n \in 1..Len(s) : s[n] \in Seq(E) /\ <<>> \o s[n] = s[n]
  <2>1. \A n \in 1..Len(s) : s[n] \in Seq(E)
    OBVIOUS
  <2> QED
    BY <2>1, ConcatEmptySeq
<1>2. \A i \in Nat, x \in Seq(E) :
        /\ step[i][x] = IF i \in 1..Len(s) THEN x \o s[i] ELSE x
        /\ step[i][x] \in Seq(E)
  <2> TAKE i \in Nat, x \in Seq(E)
  <2>1. i \in 1..Len(s) => s[i] \in Seq(E) /\ x \o s[i] \in Seq(E)
    BY <1>0, ConcatProperties
  <2> QED
    BY <2>1
<1>3. PICK f \in [0..Len(s) -> Seq(E)] :
        f[0] = <<>> /\ \A i \in 1..Len(s) : f[i] = step[i][f[i - 1]]
  <2>1. Keeps(step, Seq(E))
    BY <1>2 DEF Keeps
  <2> HIDE DEF step
  <2>2. Runs(<<>>, step, Seq(E), Len(s)) # {}
    BY <1>1, <2>1, Recursion
  <2> QED
    BY <2>2 DEF Runs
<1>4. \A n \in 1..Len(s) : f[n] = f[n - 1] \o s[n]
  <2> HIDE DEF step
  <2> TAKE n \in 1..Len(s)
  <2>1. n \in Nat /\ n - 1 \in 0..Len(s)
    BY <1>1
  <2>2. f[n - 1] \in Seq(E)
    BY <2>1
  <2> QED
    BY <1>2, <1>3, <2>1, <2>2
<1> DEFINE g == [n \in 1..Len(s) |-> f[n]]
<1>5. g = Def(g)
  <2>1. \A n \in 1..Len(s) : f[n] = IF n = 1 THEN s[n] ELSE g[n - 1] \o s[n]
    <3> TAKE n \in 1..Len(s)
    <3>1. CASE n = 1
      <4> HIDE DEF Def, some, step, all, g
      <4>0. n - 1 = 0
        BY <3>1
      <4>1. n - 1 = 0 /\ f[n] = f[n - 1] \o s[n]
        BY <1>4, <4>0
      <4> QED
        BY <1>0, <1>3, <3>1, <4>1
    <3>2. CASE n # 1
      <4>1. n - 1 \in 1..Len(s)
        BY <1>1, <3>2
      <4>2. g[n - 1] = f[n - 1]
        BY <4>1
      <4> QED
        BY <1>4, <3>2, <4>2
    <3> QED
      BY <3>1, <3>2
  <2> QED
    BY <2>1
<1>6. some = Def(some)
  <2> HIDE DEF Def, g
  <2> QED
    BY <1>5
<1>7. \A n \in 1..Len(s) : some[n] = IF n = 1 THEN s[n] ELSE some[n - 1] \o s[n]
  <2> HIDE DEF some
  <2> QED
    BY <1>1, <1>6
<1>8. \A n \in 1..Len(s) : all[n] = all[n - 1] \o s[n]
  <2> HIDE DEF some
  <2> TAKE n \in 1..Len(s)
  <2>1. n \in 0..Len(s) /\ n - 1 \in 0..Len(s) /\ n # 0 /\ (n - 1 = 0 <=> n = 1)
    BY <1>1
  <2>2. all[n] = some[n] /\ all[n - 1] = IF n = 1 THEN <<>> ELSE some[n - 1]
    BY <2>1
  <2> QED
    BY <1>0, <1>7, <2>2
<1>9. \A n \in 0..Len(s) : all[n] \in Seq(E)
  <2>0. all[0] = <<>>
    BY <1>1
  <2> HIDE DEF all
  <2> DEFINE G == {n \in Nat : n <= Len(s) => all[n] \in Seq(E)}
  <2>1. 0 \in G
    BY <1>1, <2>0
  <2>2. ASSUME NEW n \in Nat, n \in G PROVE n + 1 \in G
    <3> SUFFICES ASSUME n + 1 <= Len(s) PROVE all[n + 1] \in Seq(E)
      OBVIOUS
    <3>1. n <= Len(s) /\ n + 1 \in 1..Len(s) /\ (n + 1) - 1 = n
      BY <1>1
    <3>2. all[n] \in Seq(E) /\ s[n + 1] \in Seq(E)
      BY <1>0, <2>2, <3>1
    <3>3. all[n + 1] = all[n] \o s[n + 1]
      BY <1>8, <3>1
    <3> QED
      BY <3>2, <3>3, ConcatProperties
  <2>3. Nat \subseteq G
    <3> HIDE DEF G
    <3> QED
      BY <2>1, <2>2, Induction
  <2> QED
    BY <1>1, <2>3
<1>10. FlattenSeq(s) = all[Len(s)]
  <2>1. CASE Len(s) = 0
    BY <1>1, <2>1, EmptySeq DEF FlattenSeq
  <2>2. CASE Len(s) # 0
    <3>1. FlattenSeq(s) = some[Len(s)]
      BY <2>2 DEF FlattenSeq
    <3> HIDE DEF some
    <3> QED
      BY <1>1, <2>2, <3>1
  <2> QED
    BY <2>1, <2>2
<1>11. all \in [0..Len(s) -> Seq(E)] /\ all[0] = <<>>
  <2>1. all = [n \in 0..Len(s) |-> all[n]]
    OBVIOUS
  <2>2. all[0] = <<>>
    BY <1>1
  <2> HIDE DEF all
  <2> QED
    BY <1>9, <2>1, <2>2
<1> HIDE DEF all
<1> QED
  BY <1>8, <1>10, <1>11

LEMMA RangeOf ==
  ASSUME NEW E, NEW s \in Seq(E)
  PROVE  /\ \A x : x \in Range(s) <=> \E i \in 1..Len(s) : x = s[i]
         /\ \A i \in 1..Len(s) : s[i] \in Range(s)
         /\ Range(s) \subseteq E
         /\ IsInjective(s) <=> \A i, j \in 1..Len(s) : s[i] = s[j] => i = j
  BY DEF Range, IsInjective

LEMMA RangeEmpty == Range(<<>>) = {} /\ IsInjective(<<>>) /\ Len(<<>>) = 0
  BY DEF Range, IsInjective

LEMMA RangeAppend ==
  ASSUME NEW E, NEW s \in Seq(E), NEW e \in E
  PROVE  /\ Append(s, e) \in Seq(E)
         /\ Range(Append(s, e)) = Range(s) \cup {e}
         /\ IsInjective(s) /\ e \notin Range(s) => IsInjective(Append(s, e))
<1> DEFINE t == Append(s, e)
<1>1. /\ t \in Seq(E) /\ Len(t) = Len(s) + 1 /\ t[Len(s) + 1] = e
      /\ \A i \in 1..Len(s) : t[i] = s[i]
      /\ Len(s) \in Nat
  OBVIOUS
<1> HIDE DEF t
<1>2. /\ \A x : x \in Range(t) <=> \E i \in 1..Len(t) : x = t[i]
      /\ IsInjective(t) <=> \A i, j \in 1..Len(t) : t[i] = t[j] => i = j
  BY <1>1, RangeOf
<1>3. \A i : i \in 1..Len(t) <=> i \in 1..Len(s) \/ i = Len(s) + 1
  BY <1>1
<1>4. Range(t) = Range(s) \cup {e}
  <2>1. \A x : x \in Range(s) <=> \E i \in 1..Len(s) : x = s[i]
    BY RangeOf
  <2>2. \A x : x \in Range(t) <=> x \in Range(s) \/ x = e
    BY <1>1, <1>2, <1>3, <2>1
  <2> QED
    BY <2>2
<1>5. ASSUME IsInjective(s), e \notin Range(s) PROVE IsInjective(t)
  <2>1. \A i, j \in 1..Len(s) : s[i] = s[j] => i = j
    BY <1>5, RangeOf
  <2>2. \A i \in 1..Len(s) : s[i] # e
    BY <1>5, RangeOf
  <2> QED
    BY <1>1, <1>2, <1>3, <2>1, <2>2
<1> QED
  BY <1>1, <1>4, <1>5 DEF t

LEMMA RangeConcat ==
  ASSUME NEW E, NEW s \in Seq(E), NEW u \in Seq(E)
  PROVE  /\ s \o u \in Seq(E)
         /\ Range(s \o u) = Range(s) \cup Range(u)
         /\ IsInjective(s) /\ IsInjective(u) /\ Range(s) \cap Range(u) = {}
              => IsInjective(s \o u)
<1> DEFINE t == s \o u
<1>1. /\ t \in Seq(E) /\ Len(t) = Len(s) + Len(u)
      /\ \A i \in 1..Len(s) : t[i] = s[i]
      /\ \A i \in 1..Len(u) : t[Len(s) + i] = u[i]
      /\ Len(s) \in Nat /\ Len(u) \in Nat
  OBVIOUS
<1> HIDE DEF t
<1>2. /\ \A x : x \in Range(t) <=> \E i \in 1..Len(t) : x = t[i]
      /\ IsInjective(t) <=> \A i, j \in 1..Len(t) : t[i] = t[j] => i = j
  BY <1>1, RangeOf
<1>3. \A i \in 1..Len(t) : i \in 1..Len(s) \/ \E k \in 1..Len(u) : i = Len(s) + k
  <2> TAKE i \in 1..Len(t)
  <2> SUFFICES ASSUME i \notin 1..Len(s) PROVE \E k \in 1..Len(u) : i = Len(s) + k
    OBVIOUS
  <2>1. i - Len(s) \in 1..Len(u) /\ i = Len(s) + (i - Len(s))
    BY <1>1
  <2> QED
    BY <2>1
<1>4. /\ \A i \in 1..Len(s) : i \in 1..Len(t)
      /\ \A i \in 1..Len(u) : Len(s) + i \in 1..Len(t)
  BY <1>1
<1>5. Range(t) = Range(s) \cup Range(u)
  <2>1. ASSUME NEW x \in Range(t) PROVE x \in Range(s) \cup Range(u)
    <3>1. PICK i \in 1..Len(t) : x = t[i]
      BY <1>2
    <3>2. /\ \A k \in 1..Len(s) : s[k] \in Range(s)
          /\ \A k \in 1..Len(u) : u[k] \in Range(u)
      BY RangeOf
    <3>3. CASE i \in 1..Len(s)
      BY <1>1, <3>1, <3>2, <3>3
    <3>4. CASE \E k \in 1..Len(u) : i = Len(s) + k
      BY <1>1, <3>1, <3>2, <3>4
    <3> QED
      BY <1>3, <3>3, <3>4
  <2>2. Range(s) \subseteq Range(t)
    BY <1>1, <1>2, <1>4, RangeOf
  <2>3. Range(u) \subseteq Range(t)
    BY <1>1, <1>2, <1>4, RangeOf
  <2> QED
    BY <2>1, <2>2, <2>3
<1>6. ASSUME IsInjective(s), IsInjective(u), Range(s) \cap Range(u) = {} PROVE IsInjective(t)
  <2>1. /\ \A i, j \in 1..Len(s) : s[i] = s[j] => i = j
        /\ \A i, j \in 1..Len(u) : u[i] = u[j] => i = j
    BY <1>6, RangeOf
  <2>2. \A i \in 1..Len(s), j \in 1..Len(u) : s[i] # u[j]
    BY <1>6, RangeOf
  <2>3. ASSUME NEW i \in 1..Len(t), NEW j \in 1..Len(t), t[i] = t[j] PROVE i = j
    <3>1. CASE i \in 1..Len(s) /\ j \in 1..Len(s)
      BY <1>1, <2>1, <2>3, <3>1
    <3>2. CASE i \in 1..Len(s) /\ j \notin 1..Len(s)
      BY <1>1, <1>3, <2>2, <2>3, <3>2
    <3>3. CASE i \notin 1..Len(s) /\ j \in 1..Len(s)
      BY <1>1, <1>3, <2>2, <2>3, <3>3
    <3>4. CASE i \notin 1..Len(s) /\ j \notin 1..Len(s)
      BY <1>1, <1>3, <2>1, <2>3, <3>4
    <3> QED
      BY <3>1, <3>2, <3>3, <3>4
  <2> QED
    BY <1>2, <2>3
<1> QED
  BY <1>1, <1>5, <1>6 DEF t

LEMMA RangeReverse ==
  ASSUME NEW E, NEW s \in Seq(E)
  PROVE  /\ Reverse(s) \in Seq(E)
         /\ Range(Reverse(s)) = Range(s)
         /\ IsInjective(s) => IsInjective(Reverse(s))
<1> DEFINE t == Reverse(s)
<1>1. /\ t \in Seq(E) /\ Len(t) = Len(s)
      /\ \A i \in 1..Len(s) : t[i] = s[(Len(s) - i) + 1]
      /\ \A i \in 1..Len(s) : (Len(s) - i) + 1 \in 1..Len(s)
      /\ \A i \in 1..Len(s) : (Len(s) - ((Len(s) - i) + 1)) + 1 = i
  BY DEF Reverse
<1> HIDE DEF t
<1>2. /\ \A x : x \in Range(t) <=> \E i \in 1..Len(t) : x = t[i]
      /\ IsInjective(t) <=> \A i, j \in 1..Len(t) : t[i] = t[j] => i = j
  BY <1>1, RangeOf
<1>3. Range(t) \subseteq Range(s)
  <2>1. \A i \in 1..Len(s) : s[i] \in Range(s)
    BY RangeOf
  <2>2. ASSUME NEW i \in 1..Len(t) PROVE t[i] \in Range(s)
    <3>1. i \in 1..Len(s) /\ (Len(s) - i) + 1 \in 1..Len(s)
      BY <1>1
    <3> QED
      BY <1>1, <2>1, <3>1
  <2> QED
    BY <1>2, <2>2
<1>4. Range(s) \subseteq Range(t)
  <2>1. ASSUME NEW x \in Range(s) PROVE x \in Range(t)
    <3>1. PICK i \in 1..Len(s) : x = s[i]
      BY RangeOf
    <3>2. x = t[(Len(s) - i) + 1]
      BY <1>1, <3>1
    <3> QED
      BY <1>1, <1>2, <3>2
  <2> QED
    BY <2>1
<1>5. ASSUME IsInjective(s) PROVE IsInjective(t)
  <2>1. \A i, j \in 1..Len(s) : s[i] = s[j] => i = j
    BY <1>5, RangeOf
  <2>2. ASSUME NEW i \in 1..Len(t), NEW j \in 1..Len(t), t[i] = t[j] PROVE i = j
    <3> DEFINE k == (Len(s) - i) + 1
               l == (Len(s) - j) + 1
    <3>1. /\ k \in 1..Len(s) /\ l \in 1..Len(s) /\ s[k] = s[l]
          /\ (Len(s) - k) + 1 = i /\ (Len(s) - l) + 1 = j
      BY <1>1, <2>2
    <3> HIDE DEF k, l
    <3>2. k = l
      BY <2>1, <3>1
    <3> QED
      BY <3>1, <3>2
  <2> QED
    BY <1>2, <2>2
<1> QED
  BY <1>1, <1>3, <1>4, <1>5 DEF t

LEMMA RangeRemove ==
  ASSUME NEW E, NEW s \in Seq(E), NEW i \in 1..Len(s), IsInjective(s)
  PROVE  /\ RemoveAt(s, i) \in Seq(E)
         /\ Range(RemoveAt(s, i)) = Range(s) \ {s[i]}
         /\ IsInjective(RemoveAt(s, i))
<1> DEFINE t == RemoveAt(s, i)
           u == SubSeq(s, 1, i - 1)
           v == SubSeq(s, i + 1, Len(s))
<1>1. /\ u \in Seq(E) /\ Len(u) = i - 1
      /\ \A k \in 1..(i - 1) : u[k] = s[k]
  OBVIOUS
<1>2. /\ v \in Seq(E) /\ Len(v) = Len(s) - i
      /\ \A k \in 1..(Len(s) - i) : v[k] = s[i + k]
  <2>1. Len(s) \in Nat /\ i + 1 \in 1..(Len(s) + 1)
    OBVIOUS
  <2> QED
    BY <2>1
<1>3. t = u \o v
  BY DEF RemoveAt
<1> HIDE DEF t, u, v
<1>4. \A k, l \in 1..Len(s) : s[k] = s[l] => k = l
  BY RangeOf
<1>5. IsInjective(u) /\ IsInjective(v)
  <2>1. \A k, l \in 1..Len(u) : u[k] = u[l] => k = l
    BY <1>1, <1>4
  <2>2. \A k, l \in 1..Len(v) : v[k] = v[l] => k = l
    <3>1. \A k \in 1..Len(v) : i + k \in 1..Len(s) /\ v[k] = s[i + k]
      BY <1>2
    <3> SUFFICES ASSUME NEW k \in 1..Len(v), NEW l \in 1..Len(v), v[k] = v[l]
                 PROVE  k = l
      OBVIOUS
    <3>2. i + k = i + l
      BY <1>4, <3>1
    <3> QED
      BY <1>2, <3>2
  <2> QED
    BY <1>1, <1>2, <2>1, <2>2, RangeOf
<1>6. \A x : x \in Range(u) <=> \E k \in 1..(i - 1) : x = s[k]
  <2>1. \A x : x \in Range(u) <=> \E k \in 1..Len(u) : x = u[k]
    BY <1>1, RangeOf
  <2> QED
    BY <1>1, <2>1
<1>7. \A x : x \in Range(v) <=> \E k \in 1..Len(s) : k > i /\ x = s[k]
  <2>1. \A x : x \in Range(v) <=> \E k \in 1..(Len(s) - i) : x = s[i + k]
    <3>1. \A x : x \in Range(v) <=> \E k \in 1..Len(v) : x = v[k]
      <4>1. v \in Seq(E)
        BY <1>2
      <4> QED
        BY <4>1, RangeOf
    <3>2. \A k : k \in 1..Len(v) <=> k \in 1..(Len(s) - i)
      BY <1>2
    <3>3. \A k \in 1..Len(v) : v[k] = s[i + k]
      BY <1>2, <3>2
    <3>4. \A x : (\E k \in 1..Len(v) : x = v[k]) <=> (\E k \in 1..(Len(s) - i) : x = s[i + k])
      BY <3>2, <3>3, Zenon
    <3> QED
      BY <3>1, <3>4
  <2>2. \A k \in 1..(Len(s) - i) : i + k \in 1..Len(s) /\ i + k > i
    OBVIOUS
  <2>3. \A k \in 1..Len(s) : k > i => k - i \in 1..(Len(s) - i) /\ k = i + (k - i)
    OBVIOUS
  <2> QED
    BY <2>1, <2>2, <2>3
<1>8. Range(u) \cap Range(v) = {}
  BY <1>4, <1>6, <1>7
<1>9. Range(u) \cup Range(v) = Range(s) \ {s[i]}
  <2>1. \A k \in 1..Len(s) : k \in 1..(i - 1) \/ k > i \/ k = i
    OBVIOUS
  <2>2. Range(s) \ {s[i]} \subseteq Range(u) \cup Range(v)
    BY <1>6, <1>7, <2>1, RangeOf
  <2>3. Range(u) \subseteq Range(s) \ {s[i]}
    BY <1>4, <1>6, RangeOf
  <2>4. Range(v) \subseteq Range(s) \ {s[i]}
    BY <1>4, <1>7, RangeOf
  <2> QED
    BY <2>2, <2>3, <2>4
<1> QED
  BY <1>1, <1>2, <1>3, <1>5, <1>8, <1>9, RangeConcat DEF t

(* The length of a sequence without repetition is the size of its range. *)
LEMMA RangeCardinality ==
  ASSUME NEW E, NEW s \in Seq(E)
  PROVE  /\ IsFiniteSet(Range(s))
         /\ IsInjective(s) => Cardinality(Range(s)) = Len(s)
<1>1. /\ Len(s) \in Nat /\ IsFiniteSet(1..Len(s)) /\ Cardinality(1..Len(s)) = Len(s)
  <2>1. Len(s) \in Nat /\ Len(s) \in Int
    OBVIOUS
  <2> DEFINE n == Len(s)
  <2> HIDE DEF n
  <2>2. n \in Nat /\ n \in Int /\ 1 \in Int
    BY <2>1 DEF n
  <2>3. IsFiniteSet(1..n) /\ Cardinality(1..n) = (IF 1 > n THEN 0 ELSE n - 1 + 1)
    BY <2>2, FS_Interval
  <2>4. IsFiniteSet(1..n) /\ Cardinality(1..n) = n
    BY <2>2, <2>3
  <2> QED
    BY <2>1, <2>4 DEF n
<1>2. s \in [1..Len(s) -> Range(s)] /\ DOMAIN s = 1..Len(s)
  BY DEF Range
<1>3. s \in Surjection(1..Len(s), Range(s))
  BY <1>2, RangeOf DEF Surjection, Range
<1>4. IsInjective(s) => s \in Injection(1..Len(s), Range(s))
  BY <1>2 DEF Injection
<1> QED
  BY <1>1, <1>3, <1>4, FS_Surjection

LEMMA ChosenFacts ==
  ASSUME NEW E, NEW s \in Seq(E), NEW S
  PROVE  /\ Chosen(s, S) \in Seq(E)
         /\ Range(Chosen(s, S)) = Range(s) \cap S
         /\ IsInjective(s) => IsInjective(Chosen(s, S))
<1>0. PICK f \in [0..Len(s) -> Seq(E)] : Chosen(s, S) = f[Len(s)] /\ Choosing(f, s, S)
  BY ChosenSteps
<1>1. /\ Chosen(s, S) = f[Len(s)]
      /\ f[0] = <<>>
      /\ \A n \in 1..Len(s) :
           f[n] = IF s[n] \in S THEN Append(f[n - 1], s[n]) ELSE f[n - 1]
  BY <1>0 DEF Choosing
<1> DEFINE P(n) == /\ f[n] \in Seq(E)
                   /\ Range(f[n]) = {s[i] : i \in 1..n} \cap S
                   /\ IsInjective(s) => IsInjective(f[n])
           G == {n \in Nat : n <= Len(s) => P(n)}
<1>2. Len(s) \in Nat /\ \A n \in 1..Len(s) : s[n] \in E
  OBVIOUS
<1>3. 0 \in G
  <2>1. f[0] \in Seq(E) /\ {s[i] : i \in 1..0} = {}
    BY <1>1, <1>2
  <2>2. P(0)
    BY <1>1, <2>1, RangeEmpty
  <2> QED
    BY <2>2
<1>4. ASSUME NEW n \in Nat, n \in G PROVE n + 1 \in G
  <2> SUFFICES ASSUME n + 1 <= Len(s) PROVE P(n + 1)
    OBVIOUS
  <2>1. n <= Len(s) /\ n + 1 \in 1..Len(s) /\ (n + 1) - 1 = n
    BY <1>2
  <2>2. P(n)
    BY <1>4, <2>1
  <2> DEFINE e == s[n + 1]
  <2>3. f[n + 1] = IF e \in S THEN Append(f[n], e) ELSE f[n]
    BY <1>1, <2>1
  <2>4. {s[i] : i \in 1..(n + 1)} = {s[i] : i \in 1..n} \cup {e}
    <3>1. \A i : i \in 1..(n + 1) <=> i \in 1..n \/ i = n + 1
      OBVIOUS
    <3> QED
      BY <3>1
  <2>5. e \in E
    BY <1>2, <2>1
  <2>6. IsInjective(s) => e \notin {s[i] : i \in 1..n}
    <3>1. \A i \in 1..n : i \in 1..Len(s) /\ i # n + 1
      BY <1>2, <2>1
    <3>2. IsInjective(s) => \A i, j \in 1..Len(s) : s[i] = s[j] => i = j
      BY RangeOf
    <3> QED
      BY <2>1, <3>1, <3>2
  <2> HIDE DEF e
  <2>7. CASE e \in S
    <3>1. f[n + 1] = Append(f[n], e)
      BY <2>3, <2>7
    <3>2. /\ Append(f[n], e) \in Seq(E)
          /\ Range(Append(f[n], e)) = Range(f[n]) \cup {e}
          /\ IsInjective(f[n]) /\ e \notin Range(f[n]) => IsInjective(Append(f[n], e))
      BY <2>2, <2>5, RangeAppend
    <3> QED
      BY <2>2, <2>4, <2>6, <2>7, <3>1, <3>2
  <2>8. CASE e \notin S
    <3>1. f[n + 1] = f[n]
      BY <2>3, <2>8
    <3> QED
      BY <2>2, <2>4, <2>8, <3>1
  <2> QED
    BY <2>7, <2>8
<1>5. P(Len(s))
  <2>1. Nat \subseteq G
    <3> HIDE DEF G
    <3> QED
      BY <1>3, <1>4, Induction
  <2>2. Len(s) \in G /\ Len(s) <= Len(s)
    <3> HIDE DEF G
    <3> QED
      BY <1>2, <2>1
  <2> HIDE DEF P
  <2> QED
    BY <2>2
<1>6. {s[i] : i \in 1..Len(s)} = Range(s)
  BY DEF Range
<1> QED
  BY <1>1, <1>5, <1>6

(* The elements of all chains. *)
Contents(bs) == UNION {Range(bs[b]) : b \in 1..Len(bs)}

LEMMA InContents ==
  ASSUME NEW bs
  PROVE  \A e : e \in Contents(bs) <=> \E b \in 1..Len(bs) : e \in Range(bs[b])
  BY DEF Contents

(* No element is in two chains or twice in one. *)
Apart(bs) ==
  /\ \A b \in 1..Len(bs) : IsInjective(bs[b])
  /\ \A b, c \in 1..Len(bs) : \A e : e \in Range(bs[b]) /\ e \in Range(bs[c]) => b = c

LEMMA FlattenFacts ==
  ASSUME NEW E, NEW s \in Seq(Seq(E))
  PROVE  /\ FlattenSeq(s) \in Seq(E)
         /\ Range(FlattenSeq(s)) = Contents(s)
         /\ Apart(s) => IsInjective(FlattenSeq(s))
<1>1. PICK f \in [0..Len(s) -> Seq(E)] :
        /\ FlattenSeq(s) = f[Len(s)]
        /\ f[0] = <<>>
        /\ \A n \in 1..Len(s) : f[n] = f[n - 1] \o s[n]
  BY FlattenSteps
<1> DEFINE Part(n) == UNION {Range(s[b]) : b \in 1..n}
           P(n) == /\ f[n] \in Seq(E)
                   /\ Range(f[n]) = Part(n)
                   /\ Apart(s) => IsInjective(f[n])
           G == {n \in Nat : n <= Len(s) => P(n)}
<1>2. Len(s) \in Nat /\ \A n \in 1..Len(s) : s[n] \in Seq(E)
  OBVIOUS
<1>3. 0 \in G
  <2>1. f[0] \in Seq(E) /\ Part(0) = {}
    BY <1>1, <1>2
  <2>2. P(0)
    BY <1>1, <2>1, RangeEmpty
  <2> QED
    BY <2>2
<1>4. ASSUME NEW n \in Nat, n \in G PROVE n + 1 \in G
  <2> SUFFICES ASSUME n + 1 <= Len(s) PROVE P(n + 1)
    OBVIOUS
  <2>1. n <= Len(s) /\ n + 1 \in 1..Len(s) /\ (n + 1) - 1 = n
    BY <1>2
  <2>2. P(n)
    BY <1>4, <2>1
  <2> DEFINE c == s[n + 1]
  <2>3. f[n + 1] = f[n] \o c
    BY <1>1, <2>1
  <2>4. Part(n + 1) = Part(n) \cup Range(c)
    <3>1. \A i : i \in 1..(n + 1) <=> i \in 1..n \/ i = n + 1
      OBVIOUS
    <3> QED
      BY <3>1
  <2>5. c \in Seq(E)
    BY <1>2, <2>1
  <2>6. Apart(s) => IsInjective(c) /\ Part(n) \cap Range(c) = {}
    <3>1. \A i \in 1..n : i \in 1..Len(s) /\ i # n + 1
      BY <1>2, <2>1
    <3> QED
      BY <2>1, <3>1 DEF Apart
  <2> HIDE DEF c
  <2>7. /\ f[n] \o c \in Seq(E)
        /\ Range(f[n] \o c) = Range(f[n]) \cup Range(c)
        /\ IsInjective(f[n]) /\ IsInjective(c) /\ Range(f[n]) \cap Range(c) = {}
             => IsInjective(f[n] \o c)
    BY <2>2, <2>5, RangeConcat
  <2> HIDE DEF Part
  <2> QED
    BY <2>2, <2>3, <2>4, <2>6, <2>7
<1>5. P(Len(s))
  <2>1. Nat \subseteq G
    <3> HIDE DEF G
    <3> QED
      BY <1>3, <1>4, Induction
  <2>2. Len(s) \in G /\ Len(s) <= Len(s)
    <3> HIDE DEF G
    <3> QED
      BY <1>2, <2>1
  <2> HIDE DEF P
  <2> QED
    BY <2>2
<1> QED
  BY <1>1, <1>5 DEF Contents

-----------------------------------------------------------------------------
(* Sizes of tables.                                                        *)

LEMMA Powers ==
  /\ PowerOfTwo[0] = 1
  /\ \A k \in Nat : PowerOfTwo[k + 1] = 2 * PowerOfTwo[k]
  BY Doubles DEF PowerOfTwo

LEMMA PowersGrow == \A k \in Nat : PowerOfTwo[k] \in Nat /\ PowerOfTwo[k] > k
  BY Doubles DEF PowerOfTwo

(* hash_size ends, with a power of two that is large enough. *)
LEMMA HashSizeFacts ==
  ASSUME NEW s \in Nat
  PROVE  /\ HashSize(s) \in Nat /\ HashSize(s) >= 1 /\ HashSize(s) >= s
         /\ \E k \in 0..HashSize(s) : HashSize(s) = PowerOfTwo[k]
<1> DEFINE Q == {PowerOfTwo[k] : k \in 0..s}
           T == {p \in Q : p >= s}
           Fits(p) == p >= s /\ \A k \in 0..s : PowerOfTwo[k] >= s => p <= PowerOfTwo[k]
<1>1. \A k \in 0..s : PowerOfTwo[k] \in Nat /\ PowerOfTwo[k] > k
  BY PowersGrow
<1>2. Q \subseteq Nat /\ T \subseteq Nat
  BY <1>1
<1>3. PowerOfTwo[s] \in T
  BY <1>1
<1>4. PICK m \in T : \A j \in T : m <= j
  <2> HIDE DEF T
  <2> QED
    BY <1>2, <1>3, LeastExists
<1>5. m \in Q /\ Fits(m)
  BY <1>4
<1>6. HashSize(s) = CHOOSE p \in Q : Fits(p)
  BY DEF HashSize
<1>7. HashSize(s) \in Q /\ Fits(HashSize(s))
  <2> HIDE DEF Q, Fits
  <2> QED
    BY <1>5, <1>6
<1>8. PICK k \in 0..s : HashSize(s) = PowerOfTwo[k]
  BY <1>7
<1>9. PowerOfTwo[k] \in Nat /\ PowerOfTwo[k] > k
  BY <1>1
<1>10. HashSize(s) >= s
  BY <1>7
<1> QED
  BY <1>8, <1>9, <1>10

(* It is not twice as large as needed. *)
LEMMA HashSizeTight ==
  ASSUME NEW s \in Nat, s >= 1
  PROVE  HashSize(s) < 2 * s
<1> DEFINE Q == {PowerOfTwo[k] : k \in 0..s}
           Fits(p) == p >= s /\ \A k \in 0..s : PowerOfTwo[k] >= s => p <= PowerOfTwo[k]
<1>1. \A k \in 0..s : PowerOfTwo[k] \in Nat /\ PowerOfTwo[k] > k
  BY PowersGrow
<1>2. HashSize(s) = CHOOSE p \in Q : Fits(p)
  BY DEF HashSize
<1>3. \E p \in Q : Fits(p)
  <2> DEFINE T == {p \in Q : p >= s}
  <2>1. Q \subseteq Nat /\ T \subseteq Nat /\ PowerOfTwo[s] \in T
    BY <1>1
  <2>2. PICK m \in T : \A j \in T : m <= j
    <3> HIDE DEF T
    <3> QED
      BY <2>1, LeastExists
  <2> QED
    BY <2>2
<1>4. HashSize(s) \in Q /\ Fits(HashSize(s))
  <2> HIDE DEF Q, Fits
  <2> QED
    BY <1>2, <1>3
<1>5. PICK k \in 0..s : HashSize(s) = PowerOfTwo[k]
  BY <1>4
<1>6. CASE k = 0
  BY <1>5, <1>6, Powers
<1>7. CASE k # 0
  <2>1. k - 1 \in 0..s /\ k - 1 \in Nat /\ (k - 1) + 1 = k
    BY <1>7
  <2>2. PowerOfTwo[k] = 2 * PowerOfTwo[k - 1] /\ PowerOfTwo[k - 1] \in Nat
    BY <1>1, <2>1, Powers
  <2>3. PowerOfTwo[k - 1] > k - 1 /\ PowerOfTwo[k - 1] < PowerOfTwo[k]
    BY <1>1, <2>1, <2>2
  <2>4. ~ (PowerOfTwo[k - 1] >= s)
    <3>1. PowerOfTwo[k - 1] >= s => PowerOfTwo[k] <= PowerOfTwo[k - 1]
      BY <1>4, <1>5, <2>1
    <3> QED
      BY <2>2, <2>3, <3>1
  <2> QED
    BY <1>5, <2>2, <2>4
<1> QED
  BY <1>6, <1>7

-----------------------------------------------------------------------------
(* Chains, under the flags fs and the hash function hf.                    *)

Fold(fs, key) == IF "IGNORE_CASE" \in fs THEN Lower[key] ELSE key
Home(fs, hf, key, n) == 1 + (hf[Fold(fs, key)] % n)

(* Every entry is in the chain of its key, once, and no two have one key. *)
Chained(fs, hf, bs) ==
  /\ \A b \in 1..Len(bs) : IsInjective(bs[b])
  /\ \A b \in 1..Len(bs) : \A e \in Range(bs[b]) : Home(fs, hf, e.key, Len(bs)) = b
  /\ \A d, e \in Contents(bs) : Fold(fs, d.key) = Fold(fs, e.key) => d = e

LEMMA HomeType ==
  ASSUME NEW fs, NEW hf \in Hashes, NEW key \in Keys, NEW n \in Nat, n >= 1
  PROVE  Fold(fs, key) \in Keys /\ Home(fs, hf, key, n) \in 1..n
<1>1. Fold(fs, key) \in Keys
  BY HashTableAssumption DEF Fold
<1>2. hf[Fold(fs, key)] \in Nat
  <2>1. hf \in [Keys -> Nat]
    BY HashTableAssumption
  <2> QED
    BY <1>1, <2>1
<1>3. hf[Fold(fs, key)] % n \in 0..(n - 1)
  BY <1>2
<1> QED
  BY <1>1, <1>3 DEF Home

LEMMA ChainTypes ==
  ASSUME NEW bs \in Seq(Seq(Entry))
  PROVE  /\ Len(bs) \in Nat
         /\ \A b \in 1..Len(bs) : bs[b] \in Seq(Entry) /\ Range(bs[b]) \subseteq Entry
         /\ Contents(bs) \subseteq Entry
         /\ \A e \in Entry : e.key \in Keys /\ e.data \in Data
<1>1. \A b \in 1..Len(bs) : bs[b] \in Seq(Entry)
  OBVIOUS
<1>2. \A b \in 1..Len(bs) : Range(bs[b]) \subseteq Entry
  BY <1>1, RangeOf
<1> QED
  BY <1>1, <1>2 DEF Contents, Entry

(* The flattened chains are the entries, each once. *)
LEMMA ChainedFlat ==
  ASSUME NEW fs, NEW hf, NEW bs \in Seq(Seq(Entry)), Chained(fs, hf, bs)
  PROVE  /\ FlattenSeq(bs) \in Seq(Entry)
         /\ Range(FlattenSeq(bs)) = Contents(bs)
         /\ IsInjective(FlattenSeq(bs))
         /\ IsFiniteSet(Contents(bs))
         /\ Len(FlattenSeq(bs)) = Cardinality(Contents(bs))
<1>1. Apart(bs)
  <2>1. \A b \in 1..Len(bs) : IsInjective(bs[b])
    BY DEF Chained
  <2>2. ASSUME NEW b \in 1..Len(bs), NEW c \in 1..Len(bs), NEW e,
               e \in Range(bs[b]), e \in Range(bs[c])
        PROVE  b = c
    BY <2>2 DEF Chained
  <2> QED
    BY <2>1, <2>2 DEF Apart
<1>2. /\ FlattenSeq(bs) \in Seq(Entry)
      /\ Range(FlattenSeq(bs)) = Contents(bs)
      /\ IsInjective(FlattenSeq(bs))
  BY <1>1, FlattenFacts
<1> QED
  BY <1>2, RangeCardinality

(* The chains with another chain b. *)
Rechained(bs, b, q) == [bs EXCEPT ![b] = q]

(* A chain may take the place of chain b. *)
ChainFits(fs, hf, n, b, q) ==
  /\ q \in Seq(Entry) /\ IsInjective(q)
  /\ \A e \in Range(q) : Home(fs, hf, e.key, n) = b
  /\ \A d, e \in Range(q) : Fold(fs, d.key) = Fold(fs, e.key) => d = e

LEMMA ChainChanged ==
  ASSUME NEW fs, NEW hf, NEW bs \in Seq(Seq(Entry)), Chained(fs, hf, bs),
         NEW b \in 1..Len(bs), NEW q, ChainFits(fs, hf, Len(bs), b, q)
  PROVE  /\ Rechained(bs, b, q) \in Seq(Seq(Entry)) /\ Len(Rechained(bs, b, q)) = Len(bs)
         /\ Chained(fs, hf, Rechained(bs, b, q))
         /\ \A e : e \in Contents(Rechained(bs, b, q)) <=>
                     \/ e \in Range(q)
                     \/ e \in Contents(bs) /\ e \notin Range(bs[b])
<1> DEFINE cs == Rechained(bs, b, q)
<1>0. /\ q \in Seq(Entry) /\ IsInjective(q)
      /\ \A e \in Range(q) : Home(fs, hf, e.key, Len(bs)) = b
      /\ \A d, e \in Range(q) : Fold(fs, d.key) = Fold(fs, e.key) => d = e
  BY DEF ChainFits
<1>1. /\ Len(cs) = Len(bs) /\ cs[b] = q
      /\ \A c \in 1..Len(bs) : c # b => cs[c] = bs[c]
      /\ Len(bs) \in Nat
  BY DEF Rechained
<1>2. cs \in Seq(Seq(Entry))
  BY <1>0 DEF Rechained
<1> HIDE DEF cs
<1>3. \A c \in 1..Len(cs) : IsInjective(cs[c])
  BY <1>0, <1>1 DEF Chained
<1>4. \A c \in 1..Len(cs) : \A e \in Range(cs[c]) : Home(fs, hf, e.key, Len(cs)) = c
  BY <1>0, <1>1 DEF Chained
<1>5. \A e : e \in Contents(cs) <=>
               \/ e \in Range(q)
               \/ e \in Contents(bs) /\ e \notin Range(bs[b])
  <2>1. \A c \in 1..Len(bs) : \A e \in Range(bs[c]) : c # b => e \notin Range(bs[b])
    BY DEF Chained
  <2>2. \A e : e \in Contents(cs) <=> \E c \in 1..Len(cs) : e \in Range(cs[c])
    BY InContents
  <2>3. \A e : e \in Contents(bs) <=> \E c \in 1..Len(bs) : e \in Range(bs[c])
    BY InContents
  <2> QED
    BY <1>1, <2>1, <2>2, <2>3
<1>6. ASSUME NEW d \in Contents(cs), NEW e \in Contents(cs),
             Fold(fs, d.key) = Fold(fs, e.key)
      PROVE  d = e
  <2>1. Home(fs, hf, d.key, Len(bs)) = Home(fs, hf, e.key, Len(bs))
    BY <1>6 DEF Home
  <2>2. \A x \in Contents(cs) : x \notin Range(q) =>
          x \in Contents(bs) /\ Home(fs, hf, x.key, Len(bs)) # b
    <3>1. \A x \in Contents(bs) : x \notin Range(bs[b]) => Home(fs, hf, x.key, Len(bs)) # b
      BY InContents DEF Chained
    <3> QED
      BY <1>5, <3>1
  <2>3. CASE d \in Range(q) /\ e \in Range(q)
    BY <1>0, <1>6, <2>3
  <2>4. CASE d \notin Range(q) /\ e \notin Range(q)
    BY <1>6, <2>2, <2>4 DEF Chained
  <2> QED
    BY <1>0, <2>1, <2>2, <2>3, <2>4
<1> QED
  BY <1>1, <1>2, <1>3, <1>4, <1>5, <1>6 DEF Chained, cs

LEMMA EmptyChains ==
  ASSUME NEW fs, NEW hf, NEW n \in Nat, NEW cs, cs = [b \in 1..n |-> <<>>]
  PROVE  /\ cs \in Seq(Seq(Entry)) /\ Len(cs) = n
         /\ Chained(fs, hf, cs)
         /\ Contents(cs) = {}
<1>1. <<>> \in Seq(Entry)
  BY EmptySeq
<1>2. cs \in Seq(Seq(Entry)) /\ Len(cs) = n /\ \A b \in 1..n : cs[b] = <<>>
  BY <1>1
<1>3. Contents(cs) = {}
  BY <1>2, InContents, RangeEmpty
<1> QED
  BY <1>2, <1>3, RangeEmpty DEF Chained

(* All entries move to the chains of a table of another size. *)
Mine(fs, hf, all, n, b) == {e \in Range(all) : Home(fs, hf, e.key, n) = b}
Moved(fs, hf, all, n) ==
  [b \in 1..n |-> Reverse(Chosen(all, Mine(fs, hf, all, n, b)))]

LEMMA ChainMoved ==
  ASSUME NEW all \in Seq(Entry), IsInjective(all), NEW S \in SUBSET Range(all)
  PROVE  /\ Reverse(Chosen(all, S)) \in Seq(Entry)
         /\ Range(Reverse(Chosen(all, S))) = S
         /\ IsInjective(Reverse(Chosen(all, S)))
<1>1. /\ Chosen(all, S) \in Seq(Entry)
      /\ Range(Chosen(all, S)) = Range(all) \cap S
      /\ IsInjective(Chosen(all, S))
  BY ChosenFacts
<1>2. Range(Chosen(all, S)) = S
  BY <1>1
<1> HIDE DEF Entry
<1> QED
  BY <1>1, <1>2, RangeReverse

LEMMA ChainsMoved ==
  ASSUME NEW fs, NEW hf \in Hashes, NEW bs \in Seq(Seq(Entry)), Chained(fs, hf, bs),
         NEW n \in Nat, n >= 1
  PROVE  LET cs == Moved(fs, hf, FlattenSeq(bs), n)
         IN  /\ cs \in Seq(Seq(Entry)) /\ Len(cs) = n
             /\ Chained(fs, hf, cs)
             /\ Contents(cs) = Contents(bs)
<1> DEFINE all == FlattenSeq(bs)
           M(b) == Mine(fs, hf, all, n, b)
           cs == Moved(fs, hf, all, n)
<1>1. all \in Seq(Entry) /\ Range(all) = Contents(bs) /\ IsInjective(all)
  BY ChainedFlat
<1>2. \A b : M(b) = {e \in Contents(bs) : Home(fs, hf, e.key, n) = b}
  BY <1>1 DEF Mine
<1>3. cs = [b \in 1..n |-> Reverse(Chosen(all, M(b)))]
  BY DEF Moved
<1> HIDE DEF all, M, cs
<1>4. ASSUME NEW b \in 1..n
      PROVE  cs[b] \in Seq(Entry) /\ Range(cs[b]) = M(b) /\ IsInjective(cs[b])
  <2>1. M(b) \in SUBSET Range(all)
    BY <1>1, <1>2
  <2>2. cs[b] = Reverse(Chosen(all, M(b)))
    BY <1>3
  <2> QED
    BY <1>1, <2>1, <2>2, ChainMoved
<1>5. cs \in Seq(Seq(Entry)) /\ Len(cs) = n
  <2>1. cs = [b \in 1..n |-> cs[b]]
    BY <1>3
  <2>2. cs \in [1..n -> Seq(Entry)]
    BY <1>4, <2>1
  <2> QED
    BY <2>2
<1>6. Contents(cs) = Contents(bs)
  <2>1. \A e : e \in Contents(cs) <=> \E b \in 1..n : e \in M(b)
    BY <1>4, <1>5, InContents
  <2>2. \A e \in Contents(bs) : Home(fs, hf, e.key, n) \in 1..n
    BY ChainTypes, HomeType
  <2> QED
    BY <1>2, <2>1, <2>2
<1>7. Chained(fs, hf, cs)
  <2>1. \A b \in 1..Len(cs) : \A e \in Range(cs[b]) : Home(fs, hf, e.key, Len(cs)) = b
    BY <1>2, <1>4, <1>5
  <2> QED
    BY <1>4, <1>5, <1>6, <2>1 DEF Chained
<1> QED
  BY <1>5, <1>6, <1>7 DEF cs, all

-----------------------------------------------------------------------------
(* What a call may leave: chains that are well-formed and hold the set C.  *)

IsSize(n) == n \in Nat /\ n >= 1 /\ \E k \in 0..n : n = PowerOfTwo[k]

Built(fs, hf, C, bs) ==
  bs \in Seq(Seq(Entry)) /\ IsSize(Len(bs)) /\ Chained(fs, hf, bs) /\ Contents(bs) = C

Tuned == hash_func \in Hashes /\ low \in Nat /\ high \in Nat /\ high >= 1

LEMMA SizeTypes ==
  /\ \A n \in Nat : IsSize(HashSize(n))
  /\ Tuned => \A n \in Nat : IsSize(NewSize(n))
<1>1. \A n \in Nat : IsSize(HashSize(n))
  BY HashSizeFacts DEF IsSize
<1>2. ASSUME Tuned, NEW n \in Nat PROVE IsSize(NewSize(n))
  <2>1. high + low \in Nat /\ high + low >= 1 /\ 4 * 2 * n \in Nat
    BY <1>2 DEF Tuned
  <2>2. (4 * 2 * n) \div (high + low) \in Nat
    BY <2>1
  <2> QED
    BY <1>1, <2>2 DEF NewSize
<1> QED
  BY <1>1, <1>2

LEMMA SlotIsHome ==
  ASSUME NEW key, NEW n
  PROVE  Slot(key, n) = Home(flags, hash_func, key, n) /\ Folded(key) = Fold(flags, key)
  BY DEF Slot, Home, Folded, Fold

LEMMA RehashedBuilt ==
  ASSUME Tuned, NEW C, NEW bs, Built(flags, hash_func, C, bs), NEW n \in Nat
  PROVE  Built(flags, hash_func, C, Rehashed(bs, n))
<1> DEFINE size == NewSize(n)
           cs == Moved(flags, hash_func, FlattenSeq(bs), size)
<1>1. IsSize(size)
  BY SizeTypes
<1> HIDE DEF size
<1>2. cs \in Seq(Seq(Entry)) /\ Len(cs) = size /\ Chained(flags, hash_func, cs) /\ Contents(cs) = C
  BY <1>1, ChainsMoved DEF Built, IsSize, Tuned
<1>3. Rehashed(bs, n) = IF size = Len(bs) THEN bs ELSE cs
  BY SlotIsHome DEF Rehashed, Moved, Mine, NewSlot, Num, size
<1> QED
  BY <1>1, <1>2, <1>3 DEF Built

LEMMA ResizeBuilds ==
  ASSUME Tuned, NEW C, NEW bs, Built(flags, hash_func, C, bs), NEW n \in Nat, NEW when,
         Resize(bs, n, when)
  PROVE  Built(flags, hash_func, C, buckets') /\ resized' \in BOOLEAN
<1>1. Built(flags, hash_func, C, Rehashed(bs, n))
  BY RehashedBuilt
<1>2. buckets' \in {bs, Rehashed(bs, n)}
  BY DEF Resize
<1>3. resized' \in BOOLEAN
  BY Zenon DEF Resize
<1> QED
  BY <1>1, <1>2, <1>3

Bucket(key) == Slot(key, Num(buckets))

(* An answer of Find. *)
Finds(C, key, i) ==
  /\ Bucket(key) \in 1..Len(buckets)
  /\ i = 0 => \A e \in C : Fold(flags, e.key) # Fold(flags, key)
  /\ i # 0 => /\ i \in 1..Len(buckets[Bucket(key)])
              /\ buckets[Bucket(key)][i] \in C
              /\ Fold(flags, buckets[Bucket(key)][i].key) = Fold(flags, key)

LEMMA FindFacts ==
  ASSUME Tuned, NEW C, Built(flags, hash_func, C, buckets), NEW key \in Keys
  PROVE  Finds(C, key, Find(key))
<1> DEFINE b == Bucket(key)
           chain == buckets[b]
           is == {i \in 1..Len(chain) : Fold(flags, chain[i].key) = Fold(flags, key)}
<1>1. /\ buckets \in Seq(Seq(Entry)) /\ Contents(buckets) = C
      /\ Chained(flags, hash_func, buckets)
      /\ Len(buckets) \in Nat /\ Len(buckets) >= 1 /\ hash_func \in Hashes
  BY DEF Built, IsSize, Tuned
<1>2. b = Home(flags, hash_func, key, Len(buckets))
  BY SlotIsHome DEF Bucket, Num
<1>3. b \in 1..Len(buckets)
  BY <1>1, <1>2, HomeType
<1>4. chain \in Seq(Entry)
  BY <1>1, <1>3
<1>5. Find(key) = IF is = {} THEN 0 ELSE CHOOSE i \in is : \A j \in is : i <= j
  BY DEF Find, Bucket, Folded, Fold
<1>6. \A i \in 1..Len(chain) : chain[i] \in Range(chain)
  BY <1>4, RangeOf
<1>7. \A x : x \in Range(chain) => x \in C
  BY <1>1, <1>3, InContents
<1> HIDE DEF b
<1>8. CASE is = {}
  <2>1. ASSUME NEW e \in C, Fold(flags, e.key) = Fold(flags, key) PROVE FALSE
    <3>1. PICK c \in 1..Len(buckets) : e \in Range(buckets[c])
      BY <1>1, InContents
    <3>2. Home(flags, hash_func, e.key, Len(buckets)) = c
      BY <1>1, <3>1 DEF Chained
    <3>3. c = b
      BY <1>2, <2>1, <3>2 DEF Home
    <3>4. PICK i \in 1..Len(chain) : e = chain[i]
      BY <1>4, <3>1, <3>3, RangeOf
    <3> QED
      BY <1>8, <2>1, <3>4
  <2> QED
    BY <1>3, <1>5, <1>8, <2>1 DEF Finds, b
<1>9. CASE is # {}
  <2>1. is \subseteq Nat
    OBVIOUS
  <2>2. Find(key) \in is
    <3> HIDE DEF is
    <3>1. \E m \in is : \A j \in is : m <= j
      <4> HIDE DEF is
      <4> QED
        BY <1>9, <2>1, LeastExists
    <3> HIDE DEF is
    <3> QED
      BY <1>5, <1>9, <3>1
  <2>3. /\ Find(key) \in 1..Len(chain)
        /\ Fold(flags, chain[Find(key)].key) = Fold(flags, key)
    BY <2>2
  <2> HIDE DEF is
  <2>4. Find(key) # 0 /\ chain[Find(key)] \in C
    BY <1>6, <1>7, <2>3
  <2> QED
    BY <1>3, <2>3, <2>4 DEF Finds, b
<1> QED
  BY <1>8, <1>9

(* One element of a sequence is replaced by a new one. *)
Put1(s, i, x) == [s EXCEPT ![i] = x]

LEMMA RangeExcept ==
  ASSUME NEW E, NEW s \in Seq(E), NEW i \in 1..Len(s), IsInjective(s), NEW x \in E,
         x \notin Range(s) \ {s[i]}
  PROVE  /\ Put1(s, i, x) \in Seq(E)
         /\ Range(Put1(s, i, x)) = (Range(s) \ {s[i]}) \cup {x}
         /\ IsInjective(Put1(s, i, x))
<1> DEFINE t == Put1(s, i, x)
<1>1. /\ t \in Seq(E) /\ Len(t) = Len(s) /\ t[i] = x
      /\ \A j \in 1..Len(s) : j # i => t[j] = s[j]
  BY DEF Put1
<1> HIDE DEF t
<1>2. \A j, k \in 1..Len(s) : s[j] = s[k] => j = k
  BY RangeOf
<1>3. \A j \in 1..Len(s) : j # i => s[j] \in Range(s) \ {s[i]}
  BY <1>2, RangeOf
<1>4. IsInjective(t)
  <2>1. \A j, k \in 1..Len(t) : t[j] = t[k] => j = k
    BY <1>1, <1>2, <1>3
  <2> QED
    BY <1>1, <2>1, RangeOf
<1>5. \A y : y \in Range(t) <=> \E j \in 1..Len(s) : y = t[j]
  BY <1>1, RangeOf
<1>6. \A y : y \in Range(s) <=> \E j \in 1..Len(s) : y = s[j]
  BY RangeOf
<1>7. Range(t) \subseteq (Range(s) \ {s[i]}) \cup {x}
  BY <1>1, <1>3, <1>5
<1>8. (Range(s) \ {s[i]}) \cup {x} \subseteq Range(t)
  BY <1>1, <1>5, <1>6
<1> QED
  BY <1>1, <1>4, <1>7, <1>8 DEF t

LEMMA RechainedBuilt ==
  ASSUME NEW fs, NEW hf, NEW C, NEW bs, Built(fs, hf, C, bs), NEW b \in 1..Len(bs),
         NEW q, ChainFits(fs, hf, Len(bs), b, q), NEW D,
         \A e : e \in D <=> e \in Range(q) \/ (e \in C /\ e \notin Range(bs[b]))
  PROVE  Built(fs, hf, D, Rechained(bs, b, q))
<1> DEFINE cs == Rechained(bs, b, q)
<1>1. bs \in Seq(Seq(Entry)) /\ Chained(fs, hf, bs) /\ Contents(bs) = C /\ IsSize(Len(bs))
  BY DEF Built
<1>2. /\ cs \in Seq(Seq(Entry)) /\ Len(cs) = Len(bs)
      /\ Chained(fs, hf, cs)
      /\ \A e : e \in Contents(cs) <=> e \in Range(q) \/ (e \in C /\ e \notin Range(bs[b]))
  BY <1>1, ChainChanged
<1> HIDE DEF cs
<1>3. \A e : e \in Contents(cs) <=> e \in D
  BY <1>2
<1>4. Contents(cs) = D
  BY <1>3
<1> QED
  BY <1>1, <1>2, <1>4 DEF Built, cs

LEMMA ChainOf ==
  ASSUME NEW fs, NEW hf, NEW C, NEW bs, Built(fs, hf, C, bs), NEW b \in 1..Len(bs)
  PROVE  /\ ChainFits(fs, hf, Len(bs), b, bs[b])
         /\ Range(bs[b]) \subseteq C /\ C \subseteq Entry
         /\ \A i \in 1..Len(bs[b]) : bs[b][i] \in Range(bs[b])
         /\ \A e \in C : Home(fs, hf, e.key, Len(bs)) = b => e \in Range(bs[b])
<1>1. /\ bs \in Seq(Seq(Entry)) /\ Chained(fs, hf, bs) /\ Contents(bs) = C
  BY DEF Built
<1>2. bs[b] \in Seq(Entry)
  BY <1>1
<1>3. Range(bs[b]) \subseteq C /\ C \subseteq Entry
  <2>1. Contents(bs) \subseteq Entry
    BY <1>1, ChainTypes
  <2>2. \A e \in Range(bs[b]) : e \in Contents(bs)
    BY InContents
  <2> HIDE DEF Entry
  <2> QED
    BY <1>1, <2>1, <2>2
<1>4. \A i \in 1..Len(bs[b]) : bs[b][i] \in Range(bs[b])
  BY <1>2, RangeOf
<1>5. \A e \in C : Home(fs, hf, e.key, Len(bs)) = b => e \in Range(bs[b])
  BY <1>1, InContents DEF Chained
<1>6. ChainFits(fs, hf, Len(bs), b, bs[b])
  BY <1>1, <1>2, <1>3 DEF Chained, ChainFits
<1> QED
  BY <1>3, <1>4, <1>5, <1>6

(* What is left of the contents after calls on a key. *)
Same(e, d) == [key |-> e.key, data |-> d]

LEMMA ReplaceBuilds ==
  ASSUME Tuned, NEW C, Built(flags, hash_func, C, buckets), NEW key \in Keys, NEW d \in Data,
         NEW i, Finds(C, key, i), i # 0
  PROVE  Built(flags, hash_func,
               (C \ {buckets[Bucket(key)][i]}) \cup {Same(buckets[Bucket(key)][i], d)},
               [buckets EXCEPT ![Bucket(key)][i].data = d])
<1> DEFINE b == Bucket(key)
           s == buckets[b]
           e == s[i]
           x == Same(e, d)
           q == Put1(s, i, x)
<1>1. /\ b \in 1..Len(buckets) /\ i \in 1..Len(s) /\ e \in C
      /\ Fold(flags, e.key) = Fold(flags, key)
  BY DEF Finds
<1>2. /\ ChainFits(flags, hash_func, Len(buckets), b, s)
      /\ Range(s) \subseteq C /\ C \subseteq Entry
      /\ \A j \in 1..Len(s) : s[j] \in Range(s)
      /\ buckets \in Seq(Seq(Entry))
      /\ \A c, c2 \in C : Fold(flags, c.key) = Fold(flags, c2.key) => c = c2
  <2>1. /\ buckets \in Seq(Seq(Entry))
        /\ \A c, c2 \in C : Fold(flags, c.key) = Fold(flags, c2.key) => c = c2
    BY DEF Built, Chained
  <2> HIDE DEF b
  <2> QED
    BY <1>1, <2>1, ChainOf
<1>3. x \in Entry /\ x.key = e.key /\ x.data = d
  BY <1>1, <1>2 DEF Entry, Same
<1>4. [buckets EXCEPT ![b][i].data = d] = Rechained(buckets, b, q)
  <2>1. [e EXCEPT !.data = d] = x
    <3>1. e \in Entry
      BY <1>1, <1>2
    <3> HIDE DEF e
    <3> QED
      BY <3>1 DEF Entry, Same
  <2> HIDE DEF x, e
  <2>2. [buckets EXCEPT ![b][i].data = d] =
          [buckets EXCEPT ![b] = [s EXCEPT ![i] = [e EXCEPT !.data = d]]]
    BY DEF e
  <2> QED
    BY <2>1, <2>2 DEF Put1, Rechained
<1> HIDE DEF b
<1>5. s \in Seq(Entry) /\ IsInjective(s)
  BY <1>2 DEF ChainFits
<1>6. \A y \in Range(s) : Fold(flags, y.key) = Fold(flags, e.key) => y = e
  BY <1>1, <1>2
<1> HIDE DEF s, x
<1>7. x \notin Range(s) \ {e}
  BY <1>3, <1>6
<1>8. /\ q \in Seq(Entry)
      /\ Range(q) = (Range(s) \ {e}) \cup {x}
      /\ IsInjective(q)
  BY <1>1, <1>3, <1>5, <1>7, RangeExcept
<1> HIDE DEF e, q
<1>9. e \in Range(s)
  BY <1>1, <1>2 DEF e
<1>10. Home(flags, hash_func, x.key, Len(buckets)) = Home(flags, hash_func, e.key, Len(buckets))
  BY <1>3
<1>11. ChainFits(flags, hash_func, Len(buckets), b, q)
  <2>1. \A y \in Range(q) : Home(flags, hash_func, y.key, Len(buckets)) = b
    BY <1>2, <1>8, <1>9, <1>10 DEF ChainFits
  <2>2. \A y, z \in Range(q) : Fold(flags, y.key) = Fold(flags, z.key) => y = z
    <3>1. \A y, z \in Range(s) : Fold(flags, y.key) = Fold(flags, z.key) => y = z
      BY <1>2
    <3> QED
      BY <1>3, <1>6, <1>8, <3>1
  <2> QED
    BY <1>8, <2>1, <2>2 DEF ChainFits
<1>12. \A y : y \in (C \ {e}) \cup {x} <=> y \in Range(q) \/ (y \in C /\ y \notin Range(s))
  <2>1. e \in Range(s) /\ Range(s) \subseteq C
    BY <1>2, <1>9
  <2> QED
    BY <1>8, <2>1
<1>13. Built(flags, hash_func, (C \ {e}) \cup {x}, Rechained(buckets, b, q))
  BY <1>1, <1>11, <1>12, RechainedBuilt DEF s
<1> QED
  BY <1>4, <1>13 DEF b, s, e, x

New1(key, d) == [key |-> key, data |-> d]

LEMMA AddBuilds ==
  ASSUME Tuned, NEW C, Built(flags, hash_func, C, buckets), NEW key \in Keys, NEW d \in Data,
         Finds(C, key, 0)
  PROVE  Built(flags, hash_func, C \cup {New1(key, d)},
               [buckets EXCEPT ![Bucket(key)] = <<[key |-> key, data |-> d]>> \o @])
<1> DEFINE b == Bucket(key)
           s == buckets[b]
           x == New1(key, d)
           q == <<x>> \o s
<1>1. b \in 1..Len(buckets) /\ \A e \in C : Fold(flags, e.key) # Fold(flags, key)
  BY DEF Finds
<1>2. b = Home(flags, hash_func, key, Len(buckets))
  BY SlotIsHome DEF Bucket, Num
<1>3. x \in Entry /\ x.key = key
  BY DEF Entry, New1
<1>4. [buckets EXCEPT ![b] = <<[key |-> key, data |-> d]>> \o @] = Rechained(buckets, b, q)
  BY DEF Rechained, New1
<1> HIDE DEF b, x
<1>5. ChainFits(flags, hash_func, Len(buckets), b, s) /\ Range(s) \subseteq C
  BY <1>1, ChainOf
<1>6. <<x>> \in Seq(Entry) /\ Range(<<x>>) = {x} /\ IsInjective(<<x>>)
  <2>1. /\ Append(<<>>, x) \in Seq(Entry)
        /\ Range(Append(<<>>, x)) = Range(<<>>) \cup {x}
        /\ IsInjective(<<>>) /\ x \notin Range(<<>>) => IsInjective(Append(<<>>, x))
    BY <1>3, EmptySeq, RangeAppend
  <2>2. Append(<<>>, x) = <<x>>
    OBVIOUS
  <2> QED
    BY <2>1, <2>2, RangeEmpty
<1>7. s \in Seq(Entry) /\ IsInjective(s)
  BY <1>5 DEF ChainFits
<1>8. x \notin C
  BY <1>1, <1>3
<1> HIDE DEF s
<1>9. q \in Seq(Entry) /\ Range(q) = {x} \cup Range(s) /\ IsInjective(q)
  <2> DEFINE o == <<x>>
  <2>1. Range(o) \cap Range(s) = {}
    BY <1>5, <1>6, <1>8
  <2>2. o \in Seq(Entry) /\ IsInjective(o) /\ Range(o) = {x}
    BY <1>6
  <2> HIDE DEF o
  <2>3. /\ o \o s \in Seq(Entry)
        /\ Range(o \o s) = Range(o) \cup Range(s)
        /\ IsInjective(o \o s)
    BY <1>7, <2>1, <2>2, RangeConcat
  <2> QED
    BY <2>2, <2>3 DEF o
<1> HIDE DEF q
<1>10. ChainFits(flags, hash_func, Len(buckets), b, q)
  <2>1. \A y \in Range(q) : Home(flags, hash_func, y.key, Len(buckets)) = b
    BY <1>2, <1>3, <1>5, <1>9 DEF ChainFits
  <2>2. \A y, z \in Range(q) : Fold(flags, y.key) = Fold(flags, z.key) => y = z
    <3>1. \A y, z \in Range(s) : Fold(flags, y.key) = Fold(flags, z.key) => y = z
      BY <1>5 DEF ChainFits
    <3> QED
      BY <1>1, <1>3, <1>5, <1>9, <3>1
  <2> QED
    BY <1>9, <2>1, <2>2 DEF ChainFits
<1>11. \A y : y \in C \cup {x} <=> y \in Range(q) \/ (y \in C /\ y \notin Range(s))
  BY <1>5, <1>9
<1>12. Built(flags, hash_func, C \cup {x}, Rechained(buckets, b, q))
  BY <1>1, <1>10, <1>11, RechainedBuilt DEF s
<1> QED
  BY <1>4, <1>12 DEF b, s, q, x

LEMMA DeleteBuilds ==
  ASSUME Tuned, NEW C, Built(flags, hash_func, C, buckets), NEW key \in Keys,
         NEW i, Finds(C, key, i), i # 0
  PROVE  Built(flags, hash_func, C \ {buckets[Bucket(key)][i]},
               [buckets EXCEPT ![Bucket(key)] = RemoveAt(@, i)])
<1> DEFINE b == Bucket(key)
           s == buckets[b]
           e == s[i]
           q == RemoveAt(s, i)
<1>1. b \in 1..Len(buckets) /\ i \in 1..Len(s)
  BY DEF Finds
<1>2. [buckets EXCEPT ![b] = RemoveAt(@, i)] = Rechained(buckets, b, q)
  BY DEF Rechained
<1> HIDE DEF b
<1>3. ChainFits(flags, hash_func, Len(buckets), b, s) /\ Range(s) \subseteq C
  BY <1>1, ChainOf
<1>4. s \in Seq(Entry) /\ IsInjective(s) /\ e \in Range(s)
  BY <1>1, <1>3, ChainOf DEF ChainFits
<1> HIDE DEF s
<1>5. q \in Seq(Entry) /\ Range(q) = Range(s) \ {e} /\ IsInjective(q)
  BY <1>1, <1>4, RangeRemove
<1> HIDE DEF e, q
<1>6. ChainFits(flags, hash_func, Len(buckets), b, q)
  <2>1. \A y \in Range(q) : Home(flags, hash_func, y.key, Len(buckets)) = b
    BY <1>3, <1>5 DEF ChainFits
  <2>2. \A y, z \in Range(q) : Fold(flags, y.key) = Fold(flags, z.key) => y = z
    BY <1>3, <1>5 DEF ChainFits
  <2> QED
    BY <1>5, <2>1, <2>2 DEF ChainFits
<1>7. \A y : y \in C \ {e} <=> y \in Range(q) \/ (y \in C /\ y \notin Range(s))
  BY <1>3, <1>4, <1>5
<1>8. Built(flags, hash_func, C \ {e}, Rechained(buckets, b, q))
  BY <1>1, <1>6, <1>7, RechainedBuilt DEF s
<1> QED
  BY <1>2, <1>8 DEF b, s, e, q

(* The chains bs without the entries that are not in S. *)
Keeping(bs, S) == [b \in 1..Len(bs) |-> Chosen(bs[b], S)]

LEMMA KeepBuilds ==
  ASSUME NEW fs, NEW hf, NEW C, NEW bs, Built(fs, hf, C, bs), NEW S
  PROVE  Built(fs, hf, C \cap S, Keeping(bs, S))
<1> DEFINE cs == [b \in 1..Len(bs) |-> Chosen(bs[b], S)]
<1>1. /\ bs \in Seq(Seq(Entry)) /\ Chained(fs, hf, bs) /\ Contents(bs) = C
      /\ IsSize(Len(bs)) /\ Len(bs) \in Nat
  BY DEF Built, IsSize
<1>2. ASSUME NEW b \in 1..Len(bs)
      PROVE  cs[b] \in Seq(Entry) /\ Range(cs[b]) = Range(bs[b]) \cap S /\ IsInjective(cs[b])
  <2>1. bs[b] \in Seq(Entry) /\ IsInjective(bs[b])
    BY <1>1 DEF Chained
  <2>2. /\ Chosen(bs[b], S) \in Seq(Entry)
        /\ Range(Chosen(bs[b], S)) = Range(bs[b]) \cap S
        /\ IsInjective(Chosen(bs[b], S))
    BY <2>1, ChosenFacts
  <2>3. cs[b] = Chosen(bs[b], S)
    OBVIOUS
  <2> HIDE DEF cs
  <2> QED
    BY <2>2, <2>3
<1>3. cs \in Seq(Seq(Entry)) /\ Len(cs) = Len(bs)
  <2>1. cs = [b \in 1..Len(bs) |-> cs[b]]
    OBVIOUS
  <2> HIDE DEF cs
  <2>2. cs \in [1..Len(bs) -> Seq(Entry)]
    BY <1>2, <2>1
  <2>3. ASSUME NEW n \in Nat, cs \in [1..n -> Seq(Entry)]
        PROVE  cs \in Seq(Seq(Entry)) /\ Len(cs) = n
    BY <2>3
  <2> QED
    BY <1>1, <2>2, <2>3
<1> HIDE DEF cs
<1>4. \A b \in 1..Len(cs) : \A e : e \in Range(cs[b]) <=> e \in Range(bs[b]) /\ e \in S
  BY <1>2, <1>3
<1>5. \A e : e \in Contents(cs) <=> e \in C /\ e \in S
  <2>1. \A e : e \in Contents(cs) <=> \E b \in 1..Len(cs) : e \in Range(cs[b])
    BY InContents
  <2>2. \A e : e \in Contents(bs) <=> \E b \in 1..Len(bs) : e \in Range(bs[b])
    BY InContents
  <2> QED
    BY <1>1, <1>3, <1>4, <2>1, <2>2
<1>6. Chained(fs, hf, cs)
  <2>1. /\ \A b \in 1..Len(bs) : \A e \in Range(bs[b]) : Home(fs, hf, e.key, Len(bs)) = b
        /\ \A d, e \in C : Fold(fs, d.key) = Fold(fs, e.key) => d = e
    BY <1>1 DEF Chained
  <2>2. \A b \in 1..Len(cs) : \A e \in Range(cs[b]) : Home(fs, hf, e.key, Len(cs)) = b
    BY <1>3, <1>4, <2>1
  <2>3. \A d, e \in Contents(cs) : Fold(fs, d.key) = Fold(fs, e.key) => d = e
    BY <1>5, <2>1
  <2>4. \A b \in 1..Len(cs) : IsInjective(cs[b])
    BY <1>2, <1>3
  <2> QED
    BY <2>2, <2>3, <2>4 DEF Chained
<1>7. Contents(cs) = C \cap S
  BY <1>5
<1> QED
  BY <1>1, <1>3, <1>6, <1>7 DEF Built, cs, Keeping

LEMMA EmptyBuilds ==
  ASSUME NEW fs, NEW hf, NEW n, IsSize(n)
  PROVE  Built(fs, hf, {}, [b \in 1..n |-> <<>>])
<1> DEFINE cs == [b \in 1..n |-> <<>>]
<1>1. n \in Nat
  BY DEF IsSize
<1>2. cs \in Seq(Seq(Entry)) /\ Len(cs) = n /\ Chained(fs, hf, cs) /\ Contents(cs) = {}
  BY <1>1, EmptyChains
<1> QED
  BY <1>2 DEF Built

-----------------------------------------------------------------------------
(* The inductive invariant.                                                *)

Iter(on, idx, cur, seen, since, moved) ==
  [on |-> on, idx |-> idx, cur |-> cur, seen |-> seen, since |-> since, moved |-> moved]

IsIter(it) == \E a, b, c, d, e, f : it = Iter(a, b, c, d, e, f)

IterInv(it, C) ==
  /\ IsIter(it)
  /\ it.on \in BOOLEAN
  /\ it.on => it.idx \in Nat \ {0}
  /\ ~ it.on => it.cur = NULL
  /\ it.cur # NULL => \E e \in C : e.key = it.cur

Misc ==
  /\ Tuned
  /\ entries \in Nat
  /\ flags \subseteq Flag
  /\ free_fn \in BOOLEAN /\ resized \in BOOLEAN
  /\ live \subseteq Data

Tab ==
  /\ Built(flags, hash_func, Contents(buckets), buckets)
  /\ Cardinality(Contents(buckets)) <= entries
  /\ IterInv(iter, Contents(buckets))

CopyInv ==
  /\ copy = [todo |-> copy.todo, goal |-> copy.goal]
  /\ copy.todo \in Seq(Entry)
  /\ status = "copying" <=> copy.todo # <<>>

HInv ==
  /\ Misc
  /\ CopyInv
  /\ status \in {"running", "copying", "destroyed", "undefined"}
  /\ status # "destroyed" => Tab
  /\ status = "destroyed" => buckets = <<>> /\ iter = Idle

LEMMA IdleInv == \A C : IterInv(Idle, C)
  BY DEF IterInv, IsIter, Iter, Idle

LEMMA Disturbed ==
  ASSUME NEW C, IterInv(iter, C), NEW D, NEW gone,
         \A e \in C : e.key \notin gone => \E x \in D : x.key = e.key,
         Disturb(gone)
  PROVE  IterInv(iter', D)
<1>1. CASE ~ iter.on
  BY <1>1 DEF IterInv, Disturb
<1>2. CASE iter.on
  <2> DEFINE cur == IF iter.cur \in gone THEN NULL ELSE iter.cur
             moved == iter.moved \/ Num(buckets') # Num(buckets)
             kept == IF moved \/ cur = NULL THEN {} ELSE Keys \ gone
  <2>1. iter' = [iter EXCEPT !.cur = cur, !.moved = moved,
                             !.seen = @ \cap kept, !.since = @ \cap kept]
    BY <1>2 DEF Disturb
  <2> HIDE DEF moved, kept
  <2>2. iter' = Iter(iter.on, iter.idx, cur, iter.seen \cap kept, iter.since \cap kept, moved)
    <3>1. PICK a, b, c, d, e, f : iter = Iter(a, b, c, d, e, f)
      BY DEF IterInv, IsIter
    <3> HIDE DEF cur
    <3> QED
      BY <2>1, <3>1 DEF Iter
  <2>3. cur # NULL => \E e \in D : e.key = cur
    BY DEF IterInv
  <2> HIDE DEF cur
  <2> QED
    BY <1>2, <2>2, <2>3 DEF IterInv, IsIter, Iter
<1> QED
  BY <1>1, <1>2 DEF IterInv

LEMMA TabFacts ==
  ASSUME Misc, Tab
  PROVE  /\ IsFiniteSet(Contents(buckets)) /\ Cardinality(Contents(buckets)) \in Nat
         /\ Contents(buckets) \subseteq Entry
         /\ Len(Traversal) = Cardinality(Contents(buckets))
         /\ Traversal \in Seq(Entry) /\ Range(Traversal) = Contents(buckets)
         /\ Stored = Contents(buckets)
         /\ \A d, e \in Contents(buckets) : Fold(flags, d.key) = Fold(flags, e.key) => d = e
<1>1. buckets \in Seq(Seq(Entry)) /\ Chained(flags, hash_func, buckets)
  BY DEF Tab, Built
<1>2. /\ Traversal \in Seq(Entry)
      /\ Range(Traversal) = Contents(buckets)
      /\ IsFiniteSet(Contents(buckets))
      /\ Len(Traversal) = Cardinality(Contents(buckets))
  BY <1>1, ChainedFlat DEF Traversal
<1>3. Cardinality(Contents(buckets)) \in Nat
  BY <1>2, FS_CardinalityType
<1>4. Stored = Contents(buckets)
  BY DEF Stored, Contents, Num
<1>5. \A d, e \in Contents(buckets) : Fold(flags, d.key) = Fold(flags, e.key) => d = e
  BY <1>1 DEF Chained
<1> QED
  BY <1>1, <1>2, <1>3, <1>4, <1>5, ChainTypes

(* Table and bookkeeping after a step, given its chains and its count. *)
LEMMA TabNext ==
  ASSUME NEW D, Built(flags, hash_func, D, buckets'), UNCHANGED <<flags, hash_func>>,
         Cardinality(D) <= entries', IterInv(iter', D)
  PROVE  Tab' /\ Contents(buckets') = D
<1>1. Contents(buckets') = D
  BY DEF Built
<1> QED
  BY <1>1 DEF Tab

LEMMA AddStep ==
  ASSUME Misc, Tab, NEW key \in Keys, NEW d \in Data, Add(key, d)
  PROVE  /\ Misc' /\ Tab'
         /\ Contents(buckets') = Contents(buckets) \cup {New1(key, d)}
         /\ \A e \in Contents(buckets) : Fold(flags, e.key) # Fold(flags, key)
<1> DEFINE C == Contents(buckets)
           D == C \cup {New1(key, d)}
           added == [buckets EXCEPT ![Bucket(key)] = <<[key |-> key, data |-> d]>> \o @]
<1>0. /\ Find(key) = 0
      /\ Resize(added, entries + 1,
                "FROZEN" \notin flags /\ 4 * (entries + 1) > high * Num(added))
      /\ entries' = entries + 1 /\ live' = live \cup {d} /\ Disturb({})
      /\ UNCHANGED <<flags, hash_func, low, high, free_fn>>
  BY DEF Add, Tuning, Bucket
<1>1. /\ Tuned /\ Built(flags, hash_func, C, buckets) /\ entries \in Nat /\ entries + 1 \in Nat
      /\ IsFiniteSet(C) /\ Cardinality(C) \in Nat /\ Cardinality(C) <= entries /\ IterInv(iter, C)
  BY TabFacts DEF Misc, Tab
<1>2. Finds(C, key, 0)
  BY <1>0, <1>1, FindFacts
<1>3. \A e \in C : Fold(flags, e.key) # Fold(flags, key)
  BY <1>2 DEF Finds
<1>4. Built(flags, hash_func, D, added)
  BY <1>1, <1>2, AddBuilds
<1>5. Built(flags, hash_func, D, buckets') /\ resized' \in BOOLEAN
  <2> HIDE DEF added, D, C
  <2> QED
    BY <1>0, <1>1, <1>4, ResizeBuilds
<1>6. Cardinality(D) <= entries'
  <2>1. Cardinality(D) \in {Cardinality(C), Cardinality(C) + 1}
    BY <1>1, FS_AddElement
  <2> HIDE DEF D, C
  <2> QED
    BY <1>0, <1>1, <2>1
<1>7. IterInv(iter', D)
  <2>1. \A e \in C : e.key \notin {} => \E x \in D : x.key = e.key
    OBVIOUS
  <2> HIDE DEF D, C
  <2> QED
    BY <1>0, <1>1, <2>1, Disturbed
<1>8. Misc'
  BY <1>0, <1>1, <1>5 DEF Misc, Tuned
<1> HIDE DEF added
<1>9. Tab' /\ Contents(buckets') = D
  BY <1>0, <1>5, <1>6, <1>7, TabNext
<1> QED
  BY <1>3, <1>8, <1>9

LEMMA ReplaceStep ==
  ASSUME Misc, Tab, NEW key \in Keys, NEW d \in Data, Replace(key, d)
  PROVE  /\ Misc' /\ Tab'
         /\ \E e \in Contents(buckets) :
              /\ e = buckets[Bucket(key)][Find(key)]
              /\ Fold(flags, e.key) = Fold(flags, key)
              /\ Contents(buckets') = (Contents(buckets) \ {e}) \cup {Same(e, d)}
<1> DEFINE C == Contents(buckets)
           e == buckets[Bucket(key)][Find(key)]
           D == (C \ {e}) \cup {Same(e, d)}
<1>0. /\ Find(key) # 0
      /\ buckets' = [buckets EXCEPT ![Bucket(key)][Find(key)].data = d]
      /\ live' = (live \ Freed({e.data})) \cup {d}
      /\ UNCHANGED <<flags, hash_func, low, high, free_fn, entries, resized, iter>>
  BY DEF Replace, Tuning, Bucket
<1>1. /\ Tuned /\ Built(flags, hash_func, C, buckets) /\ entries \in Nat
      /\ IsFiniteSet(C) /\ Cardinality(C) \in Nat /\ Cardinality(C) <= entries /\ IterInv(iter, C)
  BY TabFacts DEF Misc, Tab
<1>2. Finds(C, key, Find(key))
  BY <1>1, FindFacts
<1>3. e \in C /\ Fold(flags, e.key) = Fold(flags, key)
  BY <1>0, <1>2 DEF Finds
<1>4. Built(flags, hash_func, D, buckets')
  BY <1>0, <1>1, <1>2, ReplaceBuilds
<1> HIDE DEF C, e
<1>5. Cardinality(D) <= entries'
  <2> DEFINE F == C \ {e}
  <2>1. IsFiniteSet(F) /\ Cardinality(F) = Cardinality(C) - 1
    BY <1>1, <1>3, FS_RemoveElement
  <2> HIDE DEF F
  <2>2. Cardinality(F \cup {Same(e, d)}) \in {Cardinality(F), Cardinality(F) + 1}
    BY <2>1, FS_AddElement
  <2>3. D = F \cup {Same(e, d)}
    BY DEF F
  <2>4. Cardinality(D) \in {Cardinality(F), Cardinality(F) + 1}
    BY <2>2, <2>3
  <2> HIDE DEF D
  <2>5. entries' = entries
    BY <1>0
  <2> QED
    BY <1>1, <2>1, <2>4, <2>5
<1>6. IterInv(iter', D)
  <2>1. ASSUME NEW x \in C PROVE \E y \in D : y.key = x.key
    <3>1. CASE x = e
      <4>1. Same(e, d) \in D /\ Same(e, d).key = x.key
        BY <3>1 DEF Same
      <4> QED
        BY <4>1
    <3>2. CASE x # e
      <4>1. x \in D
        BY <3>2
      <4> QED
        BY <4>1
    <3> QED
      BY <3>1, <3>2
  <2> HIDE DEF D
  <2> QED
    BY <1>0, <1>1, <2>1 DEF IterInv
<1>7. Misc'
  <2>1. live' \subseteq Data
    BY <1>0 DEF Misc
  <2> QED
    BY <1>0, <2>1 DEF Misc, Tuned
<1> HIDE DEF D
<1>8. Tab' /\ Contents(buckets') = D
  BY <1>0, <1>4, <1>5, <1>6, TabNext
<1> QED
  BY <1>3, <1>7, <1>8 DEF C, D, e

LEMMA DeleteStep ==
  ASSUME Misc, Tab, NEW key \in Keys, Delete(key)
  PROVE  /\ Misc' /\ Tab'
         /\ \/ /\ Find(key) = 0
               /\ Contents(buckets') = Contents(buckets)
               /\ \A e \in Contents(buckets) : Fold(flags, e.key) # Fold(flags, key)
            \/ /\ Find(key) # 0
               /\ \E e \in Contents(buckets) :
                    /\ e = buckets[Bucket(key)][Find(key)]
                    /\ Fold(flags, e.key) = Fold(flags, key)
                    /\ Contents(buckets') = Contents(buckets) \ {e}
<1> DEFINE C == Contents(buckets)
           i == Find(key)
           e == buckets[Bucket(key)][i]
           left == IF i = 0 THEN buckets
                   ELSE [buckets EXCEPT ![Bucket(key)] = RemoveAt(@, i)]
           gone == IF i = 0 THEN {} ELSE {e}
           D == C \ gone
<1>0. /\ entries' = EntriesLeft(i # 0)
      /\ Shrink(left, entries', i # 0)
      /\ live' = live \ Freed({x.data : x \in gone})
      /\ Disturb({x.key : x \in gone})
      /\ UNCHANGED <<flags, hash_func, low, high, free_fn>>
  BY DEF Delete, Tuning, Bucket
<1>1. /\ Tuned /\ Built(flags, hash_func, C, buckets) /\ entries \in Nat
      /\ IsFiniteSet(C) /\ Cardinality(C) \in Nat /\ Cardinality(C) <= entries /\ IterInv(iter, C)
  BY TabFacts DEF Misc, Tab
<1>2. Finds(C, key, i)
  BY <1>1, FindFacts
<1>3. /\ i = 0 => gone = {} /\ D = C /\ \A x \in C : Fold(flags, x.key) # Fold(flags, key)
      /\ i # 0 => gone = {e} /\ e \in C /\ Fold(flags, e.key) = Fold(flags, key)
  BY <1>2 DEF Finds
<1>4. Built(flags, hash_func, D, left)
  BY <1>1, <1>2, <1>3, DeleteBuilds
<1>5. entries' \in Nat /\ Cardinality(D) <= entries'
  <2>1. CASE i = 0
    BY <1>0, <1>1, <1>3, <2>1 DEF EntriesLeft
  <2>2. CASE i # 0
    <3>1. entries' = entries - 1 /\ D = C \ {e} /\ e \in C
      BY <1>0, <1>3, <2>2 DEF EntriesLeft
    <3>2. IsFiniteSet(C \ {e}) /\ Cardinality(C \ {e}) = Cardinality(C) - 1
      <4> HIDE DEF C, e, D
      <4> QED
        BY <1>1, <3>1, FS_RemoveElement
    <3>3. Cardinality(D) \in Nat
      BY <3>1, <3>2, FS_CardinalityType
    <3>4. Cardinality(D) = Cardinality(C) - 1
      BY <3>1, <3>2
    <3> HIDE DEF D, C
    <3> QED
      BY <1>1, <3>1, <3>3, <3>4
  <2> QED
    BY <2>1, <2>2
<1>6. Built(flags, hash_func, D, buckets') /\ resized' \in BOOLEAN
  <2> HIDE DEF left, D, C
  <2> QED
    BY <1>0, <1>1, <1>4, <1>5, ResizeBuilds DEF Shrink
<1>7. IterInv(iter', D)
  <2>1. \A x \in C : x.key \notin {y.key : y \in gone} => \E y \in D : y.key = x.key
    OBVIOUS
  <2> HIDE DEF D, C, gone
  <2> QED
    BY <1>0, <1>1, <2>1, Disturbed
<1>8. Misc'
  <2>1. live' \subseteq Data
    BY <1>0 DEF Misc
  <2> QED
    BY <1>0, <1>1, <1>5, <1>6, <2>1 DEF Misc, Tuned
<1> HIDE DEF left
<1>9. Tab' /\ Contents(buckets') = D
  BY <1>0, <1>5, <1>6, <1>7, TabNext
<1> QED
  BY <1>3, <1>8, <1>9

LEMMA ClearStep ==
  ASSUME Misc, Tab, Clear
  PROVE  Misc' /\ Tab' /\ Contents(buckets') = {}
<1> DEFINE empty == [b \in 1..Num(buckets) |-> <<>>]
<1>0. /\ Shrink(empty, 0, TRUE)
      /\ entries' = 0 /\ live' = live \ Freed(StoredData) /\ Disturb(StoredKeys)
      /\ UNCHANGED <<flags, hash_func, low, high, free_fn>>
  BY DEF Clear, Tuning
<1>1. /\ Tuned /\ IsSize(Len(buckets))
      /\ IterInv(iter, Contents(buckets)) /\ Stored = Contents(buckets)
  BY TabFacts DEF Misc, Tab, Built
<1>2. Built(flags, hash_func, {}, empty)
  BY <1>1, EmptyBuilds DEF Num
<1>3. Built(flags, hash_func, {}, buckets') /\ resized' \in BOOLEAN
  <2> HIDE DEF empty
  <2> QED
    BY <1>0, <1>1, <1>2, ResizeBuilds DEF Shrink
<1>4. IterInv(iter', {})
  <2>1. \A x \in Contents(buckets) : x.key \notin StoredKeys => \E y \in {} : y.key = x.key
    BY <1>1 DEF StoredKeys
  <2> QED
    BY <1>0, <1>1, <2>1, Disturbed
<1>5. Cardinality({}) <= entries'
  BY <1>0, FS_EmptySet
<1>6. Misc'
  <2>1. live' \subseteq Data
    BY <1>0 DEF Misc
  <2> QED
    BY <1>0, <1>1, <1>3, <2>1 DEF Misc, Tuned
<1> HIDE DEF empty
<1> QED
  BY <1>0, <1>3, <1>4, <1>5, <1>6, TabNext

LEMMA RemoveStep ==
  ASSUME Misc, Tab, NEW ks, NEW ff, ForeachRemove(ks, ff)
  PROVE  /\ Misc' /\ Tab'
         /\ Contents(buckets') = {e \in Contents(buckets) : e.key \notin ks}
<1> DEFINE C == Contents(buckets)
           S == {e \in Stored : e.key \notin ks}
           kept == Keeping(buckets, S)
           D == C \cap S
<1>0. /\ buckets' = kept
      /\ live' = live \ Destroyed(ks, ff) /\ Disturb(ks)
      /\ UNCHANGED <<flags, hash_func, low, high, free_fn, entries, resized>>
  BY DEF ForeachRemove, Tuning, Num, Keeping
<1>1. /\ Tuned /\ Built(flags, hash_func, C, buckets) /\ entries \in Nat
      /\ IsFiniteSet(C) /\ Cardinality(C) \in Nat /\ Cardinality(C) <= entries /\ IterInv(iter, C)
      /\ Stored = C
  BY TabFacts DEF Misc, Tab
<1>2. D = {e \in C : e.key \notin ks}
  BY <1>1
<1>3. Built(flags, hash_func, D, buckets')
  <2>1. Built(flags, hash_func, C, buckets)
    BY <1>1
  <2> HIDE DEF S, C
  <2>2. Built(flags, hash_func, C \cap S, Keeping(buckets, S))
    BY <2>1, KeepBuilds
  <2> QED
    BY <1>0, <2>2
<1>4. Cardinality(D) <= entries'
  <2>1. D \subseteq C
    OBVIOUS
  <2> HIDE DEF D, C
  <2>2. Cardinality(D) <= Cardinality(C) /\ IsFiniteSet(D)
    BY <1>1, <2>1, FS_Subset
  <2>3. Cardinality(D) \in Nat /\ entries' = entries
    BY <1>0, <2>2, FS_CardinalityType
  <2> QED
    BY <1>1, <2>2, <2>3
<1>5. IterInv(iter', D)
  <2>1. \A x \in C : x.key \notin ks => \E y \in D : y.key = x.key
    BY <1>2
  <2> HIDE DEF D, C
  <2> QED
    BY <1>0, <1>1, <2>1, Disturbed
<1>6. Misc'
  <2>1. live' \subseteq Data
    BY <1>0 DEF Misc
  <2> HIDE DEF kept
  <2> QED
    BY <1>0, <1>1, <2>1 DEF Misc, Tuned
<1> HIDE DEF kept, D
<1>7. Tab' /\ Contents(buckets') = D
  BY <1>0, <1>3, <1>4, <1>5, TabNext
<1> QED
  BY <1>2, <1>6, <1>7

LEMMA RehashStep ==
  ASSUME Misc, Tab, Rehash
  PROVE  Misc' /\ Tab' /\ Contents(buckets') = Contents(buckets)
<1> DEFINE C == Contents(buckets)
<1>0. /\ Resize(buckets, entries, TRUE) /\ Disturb({})
      /\ UNCHANGED <<flags, hash_func, low, high, free_fn, entries, live>>
  BY DEF Rehash, Tuning
<1>1. Tuned /\ Built(flags, hash_func, C, buckets) /\ Cardinality(C) <= entries /\ IterInv(iter, C)
  BY DEF Misc, Tab
<1>2. Built(flags, hash_func, C, buckets') /\ resized' \in BOOLEAN
  <2> HIDE DEF C
  <2> QED
    BY <1>0, <1>1, ResizeBuilds DEF Misc
<1>3. IterInv(iter', C)
  <2>1. \A x \in C : x.key \notin {} => \E y \in C : y.key = x.key
    OBVIOUS
  <2> HIDE DEF C
  <2> QED
    BY <1>0, <1>1, <2>1, Disturbed
<1>4. Misc'
  BY <1>0, <1>2 DEF Misc, Tuned
<1> HIDE DEF C
<1>5. Tab' /\ Contents(buckets') = C
  BY <1>0, <1>1, <1>2, <1>3, TabNext
<1> QED
  BY <1>4, <1>5 DEF C

(* A position that Yield may be given. *)
Position(it) ==
  /\ IsIter(it)
  /\ it.idx \in Nat
  /\ it.idx # 0 => \E e \in Contents(buckets) : e.key = it.cur

LEMMA MoveFacts ==
  ASSUME Misc, Tab, NEW i \in Nat, NEW it, IsIter(it)
  PROVE  Position(Move(it, NextChain(i))) /\ Move(it, NextChain(i)).idx = NextChain(i)
<1> DEFINE bs == {b \in (i + 1)..Num(buckets) : buckets[b] # <<>>}
           idx == NextChain(i)
<1>0. buckets \in Seq(Seq(Entry)) /\ Len(buckets) \in Nat
  BY DEF Tab, Built, IsSize
<1>1. idx \in Nat /\ (idx # 0 => \E e \in Contents(buckets) : e.key = buckets[idx][1].key)
  <2>1. CASE bs = {}
    BY <2>1 DEF NextChain
  <2>2. CASE bs # {}
    <3>1. bs \subseteq Nat
      OBVIOUS
    <3>2. \E m \in bs : \A c \in bs : m <= c
      <4> HIDE DEF bs
      <4> QED
        BY <2>2, <3>1, LeastExists
    <3>3. idx = CHOOSE b \in bs : \A c \in bs : b <= c
      BY <2>2 DEF NextChain
    <3>4. idx \in bs
      <4> HIDE DEF bs, idx
      <4> QED
        BY <3>2, <3>3
    <3> HIDE DEF idx
    <3>5. idx \in 1..Len(buckets) /\ buckets[idx] # <<>>
      BY <1>0, <3>4 DEF Num
    <3>6. buckets[idx] \in Seq(Entry)
      BY <1>0, <3>5
    <3>7. 1 \in 1..Len(buckets[idx])
      <4> DEFINE s == buckets[idx]
      <4>1. s \in Seq(Entry) /\ s # <<>>
        BY <3>5, <3>6
      <4> HIDE DEF s
      <4>2. Len(s) \in Nat /\ Len(s) # 0
        BY <4>1
      <4>3. 1 \in 1..Len(s)
        BY <4>2
      <4> QED
        BY <4>3 DEF s
    <3>8. buckets[idx][1] \in Contents(buckets)
      BY <3>5, <3>6, <3>7, RangeOf, InContents
    <3>9. idx \in Nat
      BY <3>5
    <3> QED
      BY <3>8, <3>9
  <2> QED
    BY <2>1, <2>2
<1> HIDE DEF idx
<1>2. PICK a, b, c, d, e, f : it = Iter(a, b, c, d, e, f)
  BY DEF IsIter
<1> DEFINE cur == IF idx = 0 THEN NULL ELSE buckets[idx][1].key
<1>3. idx # 0 => cur = buckets[idx][1].key
  OBVIOUS
<1>4. Move(it, idx) = [[it EXCEPT !.idx = idx] EXCEPT !.cur = cur]
  BY DEF Move
<1> HIDE DEF cur
<1>5. Move(it, idx) = Iter(a, idx, cur, d, e, f)
  BY <1>2, <1>4 DEF Iter
<1>6. Move(it, idx).idx = idx /\ Move(it, idx).cur = cur /\ IsIter(Move(it, idx))
  <2>1. IsIter(Move(it, idx))
    BY <1>5 DEF IsIter
  <2>2. Move(it, idx).idx = idx /\ Move(it, idx).cur = cur
    BY <1>5 DEF Iter
  <2> QED
    BY <2>1, <2>2
<1> QED
  BY <1>1, <1>3, <1>6 DEF Position, idx

(* The answer to `call' is an entry, or there is none and `none' holds. *)
Yielded(call, none) ==
  \/ none /\ res' = Nothing(call)
  \/ \E e \in Contents(buckets) : res' = Answer(call, TRUE, e.data, {Folded(e.key)}, 0)

LEMMA YieldFacts ==
  ASSUME Misc, Tab, NEW call, NEW it, Position(it), Yield(call, it)
  PROVE  IterInv(iter', Contents(buckets)) /\ Yielded(call, it.idx = 0)
<1>1. CASE it.idx = 0
  BY <1>1, IdleInv DEF Yield, Yielded
<1>2. CASE it.idx # 0
  <2> DEFINE e == CHOOSE e \in Stored : e.key = it.cur
  <2>1. Stored = Contents(buckets)
    BY TabFacts
  <2>2. e \in Contents(buckets) /\ e.key = it.cur
    BY <1>2, <2>1 DEF Position
  <2>3. /\ iter' = [it EXCEPT !.on = TRUE, !.seen = @ \cup ({it.cur} \cap it.since)]
        /\ res' = Answer(call, TRUE, e.data, {Folded(it.cur)}, 0)
    BY <1>2 DEF Yield
  <2> HIDE DEF e
  <2>4. iter' = Iter(TRUE, it.idx, it.cur, it.seen \cup ({it.cur} \cap it.since),
                     it.since, it.moved)
    <3>1. PICK a, b, c, d, f, g : it = Iter(a, b, c, d, f, g)
      BY DEF Position, IsIter
    <3> QED
      BY <2>3, <3>1 DEF Iter
  <2>5. IterInv(iter', Contents(buckets))
    BY <1>2, <2>2, <2>4 DEF IterInv, IsIter, Iter, Position
  <2>6. Yielded(call, it.idx = 0)
    BY <2>2, <2>3 DEF Yielded
  <2> QED
    BY <2>5, <2>6
<1> QED
  BY <1>1, <1>2

LEMMA NoChain ==
  ASSUME Misc, Tab, NextChain(0) = 0
  PROVE  Contents(buckets) = {}
<1> DEFINE bs == {b \in (0 + 1)..Num(buckets) : buckets[b] # <<>>}
<1>1. bs = {}
  <2> SUFFICES ASSUME bs # {} PROVE FALSE
    OBVIOUS
  <2>1. NextChain(0) = CHOOSE b \in bs : \A c \in bs : b <= c
    BY DEF NextChain
  <2>2. bs \subseteq Nat /\ \A b \in bs : b # 0
    OBVIOUS
  <2> HIDE DEF bs
  <2>3. \E m \in bs : \A c \in bs : m <= c
    BY <2>2, LeastExists
  <2> QED
    BY <2>1, <2>2, <2>3
<1>2. ASSUME NEW e \in Contents(buckets) PROVE FALSE
  <2>1. PICK b \in 1..Len(buckets) : e \in Range(buckets[b])
    BY InContents
  <2>2. buckets[b] = <<>>
    BY <1>1, <2>1 DEF Num
  <2> QED
    BY <2>1, <2>2, RangeEmpty
<1> QED
  BY <1>2

LEMMA EachFacts ==
  ASSUME Misc, Tab, EachData
  PROVE  IterInv(iter', Contents(buckets)) /\ Yielded(<<"each">>, Contents(buckets) = {})
<1> DEFINE it == [Idle EXCEPT !.since = StoredKeys]
<1>1. IsIter(it)
  <2>1. PICK a, b, c, d, e, f : Idle = Iter(a, b, c, d, e, f)
    BY DEF Idle, Iter
  <2> HIDE DEF Idle
  <2>2. it = Iter(a, b, c, d, StoredKeys, f)
    BY <2>1 DEF Iter
  <2> HIDE DEF it
  <2> QED
    BY <2>2 DEF IsIter
<1>2. Yield(<<"each">>, Move(it, NextChain(0)))
  BY DEF EachData
<1> HIDE DEF it
<1>3. Position(Move(it, NextChain(0))) /\ Move(it, NextChain(0)).idx = NextChain(0)
  BY <1>1, MoveFacts
<1>4. /\ IterInv(iter', Contents(buckets))
      /\ Yielded(<<"each">>, Move(it, NextChain(0)).idx = 0)
  BY <1>2, <1>3, YieldFacts
<1> QED
  BY <1>3, <1>4, NoChain DEF Yielded

LEMMA NextFacts ==
  ASSUME Misc, Tab, NextData
  PROVE  IterInv(iter', Contents(buckets)) /\ Yielded(<<"next">>, TRUE)
<1>0. /\ IsIter(iter)
      /\ iter.on /\ iter.idx \in Nat \ {0} /\ iter.cur # NULL
  BY DEF NextData, Tab, IterInv
<1>1. PICK x \in Contents(buckets) : x.key = iter.cur
  BY <1>0 DEF Tab, IterInv
<1>2. CASE Successor(iter.cur) # NULL
  <2> DEFINE key == iter.cur
             b == Bucket(key)
             chain == buckets[b]
             is == {i \in 2..Len(chain) : chain[i - 1].key = key}
             it == [iter EXCEPT !.cur = Successor(key)]
  <2>1. key \in Keys
    <3>1. x \in Entry
      BY TabFacts
    <3> QED
      BY <1>1, <3>1 DEF Entry
  <2>2. b \in 1..Len(buckets)
    <3>1. Tuned /\ Built(flags, hash_func, Contents(buckets), buckets)
      BY DEF Misc, Tab
    <3> HIDE DEF key
    <3>2. Finds(Contents(buckets), key, Find(key))
      BY <2>1, <3>1, FindFacts
    <3> QED
      BY <3>2 DEF Finds
  <2>3. buckets \in Seq(Seq(Entry))
    BY DEF Tab, Built
  <2>4. Successor(key) = IF is = {} THEN NULL ELSE chain[CHOOSE i \in is : TRUE].key
    BY DEF Successor, Bucket
  <2>5. is # {}
    <3> HIDE DEF is, chain, it
    <3> QED
      BY <1>2, <2>4
  <2>6. PICK i \in 1..Len(chain) : Successor(key) = chain[i].key
    <3>1. \A i \in is : i \in 1..Len(chain)
      OBVIOUS
    <3> HIDE DEF is, chain
    <3>2. (CHOOSE i \in is : TRUE) \in is
      BY <2>5
    <3> QED
      BY <2>4, <2>5, <3>1, <3>2
  <2> HIDE DEF b
  <2>7. chain \in Seq(Entry)
    BY <2>2, <2>3
  <2>8. chain[i] \in Contents(buckets)
    BY <2>2, <2>6, <2>7, RangeOf, InContents
  <2> HIDE DEF chain
  <2>9. IsIter(it) /\ it.idx = iter.idx /\ it.cur = chain[i].key
    <3>1. PICK y, z, c, d, e, f : iter = Iter(y, z, c, d, e, f)
      BY <1>0 DEF IsIter
    <3>2. it = Iter(y, z, chain[i].key, d, e, f)
      BY <2>6, <3>1 DEF Iter
    <3> HIDE DEF it
    <3> QED
      BY <3>1, <3>2 DEF IsIter, Iter
  <2>10. Yield(<<"next">>, it)
    BY <1>2 DEF NextData
  <2> HIDE DEF it
  <2>11. Position(it)
    BY <1>0, <2>8, <2>9 DEF Position
  <2> QED
    BY <2>10, <2>11, YieldFacts DEF Yielded
<1>3. CASE Successor(iter.cur) = NULL
  <2>1. Yield(<<"next">>, Move(iter, NextChain(iter.idx)))
    BY <1>3 DEF NextData
  <2>2. Position(Move(iter, NextChain(iter.idx)))
    BY <1>0, MoveFacts
  <2> QED
    BY <2>1, <2>2, YieldFacts DEF Yielded
<1> QED
  BY <1>2, <1>3

(* Only two flags are toggled, and hashing does not depend on them. *)
LEMMA SetFlagStep ==
  ASSUME Misc, Tab, NEW f \in Toggled, SetFlag(f)
  PROVE  /\ Misc' /\ Tab' /\ Contents(buckets') = Contents(buckets)
         /\ "IGNORE_CASE" \in flags' <=> "IGNORE_CASE" \in flags
<1>1. /\ flags' = IF f \in flags THEN flags \ {f} ELSE flags \cup {f}
      /\ UNCHANGED <<buckets, entries, resized, hash_func, low, high, free_fn, iter, live>>
  BY DEF SetFlag, Table
<1>2. f \in Flag /\ f # "IGNORE_CASE"
  BY HashTableAssumption DEF Flag
<1>3. "IGNORE_CASE" \in flags' <=> "IGNORE_CASE" \in flags
  BY <1>1, <1>2
<1>4. /\ \A key : Fold(flags', key) = Fold(flags, key)
      /\ \A key, n : Home(flags', hash_func, key, n) = Home(flags, hash_func, key, n)
  BY <1>3 DEF Fold, Home
<1>5. Built(flags', hash_func, Contents(buckets), buckets)
  BY <1>4 DEF Tab, Built, Chained
<1>6. Tab'
  BY <1>1, <1>5 DEF Tab
<1>7. Misc'
  BY <1>1, <1>2 DEF Misc, Tuned
<1> QED
  BY <1>1, <1>3, <1>6, <1>7

(* The hash function changes only while there is no entry. *)
LEMMA SetHashStep ==
  ASSUME Misc, Tab, NEW f \in Hashes, SetHash(f)
  PROVE  /\ Misc' /\ Tab' /\ Contents(buckets') = Contents(buckets)
<1>1. /\ hash_func' = IF entries = 0 THEN f ELSE hash_func
      /\ UNCHANGED <<buckets, entries, resized, flags, low, high, free_fn, iter, live>>
  BY DEF SetHash, Table, HashMayChange
<1>2. Built(flags, hash_func', Contents(buckets), buckets)
  <2>1. CASE entries = 0
    <3>1. Contents(buckets) = {}
      <4> DEFINE C == Contents(buckets)
      <4>1. IsFiniteSet(C) /\ Cardinality(C) \in Nat /\ Cardinality(C) <= 0
        BY <2>1, TabFacts DEF Tab
      <4> HIDE DEF C
      <4>2. C = {}
        BY <4>1, FS_EmptySet
      <4> QED
        BY <4>2 DEF C
    <3>2. \A b \in 1..Len(buckets) : \A e : e \notin Range(buckets[b])
      BY <3>1, InContents
    <3>3. /\ buckets \in Seq(Seq(Entry)) /\ IsSize(Len(buckets))
          /\ \A b \in 1..Len(buckets) : IsInjective(buckets[b])
      BY DEF Tab, Built, Chained
    <3> QED
      BY <3>1, <3>2, <3>3 DEF Built, Chained
  <2>2. CASE entries # 0
    BY <1>1, <2>2 DEF Tab
  <2> QED
    BY <2>1, <2>2
<1>3. Tab'
  BY <1>1, <1>2 DEF Tab
<1>4. Misc'
  BY <1>1 DEF Misc, Tuned
<1> QED
  BY <1>1, <1>3, <1>4

LEMMA SetThresholdsStep ==
  ASSUME Misc, Tab, NEW t \in Thresholds, SetThresholds(t)
  PROVE  Misc' /\ Tab' /\ Contents(buckets') = Contents(buckets)
<1> DEFINE l == IF t[1] < 0 THEN low ELSE t[1]
           h == IF t[2] < 0 THEN high ELSE t[2]
<1>1. /\ IF h < l THEN UNCHANGED <<low, high>> ELSE low' = l /\ high' = h
      /\ UNCHANGED <<buckets, entries, resized, flags, hash_func, free_fn, iter, live>>
  BY DEF SetThresholds, Table
<1>2. t[1] \in Int /\ t[2] \in Int /\ t[2] # 0
  BY HashTableAssumption
<1>3. low' \in Nat /\ high' \in Nat /\ high' >= 1
  <2>1. l \in Nat /\ h \in Nat /\ h >= 1
    BY <1>2 DEF Misc, Tuned
  <2> QED
    BY <1>1, <2>1 DEF Misc, Tuned
<1> HIDE DEF l, h
<1> QED
  BY <1>1, <1>3 DEF Misc, Tuned, Tab

LEMMA ListsTypes ==
  ASSUME NEW src \in Lists
  PROVE  /\ src \in Seq(Entry)
         /\ \A i \in 1..Len(src) : src[i].data \notin StoredData
         /\ \A i, j \in 1..Len(src) : i # j => src[i].key # src[j].key /\ src[i].data # src[j].data
<1> DEFINE E == [key : Keys, data : Data \ StoredData]
<1>1. src \in BoundedSeq(E, MaxOther)
  BY DEF Lists
<1>2. E \subseteq Entry /\ \A e \in E : e.data \notin StoredData
  BY DEF Entry
<1> HIDE DEF E
<1>3. PICK n \in 0..MaxOther : src \in [1..n -> E]
  BY <1>1 DEF BoundedSeq, SeqOf
<1>4. src \in Seq(E)
  <2>1. n \in Nat
    BY HashTableAssumption
  <2> QED
    BY <1>3, <2>1
<1>5. src \in Seq(Entry)
  BY <1>4, <1>2
<1>6. \A i \in 1..Len(src) : src[i].data \notin StoredData
  BY <1>4, <1>2
<1> QED
  BY <1>5, <1>6 DEF Lists

LEMMA BeginFacts ==
  ASSUME NEW call, NEW src \in Seq(Entry), NEW over, NEW under, NEW fs,
         Begin(call, src, over, under, fs)
  PROVE  /\ CopyInv' /\ status' \in {"running", "copying"} /\ copy'.todo = src
         /\ res' = Nothing(call)
<1> DEFINE fold(k) == IF "IGNORE_CASE" \in fs THEN Lower[k] ELSE k
           of(es, k) == {e.data : e \in {e \in es : fold(e.key) = k}}
           goal(k) == IF of(over, k) # {} THEN of(over, k)
                      ELSE IF of(under, k) # {} THEN of(under, k) ELSE {NULL}
           goals == [k \in Keys |-> goal(k)]
<1>1. /\ copy' = IF src = <<>> THEN NoCopy ELSE [todo |-> src, goal |-> goals]
      /\ status' = IF src = <<>> THEN "running" ELSE "copying"
      /\ res' = Nothing(call)
  BY DEF Begin
<1> HIDE DEF goals
<1>2. \E g : copy' = [todo |-> src, goal |-> g]
  BY <1>1 DEF NoCopy
<1> QED
  BY <1>1, <1>2 DEF CopyInv

LEMMA ListedType ==
  ASSUME Misc, Tab
  PROVE  Listed = Traversal /\ Listed \in Seq(Entry)
<1>1. Len(Traversal) <= entries /\ Traversal \in Seq(Entry)
  BY TabFacts DEF Tab
<1>2. Listed = SubSeq(Traversal, 1, Len(Traversal))
  BY <1>1 DEF Listed
<1> HIDE DEF Traversal
<1>3. SubSeq(Traversal, 1, Len(Traversal)) = Traversal
  BY <1>1
<1> QED
  BY <1>1, <1>2, <1>3

LEMMA MergeStep ==
  ASSUME Misc, Tab, NEW src \in Lists, NEW options \in Options, Merge(src, options)
  PROVE  /\ Misc' /\ Tab' /\ CopyInv' /\ Contents(buckets') = {}
         /\ status' \in {"running", "copying"} /\ res' = Nothing(<<"merge">>)
<1> DEFINE n == HashSize(entries + Len(src))
           empty == [b \in 1..n |-> <<>>]
<1>0. src \in Seq(Entry) /\ Len(src) \in Nat
  <2>1. src \in Seq(Entry)
    BY ListsTypes
  <2> QED
    BY <2>1
<1>1. /\ buckets' = empty
      /\ Begin(<<"merge">>, Merged(Listed, src), Range(src), Stored, options)
      /\ flags' = options \cup {"FROZEN_UNTIL_GROWS"}
      /\ hash_func' = Default
      /\ entries' = 0 /\ low' = 1 /\ high' = 3 /\ free_fn' = FALSE /\ resized' = FALSE
      /\ iter' = Idle
      /\ live' = live
  BY DEF Merge
<1>2. IsSize(n)
  BY <1>0, SizeTypes DEF Misc
<1>3. Built(flags', hash_func', {}, empty)
  BY <1>2, EmptyBuilds
<1> HIDE DEF n, empty
<1>4. Contents(buckets') = {}
  BY <1>1, <1>3 DEF Built
<1>5. Tab'
  <2>1. Cardinality({}) = 0
    BY FS_EmptySet
  <2>2. IterInv(Idle, {})
    BY IdleInv
  <2> QED
    BY <1>1, <1>3, <1>4, <2>1, <2>2 DEF Tab
<1>6. Misc'
  <2>1. options \subseteq Flag /\ Default \in Hashes
    BY HashTableAssumption
  <2>2. flags' \subseteq Flag
    BY <1>1, <2>1 DEF Flag
  <2>3. free_fn' \in BOOLEAN /\ resized' \in BOOLEAN
    BY <1>1
  <2>4. live' \subseteq Data /\ entries' \in Nat
    BY <1>1 DEF Misc
  <2>5. Tuned'
    <3>1. hash_func' \in Hashes /\ low' = 1 /\ high' = 3
      BY <1>1, <2>1
    <3> QED
      BY <3>1 DEF Tuned
  <2> QED
    BY <2>2, <2>3, <2>4, <2>5 DEF Misc
<1>7. Merged(Listed, src) \in Seq(Entry)
  BY <1>0, ListedType, ConcatProperties DEF Merged
<1>8. CopyInv' /\ status' \in {"running", "copying"} /\ res' = Nothing(<<"merge">>)
  BY <1>1, <1>7, BeginFacts
<1> QED
  BY <1>4, <1>5, <1>6, <1>8

(* The calls that read the table. *)
LEMMA QuietStep ==
  ASSUME Misc, Tab, Table, Tuning, UNCHANGED live, IterInv(iter', Contents(buckets))
  PROVE  Misc' /\ Tab' /\ Contents(buckets') = Contents(buckets)
<1>1. UNCHANGED <<buckets, entries, resized, flags, hash_func, low, high, free_fn, live>>
  BY DEF Table, Tuning
<1>2. Misc'
  BY <1>1 DEF Misc, Tuned
<1>3. Tab'
  BY <1>1 DEF Tab
<1> QED
  BY <1>1, <1>2, <1>3

Reading ==
  \/ \E key \in Keys : Get(key)
  \/ KeysData \/ EachData \/ NextData \/ NextFreed

LEMMA ReadingStep ==
  ASSUME Misc, Tab, Reading
  PROVE  Misc' /\ Tab' /\ Contents(buckets') = Contents(buckets)
<1>0. IterInv(iter, Contents(buckets))
  BY DEF Tab
<1>1. CASE \E key \in Keys : Get(key)
  BY <1>0, <1>1, QuietStep DEF Get
<1>2. CASE KeysData
  BY <1>0, <1>2, QuietStep DEF KeysData
<1>3. CASE EachData
  <2>1. IterInv(iter', Contents(buckets))
    BY <1>3, EachFacts
  <2> QED
    BY <1>3, <2>1, QuietStep DEF EachData
<1>4. CASE NextData
  <2>1. IterInv(iter', Contents(buckets))
    BY <1>4, NextFacts
  <2> QED
    BY <1>4, <2>1, QuietStep DEF NextData
<1>5. CASE NextFreed
  BY <1>0, <1>5, QuietStep DEF NextFreed
<1> QED
  BY <1>1, <1>2, <1>3, <1>4, <1>5 DEF Reading

LEMMA CopyStep ==
  ASSUME Misc, Tab, NEW src \in Lists, Copy(src)
  PROVE  /\ Misc' /\ Tab' /\ CopyInv' /\ Contents(buckets') = Contents(buckets)
         /\ status' \in {"running", "copying"} /\ copy'.todo = src
         /\ res' = Nothing(<<"tune">>)
<1>1. IterInv(iter, Contents(buckets))
  BY DEF Tab
<1>2. Misc' /\ Tab' /\ Contents(buckets') = Contents(buckets)
  BY <1>1, QuietStep DEF Copy
<1>3. src \in Seq(Entry) /\ Begin(<<"tune">>, src, Range(src), Stored, flags)
  BY ListsTypes DEF Copy
<1> QED
  BY <1>2, <1>3, BeginFacts

(* The calls that leave `copy' and `status' alone. *)
Tabular ==
  \/ \E key \in Keys : Delete(key) \/ \E d \in Data : Put(key, d)
  \/ Clear \/ Rehash
  \/ \E ff \in BOOLEAN, ks \in SUBSET StoredKeys : ForeachRemove(ks, ff)
  \/ \E f \in Hashes : SetHash(f)
  \/ \E f \in Toggled : SetFlag(f)
  \/ \E t \in Thresholds : SetThresholds(t)

LEMMA TabularStep ==
  ASSUME Misc, Tab, Tabular
  PROVE  Misc' /\ Tab' /\ UNCHANGED status /\ Running
<1>1. ASSUME NEW key \in Keys, Delete(key) PROVE Misc' /\ Tab' /\ UNCHANGED status /\ Running
  BY <1>1, DeleteStep DEF Delete
<1>2. ASSUME NEW key \in Keys, NEW d \in Data, Put(key, d)
      PROVE  Misc' /\ Tab' /\ UNCHANGED status /\ Running
  BY <1>2, AddStep, ReplaceStep DEF Put
<1>3. CASE Clear
  BY <1>3, ClearStep DEF Clear
<1>4. CASE Rehash
  BY <1>4, RehashStep DEF Rehash
<1>5. ASSUME NEW ff \in BOOLEAN, NEW ks \in SUBSET StoredKeys, ForeachRemove(ks, ff)
      PROVE  Misc' /\ Tab' /\ UNCHANGED status /\ Running
  BY <1>5, RemoveStep DEF ForeachRemove
<1>6. ASSUME NEW f \in Hashes, SetHash(f) PROVE Misc' /\ Tab' /\ UNCHANGED status /\ Running
  BY <1>6, SetHashStep DEF SetHash
<1>7. ASSUME NEW f \in Toggled, SetFlag(f) PROVE Misc' /\ Tab' /\ UNCHANGED status /\ Running
  BY <1>7, SetFlagStep DEF SetFlag
<1>8. ASSUME NEW t \in Thresholds, SetThresholds(t)
      PROVE  Misc' /\ Tab' /\ UNCHANGED status /\ Running
  BY <1>8, SetThresholdsStep DEF SetThresholds
<1> QED
  BY <1>1, <1>2, <1>3, <1>4, <1>5, <1>6, <1>7, <1>8 DEF Tabular

LEMMA NextCases ==
  ASSUME Next
  PROVE  \/ Tabular /\ UNCHANGED copy
         \/ Reading /\ UNCHANGED copy
         \/ \E src \in Lists : Copy(src)
         \/ \E src \in Lists, o \in Options : Merge(src, o)
         \/ CopyNext
         \/ (\E ff \in BOOLEAN : Destroy(ff)) /\ UNCHANGED copy
         \/ UNCHANGED vars
  BY DEF Next, Operation, Tabular, Reading, Ended

LEMMA CopyNextStep ==
  ASSUME Misc, Tab, CopyInv, CopyNext
  PROVE  Misc' /\ Tab' /\ CopyInv' /\ status' \in {"running", "copying"}
<1> DEFINE e == Head(copy.todo)
<1>1. /\ copy = [todo |-> copy.todo, goal |-> copy.goal]
      /\ copy.todo \in Seq(Entry) /\ copy.todo # <<>>
      /\ status = "copying"
  BY DEF CopyInv, CopyNext
<1>2. e \in Entry
  BY <1>1
<1>3. e.key \in Keys /\ e.data \in Data
  BY <1>2 DEF Entry
<1>4. Add(e.key, e.data) \/ Replace(e.key, e.data)
  BY DEF CopyNext
<1>5. Misc' /\ Tab'
  <2> HIDE DEF e
  <2> QED
    BY <1>3, <1>4, AddStep, ReplaceStep
<1>6. CASE Len(copy.todo) = 1
  <2>1. copy' = NoCopy /\ status' = "running"
    BY <1>6 DEF CopyNext
  <2> QED
    BY <1>5, <2>1 DEF CopyInv, NoCopy
<1>7. CASE Len(copy.todo) # 1
  <2>1. copy' = [copy EXCEPT !.todo = Tail(@)] /\ status' = "copying"
    BY <1>1, <1>7 DEF CopyNext
  <2> DEFINE s == copy.todo
  <2>2. Tail(s) \in Seq(Entry) /\ Tail(s) # <<>>
    <3>1. s \in Seq(Entry) /\ Len(s) # 1 /\ s # <<>>
      BY <1>1, <1>7
    <3> HIDE DEF s
    <3>2. Len(s) \in Nat /\ Len(s) # 0
      BY <3>1
    <3>3. Tail(s) \in Seq(Entry) /\ Len(Tail(s)) = Len(s) - 1
      BY <3>1, HeadTailProperties
    <3>4. Len(<<>>) = 0
      OBVIOUS
    <3>5. Len(Tail(s)) # 0
      BY <3>1, <3>2, <3>3
    <3> QED
      BY <3>3, <3>4, <3>5
  <2>3. \E g : copy' = [todo |-> Tail(s), goal |-> g]
    BY <1>1, <2>1
  <2> HIDE DEF s
  <2> QED
    BY <1>5, <2>1, <2>2, <2>3 DEF CopyInv
<1> QED
  BY <1>6, <1>7

LEMMA HStep == HInv /\ [Next]_vars => HInv'
<1> SUFFICES ASSUME HInv, [Next]_vars PROVE HInv'
  OBVIOUS
<1>1. Misc /\ CopyInv
  BY DEF HInv
<1>2. CASE UNCHANGED vars
  BY <1>2 DEF HInv, Misc, Tuned, Tab, CopyInv, vars
<1>3. CASE Tabular /\ UNCHANGED copy
  <2>1. Tab /\ status = "running"
    BY <1>3 DEF HInv, Tabular, Running, Delete, Put, Clear, Rehash, ForeachRemove, SetHash,
                SetFlag, SetThresholds
  <2>2. Misc' /\ Tab' /\ UNCHANGED status
    BY <1>1, <1>3, <2>1, TabularStep
  <2> QED
    BY <1>1, <1>3, <2>1, <2>2 DEF HInv, CopyInv
<1>4. CASE Reading /\ UNCHANGED copy
  <2>1. Tab /\ status = "running" /\ status' \in {"running", "undefined"}
    BY <1>4 DEF HInv, Reading, Running, Get, KeysData, EachData, NextData, NextFreed
  <2>2. Misc' /\ Tab'
    BY <1>1, <1>4, <2>1, ReadingStep
  <2> QED
    BY <1>1, <1>4, <2>1, <2>2 DEF HInv, CopyInv
<1>5. ASSUME NEW src \in Lists, Copy(src) PROVE HInv'
  <2>1. Tab
    BY <1>5 DEF HInv, Copy, Running
  <2>2. Misc' /\ Tab' /\ CopyInv' /\ status' \in {"running", "copying"}
    BY <1>1, <1>5, <2>1, CopyStep
  <2> QED
    BY <2>2 DEF HInv
<1>6. ASSUME NEW src \in Lists, NEW o \in Options, Merge(src, o) PROVE HInv'
  <2>1. Tab
    BY <1>6 DEF HInv, Merge, Running
  <2>2. Misc' /\ Tab' /\ CopyInv' /\ status' \in {"running", "copying"}
    BY <1>1, <1>6, <2>1, MergeStep
  <2> QED
    BY <2>2 DEF HInv
<1>7. CASE CopyNext
  <2>1. Tab
    BY <1>7 DEF HInv, CopyNext
  <2>2. Misc' /\ Tab' /\ CopyInv' /\ status' \in {"running", "copying"}
    BY <1>1, <1>7, <2>1, CopyNextStep
  <2> QED
    BY <2>2 DEF HInv
<1>8. ASSUME NEW ff \in BOOLEAN, Destroy(ff), UNCHANGED copy PROVE HInv'
  <2>1. /\ status = "running" /\ status' = "destroyed" /\ buckets' = <<>> /\ iter' = Idle
        /\ UNCHANGED <<flags, hash_func, low, high, free_fn, entries, resized>>
        /\ live' \in {live, live \ StoredData}
    BY <1>8 DEF Destroy, Tuning, Running
  <2>2. Misc'
    BY <1>1, <2>1 DEF Misc, Tuned
  <2> QED
    BY <1>1, <1>8, <2>1, <2>2 DEF HInv, CopyInv
<1> QED
  BY <1>2, <1>3, <1>4, <1>5, <1>6, <1>7, <1>8, NextCases

LEMMA HInit == Init => HInv /\ Contents(buckets) = {}
<1> SUFFICES ASSUME Init PROVE HInv /\ Contents(buckets) = {}
  OBVIOUS
<1>1. PICK n, o : /\ IsSize(n) /\ o \subseteq Flag
                  /\ buckets = [b \in 1..n |-> <<>>]
                  /\ flags = o \cup {"FROZEN_UNTIL_GROWS"} /\ free_fn \in BOOLEAN
  <2>1. ASSUME NEW s \in Nat, NEW o \in SUBSET Flag, NEW ff \in BOOLEAN, New(s, o, ff)
        PROVE  \E n, p : /\ IsSize(n) /\ p \subseteq Flag
                         /\ buckets = [b \in 1..n |-> <<>>]
                         /\ flags = p \cup {"FROZEN_UNTIL_GROWS"} /\ free_fn \in BOOLEAN
    <3> DEFINE n == HashSize(IF s = 0 THEN 8 ELSE s)
    <3>1. IsSize(n)
      BY SizeTypes
    <3>2. buckets = [b \in 1..n |-> <<>>] /\ flags = o \cup {"FROZEN_UNTIL_GROWS"} /\ free_fn = ff
      BY <2>1 DEF New
    <3> HIDE DEF n
    <3> QED
      BY <3>1, <3>2
  <2>2. Sizes \subseteq Nat /\ Options \subseteq SUBSET Flag /\ 8 \in Nat /\ {} \in SUBSET Flag
    BY HashTableAssumption
  <2> QED
    BY <2>1, <2>2 DEF Init
<1>2. /\ entries = 0 /\ hash_func \in Hashes /\ low = 1 /\ high = 3 /\ resized = FALSE
      /\ iter = Idle /\ live = {} /\ copy = NoCopy /\ status = "running"
  BY DEF Init
<1>3. Built(flags, hash_func, {}, buckets)
  BY <1>1, EmptyBuilds
<1>4. Tab /\ Contents(buckets) = {}
  <2>1. Contents(buckets) = {}
    BY <1>3 DEF Built
  <2>2. Cardinality({}) = 0
    BY FS_EmptySet
  <2> QED
    BY <1>2, <1>3, <2>1, <2>2, IdleInv DEF Tab
<1>5. Misc
  <2>1. flags \subseteq Flag /\ resized \in BOOLEAN
    BY <1>1, <1>2 DEF Flag
  <2> QED
    BY <1>1, <1>2, <2>1 DEF Misc, Tuned
<1>6. CopyInv
  BY <1>2 DEF CopyInv, NoCopy
<1> QED
  BY <1>2, <1>4, <1>5, <1>6 DEF HInv

LEMMA EmptyTable ==
  ASSUME buckets = <<>>
  PROVE  /\ buckets \in Seq(Seq(Entry)) /\ Len(buckets) = 0
         /\ Contents(buckets) = {} /\ Stored = {}
         /\ Len(Traversal) = 0
<1>1. buckets = [b \in 1..0 |-> <<>>]
  OBVIOUS
<1>2. /\ buckets \in Seq(Seq(Entry)) /\ Len(buckets) = 0
      /\ Chained(flags, hash_func, buckets) /\ Contents(buckets) = {}
  BY <1>1, EmptyChains
<1>3. Len(Traversal) = 0
  <2>1. Len(FlattenSeq(buckets)) = Cardinality(Contents(buckets))
    BY <1>2, ChainedFlat
  <2>2. Cardinality({}) = 0
    BY FS_EmptySet
  <2> QED
    BY <1>2, <2>1, <2>2 DEF Traversal
<1> QED
  BY <1>2, <1>3 DEF Stored, Contents, Num

LEMMA TypesFollow == HInv => TypeOK
<1> SUFFICES ASSUME HInv PROVE TypeOK
  OBVIOUS
<1>1. buckets \in Seq(Seq(Entry))
  BY EmptyTable DEF HInv, Tab, Built
<1>2. Running => \E k \in 0..Num(buckets) : Num(buckets) = PowerOfTwo[k]
  BY DEF HInv, Tab, Built, IsSize, Num, Running
<1>3. iter.on => iter.idx \in Nat \ {0}
  BY DEF HInv, Tab, IterInv, Idle
<1> QED
  BY <1>1, <1>2, <1>3 DEF TypeOK, HInv, Misc, Tuned, CopyInv

LEMMA PlacedFollows == HInv => Placed
<1> SUFFICES ASSUME HInv PROVE Placed
  OBVIOUS
<1>1. CASE status = "destroyed"
  <2>1. Len(Traversal) = 0 /\ Num(buckets) = 0 /\ entries \in Nat
    BY <1>1, EmptyTable DEF HInv, Misc, Num
  <2> QED
    BY <2>1 DEF Placed
<1>2. CASE status # "destroyed"
  <2>1. Misc /\ Tab
    BY <1>2 DEF HInv
  <2>2. Len(Traversal) <= entries
    BY <2>1, TabFacts DEF Tab
  <2>3. buckets \in Seq(Seq(Entry)) /\ Chained(flags, hash_func, buckets)
    BY <2>1 DEF Tab, Built
  <2>4. ASSUME NEW b \in 1..Num(buckets), NEW i \in 1..Len(buckets[b])
        PROVE  /\ Slot(buckets[b][i].key, Num(buckets)) = b
               /\ \A j \in 1..(i - 1) : Folded(buckets[b][j].key) # Folded(buckets[b][i].key)
    <3> DEFINE s == buckets[b]
    <3>1. s \in Seq(Entry) /\ IsInjective(s) /\ b \in 1..Len(buckets)
      BY <2>3 DEF Chained, Num
    <3>2. \A k \in 1..Len(s) : s[k] \in Range(s) /\ s[k] \in Contents(buckets)
      BY <3>1, RangeOf, InContents
    <3>3. Slot(s[i].key, Num(buckets)) = b
      BY <2>3, <3>1, <3>2, SlotIsHome DEF Chained, Num
    <3> HIDE DEF s
    <3>4. ASSUME NEW j \in 1..(i - 1), Folded(s[j].key) = Folded(s[i].key) PROVE FALSE
      <4>1. j \in 1..Len(s) /\ i \in 1..Len(s) /\ j # i
        BY <3>1 DEF s
      <4>2. s[j] = s[i]
        BY <2>3, <3>2, <3>4, <4>1, SlotIsHome DEF Chained
      <4> QED
        BY <3>1, <4>1, <4>2, RangeOf
    <3> QED
      BY <3>3, <3>4 DEF s
  <2> QED
    BY <2>2, <2>4 DEF Placed
<1> QED
  BY <1>1, <1>2

LEMMA Invariant == Spec => []HInv
<1> QED
  BY HInit, HStep, PTL DEF Spec

(* Every variable has its type, and the number of buckets stays a power of *)
(* two through growth, shrinking, clearing and merging.                    *)
THEOREM HashTableTypeCorrect == Spec => []TypeOK
<1> QED
  BY Invariant, TypesFollow, PTL

(* Every entry is where a search for its key looks, no key is stored       *)
(* twice, and the counter is never below the number of entries, which is   *)
(* what allows the hash function to be changed when it is zero.            *)
THEOREM EntriesArePlaced == Spec => []Placed
<1> QED
  BY Invariant, PlacedFollows, PTL

-----------------------------------------------------------------------------
(* Whose data the table holds.                                             *)

DataOf(C) == {e.data : e \in C}

(* The data of the entries are pairwise different, and those in l. *)
Own(C, l) == (\A d, e \in C : d.data = e.data => d = e) /\ l = DataOf(C)

(* The entries of s have data of their own, which no entry of C has. *)
Fresh(s, C) ==
  /\ \A i, j \in 1..Len(s) : s[i].data = s[j].data => i = j
  /\ \A i \in 1..Len(s) : s[i].data \notin DataOf(C)

OwnInv ==
  free_fn => /\ Own(Contents(buckets), live)
             /\ Fresh(copy.todo, Contents(buckets))
             /\ Running => res.data \in DataOf(Contents(buckets)) \cup {NULL}

LEMMA StoredDataIs == Stored = Contents(buckets) /\ StoredData = DataOf(Contents(buckets))
<1>1. Stored = Contents(buckets)
  BY DEF Stored, Contents, Num
<1> QED
  BY <1>1 DEF StoredData, DataOf

LEMMA OwnMore ==
  ASSUME NEW C, NEW l, Own(C, l), NEW x, x.data \notin DataOf(C)
  PROVE  Own(C \cup {x}, l \cup {x.data}) /\ DataOf(C \cup {x}) = DataOf(C) \cup {x.data}
  BY DEF Own, DataOf

LEMMA OwnLess ==
  ASSUME NEW C, NEW l, Own(C, l), NEW S
  PROVE  Own(C \ S, l \ DataOf(C \cap S)) /\ DataOf(C \ S) \subseteq DataOf(C)
  BY DEF Own, DataOf

LEMMA NullAnswers ==
  /\ \A c : Nothing(c).data = NULL
  /\ \A c, f, d, ks, n : Answer(c, f, d, ks, n).data = d
  BY DEF Nothing, Answer

LEMMA PutOwn ==
  ASSUME Misc, Tab, NEW key \in Keys, NEW d \in Data, d \notin DataOf(Contents(buckets)),
         free_fn, Own(Contents(buckets), live), Add(key, d) \/ Replace(key, d)
  PROVE  /\ Own(Contents(buckets'), live')
         /\ DataOf(Contents(buckets')) \subseteq DataOf(Contents(buckets)) \cup {d}
         /\ res'.data = NULL
<1> DEFINE C == Contents(buckets)
<1>1. CASE Add(key, d)
  <2>1. Contents(buckets') = C \cup {New1(key, d)}
    BY <1>1, AddStep
  <2>2. live' = live \cup {d} /\ res' = Nothing(<<"put", key, d>>)
    BY <1>1 DEF Add
  <2>3. New1(key, d).data = d
    BY DEF New1
  <2> HIDE DEF C
  <2>4. Own(C \cup {New1(key, d)}, live \cup {d})
        /\ DataOf(C \cup {New1(key, d)}) = DataOf(C) \cup {d}
    BY <2>3, OwnMore DEF C
  <2> QED
    BY <2>1, <2>2, <2>4, NullAnswers DEF C
<1>2. CASE Replace(key, d)
  <2>1. PICK e \in C : /\ e = buckets[Bucket(key)][Find(key)]
                       /\ Contents(buckets') = (C \ {e}) \cup {Same(e, d)}
    BY <1>2, ReplaceStep
  <2>2. live' = (live \ {e.data}) \cup {d} /\ res'.data = NULL
    <3>1. /\ live' = (live \ Freed({e.data})) \cup {d}
          /\ res' = Answer(<<"put", key, d>>, TRUE, OldData(e.data), {}, 0)
      BY <1>2, <2>1 DEF Replace, Bucket
    <3>2. Freed({e.data}) = {e.data} /\ OldData(e.data) = NULL
      BY DEF Freed, OldData
    <3> QED
      BY <3>1, <3>2 DEF Answer
  <2>3. Same(e, d).data = d
    BY DEF Same
  <2> HIDE DEF C
  <2>4. C \cap {e} = {e} /\ DataOf({e}) = {e.data}
    BY DEF DataOf
  <2>5. Own(C \ {e}, live \ {e.data}) /\ DataOf(C \ {e}) \subseteq DataOf(C)
    BY <2>4, OwnLess DEF C
  <2>6. Same(e, d).data \notin DataOf(C \ {e})
    BY <2>3, <2>5 DEF C
  <2>7. /\ Own((C \ {e}) \cup {Same(e, d)}, (live \ {e.data}) \cup {d})
        /\ DataOf((C \ {e}) \cup {Same(e, d)}) = DataOf(C \ {e}) \cup {d}
    BY <2>3, <2>5, <2>6, OwnMore
  <2> QED
    BY <2>1, <2>2, <2>5, <2>7 DEF C
<1> QED
  BY <1>1, <1>2

LEMMA DeleteOwn ==
  ASSUME Misc, Tab, NEW key \in Keys, free_fn, Own(Contents(buckets), live), Delete(key)
  PROVE  Own(Contents(buckets'), live') /\ res'.data = NULL
<1> DEFINE C == Contents(buckets)
           e == buckets[Bucket(key)][Find(key)]
<1>1. /\ live' = live \ Freed({x.data : x \in IF Find(key) = 0 THEN {} ELSE {e}})
      /\ res' = Answer(<<"delete", key>>, FALSE,
                       IF Find(key) = 0 THEN NULL ELSE OldData(e.data), {}, 0)
  BY DEF Delete, Bucket
<1>2. res'.data = NULL
  <2>1. OldData(e.data) = NULL
    BY DEF OldData
  <2> HIDE DEF e
  <2> QED
    BY <1>1, <2>1 DEF Answer
<1>3. CASE Find(key) = 0
  <2>1. Contents(buckets') = C
    BY <1>3, DeleteStep
  <2>2. live' = live
    BY <1>1, <1>3 DEF Freed
  <2> QED
    BY <1>2, <2>1, <2>2
<1>4. CASE Find(key) # 0
  <2>1. e \in C /\ Contents(buckets') = C \ {e}
    BY <1>4, DeleteStep
  <2>2. live' = live \ {e.data}
    BY <1>1, <1>4 DEF Freed
  <2> HIDE DEF C, e
  <2>3. C \cap {e} = {e} /\ DataOf({e}) = {e.data}
    BY <2>1 DEF DataOf
  <2>4. Own(C \ {e}, live \ {e.data})
    BY <2>3, OwnLess DEF C
  <2> QED
    BY <1>2, <2>1, <2>2, <2>4
<1> QED
  BY <1>3, <1>4

LEMMA ClearOwn ==
  ASSUME Misc, Tab, free_fn, Own(Contents(buckets), live), Clear
  PROVE  Own(Contents(buckets'), live') /\ res'.data = NULL
<1>1. live' = live \ StoredData /\ res' = Nothing(<<"clear">>) /\ Contents(buckets') = {}
  BY ClearStep DEF Clear, Freed
<1>2. live' = {} /\ DataOf({}) = {}
  BY <1>1, StoredDataIs DEF Own, DataOf
<1> QED
  BY <1>1, <1>2, NullAnswers DEF Own

LEMMA RemoveOwn ==
  ASSUME Misc, Tab, NEW ks, NEW ff, free_fn, Own(Contents(buckets), live), ForeachRemove(ks, ff)
  PROVE  Own(Contents(buckets'), live') /\ res'.data = NULL
<1> DEFINE C == Contents(buckets)
           S == {e \in C : e.key \in ks}
<1>1. Contents(buckets') = {e \in C : e.key \notin ks}
  BY RemoveStep
<1>2. live' = live \ Destroyed(ks, ff) /\ res'.data = NULL
  BY DEF ForeachRemove, Answer
<1>3. Destroyed(ks, ff) = DataOf(S)
  BY StoredDataIs DEF Destroyed, DataOf
<1>4. Contents(buckets') = C \ S /\ C \cap S = S
  BY <1>1
<1> HIDE DEF C, S
<1>5. Own(C \ S, live \ DataOf(S))
  BY <1>4, OwnLess DEF C
<1> QED
  BY <1>2, <1>3, <1>4, <1>5

LEMMA FreshEmpty == \A C : Fresh(<<>>, C)
  BY DEF Fresh

LEMMA TabularOwn ==
  ASSUME HInv, OwnInv, Tabular, free_fn'
  PROVE  Own(Contents(buckets'), live') /\ res'.data = NULL /\ copy.todo = <<>>
<1>1. status = "running"
  BY DEF Tabular, Running, Delete, Put, Clear, Rehash, ForeachRemove, SetHash, SetFlag,
         SetThresholds
<1>2. Misc /\ Tab /\ copy.todo = <<>>
  BY <1>1 DEF HInv, CopyInv
<1>3. free_fn = TRUE
  <2>1. free_fn' = free_fn
    BY DEF Tabular, Delete, Put, Add, Replace, Clear, Rehash, ForeachRemove, SetHash, SetFlag,
           SetThresholds, Tuning
  <2> QED
    BY <1>2, <2>1 DEF Misc
<1>4. Own(Contents(buckets), live)
  BY <1>3 DEF OwnInv
<1>5. CASE \E key \in Keys : Delete(key)
  BY <1>2, <1>3, <1>4, <1>5, DeleteOwn
<1>6. ASSUME NEW key \in Keys, NEW d \in Data, Put(key, d)
      PROVE  Own(Contents(buckets'), live') /\ res'.data = NULL
  <2>1. d \notin DataOf(Contents(buckets)) /\ (Add(key, d) \/ Replace(key, d))
    BY <1>6, StoredDataIs DEF Put
  <2> QED
    BY <1>2, <1>3, <1>4, <2>1, PutOwn
<1>7. CASE Clear
  BY <1>2, <1>3, <1>4, <1>7, ClearOwn
<1>8. CASE \E ff \in BOOLEAN, ks \in SUBSET StoredKeys : ForeachRemove(ks, ff)
  BY <1>2, <1>3, <1>4, <1>8, RemoveOwn
<1>9. CASE Rehash
  <2>1. Contents(buckets') = Contents(buckets) /\ live' = live /\ res' = Nothing(<<"tune">>)
    BY <1>2, <1>9, RehashStep DEF Rehash
  <2> QED
    BY <1>2, <1>4, <2>1, NullAnswers
<1>10. CASE \E f \in Hashes : SetHash(f)
  <2>1. Contents(buckets') = Contents(buckets) /\ live' = live /\ res' = Nothing(<<"tune">>)
    BY <1>2, <1>10, SetHashStep DEF SetHash
  <2> QED
    BY <1>2, <1>4, <2>1, NullAnswers
<1>11. CASE \E f \in Toggled : SetFlag(f)
  <2>1. Contents(buckets') = Contents(buckets) /\ live' = live /\ res' = Nothing(<<"tune">>)
    BY <1>2, <1>11, SetFlagStep DEF SetFlag
  <2> QED
    BY <1>2, <1>4, <2>1, NullAnswers
<1>12. CASE \E t \in Thresholds : SetThresholds(t)
  <2>1. Contents(buckets') = Contents(buckets) /\ live' = live /\ res' = Nothing(<<"tune">>)
    BY <1>2, <1>12, SetThresholdsStep DEF SetThresholds
  <2> QED
    BY <1>2, <1>4, <2>1, NullAnswers
<1> QED
  BY <1>2, <1>5, <1>6, <1>7, <1>8, <1>9, <1>10, <1>11, <1>12 DEF Tabular

LEMMA ReadingAnswers ==
  ASSUME Misc, Tab, Reading
  PROVE  \/ res'.data \in DataOf(Contents(buckets)) \cup {NULL}
         \/ status' = "undefined"
<1>1. ASSUME NEW key \in Keys, Get(key)
      PROVE  res'.data \in DataOf(Contents(buckets)) \cup {NULL}
  <2>1. Finds(Contents(buckets), key, Find(key))
    BY FindFacts DEF Misc, Tab
  <2> DEFINE e == buckets[Bucket(key)][Find(key)]
  <2>2. res' = IF Find(key) = 0 THEN Nothing(<<"get", key>>)
               ELSE Answer(<<"get", key>>, TRUE, e.data, {}, 0)
    BY <1>1 DEF Get, Bucket
  <2>3. Find(key) # 0 => e.data \in DataOf(Contents(buckets))
    BY <2>1 DEF Finds, DataOf
  <2> HIDE DEF e
  <2>4. res'.data = IF Find(key) = 0 THEN NULL ELSE e.data
    BY <2>2 DEF Nothing, Answer
  <2> QED
    BY <2>3, <2>4
<1>2. CASE KeysData
  BY <1>2 DEF KeysData, Answer
<1>3. ASSUME NEW call, \/ res' = Nothing(call)
                       \/ \E e \in Contents(buckets) :
                            res' = Answer(call, TRUE, e.data, {Folded(e.key)}, 0)
      PROVE  res'.data \in DataOf(Contents(buckets)) \cup {NULL}
  <2>1. CASE res' = Nothing(call)
    BY <2>1 DEF Nothing, Answer
  <2>2. ASSUME NEW e \in Contents(buckets),
               res' = Answer(call, TRUE, e.data, {Folded(e.key)}, 0)
        PROVE  res'.data \in DataOf(Contents(buckets))
    BY <2>2 DEF Answer, DataOf
  <2> QED
    BY <1>3, <2>1, <2>2
<1>4. CASE EachData
  BY <1>3, <1>4, EachFacts DEF Yielded
<1>5. CASE NextData
  BY <1>3, <1>5, NextFacts DEF Yielded
<1> QED
  BY <1>1, <1>2, <1>4, <1>5 DEF Reading, NextFreed

LEMMA OwnStep == HInv /\ OwnInv /\ [Next]_vars => OwnInv'
<1> SUFFICES ASSUME HInv, OwnInv, [Next]_vars, free_fn'
             PROVE  /\ Own(Contents(buckets'), live')
                    /\ Fresh(copy'.todo, Contents(buckets'))
                    /\ Running' => res'.data \in DataOf(Contents(buckets')) \cup {NULL}
  BY DEF OwnInv
<1>1. Misc /\ CopyInv
  BY DEF HInv
<1>2. ASSUME free_fn' = free_fn
      PROVE  /\ free_fn /\ Own(Contents(buckets), live) /\ Fresh(copy.todo, Contents(buckets))
             /\ Running => res.data \in DataOf(Contents(buckets)) \cup {NULL}
  BY <1>2 DEF OwnInv, Misc
<1>3. CASE UNCHANGED vars
  BY <1>2, <1>3 DEF vars, Running
<1>4. CASE Tabular /\ UNCHANGED copy
  BY <1>4, TabularOwn, FreshEmpty
<1>5. CASE Reading /\ UNCHANGED copy
  <2>1. Tab /\ free_fn' = free_fn /\ live' = live
    BY <1>5 DEF HInv, Reading, Running, Get, KeysData, EachData, NextData, NextFreed, Tuning
  <2>2. Contents(buckets') = Contents(buckets)
    BY <1>1, <1>5, <2>1, ReadingStep
  <2>3. Running' => res'.data \in DataOf(Contents(buckets)) \cup {NULL}
    BY <1>1, <1>5, <2>1, ReadingAnswers DEF Running
  <2> QED
    BY <1>2, <1>5, <2>1, <2>2, <2>3
<1>6. ASSUME NEW src \in Lists, Copy(src)
      PROVE  /\ Own(Contents(buckets'), live')
             /\ Fresh(copy'.todo, Contents(buckets'))
             /\ Running' => res'.data \in DataOf(Contents(buckets')) \cup {NULL}
  <2>1. Tab /\ free_fn' = free_fn /\ live' = live
    BY <1>6 DEF HInv, Copy, Running, Tuning
  <2>2. /\ Contents(buckets') = Contents(buckets) /\ copy'.todo = src
        /\ res' = Nothing(<<"tune">>)
    BY <1>1, <1>6, <2>1, CopyStep
  <2>3. Fresh(src, Contents(buckets))
    <3>1. /\ \A i \in 1..Len(src) : src[i].data \notin DataOf(Contents(buckets))
          /\ \A i, j \in 1..Len(src) : i # j => src[i].data # src[j].data
      BY ListsTypes, StoredDataIs
    <3> QED
      BY <3>1 DEF Fresh
  <2> QED
    BY <1>2, <2>1, <2>2, <2>3, NullAnswers
<1>7. CASE \E src \in Lists, o \in Options : Merge(src, o)
  BY <1>7 DEF Merge
<1>8. CASE CopyNext
  <2> DEFINE s == copy.todo
             d == Head(s).data
             key == Head(s).key
  <2>1. Tab /\ s \in Seq(Entry) /\ s # <<>>
    BY <1>1, <1>8 DEF HInv, CopyNext, CopyInv
  <2>2. Add(key, d) \/ Replace(key, d)
    BY <1>8 DEF CopyNext
  <2>3. free_fn' = free_fn
    <3> HIDE DEF d, key
    <3> QED
      BY <2>2 DEF Add, Replace, Tuning
  <2>4. free_fn /\ Own(Contents(buckets), live) /\ Fresh(s, Contents(buckets))
    BY <1>2, <2>3
  <2>5. copy'.todo = Tail(s) \/ copy'.todo = <<>>
    BY <1>1, <1>8 DEF CopyNext, CopyInv, NoCopy
  <2> HIDE DEF s
  <2>6. /\ Len(s) \in Nat /\ 1 \in 1..Len(s) /\ Head(s) = s[1] /\ Head(s) \in Entry
        /\ Len(Tail(s)) = Len(s) - 1 /\ \A i \in 1..Len(Tail(s)) : Tail(s)[i] = s[i + 1]
    <3>1. /\ Head(s) \in Entry /\ Len(Tail(s)) = Len(s) - 1
          /\ \A i \in 1..Len(Tail(s)) : Tail(s)[i] = s[i + 1]
      BY <2>1, HeadTailProperties
    <3>2. Len(s) \in Nat /\ Len(s) # 0 /\ Head(s) = s[1]
      BY <2>1
    <3> QED
      BY <3>1, <3>2
  <2>7. key \in Keys /\ d \in Data /\ d = s[1].data
    BY <2>6 DEF Entry
  <2> HIDE DEF d, key
  <2>8. d \notin DataOf(Contents(buckets))
    BY <2>4, <2>6, <2>7 DEF Fresh
  <2>9. /\ Own(Contents(buckets'), live')
        /\ DataOf(Contents(buckets')) \subseteq DataOf(Contents(buckets)) \cup {d}
        /\ res'.data = NULL
    BY <1>1, <2>1, <2>2, <2>4, <2>7, <2>8, PutOwn
  <2>10. Fresh(Tail(s), Contents(buckets'))
    <3>1. \A i \in 1..Len(Tail(s)) : i + 1 \in 1..Len(s) /\ i + 1 # 1 /\ Tail(s)[i] = s[i + 1]
      BY <2>6
    <3>2. \A i \in 1..Len(Tail(s)) :
            s[i + 1].data # d /\ s[i + 1].data \notin DataOf(Contents(buckets))
      BY <2>4, <2>6, <2>7, <3>1 DEF Fresh
    <3>3. \A i \in 1..Len(Tail(s)) : Tail(s)[i].data \notin DataOf(Contents(buckets'))
      BY <2>9, <3>1, <3>2
    <3>4. \A i, j \in 1..Len(Tail(s)) : Tail(s)[i].data = Tail(s)[j].data => i + 1 = j + 1
      BY <2>4, <3>1 DEF Fresh
    <3>5. \A i, j \in 1..Len(Tail(s)) : i + 1 = j + 1 => i = j
      OBVIOUS
    <3> QED
      BY <3>3, <3>4, <3>5 DEF Fresh
  <2>11. Fresh(copy'.todo, Contents(buckets'))
    BY <2>5, <2>10, FreshEmpty
  <2> QED
    BY <2>9, <2>11
<1>9. ASSUME NEW ff \in BOOLEAN, Destroy(ff), UNCHANGED copy
      PROVE  /\ Own(Contents(buckets'), live')
             /\ Fresh(copy'.todo, Contents(buckets'))
             /\ Running' => res'.data \in DataOf(Contents(buckets')) \cup {NULL}
  <2>1. /\ status = "running" /\ status' = "destroyed" /\ buckets' = <<>>
        /\ live' = IF ff \/ free_fn \/ "FREE_DATA" \in flags THEN live \ StoredData ELSE live
        /\ free_fn' = free_fn
    BY <1>9 DEF Destroy, Tuning, Running
  <2>2. live' = {}
    BY <1>2, <2>1, StoredDataIs DEF Own
  <2>3. Contents(buckets') = {} /\ copy'.todo = <<>>
    BY <1>1, <1>9, <2>1 DEF CopyInv, Contents
  <2> QED
    BY <2>1, <2>2, <2>3, FreshEmpty DEF Own, DataOf, Running
<1> QED
  BY <1>3, <1>4, <1>5, <1>6, <1>7, <1>8, <1>9, NextCases

LEMMA OwnInit == Init => OwnInv
<1> SUFFICES ASSUME Init PROVE OwnInv
  OBVIOUS
<1>1. live = {} /\ copy.todo = <<>> /\ res = Nothing(<<"new">>)
  BY DEF Init, NoCopy
<1>2. Contents(buckets) = {}
  BY HInit
<1> QED
  BY <1>1, <1>2, FreshEmpty, NullAnswers DEF OwnInv, Own, DataOf

LEMMA OwnedFollows == HInv /\ OwnInv => Owned
  BY StoredDataIs DEF OwnInv, Owned, Own, Running

(* With a free function, the table owns exactly the data that were handed  *)
(* over and not freed, and no answer points to freed memory: put, delete,  *)
(* clear, foreach_remove and destroy free each datum that leaves, once.    *)
THEOREM DataAreOwned == Spec => []Owned
<1>1. HInv /\ HInv' /\ OwnInv /\ [Next]_vars => OwnInv'
  BY OwnStep
<1> QED
  BY <1>1, Invariant, OwnInit, OwnedFollows, PTL DEF Spec

-----------------------------------------------------------------------------
(* The refinement: what map the entries C are, with the flags fs.          *)

MapAt(fs, C) ==
  [key \in Keys |->
     LET is == {e \in C : Fold(fs, e.key) = key}
     IN IF is = {} THEN NULL ELSE (CHOOSE e \in is : TRUE).data]

Unique(fs, C) ==
  C \subseteq Entry /\ \A d, e \in C : Fold(fs, d.key) = Fold(fs, e.key) => d = e

LEMMA MapIs ==
  /\ MapOf = MapAt(flags, Contents(buckets))
  /\ MapOf' = MapAt(flags', Contents(buckets'))
<1>1. MapOf = MapAt(flags, Contents(buckets))
  BY StoredDataIs DEF MapOf, MapAt, Folded, Fold
<1>2. MapOf' = MapAt(flags', Contents(buckets'))
  BY DEF MapOf, MapAt, Folded, Fold, Stored, Contents, Num
<1> QED
  BY <1>1, <1>2

LEMMA MapAtIs ==
  ASSUME NEW fs, NEW C, Unique(fs, C)
  PROVE  /\ MapAt(fs, C) = [k \in Keys |-> MapAt(fs, C)[k]]
         /\ \A e \in C : /\ Fold(fs, e.key) \in Keys /\ e.data \in Data /\ e.data # NULL
                         /\ MapAt(fs, C)[Fold(fs, e.key)] = e.data
         /\ \A k \in Keys : (\A e \in C : Fold(fs, e.key) # k) => MapAt(fs, C)[k] = NULL
<1> DEFINE is(k) == {e \in C : Fold(fs, e.key) = k}
<1>1. \A k \in Keys :
        MapAt(fs, C)[k] = IF is(k) = {} THEN NULL ELSE (CHOOSE e \in is(k) : TRUE).data
  BY DEF MapAt
<1>2. ASSUME NEW e \in C
      PROVE  /\ Fold(fs, e.key) \in Keys /\ e.data \in Data /\ e.data # NULL
             /\ MapAt(fs, C)[Fold(fs, e.key)] = e.data
  <2>1. e.key \in Keys /\ e.data \in Data /\ e.data # NULL
    BY HashTableAssumption DEF Unique, Entry
  <2>2. Fold(fs, e.key) \in Keys
    BY <2>1, HashTableAssumption DEF Fold
  <2>3. is(Fold(fs, e.key)) = {e}
    BY DEF Unique
  <2> HIDE DEF is
  <2>4. (CHOOSE x \in is(Fold(fs, e.key)) : TRUE) = e
    BY <2>3
  <2> QED
    BY <1>1, <2>1, <2>2, <2>3, <2>4
<1>3. \A k \in Keys : (\A e \in C : Fold(fs, e.key) # k) => MapAt(fs, C)[k] = NULL
  BY <1>1
<1>4. MapAt(fs, C) = [k \in Keys |-> MapAt(fs, C)[k]]
  BY DEF MapAt
<1> QED
  BY <1>2, <1>3, <1>4

(* Two sets of entries that differ in the entries of one key at most. *)
LEMMA MapChange ==
  ASSUME NEW fs, NEW C, NEW D, Unique(fs, C), Unique(fs, D), NEW k,
         \A e : Fold(fs, e.key) # k => (e \in C <=> e \in D)
  PROVE  \A j \in Keys \ {k} : MapAt(fs, D)[j] = MapAt(fs, C)[j]
<1> TAKE j \in Keys \ {k}
<1>1. CASE \E e \in C : Fold(fs, e.key) = j
  BY <1>1, MapAtIs
<1>2. CASE \A e \in C : Fold(fs, e.key) # j
  <2>1. \A e \in D : Fold(fs, e.key) # j
    BY <1>2
  <2> QED
    BY <1>2, <2>1, MapAtIs
<1> QED
  BY <1>1, <1>2

LEMMA UniqueIs ==
  ASSUME Misc, Tab
  PROVE  Unique(flags, Contents(buckets))
  BY TabFacts DEF Unique

(* As many folded keys as keys, where no two fold to the same. *)
LEMMA ImageSize ==
  ASSUME NEW S, IsFiniteSet(S), NEW f, f = [x \in S |-> f[x]],
         \A x, y \in S : f[x] = f[y] => x = y
  PROVE  Cardinality({f[x] : x \in S}) = Cardinality(S)
<1> DEFINE T == {f[x] : x \in S}
<1>1. f \in [S -> T]
  OBVIOUS
<1>2. \A t \in T : \E x \in S : f[x] = t
  OBVIOUS
<1> HIDE DEF T
<1>3. f \in Bijection(S, T)
  BY <1>1, <1>2 DEF Bijection, Injection, Surjection, IsInjective
<1>4. ExistsBijection(S, T)
  BY <1>3 DEF ExistsBijection
<1> QED
  BY <1>4, FS_Bijection DEF T

(* An answer is one of the abstract module. *)
LEMMA SameAnswers ==
  /\ \A call : res' = Nothing(call) => Abstract!AnswersNothing(call)
  /\ \A call, found, d, ks, n :
       res' = Answer(call, found, d, ks, n) => Abstract!Answers(call, found, d, ks, n)
BY DEF Abstract!AnswersNothing, Abstract!Answers, Abstract!Answer, Nothing, Answer

(* Which keys are equal and who frees the data changes for merges only. *)
Kept == FoldOf' = FoldOf /\ free_fn' = free_fn

LEMMA KeptIf ==
  ASSUME "IGNORE_CASE" \in flags' <=> "IGNORE_CASE" \in flags, free_fn' = free_fn
  PROVE  Kept
BY DEF Kept, FoldOf

LEMMA FoldOfIs ==
  /\ FoldOf \in Abstract!Foldings
  /\ \A key \in Keys : FoldOf[key] = Folded(key)
<1>1. \A key \in Keys : Themselves[key] = key
  BY DEF Themselves
<1>2. Themselves \in [Keys -> Keys]
  BY DEF Themselves
<1>3. FoldOf \in [Keys -> Keys] /\ \A key \in Keys : FoldOf[FoldOf[key]] = FoldOf[key]
  BY <1>1, <1>2, HashTableAssumption DEF FoldOf
<1>4. \A key \in Keys : FoldOf[key] = Folded(key)
  BY <1>1 DEF FoldOf, Folded
<1> QED
  BY <1>3, <1>4 DEF Abstract!Foldings

LEMMA GetMaps ==
  ASSUME Misc, Tab, NEW key \in Keys, Get(key)
  PROVE  Abstract!Get(key)
<1> DEFINE C == Contents(buckets)
           k == Folded(key)
           e == buckets[Bucket(key)][Find(key)]
<1>1. k \in Keys /\ k = Fold(flags, key)
  BY HashTableAssumption DEF Folded, Fold
<1>2. Finds(C, key, Find(key))
  BY FindFacts DEF Misc, Tab
<1>3. res' = IF Find(key) = 0 THEN Nothing(<<"get", key>>)
             ELSE Answer(<<"get", key>>, TRUE, e.data, {}, 0)
  BY DEF Get, Bucket
<1>4. MapOf = MapAt(flags, C) /\ MapOf' = MapAt(flags', Contents(buckets')) /\ Unique(flags, C)
  BY MapIs, UniqueIs
<1>5. UNCHANGED <<buckets, flags, free_fn>>
  BY DEF Get, Table, Tuning
<1>6. MapOf' = MapOf /\ Kept /\ FoldOf[key] = k
  BY <1>4, <1>5, KeptIf, FoldOfIs
<1>7. res' = Answer(<<"get", key>>, MapOf[FoldOf[key]] # NULL, MapOf[FoldOf[key]], {}, 0)
  <2>1. CASE Find(key) = 0
    <3>1. MapAt(flags, C)[k] = NULL
      BY <1>1, <1>2, <1>4, <2>1, MapAtIs DEF Finds
    <3> HIDE DEF C, k
    <3> QED
      BY <1>3, <1>4, <1>6, <2>1, <3>1 DEF Nothing
  <2>2. CASE Find(key) # 0
    <3>1. e \in C /\ Fold(flags, e.key) = k
      BY <1>1, <1>2, <2>2 DEF Finds
    <3> HIDE DEF C, k, e
    <3>2. MapAt(flags, C)[k] = e.data /\ e.data # NULL
      BY <1>4, <3>1, MapAtIs
    <3> QED
      BY <1>3, <1>4, <1>6, <2>2, <3>2
  <2> QED
    BY <2>1, <2>2
<1> HIDE DEF C, k, e
<1> QED
  BY <1>6, <1>7, SameAnswers DEF Abstract!Get, Abstract!Parameters, Kept

LEMMA BuiltUnique ==
  ASSUME NEW fs, NEW hf, NEW C, NEW bs, Built(fs, hf, C, bs)
  PROVE  Unique(fs, C)
<1>1. bs \in Seq(Seq(Entry)) /\ Contents(bs) = C /\ Chained(fs, hf, bs)
  BY DEF Built
<1>2. C \subseteq Entry
  BY <1>1, ChainTypes
<1> QED
  BY <1>1, <1>2 DEF Chained, Unique

(* The maps before and after a step, with the entries they come from. *)
LEMMA MapsAre ==
  ASSUME Misc, Tab, Tab'
  PROVE  /\ MapOf = MapAt(flags, Contents(buckets)) /\ Unique(flags, Contents(buckets))
         /\ MapOf' = MapAt(flags', Contents(buckets')) /\ Unique(flags', Contents(buckets'))
<1>1. Unique(flags', Contents(buckets'))
  BY BuiltUnique DEF Tab
<1> QED
  BY <1>1, MapIs, UniqueIs

LEMMA FoldedType ==
  ASSUME NEW key \in Keys
  PROVE  Folded(key) \in Keys /\ Folded(key) = Fold(flags, key)
  BY HashTableAssumption DEF Folded, Fold

LEMMA PutMaps ==
  ASSUME Misc, Tab, NEW key \in Keys, NEW d \in Data, Add(key, d) \/ Replace(key, d)
  PROVE  /\ Folded(key) \in Keys /\ Abstract!Put(key, d)
         /\ MapOf'[Folded(key)] = d
         /\ \A j \in Keys \ {Folded(key)} : MapOf'[j] = MapOf[j]
<1> DEFINE C == Contents(buckets)
           D == Contents(buckets')
           k == Folded(key)
<1>1. k \in Keys /\ k = Fold(flags, key)
  BY FoldedType
<1>2. Tab' /\ flags' = flags /\ free_fn' = free_fn
  BY AddStep, ReplaceStep DEF Add, Replace, Tuning
<1>3. /\ MapOf = MapAt(flags, C) /\ Unique(flags, C)
      /\ MapOf' = MapAt(flags, D) /\ Unique(flags, D)
  BY <1>2, MapsAre
<1> DEFINE call == <<"put", key, d>>
           back == IF free_fn THEN NULL ELSE MapOf[k]
<1>4. ASSUME MapAt(flags, D)[k] = d,
             \A j \in Keys \ {k} : MapAt(flags, D)[j] = MapAt(flags, C)[j],
             res' = Answer(call, MapOf[k] # NULL, back, {}, 0)
      PROVE  /\ Abstract!Put(key, d) /\ MapOf'[k] = d
             /\ \A j \in Keys \ {k} : MapOf'[j] = MapOf[j]
  <2> HIDE DEF C, D, k, call
  <2>1. MapOf'[k] = d /\ \A j \in Keys \ {k} : MapOf'[j] = MapOf[j]
    BY <1>3, <1>4
  <2>2. MapOf' = [MapOf EXCEPT ![k] = d]
    <3>1. MapOf = [j \in Keys |-> MapOf[j]] /\ MapOf' = [j \in Keys |-> MapOf'[j]]
      BY <1>3, MapAtIs
    <3> QED
      BY <1>1, <2>1, <3>1
  <2>3. Kept /\ FoldOf[key] = k
    BY <1>2, KeptIf, FoldOfIs DEF k
  <2>4. back = Abstract!Back(key)
    BY <2>3 DEF Abstract!Back
  <2> HIDE DEF back
  <2>5. Abstract!Answers(call, MapOf[k] # NULL, Abstract!Back(key), {}, 0)
    BY <1>4, <2>4, SameAnswers
  <2> QED
    BY <2>1, <2>2, <2>3, <2>5 DEF Abstract!Put, Abstract!Parameters, Kept, call
<1>5. CASE Add(key, d)
  <2>1. D = C \cup {New1(key, d)} /\ \A e \in C : Fold(flags, e.key) # k
    BY <1>1, <1>5, AddStep
  <2>2. New1(key, d).key = key /\ New1(key, d).data = d
    BY DEF New1
  <2>3. res' = Nothing(call)
    BY <1>5 DEF Add
  <2> HIDE DEF C, D, k
  <2>4. MapAt(flags, C)[k] = NULL
    BY <1>1, <1>3, <2>1, MapAtIs
  <2>5. MapAt(flags, D)[k] = d
    BY <1>1, <1>3, <2>1, <2>2, MapAtIs
  <2>6. \A j \in Keys \ {k} : MapAt(flags, D)[j] = MapAt(flags, C)[j]
    <3>1. \A e : Fold(flags, e.key) # k => (e \in C <=> e \in D)
      BY <1>1, <2>1, <2>2
    <3> QED
      BY <1>3, <3>1, MapChange
  <2>7. res' = Answer(call, MapOf[k] # NULL, back, {}, 0)
    <3>1. MapOf[k] = NULL /\ back = NULL
      BY <1>3, <2>4
    <3> HIDE DEF back, call
    <3> QED
      BY <2>3, <3>1 DEF Nothing
  <2> QED
    BY <1>1, <1>4, <2>5, <2>6, <2>7 DEF C, D, k
<1>6. CASE Replace(key, d)
  <2>1. PICK e \in C : /\ e = buckets[Bucket(key)][Find(key)]
                       /\ Fold(flags, e.key) = k
                       /\ D = (C \ {e}) \cup {Same(e, d)}
    BY <1>1, <1>6, ReplaceStep
  <2>2. Same(e, d).key = e.key /\ Same(e, d).data = d
    BY DEF Same
  <2>3. res' = Answer(call, TRUE, OldData(e.data), {}, 0)
    BY <1>6, <2>1 DEF Replace, Bucket
  <2> HIDE DEF C, D, k
  <2>4. MapAt(flags, C)[k] = e.data /\ e.data # NULL
    BY <1>3, <2>1, MapAtIs
  <2>5. MapAt(flags, D)[k] = d
    <3>1. Same(e, d) \in D /\ Fold(flags, Same(e, d).key) = k
      BY <2>1, <2>2
    <3> QED
      BY <1>3, <2>2, <3>1, MapAtIs
  <2>6. \A j \in Keys \ {k} : MapAt(flags, D)[j] = MapAt(flags, C)[j]
    <3>1. \A x : Fold(flags, x.key) # k => (x \in C <=> x \in D)
      BY <2>1, <2>2
    <3> QED
      BY <1>3, <3>1, MapChange
  <2>7. OldData(e.data) = back
    BY <1>3, <2>4 DEF OldData
  <2> HIDE DEF back, call
  <2>8. res' = Answer(call, MapOf[k] # NULL, back, {}, 0)
    BY <1>3, <2>3, <2>4, <2>7
  <2> QED
    BY <1>1, <1>4, <2>5, <2>6, <2>8 DEF C, D, k
<1> QED
  BY <1>5, <1>6

LEMMA DeleteMaps ==
  ASSUME Misc, Tab, NEW key \in Keys, Delete(key)
  PROVE  Abstract!Delete(key)
<1> DEFINE C == Contents(buckets)
           D == Contents(buckets')
           k == Folded(key)
           e == buckets[Bucket(key)][Find(key)]
<1>1. k \in Keys /\ k = Fold(flags, key)
  BY FoldedType
<1>2. Tab' /\ flags' = flags /\ free_fn' = free_fn
  BY DeleteStep DEF Delete, Tuning
<1>3. /\ MapOf = MapAt(flags, C) /\ Unique(flags, C)
      /\ MapOf' = MapAt(flags, D) /\ Unique(flags, D)
  BY <1>2, MapsAre
<1>4. res' = Answer(<<"delete", key>>, FALSE,
                    IF Find(key) = 0 THEN NULL ELSE OldData(e.data), {}, 0)
  BY DEF Delete, Bucket
<1>5. /\ Find(key) = 0 => D = C /\ \A x \in C : Fold(flags, x.key) # k
      /\ Find(key) # 0 => e \in C /\ Fold(flags, e.key) = k /\ D = C \ {e}
  BY <1>1, DeleteStep
<1> HIDE DEF C, D, k, e
<1>6. \A x \in D : Fold(flags, x.key) # k
  BY <1>3, <1>5 DEF Unique
<1>7. MapAt(flags, D)[k] = NULL
  BY <1>1, <1>3, <1>6, MapAtIs
<1>8. \A j \in Keys \ {k} : MapAt(flags, D)[j] = MapAt(flags, C)[j]
  <2>1. \A x : Fold(flags, x.key) # k => (x \in C <=> x \in D)
    BY <1>5
  <2> QED
    BY <1>3, <2>1, MapChange
<1>9. MapOf' = [MapOf EXCEPT ![k] = NULL]
  <2>1. /\ MapAt(flags, C) = [j \in Keys |-> MapAt(flags, C)[j]]
        /\ MapAt(flags, D) = [j \in Keys |-> MapAt(flags, D)[j]]
    BY <1>3, MapAtIs
  <2> QED
    BY <1>1, <1>3, <1>7, <1>8, <2>1
<1>10. Kept /\ FoldOf[key] = k
  BY <1>2, KeptIf, FoldOfIs DEF k
<1>11. (IF Find(key) = 0 THEN NULL ELSE OldData(e.data)) = Abstract!Back(key)
  <2>1. CASE Find(key) = 0
    <3>1. MapOf[k] = NULL
      BY <1>1, <1>3, <1>5, <2>1, MapAtIs
    <3> QED
      BY <1>10, <2>1, <3>1 DEF Abstract!Back
  <2>2. CASE Find(key) # 0
    <3>1. MapOf[k] = e.data
      BY <1>3, <1>5, <2>2, MapAtIs
    <3> QED
      BY <1>10, <2>2, <3>1 DEF Abstract!Back, OldData
  <2> QED
    BY <2>1, <2>2
<1>12. Abstract!Answers(<<"delete", key>>, FALSE, Abstract!Back(key), {}, 0)
  BY <1>4, <1>11, SameAnswers
<1> QED
  BY <1>9, <1>10, <1>12 DEF Abstract!Delete, Abstract!Parameters, Kept

LEMMA EmptyMap ==
  ASSUME Contents(buckets') = {}
  PROVE  MapOf' = [k \in Keys |-> NULL]
<1>1. MapOf' = MapAt(flags', {})
  BY MapIs
<1>2. MapAt(flags', {}) = [k \in Keys |-> NULL]
  BY DEF MapAt
<1> QED
  BY <1>1, <1>2

(* The abstract module counts as this one does. *)
LEMMA SameCardinality ==
  ASSUME NEW S
  PROVE  Abstract!Cardinality(S) = Cardinality(S)
BY DEF Abstract!Cardinality, Cardinality

(* The keys of the map are those of the entries, and as many. *)
LEMMA ContentIs ==
  ASSUME Misc, Tab
  PROVE  /\ Abstract!Content = {Folded(e.key) : e \in Contents(buckets)}
         /\ Cardinality(Abstract!Content) = Cardinality(Contents(buckets))
<1> DEFINE C == Contents(buckets)
           f == [e \in C |-> Folded(e.key)]
           K == {f[e] : e \in C}
<1>1. MapOf = MapAt(flags, C) /\ Unique(flags, C) /\ IsFiniteSet(C)
  BY MapIs, UniqueIs, TabFacts
<1>2. \A e \in C : f[e] = Fold(flags, e.key) /\ f[e] \in Keys /\ MapOf[f[e]] # NULL
  BY <1>1, MapAtIs DEF Folded, Fold
<1>3. \A k \in Keys : MapOf[k] # NULL => k \in K
  <2>1. \A e \in C : f[e] = Fold(flags, e.key)
    BY <1>2
  <2> HIDE DEF f, C
  <2> TAKE k \in Keys
  <2>2. (\A e \in C : Fold(flags, e.key) # k) => MapOf[k] = NULL
    BY <1>1, MapAtIs
  <2> QED
    BY <2>1, <2>2
<1>4. Abstract!Content = K
  <2> HIDE DEF f, C
  <2> QED
    BY <1>2, <1>3 DEF Abstract!Content
<1>5. Cardinality(K) = Cardinality(C)
  <2>1. f = [e \in C |-> f[e]]
    OBVIOUS
  <2>2. \A d, e \in C : f[d] = f[e] => d = e
    BY <1>1, <1>2 DEF Unique
  <2> HIDE DEF f, C
  <2> QED
    BY <1>1, <2>1, <2>2, ImageSize
<1>6. K = {Folded(e.key) : e \in C}
  OBVIOUS
<1> QED
  BY <1>4, <1>5, <1>6

LEMMA KeysMaps ==
  ASSUME Misc, Tab, KeysData
  PROVE  Abstract!AllKeys
<1> DEFINE C == Contents(buckets)
<1>1. Listed = Traversal /\ Range(Traversal) = C /\ Len(Traversal) = Cardinality(C)
  BY ListedType, TabFacts
<1>2. res' = Answer(<<"keys">>, FALSE, NULL, {Folded(e.key) : e \in C}, Cardinality(C))
  BY <1>1 DEF KeysData
<1>3. Abstract!Answers(<<"keys">>, FALSE, NULL, Abstract!Content, Cardinality(Abstract!Content))
  BY <1>2, ContentIs, SameAnswers
<1>4. UNCHANGED <<buckets, flags, free_fn>>
  BY DEF KeysData, Table, Tuning
<1>5. MapOf' = MapOf /\ Kept
  BY <1>4, MapIs, KeptIf
<1> QED
  BY <1>3, <1>5, SameCardinality DEF Abstract!AllKeys, Abstract!Parameters, Kept

LEMMA EntryMaps ==
  ASSUME Misc, Tab
  PROVE  /\ EachData => Abstract!Each
         /\ NextData => Abstract!More
<1> DEFINE C == Contents(buckets)
<1>1. ASSUME EachData \/ NextData
      PROVE  MapOf' = MapOf /\ Kept /\ MapOf = MapAt(flags, C) /\ Unique(flags, C)
  <2>1. UNCHANGED <<buckets, flags, free_fn>>
    BY <1>1 DEF EachData, NextData, Table, Tuning
  <2> QED
    BY <2>1, MapIs, UniqueIs, KeptIf
<1>2. ASSUME NEW call, NEW none, Yielded(call, none),
             MapOf = MapAt(flags, C), Unique(flags, C)
      PROVE  Abstract!One(call) \/ (none /\ Abstract!AnswersNothing(call))
  <2>1. CASE none /\ res' = Nothing(call)
    BY <2>1, SameAnswers
  <2>2. ASSUME NEW e \in C, res' = Answer(call, TRUE, e.data, {Folded(e.key)}, 0)
        PROVE  Abstract!One(call)
    <3>1. Folded(e.key) \in Abstract!Content
      BY ContentIs
    <3>2. MapOf[Folded(e.key)] = e.data
      BY <1>2, MapAtIs DEF Folded, Fold
    <3>3. Abstract!Answers(call, TRUE, MapOf[Folded(e.key)], {Folded(e.key)}, 0)
      BY <2>2, <3>2, SameAnswers
    <3>4. res'.call = call
      BY <2>2 DEF Answer
    <3> QED
      BY <3>1, <3>3, <3>4 DEF Abstract!One
  <2> QED
    BY <1>2, <2>1, <2>2 DEF Yielded
<1>3. ASSUME EachData PROVE Abstract!Each
  <2>1. Yielded(<<"each">>, C = {})
    BY <1>3, EachFacts
  <2>2. Abstract!One(<<"each">>) \/ (C = {} /\ Abstract!AnswersNothing(<<"each">>))
    BY <1>1, <1>2, <1>3, <2>1
  <2>3. C = {} => Abstract!Content = {}
    BY ContentIs
  <2> HIDE DEF C
  <2> QED
    BY <1>1, <1>3, <2>2, <2>3 DEF Abstract!Each, Abstract!Parameters, Kept
<1>4. ASSUME NextData PROVE Abstract!More
  <2>1. Abstract!One(<<"next">>) \/ Abstract!AnswersNothing(<<"next">>)
    BY <1>1, <1>2, <1>4, NextFacts
  <2> QED
    BY <1>1, <1>4, <2>1 DEF Abstract!More, Abstract!Parameters, Kept
<1> QED
  BY <1>3, <1>4

LEMMA SameMap ==
  ASSUME NEW fs, NEW gs, NEW C, \A key : Fold(gs, key) = Fold(fs, key)
  PROVE  MapAt(gs, C) = MapAt(fs, C)
<1> DEFINE is(h, k) == {e \in C : Fold(h, e.key) = k}
           datum(S) == IF S = {} THEN NULL ELSE (CHOOSE e \in S : TRUE).data
<1>1. \A k : is(gs, k) = is(fs, k)
  OBVIOUS
<1>2. /\ MapAt(fs, C) = [k \in Keys |-> datum(is(fs, k))]
      /\ MapAt(gs, C) = [k \in Keys |-> datum(is(gs, k))]
  BY DEF MapAt
<1> HIDE DEF is, datum
<1> QED
  BY <1>1, <1>2

LEMMA TuneMaps ==
  ASSUME Contents(buckets') = Contents(buckets), res' = Nothing(<<"tune">>),
         "IGNORE_CASE" \in flags' <=> "IGNORE_CASE" \in flags, free_fn' = free_fn
  PROVE  Abstract!Tune
<1>1. \A key : Fold(flags', key) = Fold(flags, key)
  BY DEF Fold
<1>2. MapAt(flags', Contents(buckets)) = MapAt(flags, Contents(buckets))
  BY <1>1, SameMap
<1>3. MapOf' = MapOf
  BY <1>2, MapIs
<1>4. Kept
  BY KeptIf
<1> QED
  BY <1>3, <1>4, SameAnswers DEF Abstract!Tune, Abstract!Parameters, Kept

LEMMA ClearMaps ==
  ASSUME Contents(buckets') = {}, flags' = flags, free_fn' = free_fn,
         res' = Nothing(<<"clear">>) \/ res' = Nothing(<<"destroy">>)
  PROVE  Abstract!Clear
<1>1. MapOf' = Abstract!Empty
  BY EmptyMap DEF Abstract!Empty
<1>2. Kept
  BY KeptIf
<1> QED
  BY <1>1, <1>2, SameAnswers DEF Abstract!Clear, Abstract!Parameters, Kept

LEMMA RemoveMaps ==
  ASSUME Misc, Tab, NEW ks \in SUBSET StoredKeys, NEW ff, ForeachRemove(ks, ff)
  PROVE  ks \in SUBSET Keys /\ Abstract!Remove(ks)
<1> DEFINE C == Contents(buckets)
           D == Contents(buckets')
           keyOf == [e \in C |-> e.key]
           f == [key \in ks |-> Folded(key)]
           gone == {f[key] : key \in ks}
<1>1. Tab' /\ flags' = flags /\ free_fn' = free_fn /\ D = {e \in C : e.key \notin ks}
  BY RemoveStep DEF ForeachRemove, Tuning
<1>2. /\ MapOf = MapAt(flags, C) /\ Unique(flags, C)
      /\ MapOf' = MapAt(flags, D) /\ Unique(flags, D)
  BY <1>1, MapsAre
<1>3. \A key \in ks : \E e \in C : e.key = key
  BY StoredDataIs DEF StoredKeys
<1>4. \A key \in ks : f[key] = Fold(flags, key)
  BY DEF Folded, Fold
<1>5. IsFiniteSet(ks)
  <2>1. keyOf \in Surjection(C, StoredKeys)
    BY StoredDataIs DEF Surjection, StoredKeys
  <2>2. IsFiniteSet(C)
    BY TabFacts
  <2> HIDE DEF keyOf, C
  <2>3. IsFiniteSet(StoredKeys)
    BY <2>1, <2>2, FS_Surjection
  <2> QED
    BY <2>3, FS_Subset
<1>6. Cardinality(gone) = Cardinality(ks)
  <2>1. f = [key \in ks |-> f[key]]
    OBVIOUS
  <2>2. \A j, k \in ks : f[j] = f[k] => j = k
    BY <1>2, <1>3, <1>4 DEF Unique
  <2> HIDE DEF f
  <2> QED
    BY <1>5, <2>1, <2>2, ImageSize
<1>7. gone \subseteq Abstract!Content
  BY <1>3, ContentIs
<1>8. res' = Answer(<<"remove", ks>>, FALSE, NULL, {}, Cardinality(gone))
  BY <1>6 DEF ForeachRemove
<1>11. ks \in SUBSET Keys /\ gone = {FoldOf[key] : key \in ks}
  <2>1. \A key \in ks : key \in Keys
    BY <1>2, <1>3 DEF Unique, Entry
  <2> QED
    BY <2>1, FoldOfIs
<1> HIDE DEF f
<1>9. \A e \in C : e \in D <=> Fold(flags, e.key) \notin gone
  <2>1. ASSUME NEW e \in C, e.key \in ks PROVE Fold(flags, e.key) \in gone
    BY <1>4, <2>1
  <2>2. ASSUME NEW e \in C, Fold(flags, e.key) \in gone PROVE e.key \in ks
    <3>1. PICK key \in ks : f[key] = Fold(flags, e.key)
      BY <2>2
    <3>2. PICK d \in C : d.key = key
      BY <1>3
    <3>3. d = e
      BY <1>2, <1>4, <3>1, <3>2 DEF Unique
    <3> QED
      BY <3>2, <3>3
  <2> QED
    BY <1>1, <2>1, <2>2
<1> HIDE DEF C, D, gone
<1>10. MapOf' = [k \in Keys |-> IF k \in gone THEN NULL ELSE MapOf[k]]
  <2>1. ASSUME NEW k \in Keys
        PROVE  MapAt(flags, D)[k] = IF k \in gone THEN NULL ELSE MapAt(flags, C)[k]
    <3>1. CASE \E e \in D : Fold(flags, e.key) = k
      <4>1. PICK e \in D : Fold(flags, e.key) = k
        BY <3>1
      <4>2. e \in C
        BY <1>1, <4>1 DEF C, D
      <4>3. k \notin gone
        BY <1>9, <4>1, <4>2
      <4> QED
        BY <1>2, <4>1, <4>2, <4>3, MapAtIs
    <3>2. CASE \A e \in D : Fold(flags, e.key) # k
      <4>1. MapAt(flags, D)[k] = NULL
        BY <1>2, <3>2, MapAtIs
      <4>2. k \notin gone => \A e \in C : Fold(flags, e.key) # k
        BY <1>9, <3>2
      <4>3. k \notin gone => MapAt(flags, C)[k] = NULL
        BY <1>2, <4>2, MapAtIs
      <4> QED
        BY <4>1, <4>3
    <3> QED
      BY <3>1, <3>2
  <2>2. MapAt(flags, D) = [k \in Keys |-> MapAt(flags, D)[k]]
    BY <1>2, MapAtIs
  <2> QED
    BY <1>2, <2>1, <2>2
<1>12. Kept
  BY <1>1, KeptIf
<1>13. Abstract!Answers(<<"remove", ks>>, FALSE, NULL, {}, Abstract!Cardinality(gone))
  BY <1>8, SameAnswers, SameCardinality
<1> QED
  BY <1>7, <1>10, <1>11, <1>12, <1>13 DEF Abstract!Remove, Abstract!Parameters, Kept

LEMMA SameMaps ==
  ASSUME UNCHANGED <<buckets, flags>>
  PROVE  MapOf' = MapOf
  BY MapIs

(* Every step of the table is one of the map, or leaves map and answer. *)
LEMMA TabularMaps ==
  ASSUME Misc, Tab, Tabular
  PROVE  Abstract!Next
<1>1. ASSUME NEW key \in Keys, Delete(key) PROVE Abstract!Next
  BY <1>1, DeleteMaps DEF Abstract!Next
<1>2. ASSUME NEW key \in Keys, NEW d \in Data, Put(key, d) PROVE Abstract!Next
  <2>1. Abstract!Put(key, d)
    BY <1>2, PutMaps DEF Put
  <2> QED
    BY <2>1 DEF Abstract!Next
<1>3. CASE Clear
  <2>1. /\ Contents(buckets') = {} /\ res' = Nothing(<<"clear">>)
        /\ flags' = flags /\ free_fn' = free_fn
    BY <1>3, ClearStep DEF Clear, Tuning
  <2> QED
    BY <2>1, ClearMaps DEF Abstract!Next
<1>4. CASE Rehash
  <2>1. /\ Contents(buckets') = Contents(buckets) /\ res' = Nothing(<<"tune">>)
        /\ flags' = flags /\ free_fn' = free_fn
    BY <1>4, RehashStep DEF Rehash, Tuning
  <2> QED
    BY <2>1, TuneMaps DEF Abstract!Next
<1>5. ASSUME NEW ff, NEW ks \in SUBSET StoredKeys, ForeachRemove(ks, ff) PROVE Abstract!Next
  BY <1>5, RemoveMaps DEF Abstract!Next
<1>6. ASSUME NEW f \in Hashes, SetHash(f) PROVE Abstract!Next
  <2>1. /\ Contents(buckets') = Contents(buckets) /\ res' = Nothing(<<"tune">>)
        /\ flags' = flags /\ free_fn' = free_fn
    BY <1>6, SetHashStep DEF SetHash
  <2> QED
    BY <2>1, TuneMaps DEF Abstract!Next
<1>7. ASSUME NEW f \in Toggled, SetFlag(f) PROVE Abstract!Next
  <2>1. /\ Contents(buckets') = Contents(buckets) /\ res' = Nothing(<<"tune">>)
        /\ "IGNORE_CASE" \in flags' <=> "IGNORE_CASE" \in flags
        /\ free_fn' = free_fn
    BY <1>7, SetFlagStep DEF SetFlag
  <2> QED
    BY <2>1, TuneMaps DEF Abstract!Next
<1>8. ASSUME NEW t \in Thresholds, SetThresholds(t) PROVE Abstract!Next
  <2>1. /\ Contents(buckets') = Contents(buckets) /\ res' = Nothing(<<"tune">>)
        /\ flags' = flags /\ free_fn' = free_fn
    BY <1>8, SetThresholdsStep DEF SetThresholds
  <2> QED
    BY <2>1, TuneMaps DEF Abstract!Next
<1> QED
  BY <1>1, <1>2, <1>3, <1>4, <1>5, <1>6, <1>7, <1>8 DEF Tabular

LEMMA ReadingMaps ==
  ASSUME Misc, Tab, Reading
  PROVE  Abstract!Next \/ (MapOf' = MapOf /\ Kept /\ res' = res)
<1>1. ASSUME NEW key \in Keys, Get(key) PROVE Abstract!Next
  BY <1>1, GetMaps DEF Abstract!Next
<1>2. CASE KeysData
  BY <1>2, KeysMaps DEF Abstract!Next
<1>3. CASE EachData \/ NextData
  BY <1>3, EntryMaps DEF Abstract!Next
<1>4. CASE NextFreed
  <2>1. UNCHANGED <<buckets, flags, free_fn, res>>
    BY <1>4 DEF NextFreed, Table, Tuning
  <2> QED
    BY <2>1, SameMaps, KeptIf
<1> QED
  BY <1>1, <1>2, <1>3, <1>4 DEF Reading

(* The keys are equal or not by the flags of the new table. *)
LEMMA MergeFolds == FoldOf' \in Abstract!Foldings
<1>1. Themselves \in [Keys -> Keys] /\ \A key \in Keys : Themselves[key] = key
  BY DEF Themselves
<1>2. FoldOf' = Lower \/ FoldOf' = Themselves
  BY DEF FoldOf
<1> QED
  BY <1>1, <1>2, HashTableAssumption DEF Abstract!Foldings

LEMMA MapStep == HInv /\ [Next]_vars => [Abstract!Next]_<<MapOf, <<FoldOf, free_fn>>, res>>
<1> SUFFICES ASSUME HInv, [Next]_vars
             PROVE  Abstract!Next \/ (MapOf' = MapOf /\ Kept /\ res' = res)
  BY DEF Kept
<1>1. Misc /\ CopyInv /\ (Running \/ status = "copying" => Tab)
  BY DEF HInv, Running
<1>2. CASE UNCHANGED vars
  <2>1. UNCHANGED <<buckets, flags, free_fn, res>>
    BY <1>2 DEF vars
  <2> QED
    BY <2>1, SameMaps, KeptIf
<1>3. CASE Tabular /\ UNCHANGED copy
  <2>1. Tab
    BY <1>1, <1>3 DEF Tabular, Delete, Put, Clear, Rehash, ForeachRemove, SetHash, SetFlag,
                      SetThresholds
  <2> QED
    BY <1>1, <1>3, <2>1, TabularMaps
<1>4. CASE Reading /\ UNCHANGED copy
  <2>1. Tab
    BY <1>1, <1>4 DEF Reading, Get, KeysData, EachData, NextData, NextFreed
  <2> QED
    BY <1>1, <1>4, <2>1, ReadingMaps
<1>5. ASSUME NEW src \in Lists, Copy(src) PROVE Abstract!Next
  <2>1. Tab /\ flags' = flags /\ free_fn' = free_fn
    BY <1>1, <1>5 DEF Copy, Tuning
  <2>2. Contents(buckets') = Contents(buckets) /\ res' = Nothing(<<"tune">>)
    BY <1>1, <1>5, <2>1, CopyStep
  <2> QED
    BY <2>1, <2>2, TuneMaps DEF Abstract!Next
<1>6. ASSUME NEW src \in Lists, NEW o \in Options, Merge(src, o) PROVE Abstract!Next
  <2>1. Tab
    BY <1>1, <1>6 DEF Merge
  <2>2. Contents(buckets') = {} /\ res' = Nothing(<<"merge">>) /\ free_fn' = FALSE
    BY <1>1, <1>6, <2>1, MergeStep DEF Merge
  <2>3. MapOf' = Abstract!Empty
    BY <2>2, EmptyMap DEF Abstract!Empty
  <2>4. FoldOf' \in Abstract!Foldings
    BY MergeFolds
  <2>5. Abstract!Merge
    BY <2>2, <2>3, <2>4, SameAnswers DEF Abstract!Merge
  <2> QED
    BY <2>5 DEF Abstract!Next
<1>7. CASE CopyNext
  <2> DEFINE e == Head(copy.todo)
  <2>1. Tab /\ (Add(e.key, e.data) \/ Replace(e.key, e.data))
    BY <1>1, <1>7 DEF CopyNext
  <2>2. e.key \in Keys /\ e.data \in Data
    <3>1. copy.todo \in Seq(Entry) /\ copy.todo # <<>>
      BY <1>1, <1>7 DEF CopyInv, CopyNext
    <3>2. e \in Entry
      BY <3>1
    <3> QED
      BY <3>2 DEF Entry
  <2> HIDE DEF e
  <2>3. Abstract!Put(e.key, e.data)
    BY <1>1, <2>1, <2>2, PutMaps
  <2> QED
    BY <2>2, <2>3 DEF Abstract!Next
<1>8. ASSUME NEW ff \in BOOLEAN, Destroy(ff) PROVE Abstract!Next
  <2>1. /\ buckets' = <<>> /\ res' = Nothing(<<"destroy">>)
        /\ flags' = flags /\ free_fn' = free_fn
    BY <1>8 DEF Destroy, Tuning
  <2>2. Contents(buckets') = {}
    BY <2>1 DEF Contents, Num
  <2> QED
    BY <2>1, <2>2, ClearMaps DEF Abstract!Next
<1> QED
  BY <1>2, <1>3, <1>4, <1>5, <1>6, <1>7, <1>8, NextCases

LEMMA MapInit == Init => Abstract!Init
<1> SUFFICES ASSUME Init PROVE Abstract!Init
  OBVIOUS
<1>1. Contents(buckets) = {}
  BY HInit
<1>2. MapOf = [k \in Keys |-> NULL]
  BY <1>1, MapIs DEF MapAt
<1>3. res = Nothing(<<"new">>)
  BY DEF Init
<1>4. free_fn \in BOOLEAN
  BY HInit DEF HInv, Misc
<1> QED
  BY <1>2, <1>3, <1>4, FoldOfIs DEF Abstract!Init, Abstract!Empty, Abstract!Nothing,
       Abstract!Answer, Nothing, Answer

(* The table implements the map Map.tla describes: whatever the hash       *)
(* function, the chains and the sizes, each call does and answers what a   *)
(* map would for the key and the datum passed to it, and growth, shrinking *)
(* and tuning are not seen.                                                *)
THEOREM TableIsAMap == Spec => ImplementsMap
<1> QED
  BY MapInit, MapStep, Invariant, PTL DEF Spec, ImplementsMap, Abstract!Spec, Abstract!Parameters

-----------------------------------------------------------------------------
(* Copies.  What a copy still has to put decides what a key ends up with:  *)
(* the last of the entries to come that has the key, or, where there is    *)
(* none, the table as it is.                                               *)

Latest(fs, todo, i, k) ==
  /\ Fold(fs, todo[i].key) = k
  /\ \A j \in (i + 1)..Len(todo) : Fold(fs, todo[j].key) # k

Aims(fs, todo, map, goal) ==
  \A k \in Keys :
    /\ \A i \in 1..Len(todo) : Latest(fs, todo, i, k) => todo[i].data \in goal[k]
    /\ (\A i \in 1..Len(todo) : Fold(fs, todo[i].key) # k) => map[k] \in goal[k]

CopyAims == status = "copying" => Aims(flags, copy.todo, MapOf, copy.goal)

(* The data a key may end up with. *)
DataFor(fs, es, k) == {e.data : e \in {e \in es : Fold(fs, e.key) = k}}
Goal(fs, over, under, k) ==
  IF DataFor(fs, over, k) # {} THEN DataFor(fs, over, k)
  ELSE IF DataFor(fs, under, k) # {} THEN DataFor(fs, under, k) ELSE {NULL}

LEMMA GoalIs ==
  ASSUME NEW fs, NEW over, NEW under, NEW k
  PROVE  /\ \A e \in over : Fold(fs, e.key) = k => e.data \in Goal(fs, over, under, k)
         /\ (\A e \in over : Fold(fs, e.key) # k) =>
              /\ \A e \in under : Fold(fs, e.key) = k => e.data \in Goal(fs, over, under, k)
              /\ (\A e \in under : Fold(fs, e.key) # k) => NULL \in Goal(fs, over, under, k)
<1>1. \A es : \A x : x \in DataFor(fs, es, k) <=> \E e \in es : Fold(fs, e.key) = k /\ x = e.data
  BY DEF DataFor
<1>2. \A e \in over : Fold(fs, e.key) = k => e.data \in Goal(fs, over, under, k)
  BY <1>1 DEF Goal
<1>3. ASSUME \A e \in over : Fold(fs, e.key) # k
      PROVE  /\ \A e \in under : Fold(fs, e.key) = k => e.data \in Goal(fs, over, under, k)
             /\ (\A e \in under : Fold(fs, e.key) # k) => NULL \in Goal(fs, over, under, k)
  <2>1. DataFor(fs, over, k) = {}
    BY <1>1, <1>3
  <2>2. ASSUME NEW e \in under, Fold(fs, e.key) = k PROVE e.data \in Goal(fs, over, under, k)
    <3>1. e.data \in DataFor(fs, under, k)
      BY <1>1, <2>2
    <3> QED
      BY <2>1, <3>1 DEF Goal
  <2>3. ASSUME \A e \in under : Fold(fs, e.key) # k PROVE NULL \in Goal(fs, over, under, k)
    <3>1. DataFor(fs, under, k) = {}
      BY <1>1, <2>3
    <3> QED
      BY <2>1, <3>1 DEF Goal
  <2> QED
    BY <2>2, <2>3
<1> QED
  BY <1>2, <1>3

LEMMA BeginGoal ==
  ASSUME NEW src, NEW over, NEW under, NEW call, NEW fs, Begin(call, src, over, under, fs),
         status' = "copying"
  PROVE  copy' = [todo |-> src, goal |-> [k \in Keys |-> Goal(fs, over, under, k)]]
<1>1. src # <<>>
  BY DEF Begin
<1> QED
  BY <1>1 DEF Begin, Goal, DataFor, Fold

LEMMA CopyBegins ==
  ASSUME Misc, Tab, NEW src \in Lists, Copy(src)
  PROVE  CopyAims'
<1> SUFFICES ASSUME status' = "copying" PROVE Aims(flags', copy'.todo, MapOf', copy'.goal)
  BY DEF CopyAims
<1> DEFINE C == Contents(buckets)
           goals == [k \in Keys |-> Goal(flags, Range(src), C, k)]
<1>1. /\ Begin(<<"tune">>, src, Range(src), C, flags) /\ UNCHANGED <<buckets, flags>> /\ src \in Seq(Entry)
  BY StoredDataIs, ListsTypes DEF Copy, Table, Tuning
<1>2. copy' = [todo |-> src, goal |-> goals]
  BY <1>1, BeginGoal
<1>3. MapOf' = MapOf /\ MapOf = MapAt(flags, C) /\ Unique(flags, C)
  BY <1>1, MapIs, UniqueIs
<1>4. \A k \in Keys : goals[k] = Goal(flags, Range(src), C, k)
  OBVIOUS
<1>5. /\ \A e : e \in Range(src) <=> \E i \in 1..Len(src) : e = src[i]
      /\ \A i \in 1..Len(src) : src[i] \in Range(src)
  BY <1>1, RangeOf
<1> HIDE DEF C, goals
<1>6. ASSUME NEW k \in Keys, NEW i \in 1..Len(src), Latest(flags, src, i, k)
      PROVE  src[i].data \in goals[k]
  BY <1>4, <1>5, <1>6, GoalIs DEF Latest
<1>7. ASSUME NEW k \in Keys, \A i \in 1..Len(src) : Fold(flags, src[i].key) # k
      PROVE  MapOf[k] \in goals[k]
  <2>1. \A e \in Range(src) : Fold(flags, e.key) # k
    BY <1>5, <1>7
  <2>2. CASE \E e \in C : Fold(flags, e.key) = k
    BY <1>3, <1>4, <2>1, <2>2, MapAtIs, GoalIs
  <2>3. CASE \A e \in C : Fold(flags, e.key) # k
    BY <1>3, <1>4, <2>1, <2>3, MapAtIs, GoalIs
  <2> QED
    BY <2>2, <2>3
<1> QED
  BY <1>1, <1>2, <1>3, <1>6, <1>7 DEF Aims

LEMMA MergeBegins ==
  ASSUME Misc, Tab, NEW src \in Lists, NEW options \in Options, Merge(src, options)
  PROVE  CopyAims'
<1> SUFFICES ASSUME status' = "copying" PROVE Aims(flags', copy'.todo, MapOf', copy'.goal)
  BY DEF CopyAims
<1> DEFINE C == Contents(buckets)
           first == Listed
           all == first \o src
           goals == [k \in Keys |-> Goal(options, Range(src), C, k)]
<1>1. /\ Begin(<<"merge">>, all, Range(src), C, options) /\ src \in Seq(Entry)
      /\ flags' = options \cup {"FROZEN_UNTIL_GROWS"}
  BY StoredDataIs, ListsTypes DEF Merge, Merged
<1>2. copy' = [todo |-> all, goal |-> goals]
  <2> HIDE DEF all
  <2> QED
    BY <1>1, BeginGoal
<1>3. \A k \in Keys : MapOf'[k] = NULL
  BY MergeStep, EmptyMap
<1>4. \A k \in Keys : goals[k] = Goal(options, Range(src), C, k)
  OBVIOUS
<1>5. /\ \A e : e \in Range(src) <=> \E i \in 1..Len(src) : e = src[i]
      /\ \A i \in 1..Len(src) : src[i] \in Range(src)
  BY <1>1, RangeOf
<1>6. /\ first \in Seq(Entry)
      /\ \A e : e \in C <=> \E i \in 1..Len(first) : e = first[i]
      /\ \A i \in 1..Len(first) : first[i] \in C
  <2>1. first \in Seq(Entry) /\ Range(first) = C
    BY ListedType, TabFacts
  <2> HIDE DEF first
  <2> QED
    BY <2>1, RangeOf
<1>7. \A key : Fold(flags', key) = Fold(options, key)
  BY <1>1 DEF Fold
<1> HIDE DEF C, goals, first
<1>8. /\ Len(first) \in Nat /\ Len(src) \in Nat /\ Len(all) = Len(first) + Len(src)
      /\ \A i \in 1..Len(first) : all[i] = first[i]
      /\ \A i \in 1..Len(src) : all[Len(first) + i] = src[i]
  BY <1>1, <1>6
<1> HIDE DEF all
<1>9. ASSUME NEW k \in Keys, NEW i \in 1..Len(all), Latest(flags', all, i, k)
      PROVE  all[i].data \in goals[k]
  <2>1. CASE i > Len(first)
    <3>1. i - Len(first) \in 1..Len(src) /\ i = Len(first) + (i - Len(first))
      BY <1>8, <2>1
    <3>2. all[i] \in Range(src)
      BY <1>5, <1>8, <3>1
    <3> QED
      BY <1>4, <1>7, <1>9, <3>2, GoalIs DEF Latest
  <2>2. CASE i <= Len(first)
    <3>1. all[i] \in C
      BY <1>6, <1>8, <2>2
    <3>2. \A e \in Range(src) : Fold(options, e.key) # k
      <4>1. ASSUME NEW j \in 1..Len(src) PROVE Fold(options, src[j].key) # k
        <5>1. Len(first) + j \in (i + 1)..Len(all)
          BY <1>8, <2>2
        <5> QED
          BY <1>7, <1>8, <1>9, <5>1 DEF Latest
      <4> QED
        BY <1>5, <4>1
    <3> QED
      BY <1>4, <1>7, <1>9, <3>1, <3>2, GoalIs DEF Latest
  <2> QED
    BY <1>8, <2>1, <2>2
<1>10. ASSUME NEW k \in Keys, \A i \in 1..Len(all) : Fold(flags', all[i].key) # k
       PROVE  MapOf'[k] \in goals[k]
  <2>1. \A e \in Range(src) : Fold(options, e.key) # k
    <3>1. ASSUME NEW j \in 1..Len(src) PROVE Fold(options, src[j].key) # k
      <4>1. Len(first) + j \in 1..Len(all)
        BY <1>8
      <4> QED
        BY <1>7, <1>8, <1>10, <4>1
    <3> QED
      BY <1>5, <3>1
  <2>2. \A e \in C : Fold(options, e.key) # k
    <3>1. ASSUME NEW j \in 1..Len(first) PROVE Fold(options, first[j].key) # k
      <4>1. j \in 1..Len(all)
        BY <1>8
      <4> QED
        BY <1>7, <1>8, <1>10, <4>1
    <3> QED
      BY <1>6, <3>1
  <2> QED
    BY <1>3, <1>4, <2>1, <2>2, GoalIs
<1> QED
  BY <1>2, <1>9, <1>10 DEF Aims

LEMMA FlagsKept ==
  ASSUME NEW key, NEW d, Add(key, d) \/ Replace(key, d)
  PROVE  flags' = flags
  BY DEF Add, Replace, Tuning

(* One entry is put: the others that are to come are the same. *)
LEMMA CopyGoesOn ==
  ASSUME Misc, Tab, CopyInv, CopyAims, CopyNext
  PROVE  CopyAims' /\ (Running' => \A k \in Keys : MapOf'[k] \in copy.goal[k])
<1> DEFINE todo == copy.todo
           e == Head(todo)
           rest == Tail(todo)
<1>1. todo \in Seq(Entry) /\ todo # <<>> /\ Aims(flags, todo, MapOf, copy.goal)
  BY DEF CopyInv, CopyAims, CopyNext
<1>2. e \in Entry /\ e = todo[1] /\ (Add(e.key, e.data) \/ Replace(e.key, e.data))
  BY <1>1 DEF CopyNext
<1>3. e.key \in Keys /\ e.data \in Data /\ flags' = flags
  <2> HIDE DEF e
  <2>1. e.key \in Keys /\ e.data \in Data
    BY <1>2 DEF Entry
  <2>2. flags' = flags
    BY <1>2, FlagsKept
  <2> QED
    BY <2>1, <2>2
<1>4. /\ Folded(e.key) = Fold(flags, e.key) /\ Folded(e.key) \in Keys
      /\ MapOf'[Folded(e.key)] = e.data
      /\ \A j \in Keys \ {Folded(e.key)} : MapOf'[j] = MapOf[j]
  <2> HIDE DEF e
  <2> QED
    BY <1>2, <1>3, FoldedType, PutMaps
<1>5. /\ Len(todo) \in Nat /\ Len(todo) >= 1 /\ Len(rest) = Len(todo) - 1
      /\ \A i \in 1..Len(rest) : i + 1 \in 1..Len(todo) /\ rest[i] = todo[i + 1]
  BY <1>1
<1> HIDE DEF e, todo, rest
<1>6. Aims(flags, rest, MapOf', copy.goal)
  <2>1. ASSUME NEW k \in Keys, NEW i \in 1..Len(rest), Latest(flags, rest, i, k)
        PROVE  rest[i].data \in copy.goal[k]
    <3>1. ASSUME NEW j \in ((i + 1) + 1)..Len(todo) PROVE Fold(flags, todo[j].key) # k
      <4>1. j - 1 \in (i + 1)..Len(rest) /\ j - 1 \in 1..Len(rest) /\ (j - 1) + 1 = j
        BY <1>5
      <4>2. rest[j - 1] = todo[j]
        BY <1>5, <4>1
      <4> QED
        BY <2>1, <4>1, <4>2 DEF Latest
    <3>2. Latest(flags, todo, i + 1, k)
      BY <1>5, <2>1, <3>1 DEF Latest
    <3> QED
      BY <1>1, <1>5, <3>2 DEF Aims
  <2>2. ASSUME NEW k \in Keys, \A i \in 1..Len(rest) : Fold(flags, rest[i].key) # k
        PROVE  MapOf'[k] \in copy.goal[k]
    <3>1. \A j \in (1 + 1)..Len(todo) : Fold(flags, todo[j].key) # k
      <4>1. ASSUME NEW j \in (1 + 1)..Len(todo) PROVE Fold(flags, todo[j].key) # k
        <5>1. j - 1 \in 1..Len(rest) /\ (j - 1) + 1 = j
          BY <1>5
        <5>2. rest[j - 1] = todo[j]
          BY <1>5, <5>1
        <5> QED
          BY <2>2, <5>1, <5>2
      <4> QED
        BY <4>1
    <3>2. CASE k = Folded(e.key)
      <4>1. Latest(flags, todo, 1, k) /\ 1 \in 1..Len(todo)
        BY <1>2, <1>4, <1>5, <3>1, <3>2 DEF Latest
      <4> QED
        BY <1>1, <1>2, <1>4, <3>2, <4>1 DEF Aims
    <3>3. CASE k # Folded(e.key)
      <4>1. \A j \in 1..Len(todo) : Fold(flags, todo[j].key) # k
        <5>1. \A j \in 1..Len(todo) : j = 1 \/ j \in (1 + 1)..Len(todo)
          BY <1>5
        <5> QED
          BY <1>2, <1>4, <3>1, <3>3, <5>1
      <4> QED
        BY <1>1, <1>4, <3>3, <4>1 DEF Aims
    <3> QED
      BY <3>2, <3>3
  <2> QED
    BY <2>1, <2>2 DEF Aims
<1>7. CASE Len(todo) = 1
  <2>1. status' = "running"
    BY <1>7 DEF CopyNext, todo
  <2>2. \A k \in Keys : MapOf'[k] \in copy.goal[k]
    <3>1. \A i \in 1..Len(rest) : FALSE
      BY <1>5, <1>7
    <3> QED
      BY <1>6, <3>1 DEF Aims
  <2> QED
    BY <2>1, <2>2 DEF CopyAims
<1>8. CASE Len(todo) # 1
  <2>1. /\ copy' = [copy EXCEPT !.todo = Tail(@)] /\ status' = "copying"
        /\ copy = [todo |-> copy.todo, goal |-> copy.goal]
    BY <1>8 DEF CopyNext, CopyInv, todo
  <2>2. copy'.todo = rest /\ copy'.goal = copy.goal
    BY <2>1 DEF rest, todo
  <2> QED
    BY <1>3, <1>6, <2>1, <2>2 DEF CopyAims, Running
<1> QED
  BY <1>7, <1>8

LEMMA CopyAimsStep ==
  ASSUME HInv, CopyAims, [Next]_vars
  PROVE  /\ CopyAims'
         /\ status = "copying" /\ Running' => \A k \in Keys : MapOf'[k] \in copy.goal[k]
<1>1. Misc /\ CopyInv /\ (Running \/ status = "copying" => Tab)
  BY DEF HInv, Running
<1>2. CASE UNCHANGED vars
  <2>1. UNCHANGED <<buckets, flags, copy, status>>
    BY <1>2 DEF vars
  <2>2. MapOf' = MapOf
    BY <2>1, SameMaps
  <2> QED
    BY <2>1, <2>2 DEF CopyAims, Running
<1>3. CASE Tabular \/ Reading \/ \E ff \in BOOLEAN : Destroy(ff)
  <2>1. status = "running" /\ status' # "copying"
    BY <1>3 DEF Tabular, Reading, Running, Delete, Put, Clear, Rehash, ForeachRemove, SetHash,
       SetFlag, SetThresholds, Get, KeysData, EachData, NextData, NextFreed, Destroy
  <2> QED
    BY <2>1 DEF CopyAims
<1>4. ASSUME NEW src \in Lists, Copy(src) PROVE CopyAims' /\ status # "copying"
  <2>1. Tab /\ status = "running"
    BY <1>1, <1>4 DEF Copy, Running
  <2> QED
    BY <1>1, <1>4, <2>1, CopyBegins
<1>5. ASSUME NEW src \in Lists, NEW o \in Options, Merge(src, o)
      PROVE  CopyAims' /\ status # "copying"
  <2>1. Tab /\ status = "running"
    BY <1>1, <1>5 DEF Merge, Running
  <2> QED
    BY <1>1, <1>5, <2>1, MergeBegins
<1>6. CASE CopyNext
  <2>1. Tab
    BY <1>1, <1>6 DEF CopyNext
  <2> QED
    BY <1>1, <1>6, <2>1, CopyGoesOn
<1> QED
  BY <1>2, <1>3, <1>4, <1>5, <1>6, NextCases

LEMMA CopyAimsInit == Init => CopyAims
  BY DEF Init, CopyAims

(* A copy or a merge that has come to its end has carried every entry      *)
(* over: of the data of a key the last one put counts, in spite of growth, *)
(* collisions and keys that become one, and no other entry is lost.        *)
THEOREM CopiesAreExact == Spec => CopyExact
<1>1. HInv /\ CopyAims /\ [Next]_vars => CopyAims'
  BY CopyAimsStep
<1>2. HInv /\ CopyAims /\ [Next]_vars =>
        [status = "copying" /\ Running' => \A k \in Keys : MapOf'[k] \in copy.goal[k]]_vars
  BY CopyAimsStep
<1> QED
  BY <1>1, <1>2, CopyAimsInit, Invariant, PTL DEF Spec, CopyExact

-----------------------------------------------------------------------------
(* Iteration.  What cfuhash_next has returned are the keys of the chains   *)
(* before its position, and in its chain those up to the position.         *)

KeyIn(s, k) == \E i \in 1..Len(s) : s[i].key = k

(* Key j is in s at the place of key k, or before it. *)
Before(s, j, k) == \E l, m \in 1..Len(s) : l <= m /\ s[l].key = j /\ s[m].key = k

Passed(bs, b, cur, k) == (\E c \in 1..(b - 1) : KeyIn(bs[c], k)) \/ Before(bs[b], k, cur)

Going(it) == it.on /\ ~ it.moved /\ it.cur # NULL

Visits(it, bs) ==
  Going(it) =>
    /\ it.idx \in 1..Len(bs) /\ KeyIn(bs[it.idx], it.cur)
    /\ \A k \in it.since : \E c \in 1..Len(bs) : KeyIn(bs[c], k)
    /\ it.seen = {k \in it.since : Passed(bs, it.idx, it.cur, k)}

(* The keys ks are in s and in t in the same order. *)
SameOrder(s, t, ks) ==
  /\ \A k \in ks : KeyIn(s, k) <=> KeyIn(t, k)
  /\ \A j, k \in ks : Before(s, j, k) <=> Before(t, j, k)

(* t has, from places m of s, at least all entries with the keys ks. *)
Picks(m, s, t, ks) ==
  /\ m \in [1..Len(t) -> 1..Len(s)]
  /\ \A i, j \in 1..Len(t) : i < j => m[i] < m[j]
  /\ \A i \in 1..Len(t) : t[i].key = s[m[i]].key
  /\ \A i \in 1..Len(s) : s[i].key \in ks => \E j \in 1..Len(t) : m[j] = i

LEMMA PickedOrder ==
  ASSUME NEW E, NEW s \in Seq(E), NEW t \in Seq(E), NEW ks, NEW m, Picks(m, s, t, ks)
  PROVE  SameOrder(s, t, ks)
<1>1. Len(s) \in Nat /\ Len(t) \in Nat
  OBVIOUS
<1>2. \A k \in ks : KeyIn(s, k) <=> KeyIn(t, k)
  <2> TAKE k \in ks
  <2>1. ASSUME NEW i \in 1..Len(s), s[i].key = k PROVE KeyIn(t, k)
    <3>1. PICK j \in 1..Len(t) : m[j] = i
      BY <2>1 DEF Picks
    <3> QED
      BY <2>1, <3>1 DEF Picks, KeyIn
  <2>2. ASSUME NEW j \in 1..Len(t), t[j].key = k PROVE KeyIn(s, k)
    BY <2>2 DEF Picks, KeyIn
  <2> QED
    BY <2>1, <2>2 DEF KeyIn
<1>3. ASSUME NEW j \in ks, NEW k \in ks PROVE Before(s, j, k) <=> Before(t, j, k)
  <2>1. ASSUME NEW x \in 1..Len(s), NEW y \in 1..Len(s), x <= y, s[x].key = j, s[y].key = k
        PROVE  Before(t, j, k)
    <3>1. PICK v \in 1..Len(t) : m[v] = x
      BY <2>1 DEF Picks
    <3>2. PICK w \in 1..Len(t) : m[w] = y
      BY <2>1 DEF Picks
    <3>3. v <= w
      <4>1. w < v => m[w] < m[v]
        BY DEF Picks
      <4> QED
        BY <1>1, <2>1, <3>1, <3>2, <4>1
    <3>4. t[v].key = j /\ t[w].key = k
      BY <2>1, <3>1, <3>2 DEF Picks
    <3> QED
      BY <3>3, <3>4 DEF Before
  <2>2. ASSUME NEW v \in 1..Len(t), NEW w \in 1..Len(t), v <= w, t[v].key = j, t[w].key = k
        PROVE  Before(s, j, k)
    <3>1. m[v] \in 1..Len(s) /\ m[w] \in 1..Len(s) /\ (v < w => m[v] < m[w])
      BY DEF Picks
    <3>2. m[v] <= m[w]
      <4>1. v = w \/ v < w
        BY <1>1, <2>2
      <4> QED
        BY <1>1, <3>1, <4>1
    <3>3. s[m[v]].key = j /\ s[m[w]].key = k
      BY <2>2 DEF Picks
    <3> QED
      BY <3>1, <3>2, <3>3 DEF Before
  <2> QED
    BY <2>1, <2>2 DEF Before
<1> QED
  BY <1>2, <1>3 DEF SameOrder

LEMMA OrderTurned ==
  ASSUME NEW s, NEW t, NEW ks, SameOrder(s, t, ks)
  PROVE  SameOrder(t, s, ks)
  BY DEF SameOrder

LEMMA OrderOfFront ==
  ASSUME NEW s \in Seq(Entry), NEW e \in Entry, NEW ks, e.key \notin ks
  PROVE  SameOrder(s, <<e>> \o s, ks)
<1> DEFINE t == <<e>> \o s
           m == [i \in 1..Len(s) |-> i + 1]
<1>1. /\ t \in Seq(Entry) /\ Len(s) \in Nat /\ Len(t) = Len(s) + 1
      /\ t[1] = e /\ \A i \in 1..Len(s) : t[i + 1] = s[i]
  OBVIOUS
<1> HIDE DEF t
<1>2. Picks(m, t, s, ks)
  <2>1. m \in [1..Len(s) -> 1..Len(t)]
    BY <1>1
  <2>2. \A i, j \in 1..Len(s) : i < j => m[i] < m[j]
    BY <1>1
  <2>3. \A i \in 1..Len(s) : s[i].key = t[m[i]].key
    BY <1>1
  <2>4. ASSUME NEW i \in 1..Len(t), t[i].key \in ks PROVE \E j \in 1..Len(s) : m[j] = i
    <3>1. i # 1
      BY <1>1, <2>4
    <3>2. i - 1 \in 1..Len(s) /\ (i - 1) + 1 = i
      BY <1>1, <3>1
    <3> QED
      BY <3>2
  <2> HIDE DEF m
  <2> QED
    BY <2>1, <2>2, <2>3, <2>4 DEF Picks
<1> HIDE DEF m
<1>3. SameOrder(t, s, ks)
  BY <1>1, <1>2, PickedOrder
<1> QED
  BY <1>3, OrderTurned DEF t

LEMMA OrderOfRest ==
  ASSUME NEW s \in Seq(Entry), NEW i \in 1..Len(s), NEW ks, s[i].key \notin ks
  PROVE  SameOrder(s, RemoveAt(s, i), ks)
<1> DEFINE t == RemoveAt(s, i)
           m == [j \in 1..Len(t) |-> IF j < i THEN j ELSE j + 1]
<1>1. /\ t \in Seq(Entry) /\ Len(s) \in Nat /\ Len(t) = Len(s) - 1
      /\ \A j \in 1..Len(t) : t[j] = IF j < i THEN s[j] ELSE s[j + 1]
  <2> DEFINE u == SubSeq(s, 1, i - 1)
             v == SubSeq(s, i + 1, Len(s))
  <2>0. Len(s) \in Nat /\ i \in Nat /\ i + 1 \in 1..(Len(s) + 1)
    OBVIOUS
  <2>1. /\ u \in Seq(Entry) /\ Len(u) = i - 1
        /\ \A j \in 1..(i - 1) : u[j] = s[j]
    OBVIOUS
  <2>2. /\ v \in Seq(Entry) /\ Len(v) = Len(s) - i
        /\ \A j \in 1..(Len(s) - i) : v[j] = s[i + j]
    BY <2>0
  <2>3. t = u \o v
    BY DEF RemoveAt
  <2> HIDE DEF t, u, v
  <2>4. /\ t \in Seq(Entry) /\ Len(t) = Len(u) + Len(v)
        /\ \A j \in 1..(Len(u) + Len(v)) : t[j] = IF j <= Len(u) THEN u[j] ELSE v[j - Len(u)]
    <3>1. u \in Seq(Entry) /\ v \in Seq(Entry)
      BY <2>1, <2>2
    <3> QED
      BY <2>3, <3>1, ConcatProperties
  <2>5. ASSUME NEW j \in 1..Len(t) PROVE t[j] = IF j < i THEN s[j] ELSE s[j + 1]
    <3>1. CASE j < i
      BY <2>0, <2>1, <2>2, <2>4, <3>1
    <3>2. CASE j >= i
      <4>1. j - (i - 1) \in 1..(Len(s) - i) /\ i + (j - (i - 1)) = j + 1
        BY <2>0, <2>1, <2>2, <2>4, <3>2
      <4>2. Len(u) = i - 1 /\ ~ (j <= Len(u)) /\ j \in 1..(Len(u) + Len(v))
        BY <2>0, <2>1, <2>2, <2>4, <3>2
      <4>3. t[j] = v[j - (i - 1)]
        BY <2>4, <4>2
      <4> QED
        BY <2>0, <2>2, <3>2, <4>1, <4>3
    <3> QED
      BY <2>0, <2>4, <3>1, <3>2
  <2> QED
    BY <2>0, <2>1, <2>2, <2>4, <2>5
<1> HIDE DEF t
<1>2. Picks(m, s, t, ks)
  <2>1. m \in [1..Len(t) -> 1..Len(s)]
    BY <1>1
  <2>2. \A j, k \in 1..Len(t) : j < k => m[j] < m[k]
    BY <1>1
  <2>3. \A j \in 1..Len(t) : t[j].key = s[m[j]].key
    BY <1>1
  <2>4. ASSUME NEW j \in 1..Len(s), s[j].key \in ks PROVE \E k \in 1..Len(t) : m[k] = j
    <3>1. CASE j < i
      <4>1. j \in 1..Len(t)
        BY <1>1, <3>1
      <4> QED
        BY <3>1, <4>1
    <3>2. CASE j > i
      <4>1. j - 1 \in 1..Len(t) /\ ~ (j - 1 < i) /\ (j - 1) + 1 = j
        BY <1>1, <3>2
      <4> QED
        BY <4>1
    <3>3. j # i
      BY <2>4
    <3> QED
      BY <3>1, <3>2, <3>3
  <2> HIDE DEF m
  <2> QED
    BY <2>1, <2>2, <2>3, <2>4 DEF Picks
<1> HIDE DEF m
<1> QED
  BY <1>1, <1>2, PickedOrder DEF t

(* The entries of s with other data. *)
LEMMA OrderOfKeys ==
  ASSUME NEW s \in Seq(Entry), NEW t \in Seq(Entry), NEW ks, Len(t) = Len(s),
         \A i \in 1..Len(s) : t[i].key = s[i].key
  PROVE  SameOrder(s, t, ks)
  BY DEF SameOrder, KeyIn, Before

LEMMA OrderOfChosen ==
  ASSUME NEW s \in Seq(Entry), NEW S, NEW ks,
         \A i \in 1..Len(s) : s[i].key \in ks => s[i] \in S
  PROVE  SameOrder(s, Chosen(s, S), ks)
<1>0. PICK f \in [0..Len(s) -> Seq(Entry)] : Chosen(s, S) = f[Len(s)] /\ Choosing(f, s, S)
  BY ChosenSteps
<1>1. /\ f[0] = <<>>
      /\ \A n \in 1..Len(s) :
           f[n] = IF s[n] \in S THEN Append(f[n - 1], s[n]) ELSE f[n - 1]
  BY <1>0 DEF Choosing
<1> DEFINE P(n, m) ==
             /\ m \in [1..Len(f[n]) -> 1..n]
             /\ \A i, j \in 1..Len(f[n]) : i < j => m[i] < m[j]
             /\ \A i \in 1..Len(f[n]) : f[n][i] = s[m[i]]
             /\ \A i \in 1..n : s[i] \in S => \E j \in 1..Len(f[n]) : m[j] = i
           G == {n \in Nat : n <= Len(s) => \E m : P(n, m)}
<1>2. Len(s) \in Nat /\ (\A n \in 0..Len(s) : f[n] \in Seq(Entry))
  OBVIOUS
<1>3. 0 \in G
  <2>1. Len(f[0]) = 0
    BY <1>1
  <2>2. P(0, [i \in 1..0 |-> i])
    BY <2>1
  <2> HIDE DEF P
  <2> QED
    BY <2>2
<1>4. ASSUME NEW n \in Nat, n \in G PROVE n + 1 \in G
  <2> SUFFICES ASSUME n + 1 <= Len(s) PROVE \E m : P(n + 1, m)
    OBVIOUS
  <2>1. n <= Len(s) /\ n \in 0..Len(s) /\ n + 1 \in 1..Len(s) /\ (n + 1) - 1 = n
    BY <1>2
  <2>2. PICK m : P(n, m)
    BY <1>4, <2>1
  <2> DEFINE g == f[n]
             e == s[n + 1]
  <2>3. f[n + 1] = IF e \in S THEN Append(g, e) ELSE g
    BY <1>1, <2>1
  <2>4. g \in Seq(Entry) /\ Len(g) \in Nat /\ e \in Entry
    BY <1>2, <2>1
  <2>5. CASE e \in S
    <3> DEFINE h == f[n + 1]
               k == [i \in 1..(Len(g) + 1) |-> IF i = Len(g) + 1 THEN n + 1 ELSE m[i]]
    <3>1. h = Append(g, e)
      BY <2>3, <2>5
    <3> HIDE DEF g, h, e
    <3>2. Len(h) = Len(g) + 1 /\ h[Len(g) + 1] = e /\ \A i \in 1..Len(g) : h[i] = g[i]
      BY <2>4, <3>1
    <3>3. /\ \A i \in 1..Len(g) : m[i] \in 1..n
          /\ \A i, j \in 1..Len(g) : i < j => m[i] < m[j]
          /\ \A i \in 1..Len(g) : g[i] = s[m[i]]
          /\ \A i \in 1..n : s[i] \in S => \E j \in 1..Len(g) : m[j] = i
      BY <2>2 DEF g
    <3>4. k \in [1..Len(h) -> 1..(n + 1)]
      BY <2>4, <3>2, <3>3
    <3>5. \A i \in 1..Len(h) :
            (i = Len(g) + 1 /\ k[i] = n + 1) \/ (i \in 1..Len(g) /\ k[i] = m[i])
      BY <2>4, <3>2
    <3>6. \A i \in 1..Len(g) : i \in 1..Len(h) /\ k[i] = m[i]
      BY <2>4, <3>2
    <3>7. Len(g) + 1 \in 1..Len(h) /\ k[Len(g) + 1] = n + 1
      BY <2>4, <3>2
    <3> HIDE DEF k
    <3>8. \A i, j \in 1..Len(h) : i < j => k[i] < k[j]
      <4> SUFFICES ASSUME NEW i \in 1..Len(h), NEW j \in 1..Len(h), i < j PROVE k[i] < k[j]
        OBVIOUS
      <4>1. i \in 1..Len(g) /\ k[i] = m[i] /\ m[i] \in 1..n
        BY <2>4, <3>2, <3>3, <3>6
      <4>2. CASE j = Len(g) + 1
        BY <3>7, <4>1, <4>2
      <4>3. CASE j \in 1..Len(g)
        BY <3>3, <3>6, <4>1, <4>3
      <4> QED
        BY <3>5, <4>2, <4>3
    <3>9. \A i \in 1..Len(h) : h[i] = s[k[i]]
      BY <3>2, <3>3, <3>5 DEF e
    <3>10. \A i \in 1..(n + 1) : s[i] \in S => \E j \in 1..Len(h) : k[j] = i
      <4> TAKE i \in 1..(n + 1)
      <4>1. i = n + 1 \/ i \in 1..n
        OBVIOUS
      <4> QED
        BY <3>3, <3>6, <3>7, <4>1
    <3>11. P(n + 1, k)
      BY <3>4, <3>8, <3>9, <3>10 DEF h
    <3> HIDE DEF P
    <3> QED
      BY <3>11
  <2>6. CASE e \notin S
    <3>1. f[n + 1] = f[n]
      BY <2>3, <2>6
    <3>2. m \in [1..Len(f[n]) -> 1..(n + 1)]
      BY <2>2
    <3>3. \A i \in 1..(n + 1) : s[i] \in S => i \in 1..n
      BY <2>6
    <3>4. P(n + 1, m)
      BY <2>2, <3>1, <3>2, <3>3
    <3> HIDE DEF P
    <3> QED
      BY <3>4
  <2> QED
    BY <2>5, <2>6
<1>5. Len(s) \in G
  <2> HIDE DEF G
  <2> QED
    BY <1>2, <1>3, <1>4, Induction
<1>6. \E m : P(Len(s), m)
  <2> HIDE DEF P
  <2> QED
    BY <1>2, <1>5
<1> HIDE DEF P
<1>7. PICK m : P(Len(s), m)
  BY <1>6
<1> DEFINE t == Chosen(s, S)
<1>8. t = f[Len(s)] /\ t \in Seq(Entry)
  BY <1>0, <1>2
<1>9. Picks(m, s, t, ks)
  BY <1>7, <1>8 DEF Picks, P
<1> HIDE DEF t
<1> QED
  BY <1>8, <1>9, PickedOrder DEF t

HasKey(bs, k) == \E c \in 1..Len(bs) : KeyIn(bs[c], k)

LEMMA KeysStored ==
  ASSUME Misc, Tab
  PROVE  /\ \A k : HasKey(buckets, k) <=> k \in StoredKeys
         /\ StoredKeys \subseteq Keys
<1>1. Stored = Contents(buckets) /\ Contents(buckets) \subseteq Entry /\ buckets \in Seq(Seq(Entry))
  BY TabFacts DEF Tab, Built
<1>2. \A e \in Entry : e.key \in Keys
  BY DEF Entry
<1>3. ASSUME NEW k, HasKey(buckets, k) PROVE k \in StoredKeys
  <2>1. PICK c \in 1..Len(buckets) : KeyIn(buckets[c], k)
    BY <1>3 DEF HasKey
  <2>2. PICK i \in 1..Len(buckets[c]) : buckets[c][i].key = k
    BY <2>1 DEF KeyIn
  <2>3. buckets[c] \in Seq(Entry)
    BY <1>1
  <2>4. buckets[c][i] \in Contents(buckets)
    BY <2>3, RangeOf, InContents
  <2> QED
    BY <1>1, <2>2, <2>4 DEF StoredKeys
<1>4. ASSUME NEW k \in StoredKeys PROVE HasKey(buckets, k)
  <2>1. PICK e \in Contents(buckets) : e.key = k
    BY <1>1 DEF StoredKeys
  <2>2. PICK c \in 1..Len(buckets) : e \in Range(buckets[c])
    BY InContents
  <2>3. buckets[c] \in Seq(Entry)
    BY <1>1
  <2>4. \E i \in 1..Len(buckets[c]) : e = buckets[c][i]
    BY <2>2, <2>3, RangeOf
  <2> QED
    BY <2>1, <2>4 DEF HasKey, KeyIn
<1>5. StoredKeys \subseteq Keys
  BY <1>1, <1>2 DEF StoredKeys
<1> QED
  BY <1>3, <1>4, <1>5

(* The iteration goes on as it was when chains keep the order of the keys  *)
(* they keep.                                                              *)
LEMMA VisitsKept ==
  ASSUME NEW it, NEW bs, Len(bs) \in Nat, Visits(it, bs), Going(it),
         \A k : HasKey(bs, k) => k \in Keys,
         NEW jt, NEW cs, NEW gone, Len(cs) = Len(bs),
         jt.idx = it.idx, jt.cur = it.cur, it.cur \notin gone,
         jt.seen = it.seen \cap (Keys \ gone), jt.since = it.since \cap (Keys \ gone),
         NEW ks, \A k : HasKey(bs, k) /\ k \notin gone => k \in ks,
         \A c \in 1..Len(bs) : SameOrder(bs[c], cs[c], ks)
  PROVE  Visits(jt, cs)
<1>1. /\ it.idx \in 1..Len(bs) /\ KeyIn(bs[it.idx], it.cur)
      /\ \A k \in it.since : HasKey(bs, k)
      /\ it.seen = {k \in it.since : Passed(bs, it.idx, it.cur, k)}
  BY DEF Visits, HasKey
<1>2. \A c \in 1..Len(bs) : \A k \in ks : KeyIn(bs[c], k) <=> KeyIn(cs[c], k)
  BY DEF SameOrder
<1>3. HasKey(bs, it.cur) /\ it.cur \in ks
  BY <1>1 DEF HasKey
<1>4. \A k \in jt.since : k \in it.since /\ k \in ks /\ k \in Keys \ gone
  BY <1>1
<1>5. \A k \in ks : Passed(bs, it.idx, it.cur, k) <=> Passed(cs, it.idx, it.cur, k)
  <2> TAKE k \in ks
  <2>1. Before(bs[it.idx], k, it.cur) <=> Before(cs[it.idx], k, it.cur)
    BY <1>1, <1>3 DEF SameOrder
  <2>2. \A c \in 1..(it.idx - 1) : c \in 1..Len(bs)
    BY <1>1
  <2> QED
    BY <1>2, <2>1, <2>2 DEF Passed
<1>6. jt.seen = {k \in jt.since : Passed(cs, jt.idx, jt.cur, k)}
  BY <1>1, <1>4, <1>5
<1>7. \A k \in jt.since : HasKey(cs, k)
  BY <1>1, <1>2, <1>4 DEF HasKey
<1>8. jt.idx \in 1..Len(cs) /\ KeyIn(cs[jt.idx], jt.cur)
  BY <1>1, <1>2, <1>3
<1> QED
  BY <1>6, <1>7, <1>8 DEF Visits, HasKey

LEMMA DisturbGoing ==
  ASSUME IsIter(iter), NEW gone, Disturb(gone), NEW jt, jt = iter', Going(jt)
  PROVE  /\ Going(iter) /\ Len(buckets') = Len(buckets)
         /\ jt.idx = iter.idx /\ jt.cur = iter.cur /\ iter.cur \notin gone
         /\ jt.seen = iter.seen \cap (Keys \ gone) /\ jt.since = iter.since \cap (Keys \ gone)
<1>1. CASE ~ iter.on
  BY <1>1 DEF Disturb, Going
<1>2. CASE iter.on
  <2> DEFINE cur == IF iter.cur \in gone THEN NULL ELSE iter.cur
             moved == iter.moved \/ Num(buckets') # Num(buckets)
             kept == IF moved \/ cur = NULL THEN {} ELSE Keys \ gone
  <2>1. iter' = [iter EXCEPT !.cur = cur, !.moved = moved,
                             !.seen = @ \cap kept, !.since = @ \cap kept]
    BY <1>2 DEF Disturb
  <2> HIDE DEF moved, kept
  <2>2. jt = Iter(iter.on, iter.idx, cur, iter.seen \cap kept, iter.since \cap kept, moved)
    <3>1. PICK a, b, c, d, e, f : iter = Iter(a, b, c, d, e, f)
      BY DEF IsIter
    <3> HIDE DEF cur
    <3> QED
      BY <2>1, <3>1 DEF Iter
  <2> HIDE DEF cur
  <2>3. /\ jt.idx = iter.idx /\ jt.cur = cur /\ jt.moved = moved
        /\ jt.seen = iter.seen \cap kept /\ jt.since = iter.since \cap kept
    BY <2>2 DEF Iter
  <2>4. ~ moved /\ cur # NULL
    BY <2>3 DEF Going
  <2>5. kept = Keys \ gone
    BY <2>4 DEF kept
  <2>6. ~ iter.moved /\ Len(buckets') = Len(buckets)
    BY <2>4 DEF moved, Num
  <2>7. cur = iter.cur /\ iter.cur \notin gone /\ iter.cur # NULL
    BY <2>4 DEF cur
  <2> QED
    BY <1>2, <2>3, <2>5, <2>6, <2>7 DEF Going
<1> QED
  BY <1>1, <1>2

Visiting == Visits(iter, buckets)

LEMMA VisitsDisturbed ==
  ASSUME Misc, Tab, Visiting, NEW gone, Disturb(gone),
         Len(buckets') = Len(buckets) =>
           \A c \in 1..Len(buckets) : SameOrder(buckets[c], buckets'[c], StoredKeys \ gone)
  PROVE  Visiting'
<1>1. PICK jt : jt = iter'
  OBVIOUS
<1>2. PICK cs : cs = buckets'
  OBVIOUS
<1>3. ASSUME Going(jt) PROVE Visits(jt, cs)
  <2>1. IsIter(iter) /\ Len(buckets) \in Nat
    BY DEF Tab, IterInv, Built, IsSize
  <2>2. /\ Going(iter) /\ Len(cs) = Len(buckets)
        /\ jt.idx = iter.idx /\ jt.cur = iter.cur /\ iter.cur \notin gone
        /\ jt.seen = iter.seen \cap (Keys \ gone) /\ jt.since = iter.since \cap (Keys \ gone)
    BY <1>1, <1>2, <1>3, <2>1, DisturbGoing
  <2>3. \A c \in 1..Len(buckets) : SameOrder(buckets[c], cs[c], StoredKeys \ gone)
    BY <1>2, <2>2
  <2>4. \A k : HasKey(buckets, k) => k \in Keys /\ (k \notin gone => k \in StoredKeys \ gone)
    BY KeysStored
  <2> QED
    BY <2>1, <2>2, <2>3, <2>4, VisitsKept DEF Visiting
<1>4. Visits(jt, cs)
  BY <1>3 DEF Visits
<1> QED
  BY <1>1, <1>2, <1>4 DEF Visiting

LEMMA ResizeStays ==
  ASSUME Tuned, NEW bs, Len(bs) \in Nat, NEW n \in Nat, NEW when, Resize(bs, n, when),
         Len(buckets') = Len(bs)
  PROVE  buckets' = bs
<1>1. buckets' = IF when THEN Rehashed(bs, n) ELSE bs
  BY DEF Resize
<1>2. CASE NewSize(n) = Num(bs)
  BY <1>1, <1>2 DEF Rehashed
<1>3. CASE NewSize(n) # Num(bs) /\ when
  <2> DEFINE size == NewSize(n)
             all == FlattenSeq(bs)
             cs == [b \in 1..size |->
                      Reverse(Chosen(all, {e \in Range(all) : NewSlot(e, size) = b}))]
  <2>1. Rehashed(bs, n) = cs
    BY <1>3 DEF Rehashed
  <2>2. size \in Nat
    BY SizeTypes DEF IsSize
  <2>3. Len(cs) = size
    <3> HIDE DEF size, all
    <3> QED
      BY <2>2
  <2> QED
    BY <1>1, <1>3, <2>1, <2>3 DEF Num
<1> QED
  BY <1>1, <1>2, <1>3

LEMMA SameOrderAsIs == \A s, ks : SameOrder(s, s, ks)
  BY DEF SameOrder

LEMMA VisitsReplaced ==
  ASSUME Misc, Tab, Visiting, NEW key \in Keys, NEW d \in Data, Replace(key, d)
  PROVE  Visiting'
<1> DEFINE b == Bucket(key)
           i == Find(key)
<1>1. i # 0 /\ buckets' = [buckets EXCEPT ![b][i].data = d] /\ iter' = iter
  BY DEF Replace, Bucket
<1>2. buckets \in Seq(Seq(Entry)) /\ Len(buckets) \in Nat
  BY DEF Tab, Built, IsSize
<1>3. Finds(Contents(buckets), key, i)
  BY FindFacts DEF Misc, Tab
<1>4. b \in 1..Len(buckets) /\ i \in 1..Len(buckets[b])
  BY <1>1, <1>3 DEF Finds
<1> HIDE DEF b, i
<1> DEFINE s == buckets[b]
           e == [s[i] EXCEPT !.data = d]
           t == [s EXCEPT ![i] = e]
<1>5. s \in Seq(Entry)
  BY <1>2, <1>4
<1>6. buckets' = [buckets EXCEPT ![b] = t]
  BY <1>1
<1>7. SameOrder(s, t, StoredKeys)
  <2>1. s[i] \in Entry
    BY <1>4, <1>5
  <2>2. e \in Entry /\ e.key = s[i].key
    BY <2>1 DEF Entry
  <2> HIDE DEF e, s
  <2>3. /\ t \in Seq(Entry) /\ Len(t) = Len(s)
        /\ \A j \in 1..Len(s) : t[j].key = s[j].key
    BY <1>4, <1>5, <2>2 DEF s
  <2> HIDE DEF t
  <2> QED
    BY <1>5, <2>3, OrderOfKeys
<1> HIDE DEF s, t, e
<1>8. /\ Len(buckets') = Len(buckets)
      /\ \A c \in 1..Len(buckets) : SameOrder(buckets[c], buckets'[c], StoredKeys)
  BY <1>2, <1>4, <1>6, <1>7, SameOrderAsIs DEF s
<1>9. ASSUME Going(iter) PROVE Visits(iter, buckets')
  <2>1. PICK cs : cs = buckets'
    OBVIOUS
  <2>2. \A k : HasKey(buckets, k) => k \in Keys /\ k \in StoredKeys
    BY KeysStored
  <2>3. iter.since = iter.since \cap (Keys \ {}) /\ iter.seen = iter.seen \cap (Keys \ {})
    BY <1>9, <2>2 DEF Visiting, Visits, HasKey
  <2>4. Len(cs) = Len(buckets)
    BY <1>8, <2>1
  <2>5. \A c \in 1..Len(buckets) : SameOrder(buckets[c], cs[c], StoredKeys)
    BY <1>8, <2>1
  <2>6. Visits(iter, cs)
    BY <1>2, <1>9, <2>2, <2>3, <2>4, <2>5, VisitsKept DEF Visiting
  <2> QED
    BY <2>1, <2>6
<1> QED
  BY <1>1, <1>9 DEF Visiting, Visits

LEMMA VisitsAdded ==
  ASSUME Misc, Tab, Visiting, NEW key \in Keys, NEW d \in Data, Add(key, d)
  PROVE  Visiting'
<1> DEFINE b == Bucket(key)
           e == [key |-> key, data |-> d]
           added == [buckets EXCEPT ![b] = <<e>> \o @]
<1>1. /\ Find(key) = 0 /\ Disturb({})
      /\ Resize(added, entries + 1,
                "FROZEN" \notin flags /\ 4 * (entries + 1) > high * Num(added))
  BY DEF Add, Bucket
<1>2. /\ Tuned /\ buckets \in Seq(Seq(Entry)) /\ Len(buckets) \in Nat /\ entries + 1 \in Nat
  BY DEF Misc, Tab, Built, IsSize
<1>3. b \in 1..Len(buckets)
  <2>1. Finds(Contents(buckets), key, Find(key))
    BY FindFacts DEF Misc, Tab
  <2> QED
    BY <2>1 DEF Finds
<1>4. key \notin StoredKeys
  <2>1. \A x \in Contents(buckets) : Fold(flags, x.key) # Fold(flags, key)
    BY AddStep
  <2> QED
    BY <2>1, TabFacts DEF StoredKeys
<1> HIDE DEF b
<1>5. Len(added) = Len(buckets) /\ added[b] = <<e>> \o buckets[b]
      /\ \A c \in 1..Len(buckets) : c # b => added[c] = buckets[c]
  BY <1>2, <1>3
<1> HIDE DEF added
<1>6. ASSUME Len(buckets') = Len(buckets)
      PROVE  \A c \in 1..Len(buckets) : SameOrder(buckets[c], buckets'[c], StoredKeys \ {})
  <2>1. buckets' = added
    BY <1>1, <1>2, <1>5, <1>6, ResizeStays
  <2>2. e \in Entry /\ e.key \notin StoredKeys \ {} /\ buckets[b] \in Seq(Entry)
    BY <1>2, <1>3, <1>4 DEF Entry
  <2> HIDE DEF e
  <2>3. SameOrder(buckets[b], added[b], StoredKeys \ {})
    BY <1>5, <2>2, OrderOfFront
  <2> QED
    BY <1>5, <2>1, <2>3, SameOrderAsIs
<1> QED
  BY <1>1, <1>6, VisitsDisturbed

LEMMA VisitsDeleted ==
  ASSUME Misc, Tab, Visiting, NEW key \in Keys, Delete(key)
  PROVE  Visiting'
<1> DEFINE b == Bucket(key)
           i == Find(key)
           e == buckets[b][i]
           left == IF i = 0 THEN buckets ELSE [buckets EXCEPT ![b] = RemoveAt(@, i)]
           gone == IF i = 0 THEN {} ELSE {e}
           ks == {x.key : x \in gone}
<1>1. Shrink(left, entries', i # 0) /\ Disturb(ks)
  BY DEF Delete, Bucket
<1>2. Tuned /\ buckets \in Seq(Seq(Entry)) /\ Len(buckets) \in Nat
  BY DEF Misc, Tab, Built, IsSize
<1>3. entries' \in Nat
  BY DeleteStep DEF Misc
<1>4. b \in 1..Len(buckets) /\ (i # 0 => i \in 1..Len(buckets[b]))
  <2>1. Finds(Contents(buckets), key, i)
    BY FindFacts DEF Misc, Tab
  <2> QED
    BY <2>1 DEF Finds
<1>5. i # 0 => e.key \in ks
  OBVIOUS
<1> HIDE DEF b, i, ks
<1>6. /\ Len(left) = Len(buckets)
      /\ i # 0 => left[b] = RemoveAt(buckets[b], i)
      /\ \A c \in 1..Len(buckets) : c # b \/ i = 0 => left[c] = buckets[c]
  BY <1>2, <1>4
<1> HIDE DEF left
<1>7. ASSUME Len(buckets') = Len(buckets)
      PROVE  \A c \in 1..Len(buckets) : SameOrder(buckets[c], buckets'[c], StoredKeys \ ks)
  <2>1. buckets' = left
    BY <1>1, <1>2, <1>3, <1>6, <1>7, ResizeStays DEF Shrink
  <2>2. buckets[b] \in Seq(Entry)
    BY <1>2, <1>4
  <2>3. i # 0 => SameOrder(buckets[b], left[b], StoredKeys \ ks)
    BY <1>4, <1>5, <1>6, <2>2, OrderOfRest
  <2> QED
    BY <1>6, <2>1, <2>3, SameOrderAsIs
<1> QED
  BY <1>1, <1>7, VisitsDisturbed

LEMMA VisitsCleared ==
  ASSUME Misc, Tab, Clear
  PROVE  Visiting'
<1>1. IterInv(iter', {})
  <2>1. Tab' /\ Contents(buckets') = {}
    BY ClearStep
  <2> QED
    BY <2>1 DEF Tab
<1>2. iter'.cur = NULL
  BY <1>1 DEF IterInv
<1> QED
  BY <1>2 DEF Visiting, Visits, Going

LEMMA VisitsRemoved ==
  ASSUME Misc, Tab, Visiting, NEW ks, NEW ff, ForeachRemove(ks, ff)
  PROVE  Visiting'
<1> DEFINE S == {e \in Stored : e.key \notin ks}
<1>1. buckets' = Keeping(buckets, S) /\ Disturb(ks)
  BY DEF ForeachRemove, Keeping, Num
<1>2. buckets \in Seq(Seq(Entry)) /\ Stored = Contents(buckets)
  BY TabFacts DEF Tab, Built
<1>3. ASSUME NEW c \in 1..Len(buckets)
      PROVE  SameOrder(buckets[c], buckets'[c], StoredKeys \ ks)
  <2> DEFINE s == buckets[c]
  <2>1. s \in Seq(Entry)
    BY <1>2
  <2>2. \A j \in 1..Len(s) : s[j] \in Stored
    BY <1>2, <2>1, RangeOf, InContents
  <2>3. \A j \in 1..Len(s) : s[j].key \in StoredKeys \ ks => s[j] \in S
    BY <2>2
  <2>4. buckets'[c] = Chosen(s, S)
    BY <1>1 DEF Keeping
  <2> HIDE DEF s, S
  <2>5. SameOrder(s, Chosen(s, S), StoredKeys \ ks)
    BY <2>1, <2>3, OrderOfChosen
  <2> QED
    BY <2>4, <2>5 DEF s
<1> QED
  BY <1>1, <1>3, VisitsDisturbed

LEMMA VisitsRehashed ==
  ASSUME Misc, Tab, Visiting, Rehash
  PROVE  Visiting'
<1>1. Resize(buckets, entries, TRUE) /\ Disturb({})
  BY DEF Rehash
<1>2. Tuned /\ Len(buckets) \in Nat /\ entries \in Nat
  BY DEF Misc, Tab, Built, IsSize
<1>3. Len(buckets') = Len(buckets) => buckets' = buckets
  BY <1>1, <1>2, ResizeStays
<1> QED
  BY <1>1, <1>3, SameOrderAsIs, VisitsDisturbed

(* A key is in one chain, at one place. *)
LEMMA KeyOnce ==
  ASSUME Misc, Tab
  PROVE  /\ \A b \in 1..Len(buckets) : \A i, j \in 1..Len(buckets[b]) :
              buckets[b][i].key = buckets[b][j].key => i = j
         /\ \A b \in 1..Len(buckets) : \A k : KeyIn(buckets[b], k) => Bucket(k) = b
<1>1. /\ buckets \in Seq(Seq(Entry)) /\ Chained(flags, hash_func, buckets)
      /\ \A d, e \in Contents(buckets) : Fold(flags, d.key) = Fold(flags, e.key) => d = e
  BY TabFacts DEF Tab, Built
<1>2. ASSUME NEW b \in 1..Len(buckets), NEW i \in 1..Len(buckets[b])
      PROVE  /\ buckets[b][i] \in Range(buckets[b]) /\ buckets[b][i] \in Contents(buckets)
             /\ Bucket(buckets[b][i].key) = b
  <2>1. buckets[b] \in Seq(Entry)
    BY <1>1
  <2>2. buckets[b][i] \in Range(buckets[b])
    BY <2>1, RangeOf
  <2>3. Home(flags, hash_func, buckets[b][i].key, Len(buckets)) = b
    BY <1>1, <2>2 DEF Chained
  <2> QED
    BY <2>2, <2>3, SlotIsHome, InContents DEF Bucket, Num
<1>3. ASSUME NEW b \in 1..Len(buckets), NEW i \in 1..Len(buckets[b]),
             NEW j \in 1..Len(buckets[b]), buckets[b][i].key = buckets[b][j].key
      PROVE  i = j
  <2>1. buckets[b][i] = buckets[b][j]
    BY <1>1, <1>2, <1>3
  <2>2. IsInjective(buckets[b]) /\ buckets[b] \in Seq(Entry)
    BY <1>1 DEF Chained
  <2> QED
    BY <2>1, <2>2, RangeOf
<1>4. ASSUME NEW b \in 1..Len(buckets), NEW k, KeyIn(buckets[b], k) PROVE Bucket(k) = b
  BY <1>2, <1>4 DEF KeyIn
<1> QED
  BY <1>3, <1>4

(* What is before a place of a chain. *)
LEMMA BeforeIs ==
  ASSUME Misc, Tab, NEW b \in 1..Len(buckets), NEW p \in 1..Len(buckets[b])
  PROVE  \A k : Before(buckets[b], k, buckets[b][p].key) <=>
                  \E l \in 1..Len(buckets[b]) : l <= p /\ buckets[b][l].key = k
  BY KeyOnce DEF Before

LEMMA MoveIs ==
  ASSUME NEW it, IsIter(it), NEW i, i # 0
  PROVE  Move(it, i) = Iter(it.on, i, buckets[i][1].key, it.seen, it.since, it.moved)
<1>1. PICK a, b, c, d, e, f : it = Iter(a, b, c, d, e, f)
  BY DEF IsIter
<1> DEFINE cur == IF i = 0 THEN NULL ELSE buckets[i][1].key
<1>2. cur = buckets[i][1].key
  OBVIOUS
<1>3. Move(it, i) = [[it EXCEPT !.idx = i] EXCEPT !.cur = cur]
  BY DEF Move
<1> HIDE DEF cur
<1> QED
  BY <1>1, <1>2, <1>3 DEF Iter

LEMMA CurIs ==
  ASSUME NEW it, IsIter(it), NEW s
  PROVE  [it EXCEPT !.cur = s] = Iter(it.on, it.idx, s, it.seen, it.since, it.moved)
<1>1. PICK a, b, c, d, e, f : it = Iter(a, b, c, d, e, f)
  BY DEF IsIter
<1> QED
  BY <1>1 DEF Iter

LEMMA YieldIs ==
  ASSUME NEW a, NEW i, i # 0, NEW cur, NEW seen, NEW since, NEW moved,
         NEW call, NEW it, it = Iter(a, i, cur, seen, since, moved), Yield(call, it)
  PROVE  /\ iter' = Iter(TRUE, i, cur, seen \cup ({cur} \cap since), since, moved)
         /\ res'.found
<1> DEFINE e == CHOOSE e \in Stored : e.key = it.cur
<1>1. it.idx = i /\ it.cur = cur /\ it.since = since
  BY DEF Iter
<1>2. /\ iter' = [it EXCEPT !.on = TRUE, !.seen = @ \cup ({it.cur} \cap it.since)]
      /\ res' = Answer(call, TRUE, e.data, {Folded(it.cur)}, 0)
  BY <1>1 DEF Yield
<1>3. res'.found
  BY <1>2 DEF Answer
<1> QED
  BY <1>2, <1>3 DEF Iter

(* The next chain that is not empty. *)
LEMMA NextChainIs ==
  ASSUME Misc, Tab, NEW i \in Nat, NEW n, n = NextChain(i)
  PROVE  /\ n = 0 => \A c \in (i + 1)..Len(buckets) : buckets[c] = <<>>
         /\ n # 0 => /\ n \in (i + 1)..Len(buckets)
                     /\ Len(buckets[n]) \in Nat /\ 1 \in 1..Len(buckets[n])
                     /\ \A c \in (i + 1)..(n - 1) : buckets[c] = <<>>
<1> DEFINE bs == {b \in (i + 1)..Num(buckets) : buckets[b] # <<>>}
<1>0. buckets \in Seq(Seq(Entry)) /\ Len(buckets) \in Nat
  BY DEF Tab, Built, IsSize
<1>1. CASE bs = {}
  <2>1. n = 0
    BY <1>1 DEF NextChain
  <2> QED
    BY <1>1, <2>1 DEF Num
<1>2. CASE bs # {}
  <2>1. bs \subseteq Nat
    OBVIOUS
  <2>2. n = CHOOSE b \in bs : \A c \in bs : b <= c
    BY <1>2 DEF NextChain
  <2>3. n \in bs /\ \A c \in bs : n <= c
    <3> HIDE DEF bs
    <3>1. \E m \in bs : \A c \in bs : m <= c
      BY <1>2, <2>1, LeastExists
    <3> QED
      BY <2>2, <3>1
  <2>4. n \in (i + 1)..Len(buckets) /\ buckets[n] # <<>>
    BY <2>3 DEF Num
  <2>5. ASSUME NEW c \in (i + 1)..(n - 1) PROVE buckets[c] = <<>>
    <3>1. n \in Nat /\ n <= Len(buckets)
      BY <1>0, <2>4
    <3>2. c \in (i + 1)..Len(buckets) /\ ~ (n <= c)
      BY <1>0, <3>1
    <3>3. c \notin bs
      <4> HIDE DEF bs
      <4> QED
        BY <2>3, <3>2
    <3> QED
      BY <3>2, <3>3 DEF Num
  <2>6. Len(buckets[n]) \in Nat /\ 1 \in 1..Len(buckets[n])
    <3> DEFINE s == buckets[n]
    <3>1. s \in Seq(Entry) /\ s # <<>>
      BY <1>0, <2>4
    <3> HIDE DEF s
    <3>2. Len(s) \in Nat /\ Len(s) # 0
      BY <3>1
    <3>3. Len(s) \in Nat /\ 1 \in 1..Len(s)
      BY <3>2
    <3> QED
      BY <3>3 DEF s
  <2>7. n # 0
    BY <2>4
  <2> QED
    BY <2>4, <2>5, <2>6, <2>7
<1> QED
  BY <1>1, <1>2

LEMMA EmptyHasNone == \A k : ~ KeyIn(<<>>, k)
  BY DEF KeyIn

(* The keys up to the first place of the next chain. *)
LEMMA PassedNext ==
  ASSUME Misc, Tab, NEW i \in Nat, NEW n, n = NextChain(i), n # 0
  PROVE  /\ n \in 1..Len(buckets) /\ KeyIn(buckets[n], buckets[n][1].key)
         /\ \A k : Passed(buckets, n, buckets[n][1].key, k) <=>
                     \/ \E c \in 1..i : KeyIn(buckets[c], k)
                     \/ k = buckets[n][1].key
<1>1. /\ n \in (i + 1)..Len(buckets)
      /\ Len(buckets[n]) \in Nat /\ 1 \in 1..Len(buckets[n])
      /\ \A c \in (i + 1)..(n - 1) : buckets[c] = <<>>
  BY NextChainIs
<1>2. n \in 1..Len(buckets) /\ n \in Nat /\ n > i
  BY <1>1
<1>3. KeyIn(buckets[n], buckets[n][1].key)
  BY <1>1 DEF KeyIn
<1>4. \A k : Before(buckets[n], k, buckets[n][1].key) <=> k = buckets[n][1].key
  <2>1. \A k : Before(buckets[n], k, buckets[n][1].key) <=>
                 \E l \in 1..Len(buckets[n]) : l <= 1 /\ buckets[n][l].key = k
    BY <1>1, <1>2, BeforeIs
  <2>2. \A l \in 1..Len(buckets[n]) : l <= 1 <=> l = 1
    BY <1>1
  <2> QED
    BY <1>1, <2>1, <2>2
<1>5. \A k : (\E c \in 1..(n - 1) : KeyIn(buckets[c], k)) <=>
             (\E c \in 1..i : KeyIn(buckets[c], k))
  <2>1. \A c \in 1..i : c \in 1..(n - 1)
    BY <1>2
  <2>2. \A c \in 1..(n - 1) : c \in 1..i \/ c \in (i + 1)..(n - 1)
    BY <1>2
  <2> QED
    BY <1>1, <2>1, <2>2, EmptyHasNone
<1> QED
  BY <1>2, <1>3, <1>4, <1>5 DEF Passed

LEMMA MoveEnds ==
  ASSUME NEW call, NEW it, IsIter(it), Yield(call, Move(it, 0))
  PROVE  iter' = Idle /\ ~ res'.found
<1>1. PICK a, b, c, d, e, f : it = Iter(a, b, c, d, e, f)
  BY DEF IsIter
<1>2. Move(it, 0).idx = 0
  BY <1>1 DEF Move, Iter
<1> HIDE DEF Iter
<1> QED
  BY <1>2 DEF Yield, Nothing, Answer

LEMMA VisitsStarted ==
  ASSUME Misc, Tab, EachData
  PROVE  Visiting'
<1> DEFINE it == [Idle EXCEPT !.since = StoredKeys]
           n == NextChain(0)
<1>1. Yield(<<"each">>, Move(it, n)) /\ buckets' = buckets
  BY DEF EachData, Table
<1>2. IsIter(it) /\ it.seen = {} /\ it.since = StoredKeys
  <2>1. PICK a, b, c, d, e, f : Idle = Iter(a, b, c, d, e, f)
    BY DEF Idle, Iter
  <2>2. d = {}
    BY <2>1 DEF Idle, Iter
  <2> HIDE DEF Idle
  <2>3. it = Iter(a, b, c, d, StoredKeys, f)
    BY <2>1 DEF Iter
  <2> HIDE DEF it
  <2> QED
    BY <2>2, <2>3 DEF IsIter, Iter
<1>3. n = NextChain(0) /\ 0 \in Nat
  OBVIOUS
<1> HIDE DEF it, n
<1>4. CASE n = 0
  <2>1. iter' = Idle
    BY <1>1, <1>2, <1>4, MoveEnds
  <2> QED
    BY <2>1 DEF Visiting, Visits, Going, Idle
<1>5. CASE n # 0
  <2>1. PICK cur : cur = buckets[n][1].key
    OBVIOUS
  <2>2. Move(it, n) = Iter(it.on, n, cur, it.seen, it.since, it.moved)
    BY <1>2, <1>5, <2>1, MoveIs
  <2>3. iter' = Iter(TRUE, n, cur, it.seen \cup ({cur} \cap it.since), it.since, it.moved)
    <3>1. /\ iter' = Iter(TRUE, n, cur, it.seen \cup ({cur} \cap it.since), it.since, it.moved)
          /\ res'.found
      BY <1>1, <1>5, <2>2, YieldIs
    <3> QED
      BY <3>1
  <2>4. /\ n \in 1..Len(buckets) /\ KeyIn(buckets[n], cur)
        /\ \A k : Passed(buckets, n, cur, k) <=> k = cur
    <3>1. /\ n \in 1..Len(buckets) /\ KeyIn(buckets[n], buckets[n][1].key)
          /\ \A k : Passed(buckets, n, buckets[n][1].key, k) <=>
                      (\E c \in 1..0 : KeyIn(buckets[c], k)) \/ k = buckets[n][1].key
      BY <1>3, <1>5, PassedNext
    <3> QED
      BY <2>1, <3>1
  <2>5. PICK jt : jt = iter'
    OBVIOUS
  <2>6. /\ jt.idx = n /\ jt.cur = cur /\ jt.seen = {cur} \cap StoredKeys
        /\ jt.since = StoredKeys
    BY <1>2, <2>3, <2>5 DEF Iter
  <2>7. \A k \in StoredKeys : HasKey(buckets, k)
    BY KeysStored
  <2>8. Visits(jt, buckets)
    BY <2>4, <2>6, <2>7 DEF Visits, HasKey
  <2> QED
    BY <1>1, <2>5, <2>8 DEF Visiting
<1> QED
  BY <1>4, <1>5

(* The position moves on to a key that comes next. *)
LEMMA VisitsGoOn ==
  ASSUME NEW it, NEW bs, Visits(it, bs), Going(it), NEW i \in 1..Len(bs), NEW cur,
         KeyIn(bs[i], cur), ~ Passed(bs, it.idx, it.cur, cur),
         \A k : Passed(bs, i, cur, k) <=> Passed(bs, it.idx, it.cur, k) \/ k = cur,
         NEW jt, jt = Iter(TRUE, i, cur, it.seen \cup ({cur} \cap it.since), it.since, it.moved)
  PROVE  Visits(jt, bs) /\ jt.cur \notin it.seen
<1>1. /\ jt.idx = i /\ jt.cur = cur /\ jt.since = it.since
      /\ jt.seen = it.seen \cup ({cur} \cap it.since)
  BY DEF Iter
<1>2. /\ it.seen = {k \in it.since : Passed(bs, it.idx, it.cur, k)}
      /\ \A k \in it.since : HasKey(bs, k)
  BY DEF Visits, HasKey
<1>3. jt.seen = {k \in jt.since : Passed(bs, i, cur, k)}
  BY <1>1, <1>2
<1>4. Visits(jt, bs)
  <2>1. jt.idx \in 1..Len(bs) /\ KeyIn(bs[jt.idx], jt.cur)
    BY <1>1
  <2>2. \A k \in jt.since : HasKey(bs, k)
    BY <1>1, <1>2
  <2>3. jt.seen = {k \in jt.since : Passed(bs, jt.idx, jt.cur, k)}
    BY <1>1, <1>3
  <2> QED
    BY <2>1, <2>2, <2>3 DEF Visits, HasKey
<1>5. jt.cur \notin it.seen
  BY <1>1, <1>2
<1> QED
  BY <1>4, <1>5

(* The entry behind the position, in its chain. *)
LEMMA SuccessorIs ==
  ASSUME Misc, Tab, NEW i \in 1..Len(buckets), NEW p \in 1..Len(buckets[i]), NEW cur,
         buckets[i][p].key = cur, cur \in Keys
  PROVE  /\ Successor(cur) = NULL => p = Len(buckets[i])
         /\ Successor(cur) # NULL => /\ p + 1 \in 1..Len(buckets[i])
                                     /\ Successor(cur) = buckets[i][p + 1].key
<1> DEFINE chain == buckets[i]
           is == {l \in 2..Len(chain) : chain[l - 1].key = cur}
<1>1. chain \in Seq(Entry)
  BY DEF Tab, Built
<1>2. KeyIn(buckets[i], cur)
  BY DEF KeyIn
<1>3. Bucket(cur) = i
  BY <1>2, KeyOnce
<1>4. Successor(cur) = IF is = {} THEN NULL ELSE chain[CHOOSE l \in is : TRUE].key
  BY <1>3 DEF Successor, Bucket
<1>5. \A l, m \in 1..Len(chain) : chain[l].key = chain[m].key => l = m
  BY KeyOnce
<1> HIDE DEF chain
<1>6. Len(chain) \in Nat /\ p \in 1..Len(chain) /\ chain[p].key = cur
  BY <1>1 DEF chain
<1>7. \A l : l \in is <=> l = p + 1 /\ p + 1 \in 1..Len(chain)
  <2>1. ASSUME NEW l \in is PROVE l = p + 1 /\ p + 1 \in 1..Len(chain)
    <3>1. l \in 2..Len(chain) /\ l - 1 \in 1..Len(chain) /\ chain[l - 1].key = cur
      BY <1>6
    <3>2. l - 1 = p
      BY <1>5, <1>6, <3>1
    <3> QED
      BY <1>6, <3>1, <3>2
  <2>2. ASSUME p + 1 \in 1..Len(chain) PROVE p + 1 \in is
    BY <1>6, <2>2
  <2> QED
    BY <2>1, <2>2
<1> HIDE DEF is
<1>8. CASE is = {}
  <2>1. p = Len(chain)
    BY <1>6, <1>7, <1>8
  <2>2. Successor(cur) = NULL
    BY <1>4, <1>8
  <2> QED
    BY <2>1, <2>2 DEF chain
<1>9. CASE is # {}
  <2>1. (CHOOSE l \in is : TRUE) = p + 1 /\ p + 1 \in 1..Len(chain)
    BY <1>7, <1>9
  <2>2. Successor(cur) = chain[p + 1].key
    BY <1>4, <1>9, <2>1
  <2>3. chain[p + 1].key \in Keys
    <3>1. chain[p + 1] \in Entry
      BY <1>1, <2>1
    <3> QED
      BY <3>1 DEF Entry
  <2>4. NULL \notin Keys
    BY HashTableAssumption
  <2> QED
    BY <2>1, <2>2, <2>3, <2>4 DEF chain
<1> QED
  BY <1>8, <1>9

Exactly == IF res'.found THEN iter'.cur \notin iter.seen ELSE iter.since = iter.seen

LEMMA VisitsSuccessor ==
  ASSUME Misc, Tab, Visiting, Going(iter), IsIter(iter), Successor(iter.cur) # NULL,
         Yield(<<"next">>, [iter EXCEPT !.cur = Successor(iter.cur)])
  PROVE  Visits(iter', buckets) /\ Exactly
<1>1. PICK i : i = iter.idx
  OBVIOUS
<1>2. i \in 1..Len(buckets) /\ i # 0 /\ KeyIn(buckets[i], iter.cur)
  BY <1>1 DEF Visiting, Visits
<1>3. PICK p \in 1..Len(buckets[i]) : buckets[i][p].key = iter.cur
  BY <1>2 DEF KeyIn
<1>4. iter.cur \in Keys
  <2>1. HasKey(buckets, iter.cur)
    BY <1>2 DEF HasKey
  <2> QED
    BY <2>1, KeysStored
<1>5. p + 1 \in 1..Len(buckets[i]) /\ Successor(iter.cur) = buckets[i][p + 1].key
  BY <1>2, <1>3, <1>4, SuccessorIs
<1>6. PICK cur : cur = buckets[i][p + 1].key
  OBVIOUS
<1>7. KeyIn(buckets[i], cur)
  BY <1>5, <1>6 DEF KeyIn
<1>8. \A k : /\ Before(buckets[i], k, iter.cur) <=>
                  \E l \in 1..Len(buckets[i]) : l <= p /\ buckets[i][l].key = k
             /\ Before(buckets[i], k, cur) <=>
                  \E l \in 1..Len(buckets[i]) : l <= p + 1 /\ buckets[i][l].key = k
  <2>1. \A k : Before(buckets[i], k, buckets[i][p].key) <=>
                  \E l \in 1..Len(buckets[i]) : l <= p /\ buckets[i][l].key = k
    BY <1>2, BeforeIs
  <2>2. \A k : Before(buckets[i], k, buckets[i][p + 1].key) <=>
                  \E l \in 1..Len(buckets[i]) : l <= p + 1 /\ buckets[i][l].key = k
    BY <1>2, <1>5, BeforeIs
  <2> QED
    BY <1>3, <1>6, <2>1, <2>2
<1>9. \A k : Before(buckets[i], k, cur) <=> Before(buckets[i], k, iter.cur) \/ k = cur
  <2>1. \A l \in 1..Len(buckets[i]) : l <= p + 1 <=> l <= p \/ l = p + 1
    OBVIOUS
  <2> QED
    BY <1>5, <1>6, <1>8, <2>1
<1>10. ~ Passed(buckets, i, iter.cur, cur)
  <2>1. ~ Before(buckets[i], cur, iter.cur)
    <3>1. \A l \in 1..Len(buckets[i]) : buckets[i][l].key = cur => l = p + 1
      BY <1>2, <1>5, <1>6, KeyOnce
    <3> QED
      BY <1>8, <3>1
  <2>2. \A c \in 1..(i - 1) : ~ KeyIn(buckets[c], cur)
    <3>1. \A c \in 1..(i - 1) : c \in 1..Len(buckets) /\ c # i
      BY <1>2
    <3>2. Bucket(cur) = i
      BY <1>2, <1>7, KeyOnce
    <3> QED
      BY <3>1, <3>2, KeyOnce
  <2> QED
    BY <2>1, <2>2 DEF Passed
<1>11. \A k : Passed(buckets, i, cur, k) <=> Passed(buckets, i, iter.cur, k) \/ k = cur
  BY <1>9 DEF Passed
<1>12. [iter EXCEPT !.cur = Successor(iter.cur)] =
         Iter(iter.on, i, cur, iter.seen, iter.since, iter.moved)
  BY <1>1, <1>5, <1>6, CurIs
<1>13. /\ iter' = Iter(TRUE, i, cur, iter.seen \cup ({cur} \cap iter.since), iter.since, iter.moved)
       /\ res'.found
  BY <1>2, <1>12, YieldIs
<1>14. PICK jt : jt = iter'
  OBVIOUS
<1>15. Visits(jt, buckets) /\ jt.cur \notin iter.seen
  BY <1>1, <1>2, <1>7, <1>10, <1>11, <1>13, <1>14, VisitsGoOn DEF Visiting
<1> QED
  BY <1>13, <1>14, <1>15 DEF Exactly

(* The end of a chain: the iteration goes on in the next one, or has       *)
(* returned all there is.                                                  *)
LEMMA VisitsChainEnd ==
  ASSUME Misc, Tab, Visiting, Going(iter), IsIter(iter), Successor(iter.cur) = NULL,
         Yield(<<"next">>, Move(iter, NextChain(iter.idx)))
  PROVE  Visits(iter', buckets) /\ Exactly
<1>1. PICK i : i = iter.idx
  OBVIOUS
<1>2. /\ i \in 1..Len(buckets) /\ i \in Nat /\ KeyIn(buckets[i], iter.cur)
      /\ \A k \in iter.since : HasKey(buckets, k)
      /\ iter.seen = {k \in iter.since : Passed(buckets, i, iter.cur, k)}
  BY <1>1 DEF Visiting, Visits, HasKey
<1>3. PICK p \in 1..Len(buckets[i]) : buckets[i][p].key = iter.cur
  BY <1>2 DEF KeyIn
<1>4. iter.cur \in Keys
  <2>1. HasKey(buckets, iter.cur)
    BY <1>2 DEF HasKey
  <2> QED
    BY <2>1, KeysStored
<1>5. p = Len(buckets[i])
  BY <1>2, <1>3, <1>4, SuccessorIs
<1>6. \A k : Passed(buckets, i, iter.cur, k) <=> \E c \in 1..i : KeyIn(buckets[c], k)
  <2>1. \A k : Before(buckets[i], k, buckets[i][p].key) <=>
                 \E l \in 1..Len(buckets[i]) : l <= p /\ buckets[i][l].key = k
    BY <1>2, BeforeIs
  <2>2. \A l \in 1..Len(buckets[i]) : l <= p
    BY <1>5
  <2>3. \A k : Before(buckets[i], k, iter.cur) <=> KeyIn(buckets[i], k)
    BY <1>3, <2>1, <2>2 DEF KeyIn
  <2>4. \A c : c \in 1..i <=> c \in 1..(i - 1) \/ c = i
    BY <1>2
  <2> QED
    BY <2>3, <2>4 DEF Passed
<1>7. PICK n : n = NextChain(i)
  OBVIOUS
<1>8. CASE n = 0
  <2>1. iter' = Idle /\ ~ res'.found
    BY <1>1, <1>7, <1>8, MoveEnds
  <2>2. \A c \in (i + 1)..Len(buckets) : buckets[c] = <<>>
    BY <1>2, <1>7, <1>8, NextChainIs
  <2>3. ASSUME NEW k \in iter.since PROVE Passed(buckets, i, iter.cur, k)
    <3>1. PICK c \in 1..Len(buckets) : KeyIn(buckets[c], k)
      BY <1>2 DEF HasKey
    <3>2. c \in 1..i \/ c \in (i + 1)..Len(buckets)
      BY <1>2
    <3>3. c \in 1..i
      BY <2>2, <3>1, <3>2, EmptyHasNone
    <3> QED
      BY <1>6, <3>1, <3>3
  <2>4. iter.since = iter.seen
    BY <1>2, <2>3
  <2> QED
    BY <2>1, <2>4 DEF Exactly, Visits, Going, Idle
<1>9. CASE n # 0
  <2>1. PICK cur : cur = buckets[n][1].key
    OBVIOUS
  <2>2. /\ n \in 1..Len(buckets) /\ KeyIn(buckets[n], cur)
        /\ \A k : Passed(buckets, n, cur, k) <=>
                    (\E c \in 1..i : KeyIn(buckets[c], k)) \/ k = cur
    <3>1. /\ n \in 1..Len(buckets) /\ KeyIn(buckets[n], buckets[n][1].key)
          /\ \A k : Passed(buckets, n, buckets[n][1].key, k) <=>
                      (\E c \in 1..i : KeyIn(buckets[c], k)) \/ k = buckets[n][1].key
      BY <1>2, <1>7, <1>9, PassedNext
    <3> QED
      BY <2>1, <3>1
  <2>3. ~ Passed(buckets, i, iter.cur, cur)
    <3>1. n > i
      <4>1. n \in (i + 1)..Len(buckets)
        BY <1>2, <1>7, <1>9, NextChainIs
      <4> QED
        BY <1>2, <4>1
    <3>2. \A c \in 1..i : c \in 1..Len(buckets) /\ c # n
      BY <1>2, <2>2, <3>1
    <3>3. Bucket(cur) = n
      BY <2>2, KeyOnce
    <3>4. \A c \in 1..i : ~ KeyIn(buckets[c], cur)
      BY <3>2, <3>3, KeyOnce
    <3> QED
      BY <1>6, <3>4
  <2>4. \A k : Passed(buckets, n, cur, k) <=> Passed(buckets, i, iter.cur, k) \/ k = cur
    BY <1>6, <2>2
  <2>5. Move(iter, n) = Iter(iter.on, n, cur, iter.seen, iter.since, iter.moved)
    BY <1>9, <2>1, MoveIs
  <2>6. Yield(<<"next">>, Move(iter, n))
    BY <1>1, <1>7
  <2>7. /\ iter' = Iter(TRUE, n, cur, iter.seen \cup ({cur} \cap iter.since),
                        iter.since, iter.moved)
        /\ res'.found
    BY <1>9, <2>5, <2>6, YieldIs
  <2>8. PICK jt : jt = iter'
    OBVIOUS
  <2>9. Visits(jt, buckets) /\ jt.cur \notin iter.seen
    BY <1>1, <2>2, <2>3, <2>4, <2>7, <2>8, VisitsGoOn DEF Visiting
  <2> QED
    BY <2>7, <2>8, <2>9 DEF Exactly
<1> QED
  BY <1>8, <1>9

(* An iteration during which the table was resized stays one. *)
LEMMA MovedStays ==
  ASSUME Misc, Tab, NextData, iter.moved
  PROVE  ~ Going(iter')
<1>1. IsIter(iter)
  BY DEF Tab, IterInv
<1>2. PICK a, b, c, d, e, f : iter = Iter(a, b, c, d, e, f)
  BY <1>1 DEF IsIter
<1>3. ASSUME NEW it, NEW g, NEW h, it = Iter(a, g, h, d, e, f), Yield(<<"next">>, it)
      PROVE  ~ Going(iter')
  <2>1. CASE it.idx = 0
    BY <1>3, <2>1 DEF Yield, Going, Idle
  <2>2. CASE it.idx # 0
    <3>1. it.idx = g
      BY <1>3 DEF Iter
    <3>2. /\ iter' = Iter(TRUE, g, h, d \cup ({h} \cap e), e, f)
          /\ res'.found
      BY <1>3, <2>2, <3>1, YieldIs
    <3>3. PICK jt : jt = iter'
      OBVIOUS
    <3>4. jt.moved
      BY <1>2, <3>2, <3>3 DEF Iter
    <3> QED
      BY <3>3, <3>4 DEF Going
  <2> QED
    BY <2>1, <2>2
<1>4. CASE Successor(iter.cur) # NULL
  <2>1. PICK s : s = Successor(iter.cur)
    OBVIOUS
  <2>2. [iter EXCEPT !.cur = s] = Iter(a, b, s, d, e, f)
    <3>1. [iter EXCEPT !.cur = s] =
            Iter(iter.on, iter.idx, s, iter.seen, iter.since, iter.moved)
      BY <1>1, CurIs
    <3> QED
      BY <1>2, <3>1 DEF Iter
  <2>3. Yield(<<"next">>, [iter EXCEPT !.cur = s])
    BY <1>4, <2>1 DEF NextData
  <2> QED
    BY <1>3, <2>2, <2>3
<1>5. CASE Successor(iter.cur) = NULL
  <2>1. PICK n : n = NextChain(iter.idx)
    OBVIOUS
  <2>2. Yield(<<"next">>, Move(iter, n))
    BY <1>5, <2>1 DEF NextData
  <2>3. CASE n = 0
    <3>1. iter' = Idle
      BY <1>1, <2>2, <2>3, MoveEnds
    <3> QED
      BY <3>1 DEF Going, Idle
  <2>4. CASE n # 0
    <3>1. Move(iter, n) = Iter(a, n, buckets[n][1].key, d, e, f)
      <4>1. Move(iter, n) = Iter(iter.on, n, buckets[n][1].key, iter.seen, iter.since, iter.moved)
        BY <1>1, <2>4, MoveIs
      <4> QED
        BY <1>2, <4>1 DEF Iter
    <3> QED
      BY <1>3, <2>2, <3>1
  <2> QED
    BY <2>3, <2>4
<1> QED
  BY <1>4, <1>5

LEMMA VisitsNext ==
  ASSUME Misc, Tab, Visiting, NextData
  PROVE  Visiting' /\ (~ iter.moved => Exactly)
<1>1. buckets' = buckets /\ iter.on /\ iter.cur # NULL /\ IsIter(iter)
  BY DEF NextData, Table, Tab, IterInv
<1>2. CASE iter.moved
  <2>1. ~ Going(iter')
    BY <1>2, MovedStays
  <2> QED
    BY <1>2, <2>1 DEF Visiting, Visits
<1>3. CASE ~ iter.moved
  <2>1. Going(iter)
    BY <1>1, <1>3 DEF Going
  <2>2. Visits(iter', buckets) /\ Exactly
    <3>1. CASE Successor(iter.cur) # NULL
      <4>1. Yield(<<"next">>, [iter EXCEPT !.cur = Successor(iter.cur)])
        BY <3>1 DEF NextData
      <4> QED
        BY <1>1, <2>1, <3>1, <4>1, VisitsSuccessor
    <3>2. CASE Successor(iter.cur) = NULL
      <4>1. Yield(<<"next">>, Move(iter, NextChain(iter.idx)))
        BY <3>2 DEF NextData
      <4> QED
        BY <1>1, <2>1, <3>2, <4>1, VisitsChainEnd
    <3> QED
      BY <3>1, <3>2
  <2> QED
    BY <1>1, <2>2 DEF Visiting
<1> QED
  BY <1>2, <1>3

LEMMA VisitsStep ==
  ASSUME HInv, Visiting, [Next]_vars
  PROVE  Visiting'
<1>1. Misc /\ (Running \/ status = "copying" => Tab)
  BY DEF HInv, Running
<1>2. ASSUME UNCHANGED <<buckets, iter>> PROVE Visiting'
  BY <1>2 DEF Visiting
<1>3. ASSUME iter' = Idle PROVE Visiting'
  BY <1>3 DEF Visiting, Visits, Going, Idle
<1>4. CASE NextData
  BY <1>1, <1>4, VisitsNext DEF NextData
<1>5. ASSUME NEW key \in Keys, NEW d \in Data, Tab, Add(key, d) \/ Replace(key, d)
      PROVE  Visiting'
  BY <1>1, <1>5, VisitsAdded, VisitsReplaced
<1>6. CASE Tabular
  <2>1. ASSUME NEW key \in Keys, Delete(key) PROVE Visiting'
    <3>1. Tab
      BY <1>1, <2>1 DEF Delete
    <3> QED
      BY <1>1, <2>1, <3>1, VisitsDeleted
  <2>2. ASSUME NEW key \in Keys, NEW d \in Data, Put(key, d) PROVE Visiting'
    <3>1. Tab /\ (Add(key, d) \/ Replace(key, d))
      BY <1>1, <2>2 DEF Put
    <3> QED
      BY <1>5, <3>1
  <2>3. CASE Clear
    BY <1>1, <2>3, VisitsCleared DEF Clear
  <2>4. CASE Rehash
    <3>1. Tab
      BY <1>1, <2>4 DEF Rehash
    <3> QED
      BY <1>1, <2>4, <3>1, VisitsRehashed
  <2>5. ASSUME NEW ff \in BOOLEAN, NEW ks \in SUBSET StoredKeys, ForeachRemove(ks, ff)
        PROVE  Visiting'
    <3>1. Tab
      BY <1>1, <2>5 DEF ForeachRemove
    <3> QED
      BY <1>1, <2>5, <3>1, VisitsRemoved
  <2>6. ASSUME NEW f \in Hashes, SetHash(f) PROVE Visiting'
    BY <1>2, <2>6 DEF SetHash, Table
  <2>7. ASSUME NEW f \in Toggled, SetFlag(f) PROVE Visiting'
    BY <1>2, <2>7 DEF SetFlag, Table
  <2>8. ASSUME NEW t \in Thresholds, SetThresholds(t) PROVE Visiting'
    BY <1>2, <2>8 DEF SetThresholds, Table
  <2> QED
    BY <1>6, <2>1, <2>2, <2>3, <2>4, <2>5, <2>6, <2>7, <2>8 DEF Tabular
<1>7. CASE Reading
  <2>1. ASSUME NEW key \in Keys, Get(key) PROVE Visiting'
    BY <1>2, <2>1 DEF Get, Table
  <2>2. CASE KeysData
    BY <1>2, <2>2 DEF KeysData, Table
  <2>3. CASE EachData
    BY <1>1, <2>3, VisitsStarted DEF EachData
  <2>4. CASE NextFreed
    BY <1>2, <2>4 DEF NextFreed, Table
  <2> QED
    BY <1>4, <1>7, <2>1, <2>2, <2>3, <2>4 DEF Reading
<1>8. ASSUME NEW src \in Lists, Copy(src) PROVE Visiting'
  BY <1>2, <1>8 DEF Copy, Table
<1>9. ASSUME NEW src \in Lists, NEW o \in Options, Merge(src, o) PROVE Visiting'
  BY <1>3, <1>9 DEF Merge
<1>10. CASE CopyNext
  <2>1. PICK e : e = Head(copy.todo)
    OBVIOUS
  <2>2. e.key \in Keys /\ e.data \in Data
    <3>1. copy.todo \in Seq(Entry) /\ copy.todo # <<>>
      BY <1>10 DEF HInv, CopyInv, CopyNext
    <3>2. e \in Entry
      BY <2>1, <3>1
    <3> QED
      BY <3>2 DEF Entry
  <2>3. Tab /\ (Add(e.key, e.data) \/ Replace(e.key, e.data))
    BY <1>1, <1>10, <2>1 DEF CopyNext
  <2> QED
    BY <1>5, <2>2, <2>3
<1>11. ASSUME NEW ff \in BOOLEAN, Destroy(ff) PROVE Visiting'
  BY <1>3, <1>11 DEF Destroy
<1>12. CASE UNCHANGED vars
  BY <1>2, <1>12 DEF vars
<1> QED
  BY <1>6, <1>7, <1>8, <1>9, <1>10, <1>11, <1>12, NextCases

LEMMA VisitsInit == Init => Visiting
  BY DEF Init, Visiting, Visits, Going, Idle

(* An iteration returns every entry that is there all the time exactly     *)
(* once, unless the table is resized meanwhile: puts go to the front of a  *)
(* chain, and removals leave the others in their order.                    *)
THEOREM IterationsAreExact == Spec => IterationExact
<1>1. HInv /\ Visiting /\ [Next]_vars => Visiting'
  BY VisitsStep
<1>2. HInv /\ Visiting /\ [Next]_vars =>
        [NextData /\ ~ iter.moved =>
           IF res'.found THEN iter'.cur \notin iter.seen ELSE iter.since = iter.seen]_vars
  BY VisitsNext DEF Exactly, HInv, NextData, Running
<1> QED
  BY <1>1, <1>2, VisitsInit, Invariant, PTL DEF Spec, IterationExact

-----------------------------------------------------------------------------
(* The load, with thresholds that are far apart, such as those a table is  *)
(* made with: 0.25 and 0.75.                                               *)

Loaded(n, m) == 4 * n <= high * m /\ low * m <= 4 * n

FarApart(l, h) == l \in Nat /\ h \in 1..4 /\ 3 * l <= h /\ h + l <= 4

LEMMA SizeFits ==
  ASSUME FarApart(low, high), NEW n \in Nat, n >= 1
  PROVE  NewSize(n) \in Nat /\ Loaded(n, NewSize(n))
<1> DEFINE size == (4 * 2 * n) \div (high + low)
<1>1. (low = 0 /\ high \in {1, 2, 3, 4}) \/ (low = 1 /\ high = 3)
  BY DEF FarApart
<1>2. /\ size \in Nat /\ size >= 1
      /\ 4 * n <= high * size /\ low * (2 * size) <= 4 * n
  <2>1. CASE low = 0 /\ high = 1
    BY <2>1
  <2>2. CASE low = 0 /\ high = 2
    BY <2>2
  <2>3. CASE low = 0 /\ high = 3
    BY <2>3
  <2>4. CASE low = 0 /\ high = 4
    BY <2>4
  <2>5. CASE low = 1 /\ high = 3
    BY <2>5
  <2> QED
    BY <1>1, <2>1, <2>2, <2>3, <2>4, <2>5
<1>3. NewSize(n) = HashSize(size)
  BY DEF NewSize
<1> HIDE DEF size
<1> DEFINE m == HashSize(size)
<1>4. m \in Nat /\ m >= size /\ m < 2 * size
  BY <1>2, HashSizeFacts, HashSizeTight
<1> HIDE DEF m
<1>5. 4 * n <= high * m /\ low * m <= 4 * n
  BY <1>1, <1>2, <1>4
<1> QED
  BY <1>3, <1>4, <1>5 DEF Loaded, m

LEMMA ResizeLoads ==
  ASSUME FarApart(low, high), NEW n \in Nat, n >= 1,
         NEW bs, Len(bs) \in Nat, NEW when, Resize(bs, n, when)
  PROVE  /\ Num(buckets') \in Nat
         /\ Num(buckets') # Num(bs) => Loaded(n, Num(buckets'))
         /\ IF when THEN Loaded(n, Num(buckets')) ELSE Num(buckets') = Num(bs)
<1>1. buckets' = IF when THEN Rehashed(bs, n) ELSE bs
  BY DEF Resize
<1>2. NewSize(n) \in Nat /\ Loaded(n, NewSize(n))
  BY SizeFits
<1>3. Len(Rehashed(bs, n)) = NewSize(n)
  <2> DEFINE size == NewSize(n)
             all == FlattenSeq(bs)
             cs == [b \in 1..size |->
                      Reverse(Chosen(all, {e \in Range(all) : NewSlot(e, size) = b}))]
  <2>1. Rehashed(bs, n) = IF size = Len(bs) THEN bs ELSE cs
    BY DEF Rehashed, Num
  <2>2. Len(cs) = size
    <3> HIDE DEF size, all
    <3>1. size \in Nat
      BY <1>2 DEF size
    <3> QED
      BY <3>1
  <2> HIDE DEF cs
  <2> QED
    BY <2>1, <2>2
<1> QED
  BY <1>1, <1>2, <1>3 DEF Num

LoadStep ==
  /\ entries' > entries /\ "FROZEN" \notin flags => 4 * entries' <= high * Num(buckets')
  /\ Running' /\ Num(buckets') # Num(buckets) /\ entries' # 0 =>
       /\ 4 * entries' <= high * Num(buckets')
       /\ low * Num(buckets') <= 4 * entries'

LEMMA AddLoads ==
  ASSUME Misc, Tab, FarApart(low, high), NEW key, NEW d, Add(key, d)
  PROVE  LoadStep
<1> DEFINE added == [buckets EXCEPT ![Slot(key, Num(buckets))] =
                       <<[key |-> key, data |-> d]>> \o @]
           when == "FROZEN" \notin flags /\ 4 * (entries + 1) > high * Num(added)
           n == entries + 1
<1>1. Resize(added, n, when) /\ entries' = n
  BY DEF Add
<1>2. entries \in Nat /\ n \in Nat /\ n >= 1 /\ buckets \in Seq(Seq(Entry)) /\ Len(buckets) \in Nat
  BY DEF Misc, Tab, Built, IsSize
<1>3. Len(added) = Len(buckets)
  BY <1>2
<1> HIDE DEF added
<1>4. /\ Num(buckets') \in Nat
      /\ Num(buckets') # Num(added) => Loaded(n, Num(buckets'))
      /\ IF when THEN Loaded(n, Num(buckets')) ELSE Num(buckets') = Num(added)
  <2> HIDE DEF when, n
  <2> QED
    BY <1>1, <1>2, <1>3, ResizeLoads
<1>5. CASE when
  BY <1>1, <1>4, <1>5 DEF LoadStep, Loaded
<1>6. CASE ~ when
  BY <1>1, <1>2, <1>3, <1>4, <1>6 DEF LoadStep, Loaded, Num, FarApart
<1> QED
  BY <1>5, <1>6

(* No entry is added, and the table is resized for those there are. *)
LEMMA LessLoads ==
  ASSUME FarApart(low, high), entries \in Nat, entries' \in Nat, entries' <= entries,
         NEW bs, Len(bs) \in Nat, Len(bs) = Len(buckets), NEW when, Resize(bs, entries', when)
  PROVE  LoadStep
<1>1. ASSUME entries' # 0, Num(buckets') # Num(buckets)
      PROVE  Loaded(entries', Num(buckets'))
  <2>1. PICK n : n = entries'
    OBVIOUS
  <2>2. n \in Nat /\ n >= 1 /\ Resize(bs, n, when)
    BY <1>1, <2>1
  <2>3. Num(buckets') # Num(bs) => Loaded(n, Num(buckets'))
    BY <2>2, ResizeLoads
  <2> QED
    BY <1>1, <2>1, <2>3 DEF Num
<1>2. ~ (entries' > entries)
  OBVIOUS
<1> QED
  BY <1>1, <1>2 DEF LoadStep, Loaded

LEMMA SameLoads ==
  ASSUME entries \in Nat, UNCHANGED entries, Len(buckets') = Len(buckets)
  PROVE  LoadStep
  BY DEF LoadStep, Num

LEMMA ZeroLoads ==
  ASSUME entries \in Nat, entries' = 0
  PROVE  LoadStep
  BY DEF LoadStep

LEMMA TabularLoads ==
  ASSUME HInv, FarApart(low, high), Tabular
  PROVE  LoadStep
<1>1. Misc /\ Tab /\ Misc'
  <2>1. Misc /\ (status = "running" => Tab)
    BY DEF HInv
  <2>2. Tab
    BY <2>1 DEF Tabular, Running, Delete, Put, Clear, Rehash, ForeachRemove, SetHash,
       SetFlag, SetThresholds
  <2> QED
    BY <2>1, <2>2, TabularStep
<1>2. /\ entries \in Nat /\ entries' \in Nat
      /\ buckets \in Seq(Seq(Entry)) /\ Len(buckets) \in Nat
  BY <1>1 DEF Misc, Tab, Built, IsSize
<1>3. ASSUME NEW key \in Keys, Delete(key) PROVE LoadStep
  <2> DEFINE b == Slot(key, Num(buckets))
             i == Find(key)
             left == IF i = 0 THEN buckets ELSE [buckets EXCEPT ![b] = RemoveAt(@, i)]
  <2>1. Shrink(left, entries', i # 0) /\ entries' = EntriesLeft(i # 0)
    BY <1>3 DEF Delete
  <2>2. Len(left) = Len(buckets)
    BY <1>2
  <2>3. entries' <= entries
    BY <1>2, <2>1 DEF EntriesLeft
  <2> HIDE DEF left
  <2> QED
    BY <1>2, <2>1, <2>2, <2>3, LessLoads DEF Shrink
<1>4. ASSUME NEW key \in Keys, NEW d \in Data, Put(key, d) PROVE LoadStep
  <2>1. ASSUME Replace(key, d) PROVE LoadStep
    <3>1. entries' = entries /\ Len(buckets') = Len(buckets)
      BY <1>2, <2>1 DEF Replace
    <3> QED
      BY <1>2, <3>1, SameLoads
  <2> QED
    BY <1>1, <1>4, <2>1, AddLoads DEF Put
<1>5. CASE Clear
  BY <1>2, <1>5, ZeroLoads DEF Clear
<1>6. CASE Rehash
  <2>1. PICK n : n = entries
    OBVIOUS
  <2>2. entries' = n /\ n \in Nat /\ Resize(buckets, n, TRUE)
    BY <1>2, <1>6, <2>1 DEF Rehash
  <2>3. n >= 1 /\ Num(buckets') # Num(buckets) => Loaded(n, Num(buckets'))
    BY <1>2, <2>2, ResizeLoads
  <2> QED
    BY <2>1, <2>2, <2>3 DEF LoadStep, Loaded
<1>7. ASSUME NEW ff \in BOOLEAN, NEW ks \in SUBSET StoredKeys, ForeachRemove(ks, ff)
      PROVE  LoadStep
  <2>1. entries' = entries /\ Len(buckets') = Len(buckets)
    BY <1>2, <1>7 DEF ForeachRemove, Num
  <2> QED
    BY <1>2, <2>1, SameLoads
<1>8. ASSUME Table PROVE LoadStep
  BY <1>2, <1>8, SameLoads DEF Table
<1> QED
  BY <1>3, <1>4, <1>5, <1>6, <1>7, <1>8 DEF Tabular, SetHash, SetFlag, SetThresholds

LEMMA LoadsStep ==
  ASSUME HInv, FarApart(low, high), [Next]_vars
  PROVE  LoadStep \/ UNCHANGED vars
<1>1. entries \in Nat /\ Misc /\ (Running \/ status = "copying" => Tab)
  BY DEF HInv, Misc, Running
<1>2. ASSUME Table PROVE LoadStep
  BY <1>1, <1>2, SameLoads DEF Table
<1>3. CASE Tabular
  BY <1>3, TabularLoads
<1>4. CASE Reading
  BY <1>2, <1>4 DEF Reading, Get, KeysData, EachData, NextData, NextFreed
<1>5. ASSUME NEW src \in Lists, Copy(src) PROVE LoadStep
  BY <1>2, <1>5 DEF Copy
<1>6. ASSUME NEW src \in Lists, NEW o \in Options, Merge(src, o) PROVE LoadStep
  BY <1>1, <1>6, ZeroLoads DEF Merge
<1>7. CASE CopyNext
  <2>1. PICK e : e = Head(copy.todo)
    OBVIOUS
  <2>2. Tab /\ (Add(e.key, e.data) \/ Replace(e.key, e.data))
    BY <1>1, <1>7, <2>1 DEF CopyNext
  <2>3. ASSUME Replace(e.key, e.data) PROVE LoadStep
    <3>1. buckets \in Seq(Seq(Entry))
      BY <2>2 DEF Tab, Built
    <3>2. entries' = entries /\ Len(buckets') = Len(buckets)
      BY <2>3, <3>1 DEF Replace
    <3> QED
      BY <1>1, <3>2, SameLoads
  <2> QED
    BY <1>1, <2>2, <2>3, AddLoads
<1>8. ASSUME NEW ff \in BOOLEAN, Destroy(ff) PROVE LoadStep
  BY <1>1, <1>8 DEF Destroy, LoadStep, Running
<1> QED
  BY <1>3, <1>4, <1>5, <1>6, <1>7, <1>8, NextCases

LEMMA FarApartStay ==
  ASSUME \A t \in Thresholds : FarApart(t[1], t[2]), FarApart(low, high), [Next]_vars
  PROVE  FarApart(low, high)'
<1>1. ASSUME UNCHANGED <<low, high>> PROVE FarApart(low, high)'
  BY <1>1 DEF FarApart
<1>2. ASSUME NEW key, NEW d, Add(key, d) \/ Replace(key, d) PROVE FarApart(low, high)'
  BY <1>1, <1>2 DEF Add, Replace, Tuning
<1>3. CASE Tabular
  <2>1. ASSUME NEW t \in Thresholds, SetThresholds(t) PROVE FarApart(low, high)'
    <3>1. UNCHANGED <<low, high>> \/ (low' = t[1] /\ high' = t[2])
      <4>1. t[1] \in Nat /\ t[2] \in 1..4
        BY DEF FarApart
      <4>2. ~ (t[1] < 0) /\ ~ (t[2] < 0)
        BY <4>1
      <4> QED
        BY <2>1, <4>2 DEF SetThresholds
    <3> QED
      BY <1>1, <3>1 DEF FarApart
  <2> QED
    BY <1>1, <1>2, <1>3, <2>1 DEF Tabular, Delete, Put, Clear, Rehash, ForeachRemove, SetHash,
       SetFlag, Tuning
<1>4. CASE Reading
  BY <1>1, <1>4 DEF Reading, Get, KeysData, EachData, NextData, NextFreed, Tuning
<1>5. ASSUME NEW src \in Lists, Copy(src) PROVE FarApart(low, high)'
  BY <1>1, <1>5 DEF Copy, Tuning
<1>6. ASSUME NEW src \in Lists, NEW o \in Options, Merge(src, o) PROVE FarApart(low, high)'
  BY <1>6 DEF Merge, FarApart
<1>7. CASE CopyNext
  BY <1>2, <1>7 DEF CopyNext
<1>8. ASSUME NEW ff \in BOOLEAN, Destroy(ff) PROVE FarApart(low, high)'
  BY <1>1, <1>8 DEF Destroy, Tuning
<1>9. CASE UNCHANGED vars
  BY <1>1, <1>9 DEF vars
<1> QED
  BY <1>3, <1>4, <1>5, <1>6, <1>7, <1>8, <1>9, NextCases

(* A table that is only given thresholds far apart, or none, as in lilc    *)
(* (those it is made with are far apart), has a load between them after a  *)
(* call that adds an entry or resizes it: hash_size makes it neither too   *)
(* small nor twice as large as asked.                                      *)
THEOREM LoadIsKept ==
  ASSUME \A t \in Thresholds : FarApart(t[1], t[2])
  PROVE  Spec => LoadKept
<1>1. Init => FarApart(low, high)
  BY DEF Init, FarApart
<1>2. FarApart(low, high) /\ [Next]_vars => FarApart(low, high)'
  BY FarApartStay
<1>3. HInv /\ FarApart(low, high) /\ [Next]_vars =>
        [/\ entries' > entries /\ "FROZEN" \notin flags => 4 * entries' <= high * Num(buckets')
         /\ Running' /\ Num(buckets') # Num(buckets) /\ entries' # 0 =>
              /\ 4 * entries' <= high * Num(buckets')
              /\ low * Num(buckets') <= 4 * entries'
        ]_vars
  BY LoadsStep DEF LoadStep
<1> QED
  BY <1>1, <1>2, <1>3, Invariant, PTL DEF Spec, LoadKept
=============================================================================
