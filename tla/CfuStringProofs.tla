--------------------------- MODULE CfuStringProofs --------------------------
(***************************************************************************)
(* Proofs about CfuString, for all texts, sizes, separators, limits and    *)
(* formats: the buffer holds the text, a string implements Text, and the   *)
(* formats that are supported print what they should.                      *)
(***************************************************************************)
EXTENDS CfuString, SequenceTheorems, NatLemmas, TLAPS

Cell == Char \cup {NUL, Garbage}

LEMMA CharFacts ==
  /\ NUL \notin Char /\ Char \subseteq Cell
  /\ Seq(Char) \subseteq Seq(Cell) /\ NULL \notin Seq(Cell) /\ NULL \notin Seq(Char)
<1>1. NUL \notin Char /\ NULL \notin Seq(Cell) /\ Char \subseteq Cell
  BY CfuStringAssumption DEF Cell
<1>2. Seq(Char) \subseteq Seq(Cell)
  BY <1>1, SeqMonotonic
<1> QED
  BY <1>1, <1>2

-----------------------------------------------------------------------------
(* The buffer.                                                             *)

Ends(cells, n) ==
  /\ n \in 1..Len(cells) /\ cells[n] = NUL
  /\ \A i \in 1..(n - 1) : cells[i] \in Char

(* The memory and the size in use are those of a text. *)
Sound(s) ==
  \/ s = NoString
  \/ /\ s \in [str: Seq(Cell), max_size: Nat, used_size: Nat]
     /\ Len(s.str) = s.max_size
     /\ Ends(s.str, s.used_size)

TextOf(s) == IF s.str = NULL THEN NULL ELSE Read(s.str)

LEMMA ReadUpTo ==
  ASSUME NEW cells \in Seq(Cell), NEW n, Ends(cells, n)
  PROVE  /\ Read(cells) = SubSeq(cells, 1, n - 1)
         /\ Read(cells) \in Seq(Char) /\ Len(Read(cells)) = n - 1
         /\ \A i \in 1..(n - 1) : Read(cells)[i] = cells[i]
<1> DEFINE ends == {i \in 1..Len(cells) : cells[i] = NUL}
<1>1. n \in Nat /\ n >= 1 /\ n <= Len(cells) /\ Len(cells) \in Nat
  BY DEF Ends
<1>2. n \in ends /\ \A i \in ends : i >= n
  BY <1>1, CharFacts DEF Ends
<1>3. Min(ends) = n
  BY <1>1, <1>2 DEF Min
<1>4. Read(cells) = SubSeq(cells, 1, n - 1)
  BY <1>2, <1>3 DEF Read
<1>5. SubSeq(cells, 1, n - 1) \in Seq(Cell) /\ Len(SubSeq(cells, 1, n - 1)) = n - 1
  BY <1>1
<1>6. \A i \in 1..(n - 1) : SubSeq(cells, 1, n - 1)[i] = cells[i]
  BY <1>1
<1>7. SubSeq(cells, 1, n - 1) \in Seq(Char)
  BY <1>1, <1>5, <1>6 DEF Ends
<1> QED
  BY <1>4, <1>5, <1>6, <1>7

LEMMA SoundText ==
  ASSUME NEW s, Sound(s)
  PROVE  /\ s.str = NULL => s = NoString /\ TextOf(s) = NULL
         /\ s.str # NULL => /\ s \in [str: Seq(Cell), max_size: Nat, used_size: Nat]
                            /\ Ends(s.str, s.used_size) /\ Len(s.str) = s.max_size
                            /\ TextOf(s) = Read(s.str)
                            /\ TextOf(s) \in Seq(Char) /\ TextOf(s) # NULL
                            /\ Len(TextOf(s)) = s.used_size - 1
                            /\ \A i \in 1..(s.used_size - 1) : TextOf(s)[i] = s.str[i]
<1>1. CASE s = NoString
  BY <1>1 DEF NoString, String, TextOf
<1>2. CASE s # NoString
  <2>1. /\ s \in [str: Seq(Cell), max_size: Nat, used_size: Nat]
        /\ Len(s.str) = s.max_size /\ Ends(s.str, s.used_size)
    BY <1>2 DEF Sound
  <2>2. s.str # NULL
    BY <2>1, CharFacts
  <2>3. TextOf(s) = Read(s.str)
    BY <2>2 DEF TextOf
  <2>4. /\ Read(s.str) \in Seq(Char) /\ Len(Read(s.str)) = s.used_size - 1
        /\ \A i \in 1..(s.used_size - 1) : Read(s.str)[i] = s.str[i]
    BY <2>1, ReadUpTo
  <2>5. Read(s.str) # NULL
    BY <2>4, CharFacts
  <2> QED
    BY <2>1, <2>2, <2>3, <2>4, <2>5
<1> QED
  BY <1>1, <1>2

LEMMA FilledIs ==
  ASSUME NEW n \in Nat, NEW S, NEW c \in S
  PROVE  /\ Filled(n, c) \in Seq(S) /\ Len(Filled(n, c)) = n
         /\ \A i \in 1..n : Filled(n, c)[i] = c
<1>1. Filled(n, c) = [i \in 1..n |-> c]
  BY DEF Filled
<1>2. [i \in 1..n |-> c] \in [1..n -> S]
  OBVIOUS
<1> QED
  BY <1>1, <1>2, IsASeq

(* w is cells with t written over it. *)
IsWritten(w, cells, at, t) ==
  /\ w \in Seq(Cell) /\ Len(w) = Len(cells)
  /\ \A i \in 1..Len(cells) :
       w[i] = IF i \in at..(at + Len(t) - 1) THEN t[i - at + 1] ELSE cells[i]

LEMMA WrittenIs ==
  ASSUME NEW cells \in Seq(Cell), NEW at \in Nat, NEW t \in Seq(Cell),
         at >= 1, at + Len(t) - 1 <= Len(cells)
  PROVE  IsWritten(Written(cells, at, t), cells, at, t)
<1> DEFINE n == Len(cells)
           f == [i \in 1..n |->
                   IF i \in at..(at + Len(t) - 1) THEN t[i - at + 1] ELSE cells[i]]
<1>1. n \in Nat /\ Len(t) \in Nat
  OBVIOUS
<1>2. Max({n, at + Len(t) - 1}) = n
  BY <1>1 DEF Max
<1>3. Written(cells, at, t) = f
  BY <1>2 DEF Written
<1>4. ASSUME NEW i \in 1..n
      PROVE  (IF i \in at..(at + Len(t) - 1) THEN t[i - at + 1] ELSE cells[i]) \in Cell
  <2>1. CASE i \in at..(at + Len(t) - 1)
    <3>1. i - at + 1 \in 1..Len(t)
      BY <1>1, <2>1
    <3> QED
      BY <2>1, <3>1
  <2>2. CASE i \notin at..(at + Len(t) - 1)
    BY <2>2
  <2> QED
    BY <2>1, <2>2
<1>5. f \in [1..n -> Cell]
  BY <1>4
<1>6. f \in Seq(Cell) /\ Len(f) = n
  BY <1>1, <1>5, IsASeq
<1> QED
  BY <1>3, <1>6 DEF IsWritten

LEMMA CreatedSound ==
  ASSUME NEW n \in Nat
  PROVE  Sound(Created(n)) /\ TextOf(Created(n)) = IF n = 0 THEN NULL ELSE <<>>
<1>1. CASE n = 0
  BY <1>1 DEF Created, Sound, TextOf, NoString, String
<1>2. CASE n # 0
  <2>1. /\ Filled(n, NUL) \in Seq(Cell) /\ Len(Filled(n, NUL)) = n
        /\ \A i \in 1..n : Filled(n, NUL)[i] = NUL
    BY FilledIs DEF Cell
  <2>2. Created(n) = [str |-> Filled(n, NUL), max_size |-> n, used_size |-> 1]
    BY <1>2 DEF Created, String
  <2> DEFINE s == Created(n)
  <2>3. /\ s \in [str: Seq(Cell), max_size: Nat, used_size: Nat] /\ s.str = Filled(n, NUL)
        /\ s.max_size = n /\ s.used_size = 1
    BY <2>1, <2>2
  <2> HIDE DEF s
  <2>4. Ends(s.str, 1)
    BY <1>2, <2>1, <2>3 DEF Ends
  <2>5. Sound(s)
    BY <2>1, <2>3, <2>4 DEF Sound
  <2>6. s.str # NULL
    BY <2>3, CharFacts
  <2>7. TextOf(s) \in Seq(Char) /\ Len(TextOf(s)) = 0
    BY <2>3, <2>5, <2>6, SoundText
  <2>8. TextOf(s) = <<>>
    BY <2>7
  <2> QED
    BY <1>2, <2>5, <2>8 DEF s
<1> QED
  BY <1>1, <1>2

LEMMA ClearedSound ==
  ASSUME NEW s, Sound(s)
  PROVE  Sound(Cleared(s)) /\ TextOf(Cleared(s)) = IF s.str = NULL THEN NULL ELSE <<>>
<1>1. CASE s.str = NULL
  BY <1>1, SoundText DEF Cleared
<1>2. CASE s.str # NULL
  <2> DEFINE cells == Written(s.str, 1, <<NUL>>)
             c == Cleared(s)
  <2>1. /\ s \in [str: Seq(Cell), max_size: Nat, used_size: Nat]
        /\ Ends(s.str, s.used_size) /\ Len(s.str) = s.max_size
    BY <1>2, SoundText
  <2>2. Len(s.str) \in Nat /\ Len(s.str) >= 1
    BY <2>1 DEF Ends
  <2>3. PICK nul : nul = <<NUL>>
    OBVIOUS
  <2>4. nul \in Seq(Cell) /\ Len(nul) = 1 /\ nul[1] = NUL
    BY <2>3 DEF Cell
  <2>5. cells \in Seq(Cell) /\ Len(cells) = Len(s.str) /\ cells[1] = NUL
    <3>1. IsWritten(Written(s.str, 1, nul), s.str, 1, nul)
      BY <2>1, <2>2, <2>4, WrittenIs
    <3>2. Written(s.str, 1, nul)[1] = NUL
      BY <2>2, <2>4, <3>1 DEF IsWritten
    <3> QED
      BY <2>3, <3>1, <3>2 DEF IsWritten
  <2> HIDE DEF cells
  <2>6. c = [str |-> cells, max_size |-> s.max_size, used_size |-> 1]
    BY <1>2 DEF Cleared, String, cells
  <2>7. /\ c \in [str: Seq(Cell), max_size: Nat, used_size: Nat] /\ c.str = cells
        /\ c.max_size = s.max_size /\ c.used_size = 1
    BY <2>1, <2>5, <2>6
  <2> HIDE DEF c
  <2>8. Ends(c.str, 1)
    BY <2>2, <2>5, <2>7 DEF Ends
  <2>9. Sound(c)
    BY <2>1, <2>5, <2>7, <2>8 DEF Sound
  <2>10. TextOf(c) \in Seq(Char) /\ Len(TextOf(c)) = 0
    BY <2>5, <2>7, <2>9, SoundText, CharFacts
  <2> QED
    BY <1>2, <2>9, <2>10 DEF c
<1> QED
  BY <1>1, <1>2

(* cfustring_append_n once there is a buffer. *)
Grown(d, t) ==
  LET need == Need(d.used_size, Len(t))
      size == IF need > d.max_size THEN Doubled(d.max_size, need) ELSE d.max_size
      cells == IF need > d.max_size
                 THEN Written(Filled(size, Garbage), 1, SubSeq(d.str, 1, d.used_size))
                 ELSE d.str
  IN String(Written(cells, d.used_size, t \o <<NUL>>), size, d.used_size + Len(t))

Fresh(n) == String(Written(Filled(n, Garbage), 1, <<NUL>>), n, 1)

LEMMA FreshSound ==
  ASSUME NEW n \in Nat, n >= 1
  PROVE  Sound(Fresh(n)) /\ Fresh(n).str # NULL /\ TextOf(Fresh(n)) = <<>>
<1>1. PICK nul : nul = <<NUL>>
  OBVIOUS
<1>2. nul \in Seq(Cell) /\ Len(nul) = 1 /\ nul[1] = NUL
  BY <1>1 DEF Cell
<1>3. Filled(n, Garbage) \in Seq(Cell) /\ Len(Filled(n, Garbage)) = n
  BY FilledIs DEF Cell
<1>4. PICK w : w = Written(Filled(n, Garbage), 1, nul)
  OBVIOUS
<1>5. IsWritten(w, Filled(n, Garbage), 1, nul)
  BY <1>2, <1>3, <1>4, WrittenIs
<1>6. w \in Seq(Cell) /\ Len(w) = n /\ w[1] = NUL
  BY <1>2, <1>3, <1>5 DEF IsWritten
<1>7. PICK s : s = Fresh(n)
  OBVIOUS
<1>8. s = [str |-> w, max_size |-> n, used_size |-> 1]
  BY <1>1, <1>4, <1>7 DEF Fresh, String
<1>9. Sound(s)
  BY <1>6, <1>8 DEF Sound, Ends
<1>10. s.str # NULL
  BY <1>6, <1>8, CharFacts
<1>11. TextOf(s) \in Seq(Char) /\ Len(TextOf(s)) = 0
  BY <1>8, <1>9, <1>10, SoundText
<1> QED
  BY <1>7, <1>9, <1>10, <1>11

LEMMA GrownSound ==
  ASSUME NEW d, Sound(d), d.str # NULL, NEW t \in Seq(Char)
  PROVE  /\ Sound(Grown(d, t)) /\ Grown(d, t).str # NULL
         /\ TextOf(Grown(d, t)) = TextOf(d) \o t
<1>1. PICK used, max, n, str, old :
        used = d.used_size /\ max = d.max_size /\ n = Len(t) /\ str = d.str /\ old = TextOf(d)
  OBVIOUS
<1>2. /\ str \in Seq(Cell) /\ Len(str) = max /\ Ends(str, used)
      /\ old \in Seq(Char) /\ Len(old) = used - 1
      /\ \A i \in 1..(used - 1) : old[i] = str[i]
      /\ max \in Nat
  BY <1>1, SoundText
<1>3. /\ used \in Nat /\ used >= 1 /\ used <= max /\ str[used] = NUL
      /\ \A i \in 1..(used - 1) : str[i] \in Char
  BY <1>2 DEF Ends
<1>4. n \in Nat
  BY <1>1
<1> DEFINE need == used + n + 1
<1>5. PICK size : size = IF need > max THEN Doubled(max, need) ELSE max
  OBVIOUS
<1>6. size \in Nat /\ size >= used + n
  <2>1. CASE need > max
    <3>1. size = IF 2 * max >= need THEN 2 * max ELSE need
      BY <1>5, <2>1 DEF Doubled
    <3>2. CASE 2 * max >= need
      BY <1>2, <1>3, <1>4, <3>1, <3>2
    <3>3. CASE ~ (2 * max >= need)
      BY <1>2, <1>3, <1>4, <3>1, <3>3
    <3> QED
      BY <3>2, <3>3
  <2>2. CASE ~ (need > max)
    BY <1>2, <1>3, <1>4, <1>5, <2>2
  <2> QED
    BY <2>1, <2>2
<1>7. PICK cells :
        cells = IF need > max
                  THEN Written(Filled(size, Garbage), 1, SubSeq(str, 1, used)) ELSE str
  OBVIOUS
<1>8. /\ cells \in Seq(Cell) /\ Len(cells) = size
      /\ \A i \in 1..used : cells[i] = str[i]
  <2>1. CASE need > max
    <3>1. PICK kept : kept = SubSeq(str, 1, used)
      OBVIOUS
    <3>2. /\ kept \in Seq(Cell) /\ Len(kept) = used
          /\ \A i \in 1..used : kept[i] = str[i]
      BY <1>2, <1>3, <3>1
    <3>3. PICK raw : raw = Filled(size, Garbage)
      OBVIOUS
    <3>4. raw \in Seq(Cell) /\ Len(raw) = size
      BY <1>6, <3>3, FilledIs DEF Cell
    <3>5. cells = Written(raw, 1, kept)
      BY <1>7, <2>1, <3>1, <3>3
    <3>6. IsWritten(cells, raw, 1, kept)
      BY <1>3, <1>4, <1>6, <3>2, <3>4, <3>5, WrittenIs
    <3>7. \A i \in 1..used : cells[i] = kept[i]
      BY <1>3, <1>4, <1>6, <3>2, <3>4, <3>6 DEF IsWritten
    <3> QED
      BY <3>2, <3>4, <3>6, <3>7 DEF IsWritten
  <2>2. CASE ~ (need > max)
    BY <1>2, <1>3, <1>5, <1>7, <2>2
  <2> QED
    BY <2>1, <2>2
<1>9. PICK line : line = t \o <<NUL>>
  OBVIOUS
<1>10. /\ line \in Seq(Cell) /\ Len(line) = n + 1 /\ line[n + 1] = NUL
       /\ \A i \in 1..n : line[i] = t[i]
  BY <1>1, <1>4, <1>9, CharFacts DEF Cell
<1>11. PICK w : w = Written(cells, used, line)
  OBVIOUS
<1>12. IsWritten(w, cells, used, line)
  BY <1>3, <1>4, <1>6, <1>8, <1>10, <1>11, WrittenIs
<1>13. w \in Seq(Cell) /\ Len(w) = size
  BY <1>8, <1>12 DEF IsWritten
<1>14. \A i \in 1..size : w[i] = IF i \in used..(used + n) THEN line[i - used + 1] ELSE cells[i]
  <2>1. used + Len(line) - 1 = used + n
    BY <1>3, <1>4, <1>10
  <2> QED
    BY <1>8, <1>12, <2>1 DEF IsWritten
<1>15. w[used + n] = NUL
  <2>1. used + n \in 1..size /\ used + n \in used..(used + n) /\ used + n - used + 1 = n + 1
    BY <1>3, <1>4, <1>6
  <2> QED
    BY <1>3, <1>4, <1>6, <1>10, <1>14, <2>1
<1>16. \A i \in 1..(used - 1) : w[i] = old[i]
  <2> TAKE i \in 1..(used - 1)
  <2>1. i \in 1..size /\ i \notin used..(used + n) /\ i \in 1..used
    BY <1>3, <1>4, <1>6
  <2>2. w[i] = cells[i]
    BY <1>14, <2>1
  <2> QED
    BY <1>2, <1>8, <2>1, <2>2
<1>17. \A i \in used..(used + n - 1) : i - used + 1 \in 1..n /\ w[i] = t[i - used + 1]
  <2> TAKE i \in used..(used + n - 1)
  <2>1. i \in 1..size /\ i \in used..(used + n) /\ i - used + 1 \in 1..n
    BY <1>3, <1>4, <1>6
  <2>2. w[i] = line[i - used + 1]
    BY <1>14, <2>1
  <2> QED
    BY <1>10, <2>1, <2>2
<1>18. PICK s : s = Grown(d, t)
  OBVIOUS
<1>19. s = [str |-> w, max_size |-> size, used_size |-> used + n]
  BY <1>1, <1>5, <1>7, <1>9, <1>11, <1>18 DEF Grown, String, Need
<1>20. /\ s \in [str: Seq(Cell), max_size: Nat, used_size: Nat]
       /\ s.str = w /\ s.max_size = size /\ s.used_size = used + n
  BY <1>3, <1>4, <1>6, <1>13, <1>19
<1>21. Ends(w, used + n)
  <2>1. ASSUME NEW i \in 1..(used + n - 1) PROVE w[i] \in Char
    <3>1. CASE i < used
      <4>1. i \in 1..(used - 1)
        BY <1>3, <1>4, <3>1
      <4> QED
        BY <1>2, <1>16, <4>1
    <3>2. CASE i >= used
      <4>1. i \in used..(used + n - 1)
        BY <1>3, <1>4, <3>2
      <4>2. w[i] = t[i - used + 1] /\ i - used + 1 \in 1..Len(t)
        BY <1>1, <1>17, <4>1
      <4> QED
        BY <4>2
    <3> QED
      BY <1>3, <1>4, <3>1, <3>2
  <2>2. used + n \in 1..Len(w)
    BY <1>3, <1>4, <1>6, <1>13
  <2> QED
    BY <1>3, <1>4, <1>15, <2>1, <2>2 DEF Ends
<1>22. Sound(s) /\ s.str # NULL
  BY <1>13, <1>20, <1>21, CharFacts DEF Sound
<1>23. PICK new : new = TextOf(s)
  OBVIOUS
<1>24. /\ new \in Seq(Char) /\ Len(new) = used + n - 1
       /\ \A i \in 1..(used + n - 1) : new[i] = w[i]
  BY SMTT(40), <1>3, <1>4, <1>20, <1>22, <1>23, SoundText
<1>25. new = old \o t
  <2>1. old \o t \in Seq(Char) /\ Len(old \o t) = Len(new)
    <3>1. Len(old \o t) = Len(old) + Len(t)
      BY <1>2, ConcatProperties
    <3> QED
      BY <1>1, <1>2, <1>3, <1>4, <1>24, <3>1, ConcatProperties
  <2>2. ASSUME NEW i \in 1..Len(new) PROVE new[i] = (old \o t)[i]
    <3>1. i \in 1..(used + n - 1) /\ i \in Nat /\ i >= 1
      BY <1>24
    <3>2. CASE i < used
      <4>1. i \in 1..(used - 1) /\ i \in 1..Len(old)
        BY <1>2, <1>3, <3>1, <3>2
      <4>2. (old \o t)[i] = old[i]
        BY <1>2, <4>1, ConcatProperties
      <4> QED
        BY <1>16, <1>24, <3>1, <4>1, <4>2
    <3>3. CASE i >= used
      <4>1. i \in used..(used + n - 1) /\ i - Len(old) = i - used + 1
        BY <1>2, <1>3, <1>4, <3>1, <3>3
      <4>2. i \in 1..(Len(old) + Len(t)) /\ ~ (i <= Len(old))
        <5>1. Len(old) = used - 1 /\ Len(t) = n /\ used \in Nat
          BY <1>1, <1>2, <1>3
        <5> QED
          BY <1>4, <3>1, <3>3, <5>1
      <4>3. (old \o t)[i] = t[i - Len(old)]
        BY <1>2, <4>2, ConcatProperties
      <4> QED
        BY <1>17, <1>24, <3>1, <4>1, <4>3
    <3>4. i < used \/ i >= used
      BY <1>3, <3>1
    <3> QED
      BY <3>2, <3>3, <3>4
  <2> QED
    BY <1>24, <2>1, <2>2, SeqEqual
<1> QED
  BY <1>1, <1>18, <1>22, <1>23, <1>25

(* Whatever is appended comes behind the text, if the buffer grows or not. *)
LEMMA AppendedSound ==
  ASSUME NEW s, Sound(s), NEW t \in Seq(Char)
  PROVE  /\ Sound(Appended(s, t)) /\ Appended(s, t).str # NULL
         /\ TextOf(Appended(s, t)) = (IF TextOf(s) = NULL THEN <<>> ELSE TextOf(s)) \o t
<1>1. Len(t) \in Nat
  OBVIOUS
<1>2. CASE s.str = NULL
  <2>1. Appended(s, t) = Grown(Fresh(Len(t) + 1), t)
    BY <1>2 DEF Appended, Grown, Fresh
  <2>2. /\ Sound(Fresh(Len(t) + 1)) /\ Fresh(Len(t) + 1).str # NULL
        /\ TextOf(Fresh(Len(t) + 1)) = <<>>
    BY <1>1, FreshSound
  <2>3. PICK d : d = Fresh(Len(t) + 1)
    OBVIOUS
  <2>4. /\ Sound(Grown(d, t)) /\ Grown(d, t).str # NULL
        /\ TextOf(Grown(d, t)) = TextOf(d) \o t
    BY <2>2, <2>3, GrownSound
  <2>5. TextOf(s) = NULL
    BY <1>2, SoundText
  <2> QED
    BY <2>1, <2>2, <2>3, <2>4, <2>5
<1>3. CASE s.str # NULL
  <2>1. Appended(s, t) = Grown(s, t)
    BY <1>3 DEF Appended, Grown
  <2>2. TextOf(s) # NULL
    BY <1>3, SoundText
  <2>3. /\ Sound(Grown(s, t)) /\ Grown(s, t).str # NULL
        /\ TextOf(Grown(s, t)) = TextOf(s) \o t
    BY <1>3, GrownSound
  <2> QED
    BY <2>1, <2>2, <2>3
<1> QED
  BY <1>2, <1>3

-----------------------------------------------------------------------------
(* The arguments.                                                          *)

LEMMA Arguments ==
  /\ Strings \subseteq Seq(Char) /\ Numbers \subseteq Seq(Char) /\ <<"null">> \in Seq(Char)
  /\ FormatChar \subseteq Char /\ Seq(FormatChar) \subseteq Seq(Char)
  /\ InitialSizes \subseteq Nat /\ Counts \subseteq Nat /\ Limits \subseteq Nat
  /\ Scratch \in Nat /\ Scratch >= 1
<1>1. /\ \A t \in Texts \cup Numbers : t \in Seq(Char)
      /\ FormatChar \cup {"null"} \subseteq Char
      /\ InitialSizes \cup Counts \cup Limits \cup {MaxText, MaxFormat} \subseteq Nat
      /\ Scratch \in Nat \ {0}
  BY CfuStringAssumption
<1>2. Strings \subseteq Seq(Char)
  BY <1>1, EmptySeq DEF Strings
<1>3. Seq(FormatChar) \subseteq Seq(Char)
  BY <1>1, SeqMonotonic
<1>4. PICK null : null = "null"
  OBVIOUS
<1>5. <<null>> \in Seq(Char)
  BY <1>1, <1>4
<1> QED
  BY <1>1, <1>2, <1>3, <1>4, <1>5

LEMMA PartOf ==
  ASSUME NEW t \in Seq(Char), NEW m \in Nat, NEW n \in Nat, m >= 1, n <= Len(t)
  PROVE  SubSeq(t, m, n) \in Seq(Char)
  BY SubSeqProperties

LEMMA PrefixIs ==
  ASSUME NEW t \in Seq(Char), NEW n \in Nat
  PROVE  Prefix(t, n) \in Seq(Char)
<1>1. CASE n = 0 \/ n > Len(t)
  BY <1>1 DEF Prefix
<1>2. CASE ~ (n = 0 \/ n > Len(t))
  BY <1>2, PartOf DEF Prefix
<1> QED
  BY <1>1, <1>2

(* _safe_sprintf ends, with a buffer that is large enough. *)
LEMMA RoomFacts ==
  ASSUME NEW size \in Nat, size >= 1, NEW len \in Nat
  PROVE  Room(size, len) \in Nat /\ Room(size, len) > len + 1
<1> DEFINE all == {PowerOfTwo[k] * size : k \in 0..(len + 1)}
           rooms == {room \in all : len < room - 1}
<1>1. \A k \in Nat : PowerOfTwo[k] \in Nat /\ PowerOfTwo[k] > k /\ PowerOfTwo[k + 1] = 2 * PowerOfTwo[k]
  BY Doubles DEF PowerOfTwo
<1>2. \A a, b, c \in Nat : a >= b /\ c >= 1 => a * c \in Nat /\ a * c >= b
  OBVIOUS
<1>3. rooms \subseteq Nat
  BY <1>1
<1>4. PowerOfTwo[len + 1] * size \in rooms
  <2>1. PowerOfTwo[len + 1] \in Nat /\ PowerOfTwo[len + 1] > len + 1 /\ len + 1 \in 0..(len + 1)
    BY <1>1
  <2>2. PowerOfTwo[len + 1] * size \in Nat /\ PowerOfTwo[len + 1] * size >= len + 2
    BY <1>2, <2>1
  <2> QED
    BY <2>1, <2>2
<1>5. PICK m \in rooms : \A j \in rooms : m <= j
  <2> HIDE DEF rooms
  <2> QED
    BY <1>3, <1>4, LeastExists
<1>6. Room(size, len) = Min(rooms)
  BY DEF Room
<1>7. Min(rooms) \in rooms
  <2> HIDE DEF rooms
  <2> QED
    BY <1>5 DEF Min
<1> QED
  BY <1>3, <1>6, <1>7

-----------------------------------------------------------------------------
(* The invariant: the buffer is that of a text, also while something is    *)
(* printed into it, and the pointers into the format lie in it.            *)

Fields == {"on", "fmt", "at", "ptr", "start", "end", "size", "count", "args", "before"}

FormatInv ==
  /\ DOMAIN call = Fields /\ call.on = TRUE
  /\ call.fmt \in Seq(FormatChar) /\ call.before \in Seq(Char) \cup {NULL}
  /\ call.ptr \in Nat /\ call.end \in Nat
  /\ call.start \in Nat /\ call.start >= 1 /\ call.start <= Len(call.fmt) + 1
  /\ call.size \in Nat /\ call.size >= 1
  /\ call.at = "text" => call.end <= Len(call.fmt) \/ call.end = call.start
  /\ call.at # "text" => call.end <= Len(call.fmt) /\ call.ptr <= Len(call.fmt)

BufferInv ==
  /\ status \in {"none", "running", "formatting", "splitting", "undefined"}
  /\ Sound(cfu_str)
  /\ status = "formatting" => FormatInv

LEMMA InitBuffer == Init => BufferInv
  BY DEF Init, BufferInv, Sound

LEMMA LiteralsAre ==
  ASSUME FormatInv, call.end <= Len(call.fmt)
  PROVE  Literals(call.fmt) \in Seq(Char) /\ Len(Literals(call.fmt)) \in Nat
<1>1. /\ call.fmt \in Seq(Char) /\ call.start \in Nat /\ call.end \in Nat /\ call.start >= 1
  BY Arguments DEF FormatInv
<1>2. SubSeq(call.fmt, call.start, call.end) \in Seq(Char)
  BY <1>1, PartOf
<1> QED
  BY <1>2 DEF Literals

LEMMA FlushBuffer ==
  ASSUME BufferInv, FormatInv, status = "formatting", NEW fmt \in Seq(FormatChar),
         NEW t \in Seq(Char), Flush(fmt, t)
  PROVE  BufferInv'
<1>1. Sound(cfu_str)'
  <2>1. Sound(Appended(cfu_str, t)) /\ cfu_str' = Appended(cfu_str, t)
    BY AppendedSound DEF BufferInv, Flush
  <2> QED
    BY <2>1
<1>2. FormatInv'
  <2>1. Len(fmt) \in Nat /\ Len(t) \in Nat
    OBVIOUS
  <2>2. call' = [call EXCEPT !.fmt = fmt, !.at = "text", !.start = Len(fmt) + 1,
                   !.end = Len(fmt) + 1, !.count = @ + Len(t)]
    BY DEF Flush
  <2>3. DOMAIN call = Fields
    BY DEF FormatInv
  <2>4. DOMAIN call' = Fields
    BY <2>2, <2>3
  <2>5. /\ call'.fmt = fmt /\ call'.at = "text"
        /\ call'.start = Len(fmt) + 1 /\ call'.end = Len(fmt) + 1
        /\ call'.size = call.size /\ call'.ptr = call.ptr /\ call'.on = call.on
        /\ call'.before = call.before
    BY <2>2, <2>3 DEF Fields
  <2> QED
    BY <2>1, <2>4, <2>5 DEF FormatInv
<1> QED
  BY <1>1, <1>2 DEF BufferInv, Flush

LEMMA ConvertBuffer ==
  ASSUME BufferInv, FormatInv, status = "formatting", call.at # "text",
         NEW ch \in FormatChar, NEW due \in BOOLEAN, NEW arg \in Seq(Char),
         Convert(ch, due, arg)
  PROVE  BufferInv'
<1>1. PICK size, literals, before :
        /\ size = Room(call.size, Len(arg)) /\ literals = Literals(call.fmt)
        /\ before = IF due THEN Appended(cfu_str, literals) ELSE cfu_str
  OBVIOUS
<1>2. DOMAIN call = Fields /\ call.size >= 1 /\ call.end <= Len(call.fmt)
  BY DEF FormatInv
<1>3. call.size \in Nat /\ call.fmt \in Seq(FormatChar) /\ Len(call.fmt) \in Nat
  BY DEF FormatInv
<1>4. Len(arg) \in Nat
  OBVIOUS
<1>5. size \in Nat /\ size > Len(arg) + 1
  BY <1>1, <1>2, <1>3, <1>4, RoomFacts
<1>6. literals \in Seq(Char) /\ Len(literals) \in Nat
  BY <1>1, <1>2, LiteralsAre
<1>7. Sound(before)
  <2>1. Sound(cfu_str)
    BY DEF BufferInv
  <2> QED
    BY <1>1, <1>6, <2>1, AppendedSound
<1>8. Printed(arg, size) = arg
  BY <1>4, <1>5 DEF Printed
<1>9. cfu_str' = Appended(before, arg)
  BY <1>1, <1>8 DEF Convert
<1>10. Sound(cfu_str)'
  BY <1>7, <1>9, AppendedSound
<1>11. FormatInv'
  <2>1. PICK fmt, args, n : fmt = Append(call.fmt, ch) /\ args = Append(call.args, arg) /\
          n = call.count + Len(arg) + IF due THEN Len(literals) ELSE 0
    OBVIOUS
  <2>2. call' = [call EXCEPT !.fmt = fmt, !.at = "text", !.size = size,
                   !.start = Len(call.fmt) + 2, !.end = Len(call.fmt) + 2,
                   !.count = n, !.args = args]
    BY <1>1, <2>1 DEF Convert
  <2>3. fmt \in Seq(FormatChar) /\ Len(fmt) = Len(call.fmt) + 1
    BY <1>3, <2>1
  <2>4. DOMAIN call' = Fields
    BY <1>2, <2>2
  <2>5. /\ call'.fmt = fmt /\ call'.at = "text" /\ call'.size = size
        /\ call'.start = Len(call.fmt) + 2 /\ call'.end = Len(call.fmt) + 2
        /\ call'.ptr = call.ptr /\ call'.on = call.on /\ call'.before = call.before
    BY <1>2, <2>2 DEF Fields
  <2>6. /\ call.before \in Seq(Char) \cup {NULL} /\ call.ptr \in Nat /\ call.on = TRUE
        /\ size \in Nat /\ size >= 1
    BY <1>4, <1>5 DEF FormatInv
  <2> QED
    BY <1>3, <2>3, <2>4, <2>5, <2>6 DEF FormatInv
<1> QED
  BY <1>10, <1>11 DEF BufferInv, Convert

(* A call that leaves the string alone and does not print keeps the buffer. *)
LEMMA SameBuffer ==
  ASSUME BufferInv, UNCHANGED cfu_str,
         status' \in {"none", "running", "splitting", "undefined"}
  PROVE  BufferInv'
<1>1. Sound(cfu_str)'
  BY DEF BufferInv
<1> QED
  BY <1>1 DEF BufferInv

LEMMA FormatFacts ==
  ASSUME BufferInv, status = "formatting"
  PROVE  /\ FormatInv /\ Sound(cfu_str)
         /\ call.fmt \in Seq(FormatChar) /\ Len(call.fmt) \in Nat /\ call.start \in Nat
         /\ call.end \in Nat /\ call.ptr \in Nat /\ call.start >= 1 /\ DOMAIN call = Fields
         /\ \A ch \in FormatChar :
              /\ Append(call.fmt, ch) \in Seq(FormatChar)
              /\ Len(Append(call.fmt, ch)) = Len(call.fmt) + 1
  BY DEF BufferInv, FormatInv

LEMMA LiteralBuffer ==
  ASSUME BufferInv, Literal
  PROVE  BufferInv'
<1>1. status = "formatting" /\ call.at = "text" /\ UNCHANGED <<cfu_str, status>>
  BY DEF Literal, Reading
<1>2. PICK ch \in FormatChar :
        call' = [call EXCEPT !.fmt = Append(@, ch), !.end = Len(call.fmt) + 1, !.count = @ + 1]
  BY Zenon DEF Literal
<1>3. PICK fmt : fmt = Append(call.fmt, ch)
  OBVIOUS
<1>4. /\ FormatInv /\ Sound(cfu_str) /\ DOMAIN call = Fields /\ Len(call.fmt) \in Nat
      /\ fmt \in Seq(FormatChar) /\ Len(fmt) = Len(call.fmt) + 1
  BY <1>1, <1>3, FormatFacts
<1>5. DOMAIN call' = Fields
  BY <1>2, <1>4
<1>6. /\ call'.fmt = fmt /\ call'.end = Len(call.fmt) + 1 /\ call'.at = call.at
      /\ call'.start = call.start /\ call'.size = call.size /\ call'.ptr = call.ptr
      /\ call'.on = call.on /\ call'.before = call.before
  BY <1>2, <1>3, <1>4 DEF Fields
<1>7. FormatInv'
  BY <1>1, <1>4, <1>5, <1>6 DEF FormatInv
<1> QED
  BY <1>1, <1>4, <1>7 DEF BufferInv

LEMMA PercentBuffer ==
  ASSUME BufferInv, PercentSign
  PROVE  BufferInv'
<1>1. /\ status = "formatting" /\ call.at = "text" /\ UNCHANGED <<cfu_str, status>>
      /\ "percent" \in FormatChar
  BY DEF PercentSign, Reading
<1>2. PICK fmt : fmt = Append(call.fmt, "percent")
  OBVIOUS
<1>3. call' = [call EXCEPT !.fmt = fmt, !.at = "percent", !.ptr = Len(call.fmt) + 1]
  BY <1>2 DEF PercentSign
<1>4. /\ FormatInv /\ Sound(cfu_str) /\ DOMAIN call = Fields /\ Len(call.fmt) \in Nat
      /\ fmt \in Seq(FormatChar) /\ Len(fmt) = Len(call.fmt) + 1
  BY <1>1, <1>2, FormatFacts
<1>5. DOMAIN call' = Fields
  BY <1>3, <1>4
<1>6. /\ call'.fmt = fmt /\ call'.at = "percent" /\ call'.ptr = Len(call.fmt) + 1
      /\ call'.start = call.start /\ call'.end = call.end /\ call'.size = call.size
      /\ call'.on = call.on /\ call'.before = call.before
  BY <1>3, <1>4 DEF Fields
<1>7. FormatInv'
  BY <1>1, <1>4, <1>5, <1>6 DEF FormatInv
<1> QED
  BY <1>1, <1>4, <1>7 DEF BufferInv

LEMMA ConversionBuffer ==
  ASSUME BufferInv, InConversion
  PROVE  BufferInv'
<1>1. status = "formatting" /\ call.at # "text" /\ UNCHANGED <<cfu_str, status>>
  <2>1. UNCHANGED <<cfu_str, res, status>> /\ (Reading({"percent"}) \/ Reading({"spec"}))
    BY Zenon DEF InConversion
  <2>2. CASE Reading({"percent"})
    BY <2>1, <2>2 DEF Reading
  <2>3. CASE Reading({"spec"})
    BY <2>1, <2>3 DEF Reading
  <2> QED
    BY <2>1, <2>2, <2>3
<1>2. FormatInv /\ Sound(cfu_str) /\ DOMAIN call = Fields /\ Len(call.fmt) \in Nat
  BY <1>1, FormatFacts
<1>3. PICK ch \in FormatChar :
        \/ call' = [call EXCEPT !.fmt = Append(@, ch), !.at = "spec"]
        \/ call' = [call EXCEPT !.fmt = Append(@, ch)]
  BY Zenon DEF InConversion
<1>4. PICK fmt : fmt = Append(call.fmt, ch)
  OBVIOUS
<1>5. fmt \in Seq(FormatChar) /\ Len(fmt) = Len(call.fmt) + 1
  BY <1>1, <1>4, FormatFacts
<1>6. DOMAIN call' = Fields
  BY <1>2, <1>3
<1>7. /\ call'.fmt = fmt /\ call'.at # "text" /\ call'.ptr = call.ptr
      /\ call'.start = call.start /\ call'.end = call.end /\ call'.size = call.size
      /\ call'.on = call.on /\ call'.before = call.before
  <2>1. CASE call' = [call EXCEPT !.fmt = Append(@, ch), !.at = "spec"]
    BY <1>2, <1>4, <2>1 DEF Fields
  <2>2. CASE call' = [call EXCEPT !.fmt = Append(@, ch)]
    BY <1>1, <1>2, <1>4, <2>2 DEF Fields
  <2> QED
    BY <1>3, <2>1, <2>2
<1>8. FormatInv'
  BY <1>1, <1>2, <1>5, <1>6, <1>7 DEF FormatInv
<1> QED
  BY <1>1, <1>2, <1>8 DEF BufferInv

LEMMA PercentPercentBuffer ==
  ASSUME BufferInv, PercentPercent
  PROVE  BufferInv'
<1>1. status = "formatting" /\ call.at # "text" /\ "percent" \in FormatChar
  BY DEF PercentPercent, Reading
<1>2. PICK fmt, t : /\ fmt = Append(call.fmt, "percent")
                    /\ t = SubSeq(fmt, call.start, call.ptr)
  OBVIOUS
<1>3. /\ FormatInv /\ fmt \in Seq(FormatChar) /\ Len(fmt) = Len(call.fmt) + 1
      /\ call.start \in Nat /\ call.ptr \in Nat /\ call.start >= 1 /\ Len(call.fmt) \in Nat
  BY <1>1, <1>2, FormatFacts
<1>4. call.ptr <= Len(fmt)
  BY <1>1, <1>3 DEF FormatInv
<1>5. t \in Seq(Char)
  BY <1>2, <1>3, <1>4, Arguments, PartOf
<1>6. Flush(fmt, t)
  BY <1>2 DEF PercentPercent
<1> QED
  BY <1>1, <1>3, <1>5, <1>6, FlushBuffer

LEMMA BlankBuffer ==
  ASSUME BufferInv, ConvertBlank
  PROVE  BufferInv'
<1>1. status = "formatting" /\ call.at # "text" /\ "blank" \in FormatChar
  BY DEF ConvertBlank, Reading
<1>2. PICK fmt, t : fmt = Append(call.fmt, "blank") /\ t = Literals(call.fmt)
  OBVIOUS
<1>3. FormatInv /\ fmt \in Seq(FormatChar)
  BY <1>1, <1>2, FormatFacts
<1>4. t \in Seq(Char)
  BY <1>1, <1>2, <1>3, LiteralsAre DEF FormatInv
<1>5. Flush(fmt, t)
  BY <1>2 DEF ConvertBlank
<1> QED
  BY <1>1, <1>3, <1>4, <1>5, FlushBuffer

LEMMA NumberBuffer ==
  ASSUME BufferInv, ConvertNumber
  PROVE  BufferInv'
<1>1. status = "formatting" /\ call.at # "text" /\ "d" \in FormatChar
  BY DEF ConvertNumber, Reading
<1>2. FormatInv
  BY <1>1, FormatFacts
<1>3. ASSUME NEW arg \in Numbers, Convert("d", TRUE, arg) PROVE BufferInv'
  <2>1. PICK ch, due : ch = "d" /\ due = TRUE
    OBVIOUS
  <2>2. Convert(ch, due, arg) /\ ch \in FormatChar /\ due \in BOOLEAN /\ arg \in Seq(Char)
    BY <1>1, <1>3, <2>1, Arguments
  <2> QED
    BY <1>1, <1>2, <2>2, ConvertBuffer
<1>4. CASE Undefined
  BY <1>4, SameBuffer DEF Undefined
<1> QED
  BY <1>3, <1>4 DEF ConvertNumber

LEMMA StringBuffer ==
  ASSUME BufferInv, ConvertString
  PROVE  BufferInv'
<1>1. status = "formatting" /\ call.at # "text" /\ "s" \in FormatChar
  BY DEF ConvertString, Reading
<1>2. FormatInv
  BY <1>1, FormatFacts
<1>3. ASSUME NEW arg \in Strings \cup {<<"null">>}, Convert("s", call.ptr # call.start, arg)
      PROVE  BufferInv'
  <2>1. PICK ch, due : ch = "s" /\ due = (call.ptr # call.start)
    OBVIOUS
  <2>2. Convert(ch, due, arg) /\ ch \in FormatChar
    BY <1>1, <1>3, <2>1
  <2>3. arg \in Seq(Char)
    BY <1>3, Arguments
  <2>4. due \in BOOLEAN
    BY <2>1
  <2> QED
    BY <1>1, <1>2, <2>2, <2>3, <2>4, ConvertBuffer
<1>4. CASE Undefined
  BY <1>4, SameBuffer DEF Undefined
<1> QED
  BY <1>3, <1>4 DEF ConvertString

LEMMA EndBuffer ==
  ASSUME BufferInv, FormatEnds
  PROVE  BufferInv'
<1>1. status = "formatting" /\ call.at = "text" /\ status' = "running"
  BY DEF FormatEnds
<1>2. FormatInv /\ Sound(cfu_str)
  BY <1>1, FormatFacts
<1>3. CASE call.end = call.start
  BY <1>1, <1>3, SameBuffer DEF FormatEnds
<1>4. CASE call.end # call.start
  <2>1. call.end <= Len(call.fmt)
    BY <1>1, <1>2, <1>4 DEF FormatInv
  <2>2. Literals(call.fmt) \in Seq(Char)
    BY <1>2, <2>1, LiteralsAre
  <2>3. CASE Literals(call.fmt) = <<>>
    BY <1>1, <1>4, <2>3, SameBuffer DEF FormatEnds
  <2>4. CASE Literals(call.fmt) # <<>>
    <3>1. cfu_str' = Appended(cfu_str, Literals(call.fmt))
      BY <1>4, <2>4 DEF FormatEnds
    <3>2. Sound(cfu_str)'
      BY <1>2, <2>2, <3>1, AppendedSound
    <3> QED
      BY <1>1, <3>2 DEF BufferInv
  <2> QED
    BY <2>3, <2>4
<1> QED
  BY <1>3, <1>4

LEMMA ContentIs ==
  ASSUME Sound(cfu_str), cfu_str.str # NULL
  PROVE  Content \in Seq(Char) /\ Content = TextOf(cfu_str) /\ Content # NULL
  BY SoundText DEF Content, TextOf

LEMMA NewBuffer ==
  ASSUME BufferInv, New
  PROVE  BufferInv'
<1>1. status' = "running"
  BY DEF New
<1>2. Sound(cfu_str')
  <2>1. ASSUME NEW n \in InitialSizes, cfu_str' = Created(n) PROVE Sound(cfu_str')
    BY <2>1, Arguments, CreatedSound
  <2>2. ASSUME NEW t \in Strings, cfu_str' = Appended(Created(0), t) PROVE Sound(cfu_str')
    BY <2>2, Arguments, CreatedSound, AppendedSound
  <2> QED
    BY <2>1, <2>2 DEF New
<1> QED
  BY <1>1, <1>2 DEF BufferInv

LEMMA AppendNBuffer ==
  ASSUME BufferInv, NEW t \in Strings, NEW n \in Counts, AppendN(t, n)
  PROVE  BufferInv'
<1>1. CASE Undefined
  BY <1>1, SameBuffer DEF Undefined
<1>2. CASE Becomes(Appended(cfu_str, Prefix(t, n)), <<"append", t, n>>)
  <2>1. Prefix(t, n) \in Seq(Char)
    BY Arguments, PrefixIs
  <2>2. Sound(Appended(cfu_str, Prefix(t, n)))
    BY <2>1, AppendedSound DEF BufferInv
  <2>3. cfu_str' = Appended(cfu_str, Prefix(t, n)) /\ status' = status /\ status = "running"
    BY <1>2 DEF Becomes, AppendN, Running
  <2> QED
    BY <2>2, <2>3 DEF BufferInv
<1> QED
  BY <1>1, <1>2 DEF AppendN

LEMMA AppendOwnBuffer ==
  ASSUME BufferInv, NEW n \in Counts, AppendOwn(n)
  PROVE  BufferInv'
<1>1. CASE Undefined
  BY <1>1, SameBuffer DEF Undefined
<1>2. CASE Becomes(Appended(cfu_str, Prefix(Content, n)), <<"append own", n>>)
  <2>1. Prefix(Content, n) \in Seq(Char)
    BY Arguments, PrefixIs, ContentIs DEF AppendOwn, BufferInv
  <2>2. Sound(Appended(cfu_str, Prefix(Content, n)))
    BY <2>1, AppendedSound DEF BufferInv
  <2>3. /\ cfu_str' = Appended(cfu_str, Prefix(Content, n)) /\ status' = status
        /\ status = "running"
    BY <1>2 DEF Becomes, AppendOwn, Running
  <2> QED
    BY <2>2, <2>3 DEF BufferInv
<1> QED
  BY <1>1, <1>2 DEF AppendOwn

LEMMA OverwrittenSound ==
  ASSUME NEW s, Sound(s), NEW t \in Seq(Char)
  PROVE  /\ Sound(Overwritten(s, t)) /\ Overwritten(s, t).str # NULL
         /\ TextOf(Overwritten(s, t)) = t
<1>1. PICK c : c = Cleared(s)
  OBVIOUS
<1>2. Sound(c) /\ TextOf(c) = IF s.str = NULL THEN NULL ELSE <<>>
  BY <1>1, ClearedSound
<1>3. /\ Sound(Appended(c, t)) /\ Appended(c, t).str # NULL
      /\ TextOf(Appended(c, t)) = (IF TextOf(c) = NULL THEN <<>> ELSE TextOf(c)) \o t
  BY <1>2, AppendedSound
<1>4. (IF TextOf(c) = NULL THEN <<>> ELSE TextOf(c)) = <<>>
  BY <1>2
<1>5. <<>> \o t = t
  BY ConcatEmptySeq
<1> QED
  BY <1>1, <1>3, <1>4, <1>5 DEF Overwritten

LEMMA DupBuffer ==
  ASSUME BufferInv, Dup
  PROVE  BufferInv'
<1>1. ASSUME NEW s, NEW of, Sound(s), Becomes(s, of) PROVE BufferInv'
  BY <1>1 DEF Becomes, BufferInv, Dup, Running
<1>2. Sound(NoString)
  BY DEF Sound
<1>3. \A t \in Strings : Sound(Overwritten(cfu_str, t))
  BY OverwrittenSound, Arguments DEF BufferInv
<1>4. <<>> \in Strings
  BY DEF Strings
<1> QED
  BY <1>1, <1>2, <1>3, <1>4 DEF Dup

LEMMA ClearBuffer ==
  ASSUME BufferInv, Clear
  PROVE  BufferInv'
<1>1. Sound(Cleared(cfu_str))
  BY ClearedSound DEF BufferInv
<1> QED
  BY <1>1 DEF BufferInv, Clear, Becomes, Running

LEMMA SprintfBuffer ==
  ASSUME BufferInv, Sprintf
  PROVE  BufferInv'
<1>1. Sound(cfu_str)'
  <2>1. Sound(Cleared(cfu_str)) /\ cfu_str' = Cleared(cfu_str)
    BY ClearedSound DEF BufferInv, Sprintf
  <2> QED
    BY <2>1
<1>2. Content \in Seq(Char) \cup {NULL}
  BY SoundText DEF Content, BufferInv, TextOf
<1>3. PICK none : none = <<>>
  OBVIOUS
<1>4. none \in Seq(FormatChar) /\ Len(none) = 0
  BY <1>3, EmptySeq
<1>5. call' = [on |-> TRUE, fmt |-> none, at |-> "text", ptr |-> 1, start |-> 1, end |-> 1,
               size |-> Scratch, count |-> 0, args |-> none, before |-> Content]
  BY <1>3 DEF Sprintf
<1>6. DOMAIN call' = Fields
  BY <1>5 DEF Fields
<1>7. FormatInv'
  BY <1>2, <1>4, <1>5, <1>6, Arguments DEF FormatInv
<1> QED
  BY <1>1, <1>7 DEF BufferInv, Sprintf

(* Every step keeps the invariant. *)
LEMMA BufferStep ==
  ASSUME BufferInv, [Next]_vars
  PROVE  BufferInv'
<1>1. CASE New
  BY <1>1, NewBuffer
<1>2. CASE Dup
  BY <1>2, DupBuffer
<1>3. CASE Clear
  BY <1>3, ClearBuffer
<1>4. CASE GetBufferCopy
  BY <1>4, SameBuffer DEF GetBufferCopy, Running
<1>5. CASE Destroy
  <2>1. Sound(NoString)
    BY DEF Sound
  <2> QED
    BY <1>5, <2>1 DEF Destroy, BufferInv
<1>6. ASSUME NEW n \in Counts, AppendOwn(n) PROVE BufferInv'
  BY <1>6, AppendOwnBuffer
<1>7. ASSUME NEW n \in Counts, NEW t \in Strings, AppendN(t, n) PROVE BufferInv'
  BY <1>7, AppendNBuffer
<1>8. ASSUME NEW seps \in SepLists, NEW limit \in Limits, Split(seps, limit) PROVE BufferInv'
  <2>1. UNCHANGED cfu_str /\ status' \in {"running", "splitting"}
    BY <1>8 DEF Split, Return
  <2> QED
    BY <2>1, SameBuffer
<1>9. CASE NextField
  <2>1. UNCHANGED cfu_str /\ status' \in {"running", "splitting"}
    BY <1>9 DEF NextField, Return
  <2> QED
    BY <2>1, SameBuffer
<1>10. CASE Sprintf
  BY <1>10, SprintfBuffer
<1>11. CASE Literal
  BY <1>11, LiteralBuffer
<1>12. CASE PercentSign
  BY <1>12, PercentBuffer
<1>13. CASE PercentPercent
  BY <1>13, PercentPercentBuffer
<1>14. CASE InConversion
  BY <1>14, ConversionBuffer
<1>15. CASE ConvertNumber
  BY <1>15, NumberBuffer
<1>16. CASE ConvertString
  BY <1>16, StringBuffer
<1>17. CASE ConvertBlank
  BY <1>17, BlankBuffer
<1>18. CASE FormatOverrun
  BY <1>18, SameBuffer DEF FormatOverrun, Undefined
<1>19. CASE FormatEnds
  BY <1>19, EndBuffer
<1>20. CASE UNCHANGED vars
  <2>1. cfu_str' = cfu_str /\ call' = call /\ status' = status
    BY <1>20 DEF vars
  <2> QED
    BY <2>1 DEF BufferInv, FormatInv
<1>21. CASE Ended
  BY <1>20, <1>21 DEF Ended
<1>22. CASE Next
  BY Zenon, <1>1, <1>2, <1>3, <1>4, <1>5, <1>6, <1>7, <1>8, <1>9, <1>10, <1>11, <1>12, <1>13,
     <1>14, <1>15, <1>16, <1>17, <1>18, <1>19, <1>21, <1>22 DEF Next
<1> QED
  BY <1>20, <1>22

(* The C string in the buffer ends where used_size says, through every     *)
(* append, growth, copy and format (CfuString.TypeOK).                     *)
THEOREM StringTypeCorrect == Spec => []TypeOK
<1>1. Init => BufferInv
  BY InitBuffer
<1>2. BufferInv /\ [Next]_vars => BufferInv'
  BY BufferStep
<1>3. BufferInv => TypeOK
  <2> SUFFICES ASSUME BufferInv PROVE TypeOK
    OBVIOUS
  <2>1. CASE cfu_str.str = NULL
    BY <2>1 DEF BufferInv, TypeOK
  <2>2. CASE cfu_str.str # NULL
    <3>1. /\ Len(cfu_str.str) = cfu_str.max_size /\ Ends(cfu_str.str, cfu_str.used_size)
          /\ Content = TextOf(cfu_str) /\ Len(TextOf(cfu_str)) = cfu_str.used_size - 1
          /\ cfu_str.used_size \in Nat
      BY <2>2, SoundText, ContentIs DEF BufferInv
    <3> QED
      BY <2>2, <3>1 DEF BufferInv, TypeOK, Ends
  <2> QED
    BY <2>1, <2>2
<1> QED
  BY <1>1, <1>2, <1>3, PTL DEF Spec

-----------------------------------------------------------------------------
(* Looking for separators.                                                 *)

(* What the recursive function of Seen computes, from one character of t   *)
(* to the next.                                                            *)
Going(seen, t, seps) ==
  /\ \A i \in DOMAIN seps : seen[0][i] = 0
  /\ \A end \in 1..Len(t) : \A i \in DOMAIN seps :
       seen[end][i] =
         IF seen[end - 1][i] < Len(seps[i]) /\ seps[i][seen[end - 1][i] + 1] = t[end]
           THEN seen[end - 1][i] + 1 ELSE 0

LEMMA SeenIs ==
  ASSUME NEW t \in Seq(Char), NEW seps \in Seq(Seq(Char))
  PROVE  Going(Seen(t, seps), t, seps)
<1> DEFINE D == DOMAIN seps
           n == Len(t)
           More(x, end, i) == x[i] < Len(seps[i]) /\ seps[i][x[i] + 1] = t[end]
           Def(f) == [end \in 0..n |->
                        [i \in D |-> IF end > 0 /\ f[end - 1][i] < Len(seps[i])
                                        /\ seps[i][f[end - 1][i] + 1] = t[end]
                                       THEN f[end - 1][i] + 1 ELSE 0]]
           V == [D -> Nat]
           v == [i \in D |-> 0]
           step == [end \in Nat |-> [x \in V |->
                      [i \in D |-> IF More(x, end, i) THEN x[i] + 1 ELSE 0]]]
<1>1. n \in Nat /\ v \in V
  OBVIOUS
<1>2. Keeps(step, V)
  <2>1. ASSUME NEW end \in Nat, NEW x \in V PROVE step[end][x] \in V
    <3>1. \A i \in D : x[i] \in Nat
      OBVIOUS
    <3>2. \A i \in D : (IF More(x, end, i) THEN x[i] + 1 ELSE 0) \in Nat
      BY <3>1
    <3> HIDE DEF More, D
    <3>3. step[end][x] = [i \in D |-> IF More(x, end, i) THEN x[i] + 1 ELSE 0]
      OBVIOUS
    <3> QED
      BY <3>2, <3>3
  <2> QED
    BY <2>1 DEF Keeps
<1>3. PICK f \in [0..n -> V] : f[0] = v /\ \A end \in 1..n : f[end] = step[end][f[end - 1]]
  <2>1. Runs(v, step, V, n) # {}
    <3> HIDE DEF v, step, V, n
    <3> QED
      BY <1>1, <1>2, Recursion
  <2> HIDE DEF v, step, V, n
  <2> QED
    BY <2>1 DEF Runs
<1>4. \A end \in 1..n : f[end] = [i \in D |-> IF More(f[end - 1], end, i) THEN f[end - 1][i] + 1
                                              ELSE 0]
  <2> TAKE end \in 1..n
  <2>1. end - 1 \in 0..n /\ end \in Nat
    BY <1>1
  <2>2. f[end - 1] \in V
    BY <2>1
  <2>3. f[end] = step[end][f[end - 1]]
    BY <1>3
  <2> HIDE DEF More, D, V
  <2> QED
    BY <2>1, <2>2, <2>3
<1>5. f = Def(f)
  <2>1. ASSUME NEW end \in 0..n PROVE f[end] = Def(f)[end]
    <3>1. CASE end = 0
      BY <1>3, <3>1
    <3>2. CASE end # 0
      <4>1. end \in 1..n /\ end > 0
        BY <3>2
      <4> QED
        BY <1>4, <4>1
    <3> QED
      BY <3>1, <3>2
  <2> HIDE DEF V
  <2> QED
    BY <2>1
<1>6. Seen(t, seps) = Def(Seen(t, seps))
  <2>1. Seen(t, seps) = CHOOSE g : g = Def(g)
    BY DEF Seen
  <2> HIDE DEF Def
  <2> QED
    BY <1>5, <2>1
<1>7. PICK seen : seen = Seen(t, seps)
  OBVIOUS
<1>8. \A end \in 0..n : seen[end] = 
        [i \in D |-> IF end > 0 /\ seen[end - 1][i] < Len(seps[i])
                        /\ seps[i][seen[end - 1][i] + 1] = t[end]
                       THEN seen[end - 1][i] + 1 ELSE 0]
  <2>1. seen = Def(seen)
    BY <1>6, <1>7
  <2> QED
    BY <2>1
<1>9. \A i \in D : seen[0][i] = 0
  <2>1. 0 \in 0..n /\ ~ (0 > 0)
    BY <1>1
  <2> QED
    BY <1>8, <2>1
<1>10. ASSUME NEW end \in 1..n, NEW i \in D
       PROVE  seen[end][i] = IF More(seen[end - 1], end, i) THEN seen[end - 1][i] + 1 ELSE 0
  <2>1. end \in 0..n /\ end > 0
    BY <1>1
  <2>2. PICK k : k = seen[end - 1][i]
    OBVIOUS
  <2>3. seen[end][i] = IF end > 0 /\ k < Len(seps[i]) /\ seps[i][k + 1] = t[end]
                         THEN k + 1 ELSE 0
    <3>1. PICK before : before = seen[end - 1]
      OBVIOUS
    <3>2. seen[end] = [j \in D |-> IF end > 0 /\ before[j] < Len(seps[j])
                                      /\ seps[j][before[j] + 1] = t[end]
                                     THEN before[j] + 1 ELSE 0]
      BY <1>8, <2>1, <3>1
    <3>3. i \in D /\ k = before[i]
      BY <2>2, <3>1
    <3> HIDE DEF D
    <3> QED
      BY <3>2, <3>3
  <2> QED
    BY <2>1, <2>2, <2>3
<1>11. Going(seen, t, seps)
  BY <1>9, <1>10 DEF Going
<1> QED
  BY <1>7, <1>11

(* The last k characters of the first end ones of t are the first k of s. *)
Matched(t, end, s, k) ==
  /\ k \in Nat /\ k <= end /\ k <= Len(s)
  /\ \A j \in 1..k : t[end - k + j] = s[j]

LEMMA SeenMatches ==
  ASSUME NEW t \in Seq(Char), NEW seps \in Seq(Seq(Char)), NEW seen, Going(seen, t, seps),
         NEW i \in DOMAIN seps
  PROVE  \A end \in 0..Len(t) : Matched(t, end, seps[i], seen[end][i])
<1> DEFINE n == Len(t)
           s == seps[i]
           G == {end \in Nat : end <= n => Matched(t, end, s, seen[end][i])}
<1>1. n \in Nat /\ s \in Seq(Char) /\ Len(s) \in Nat
  OBVIOUS
<1>2. 0 \in G
  <2>1. seen[0][i] = 0
    BY DEF Going
  <2>2. Matched(t, 0, s, 0)
    BY <1>1 DEF Matched
  <2> QED
    BY <2>1, <2>2
<1>3. ASSUME NEW end \in Nat, end \in G PROVE end + 1 \in G
  <2> SUFFICES ASSUME end + 1 <= n PROVE Matched(t, end + 1, s, seen[end + 1][i])
    OBVIOUS
  <2>1. PICK k : k = seen[end][i]
    OBVIOUS
  <2>2. Matched(t, end, s, k)
    BY <1>1, <1>3, <2>1
  <2>3. seen[end + 1][i] = IF k < Len(s) /\ s[k + 1] = t[end + 1] THEN k + 1 ELSE 0
    <3>1. end + 1 \in 1..n /\ end + 1 - 1 = end
      BY <1>1
    <3> QED
      BY <2>1, <3>1 DEF Going
  <2>4. CASE k < Len(s) /\ s[k + 1] = t[end + 1]
    <3>1. seen[end + 1][i] = k + 1
      BY <2>3, <2>4
    <3>2. k \in Nat /\ k <= end /\ \A j \in 1..k : t[end - k + j] = s[j]
      BY <2>2 DEF Matched
    <3>3. ASSUME NEW j \in 1..(k + 1) PROVE t[end + 1 - (k + 1) + j] = s[j]
      <4>1. end + 1 - (k + 1) + j = end - k + j
        BY <3>2
      <4>2. CASE j = k + 1
        <5>1. end - k + j = end + 1
          BY <3>2, <4>2
        <5> QED
          BY <2>4, <4>1, <4>2, <5>1
      <4>3. CASE j # k + 1
        <5>1. j \in 1..k
          BY <3>2, <4>3
        <5> QED
          BY <3>2, <4>1, <5>1
      <4> QED
        BY <4>2, <4>3
    <3>4. k + 1 \in Nat /\ k + 1 <= end + 1 /\ k + 1 <= Len(s)
      BY <1>1, <2>4, <3>2
    <3> HIDE DEF s
    <3> QED
      BY <3>1, <3>3, <3>4 DEF Matched
  <2>5. CASE ~ (k < Len(s) /\ s[k + 1] = t[end + 1])
    <3>1. seen[end + 1][i] = 0
      BY <2>3, <2>5
    <3>2. Matched(t, end + 1, s, 0)
      BY <1>1 DEF Matched
    <3> QED
      BY <3>1, <3>2
  <2> QED
    BY <2>4, <2>5
<1>4. Nat \subseteq G
  <2> HIDE DEF G
  <2> QED
    BY <1>2, <1>3, Induction
<1>5. \A end \in 0..n : end \in Nat /\ end <= n
  BY <1>1
<1> QED
  BY <1>4, <1>5

(* A separator that stands at place p is complete behind its last          *)
(* character, if no other attempt at it was under way before.              *)
LEMMA SeenFinds ==
  ASSUME NEW t \in Seq(Char), NEW seps \in Seq(Seq(Char)), NEW seen, Going(seen, t, seps),
         NEW i \in DOMAIN seps, NEW p \in 1..Len(t), p + Len(seps[i]) - 1 <= Len(t),
         \A j \in 1..Len(seps[i]) : t[p + j - 1] = seps[i][j],
         seen[p - 1][i] = 0
  PROVE  seen[p + Len(seps[i]) - 1][i] = Len(seps[i])
<1> DEFINE n == Len(t)
           s == seps[i]
           G == {k \in Nat : k <= Len(s) => seen[p + k - 1][i] = k}
<1>1. n \in Nat /\ s \in Seq(Char) /\ Len(s) \in Nat /\ p \in Nat /\ p >= 1
  OBVIOUS
<1>2. 0 \in G
  <2>1. p + 0 - 1 = p - 1
    BY <1>1
  <2> QED
    BY <2>1
<1>3. ASSUME NEW k \in Nat, k \in G PROVE k + 1 \in G
  <2> SUFFICES ASSUME k + 1 <= Len(s) PROVE seen[p + (k + 1) - 1][i] = k + 1
    OBVIOUS
  <2>1. k <= Len(s) /\ k < Len(s) /\ k + 1 \in 1..Len(s)
    BY <1>1
  <2>2. seen[p + k - 1][i] = k
    BY <1>3, <2>1
  <2>3. PICK end : end = p + k
    OBVIOUS
  <2>4. end \in 1..n /\ end - 1 = p + k - 1 /\ end = p + (k + 1) - 1
    BY <1>1, <2>1, <2>3
  <2>5. t[end] = s[k + 1]
    BY <2>1, <2>4
  <2>6. seen[end][i] = IF seen[end - 1][i] < Len(s) /\ s[seen[end - 1][i] + 1] = t[end]
                         THEN seen[end - 1][i] + 1 ELSE 0
    BY <2>4 DEF Going
  <2>7. seen[end - 1][i] = k
    BY <2>2, <2>4
  <2>8. seen[end][i] = k + 1
    BY <2>1, <2>5, <2>6, <2>7
  <2> QED
    BY <2>4, <2>8
<1>4. Nat \subseteq G
  <2> HIDE DEF G
  <2> QED
    BY <1>2, <1>3, Induction
<1>5. Len(s) \in G
  BY <1>1, <1>4
<1> QED
  BY <1>1, <1>5

(* What _check_sep finds.  seen is fixed in the lemmas that follow.        *)
NoneEnds(seen, seps, m) ==
  \A end \in 1..m : \A i \in DOMAIN seps : seen[end][i] # Len(seps[i])

Stands(t, m, s) == \A j \in 1..Len(s) : t[m + j] = s[j]

IsField(t, seps, last, field, used) ==
  /\ field \in Seq(Char) /\ Len(field) <= Len(t)
  /\ \A j \in 1..Len(field) : field[j] = t[j]
  /\ \/ field = t /\ used = Len(t)
     \/ /\ ~ last /\ used \in 1..Len(t)
        /\ \E i \in DOMAIN seps : /\ used = Len(field) + Len(seps[i])
                                  /\ Stands(t, Len(field), seps[i])
  /\ last \/ NoneEnds(Seen(t, seps), seps, Len(field))

LEMMA CheckSepFinds ==
  ASSUME NEW t \in Seq(Char), NEW seps \in Seq(Seq(Char)), NEW last \in BOOLEAN,
         \A i \in DOMAIN seps : Len(seps[i]) >= 1,
         NEW next, next = CheckSep(t, seps, last)
  PROVE  IsField(t, seps, last, next[1], next[2])
<1> DEFINE ends == IF last THEN {} ELSE {end \in 1..Len(t) : Complete(t, seps, end) # {}}
<1>1. Len(t) \in Nat /\ DOMAIN seps \subseteq Nat
  OBVIOUS
<1>2. PICK seen : seen = Seen(t, seps)
  OBVIOUS
<1>3. Going(seen, t, seps)
  BY <1>2, SeenIs
<1>4. \A end : Complete(t, seps, end) = {i \in DOMAIN seps : seen[end][i] = Len(seps[i])}
  BY <1>2 DEF Complete
<1>5. CASE ends = {}
  <2>1. next = <<t, Len(t)>>
    BY <1>5 DEF CheckSep
  <2>2. last \/ NoneEnds(seen, seps, Len(t))
    BY <1>4, <1>5 DEF NoneEnds
  <2>3. next[1] = t /\ next[2] = Len(t)
    BY <2>1
  <2> QED
    BY <1>1, <1>2, <2>2, <2>3 DEF IsField
<1>6. CASE ends # {}
  <2>1. last = FALSE /\ ends = {end \in 1..Len(t) : Complete(t, seps, end) # {}}
    BY <1>6
  <2>2. ends \subseteq Nat
    BY <1>1, <2>1
  <2>3. PICK end \in ends : \A e \in ends : end <= e
    <3> HIDE DEF ends
    <3> QED
      BY <1>6, <2>2, LeastExists
  <2>4. PICK m : m = Min(ends)
    OBVIOUS
  <2>5. m \in ends /\ \A e \in ends : m <= e
    <3> HIDE DEF ends
    <3> QED
      BY <2>3, <2>4 DEF Min
  <2>6. PICK found : found = Complete(t, seps, m)
    OBVIOUS
  <2>7. found # {} /\ found \subseteq Nat /\ found \subseteq DOMAIN seps
    BY <1>1, <1>4, <2>1, <2>5, <2>6
  <2>8. PICK least \in found : \A e \in found : least <= e
    BY <2>7, LeastExists
  <2>9. PICK i : i = Min(found)
    OBVIOUS
  <2>10. i \in found
    BY <2>8, <2>9 DEF Min
  <2>11. i \in DOMAIN seps /\ seen[m][i] = Len(seps[i]) /\ m \in 1..Len(t)
    BY <1>4, <2>1, <2>5, <2>6, <2>7, <2>10
  <2>12. PICK s : s = seps[i]
    OBVIOUS
  <2>13. s \in Seq(Char) /\ Len(s) \in Nat /\ Len(s) >= 1 /\ m \in Nat
    BY <1>1, <2>11, <2>12
  <2>14. Matched(t, m, s, Len(s))
    <3>1. m \in 0..Len(t)
      BY <1>1, <2>11
    <3> QED
      BY <1>3, <2>11, <2>12, <3>1, SeenMatches
  <2>15. PICK k : k = m - Len(s)
    OBVIOUS
  <2>16. k \in Nat /\ k < m /\ k <= Len(t) /\ m = k + Len(s)
    BY <1>1, <2>11, <2>13, <2>14, <2>15 DEF Matched
  <2>17. next = <<SubSeq(t, 1, k), m>>
    <3>1. next = <<SubSeq(t, 1, FieldLen(m, seps[i])), m>>
      BY <1>6, <2>4, <2>6, <2>9 DEF CheckSep
    <3> QED
      BY <2>12, <2>15, <3>1 DEF FieldLen
  <2>18. PICK field : field = SubSeq(t, 1, k)
    OBVIOUS
  <2>19. field \in Seq(Char) /\ Len(field) = k /\ \A j \in 1..k : field[j] = t[j]
    BY <2>16, <2>18
  <2>20. NoneEnds(seen, seps, k)
    <3>1. ASSUME NEW e \in 1..k, NEW j \in DOMAIN seps, seen[e][j] = Len(seps[j]) PROVE FALSE
      <4>1. e \in 1..Len(t) /\ e < m
        BY <1>1, <2>16
      <4>2. j \in Complete(t, seps, e)
        BY <1>4, <3>1
      <4>3. e \in ends
        BY <2>1, <4>1, <4>2
      <4>4. m <= e
        BY <2>5, <4>3
      <4> QED
        BY <2>13, <4>1, <4>4
    <3> QED
      BY <3>1 DEF NoneEnds
  <2>21. Stands(t, k, s)
    BY <2>14, <2>15 DEF Stands, Matched
  <2>22. next[1] = field /\ next[2] = m
    <3>1. next = <<field, m>>
      BY <2>17, <2>18
    <3> QED
      BY <3>1
  <2> QED
    BY <1>2, <2>1, <2>11, <2>12, <2>16, <2>19, <2>20, <2>21, <2>22 DEF IsField
<1> QED
  BY <1>5, <1>6

LEMMA Places ==
  ASSUME NEW n \in Nat, NEW p \in Nat, NEW k \in Nat, p <= n, k >= 1, k <= p - 1
  PROVE  /\ p - 1 \in 1..n /\ p - k \in 1..(p - 1) /\ p - k \in Nat /\ p - (p - k) = k
         /\ \A j \in 1..k : p - k + j - 1 \in 1..n /\ p - 1 - k + j = p - k + j - 1
  OBVIOUS

(* A separator stands in a field only where another attempt at it was      *)
(* under way.                                                              *)
LEMMA FieldsAreClean ==
  ASSUME NEW t \in Seq(Char), NEW seps \in Seq(Seq(Char)), NEW seen, Going(seen, t, seps),
         \A i \in DOMAIN seps : Len(seps[i]) >= 1,
         NEW field \in Seq(Char), Len(field) <= Len(t),
         \A j \in 1..Len(field) : field[j] = t[j],
         NoneEnds(seen, seps, Len(field))
  PROVE  Abstract!Clean(field, Range(seps))
<1> SUFFICES ASSUME NEW i \in DOMAIN seps, NEW p \in 1..Len(field), Abstract!At(field, p, seps[i])
             PROVE  \E q \in 1..(p - 1) : /\ p - q < Len(seps[i])
                                          /\ Abstract!IsPrefix(SubSeq(field, q, p - 1), seps[i])
  BY DEF Abstract!Clean, Range
<1>1. PICK s, n : s = seps[i] /\ n = Len(field)
  OBVIOUS
<1>2. /\ s \in Seq(Char) /\ Len(s) \in Nat /\ Len(s) >= 1 /\ n \in Nat /\ p \in Nat /\ p >= 1
      /\ p <= n /\ n <= Len(t) /\ Len(t) \in Nat
  BY <1>1
<1>3. p + Len(s) - 1 <= n /\ SubSeq(field, p, p + Len(s) - 1) = s
  BY <1>1 DEF Abstract!At
<1>4. \A j \in 1..Len(s) : field[p + j - 1] = s[j]
  <2> TAKE j \in 1..Len(s)
  <2>1. \A m \in p..(p + Len(s) - 1) : m \in 1..n
    BY <1>2, <1>3
  <2>2. \A m \in p..(p + Len(s) - 1) : field[m] \in Char
    BY <1>1, <2>1
  <2>3. j \in 1..(p + Len(s) - 1 - p + 1)
    BY <1>2
  <2>4. SubSeq(field, p, p + Len(s) - 1)[j] = field[p + j - 1]
    BY <1>2, <2>2, <2>3, SubSeqProperties
  <2> QED
    BY <1>3, <2>4
<1>5. \A j \in 1..Len(s) : t[p + j - 1] = s[j]
  <2> TAKE j \in 1..Len(s)
  <2>1. p + j - 1 \in 1..n
    BY <1>2, <1>3
  <2> QED
    BY <1>1, <1>4, <2>1
<1>6. PICK k : k = seen[p - 1][i]
  OBVIOUS
<1>7. Matched(t, p - 1, s, k)
  <2>1. p - 1 \in 0..Len(t)
    BY <1>2
  <2> QED
    BY <1>1, <1>6, <2>1, SeenMatches
<1>8. k # 0
  <2> SUFFICES ASSUME k = 0 PROVE FALSE
    OBVIOUS
  <2>1. p \in 1..Len(t) /\ p + Len(s) - 1 <= Len(t) /\ p + Len(s) - 1 \in 1..n
    BY <1>2, <1>3
  <2>2. /\ p + Len(seps[i]) - 1 <= Len(t) /\ seen[p - 1][i] = 0
        /\ \A j \in 1..Len(seps[i]) : t[p + j - 1] = seps[i][j]
    BY <1>1, <1>5, <1>6, <2>1
  <2>3. seen[p + Len(seps[i]) - 1][i] = Len(seps[i])
    BY <2>1, <2>2, SeenFinds
  <2> QED
    BY <1>1, <2>1, <2>3 DEF NoneEnds
<1>9. k # Len(s)
  <2>1. k \in Nat /\ k >= 1 /\ k <= p - 1
    BY <1>2, <1>7, <1>8 DEF Matched
  <2>2. p - 1 \in 1..n
    BY <1>2, <2>1, Places
  <2> QED
    BY <1>1, <1>6, <2>2 DEF NoneEnds
<1>10. k \in Nat /\ k >= 1 /\ k <= p - 1 /\ k < Len(s) /\ \A j \in 1..k : t[p - 1 - k + j] = s[j]
  BY <1>2, <1>7, <1>8, <1>9 DEF Matched
<1>11. PICK q : q = p - k
  OBVIOUS
<1>12. q \in 1..(p - 1) /\ p - q < Len(s) /\ q \in Nat
  BY <1>2, <1>10, <1>11, Places
<1>13. PICK u : u = SubSeq(field, q, p - 1)
  OBVIOUS
<1>14. u \in Seq(Char) /\ Len(u) = k /\ \A j \in 1..k : u[j] = field[q + j - 1]
  <2>1. \A m \in q..(p - 1) : m \in 1..n
    BY <1>2, <1>12
  <2>2. \A m \in q..(p - 1) : field[m] \in Char
    BY <1>1, <2>1
  <2>3. p - 1 - q + 1 = k /\ q <= p - 1 /\ q \in Int /\ p - 1 \in Int
    BY <1>2, <1>10, <1>11, <1>12
  <2> QED
    BY <1>13, <2>2, <2>3, SubSeqProperties
<1>15. \A j \in 1..k : u[j] = s[j]
  <2> TAKE j \in 1..k
  <2>1. q + j - 1 \in 1..n /\ p - 1 - k + j = q + j - 1
    BY <1>2, <1>10, <1>11, Places
  <2> QED
    BY <1>1, <1>10, <1>14, <2>1
<1>16. Abstract!IsPrefix(u, s)
  <2>1. SubSeq(u, 1, Len(u)) \in Seq(Char) /\ Len(SubSeq(u, 1, Len(u))) = k
    BY <1>10, <1>14
  <2>2. SubSeq(s, 1, Len(u)) \in Seq(Char) /\ Len(SubSeq(s, 1, Len(u))) = k
    BY <1>2, <1>10, <1>14
  <2>3. \A j \in 1..k : SubSeq(u, 1, Len(u))[j] = u[j] /\ SubSeq(s, 1, Len(u))[j] = s[j]
    BY <1>2, <1>10, <1>14
  <2>4. SubSeq(u, 1, Len(u)) = SubSeq(s, 1, Len(u))
    BY <1>15, <2>1, <2>2, <2>3, SeqEqual
  <2> QED
    BY <1>10, <1>14, <2>4 DEF Abstract!IsPrefix
<1> QED
  BY <1>1, <1>12, <1>13, <1>16

-----------------------------------------------------------------------------
(* Splitting.  t is the text, seps the separators as a set.                *)

LEMMA StandsAt ==
  ASSUME NEW t \in Seq(Char), NEW s \in Seq(Char), NEW m \in Nat, m >= 1,
         m + Len(s) - 1 <= Len(t), \A j \in 1..Len(s) : t[m + j - 1] = s[j]
  PROVE  Abstract!At(t, m, s)
<1>1. PICK n : n = Len(s)
  OBVIOUS
<1>2. n \in Nat /\ Len(t) \in Nat
  BY <1>1
<1>3. PICK u : u = SubSeq(t, m, m + n - 1)
  OBVIOUS
<1>4. \A j \in m..(m + n - 1) : t[j] \in Char
  <2> TAKE j \in m..(m + n - 1)
  <2>1. j \in 1..Len(t)
    BY <1>1, <1>2
  <2> QED
    BY <2>1
<1>5. m \in Int /\ m + n - 1 \in Int /\ (m + n - 1) - m + 1 = n
  BY <1>2
<1>6. /\ u \in Seq(Char) /\ Len(u) = (IF m <= m + n - 1 THEN n ELSE 0)
      /\ \A j \in 1..n : u[j] = t[m + j - 1]
  BY <1>3, <1>4, <1>5, SubSeqProperties
<1>7. Len(u) = n
  BY <1>2, <1>6
<1>8. u = s
  BY <1>1, <1>6, <1>7, SeqEqual
<1> QED
  BY <1>1, <1>3, <1>8 DEF Abstract!At

IsCut(t, fields, seps, start, cut) ==
  /\ cut \in [0..Len(fields) -> 1..(Len(t) + 1)]
  /\ Abstract!Cuts(t, fields, seps, cut)
  /\ cut[Len(fields)] = start

(* How a field that stands at start ends. *)
EndsAt(t, seps, end, new) ==
  \/ end > Len(t) /\ new = end
  \/ \E sep \in seps : Abstract!At(t, end, sep) /\ new = end + Len(sep)

LEMMA CutAdded ==
  ASSUME NEW t \in Seq(Char), NEW fields \in Seq(Seq(Char)), NEW seps, NEW start \in Nat,
         NEW cut, IsCut(t, fields, seps, start, cut),
         NEW field \in Seq(Char), Abstract!At(t, start, field),
         NEW new \in 1..(Len(t) + 1), EndsAt(t, seps, start + Len(field), new)
  PROVE  \E c : IsCut(t, Append(fields, field), seps, new, c)
<1>1. PICK n : n = Len(fields)
  OBVIOUS
<1>2. n \in Nat
  BY <1>1
<1>3. PICK fs : fs = Append(fields, field)
  OBVIOUS
<1>4. /\ Len(fs) = n + 1 /\ fs[n + 1] = field
      /\ \A i \in 1..n : fs[i] = fields[i]
  BY <1>1, <1>3
<1>5. PICK c : c = [i \in 0..(n + 1) |-> IF i = n + 1 THEN new ELSE cut[i]]
  OBVIOUS
<1>6. /\ cut \in [0..n -> 1..(Len(t) + 1)] /\ cut[0] = 1 /\ cut[n] = start
      /\ \A i \in 1..n : /\ Abstract!At(t, cut[i - 1], fields[i])
                         /\ EndsAt(t, seps, cut[i - 1] + Len(fields[i]), cut[i])
  BY <1>1 DEF IsCut, Abstract!Cuts, EndsAt
<1>7. c \in [0..(n + 1) -> 1..(Len(t) + 1)]
  <2>1. ASSUME NEW i \in 0..(n + 1)
        PROVE  (IF i = n + 1 THEN new ELSE cut[i]) \in 1..(Len(t) + 1)
    <3>1. i = n + 1 \/ i \in 0..n
      BY <1>2
    <3> QED
      BY <1>6, <3>1
  <2> QED
    BY <1>5, <2>1
<1>8. c[n + 1] = new /\ c[0] = 1 /\ \A i \in 0..n : c[i] = cut[i]
  <2>1. n + 1 \in 0..(n + 1) /\ \A i \in 0..n : i # n + 1 /\ i \in 0..(n + 1)
    BY <1>2
  <2>2. 0 \in 0..n
    BY <1>2
  <2> QED
    BY <1>5, <1>6, <2>1, <2>2
<1>9. ASSUME NEW i \in 1..(n + 1)
      PROVE  Abstract!At(t, c[i - 1], fs[i]) /\ EndsAt(t, seps, c[i - 1] + Len(fs[i]), c[i])
  <2>1. CASE i \in 1..n
    <3>1. i - 1 \in 0..n /\ i \in 0..n
      BY <1>2, <2>1
    <3>2. c[i - 1] = cut[i - 1] /\ c[i] = cut[i] /\ fs[i] = fields[i]
      BY <1>4, <1>8, <2>1, <3>1
    <3> QED
      BY <1>6, <2>1, <3>2
  <2>2. CASE i = n + 1
    <3>1. i - 1 = n /\ n \in 0..n
      BY <1>2, <2>2
    <3>2. c[i - 1] = start /\ c[i] = new /\ fs[i] = field
      BY <1>4, <1>6, <1>8, <2>2, <3>1
    <3> QED
      BY <3>2
  <2> QED
    BY <1>2, <2>1, <2>2
<1>10. Abstract!Cuts(t, fs, seps, c)
  BY <1>4, <1>8, <1>9 DEF Abstract!Cuts, EndsAt
<1> QED
  BY <1>3, <1>4, <1>7, <1>8, <1>10 DEF IsCut

(* The state of __cfustring_split_to_raw. *)
SplitOf(t, fields, start, seps, limit, last) ==
  /\ t \in Seq(Char) /\ fields \in Seq(Seq(Char)) /\ start \in 1..(Len(t) + 1)
  /\ limit \in Nat /\ limit # 1 /\ last \in BOOLEAN
  /\ \A i \in 1..Len(fields) : Len(fields[i]) >= 1
  /\ \A i \in 1..Len(fields) : i # limit => Abstract!Clean(fields[i], Range(seps))
  /\ \E cut : IsCut(t, fields, Range(seps), start, cut)
  /\ last => limit > 0 /\ Len(fields) >= limit - 1
  /\ ~ last /\ limit > 0 => Len(fields) < limit - 1
  /\ limit > 0 => Len(fields) <= limit
  /\ limit > 0 /\ Len(fields) = limit => start = Len(t) + 1

LEMMA SplitBegins ==
  ASSUME NEW t \in Seq(Char), NEW seps, NEW limit \in Nat, limit # 1,
         NEW fields, fields = <<>>, NEW last, last = FALSE
  PROVE  SplitOf(t, fields, 1, seps, limit, last)
<1>1. fields \in Seq(Seq(Char)) /\ Len(fields) = 0 /\ Len(t) \in Nat
  BY EmptySeq
<1>2. PICK cut : cut = [i \in 0..0 |-> 1]
  OBVIOUS
<1>3. cut \in [0..0 -> 1..(Len(t) + 1)] /\ cut[0] = 1
  BY <1>1, <1>2
<1>4. \A i \in 1..Len(fields) : FALSE
  BY <1>1
<1>5. Abstract!Cuts(t, fields, Range(seps), cut)
  BY <1>3, <1>4 DEF Abstract!Cuts
<1>6. IsCut(t, fields, Range(seps), 1, cut)
  BY <1>1, <1>3, <1>5 DEF IsCut
<1>7. \E c : IsCut(t, fields, Range(seps), 1, c)
  BY <1>6
<1>8. 1 \in 1..(Len(t) + 1)
  BY <1>1
<1>9. limit > 0 => 0 < limit - 1 /\ 0 <= limit /\ 0 # limit
  OBVIOUS
<1>10. limit > 0 => Len(fields) < limit - 1 /\ Len(fields) <= limit /\ Len(fields) # limit
  BY <1>1, <1>9
<1>11. last \in BOOLEAN /\ ~ last
  BY Zenon
<1> QED
  BY Zenon, <1>1, <1>4, <1>7, <1>8, <1>10, <1>11 DEF SplitOf

(* The rest of the text, and what _check_sep finds in it. *)
LEMMA RestIs ==
  ASSUME NEW t \in Seq(Char), NEW start \in 1..(Len(t) + 1),
         NEW rest, rest = SubSeq(t, start, Len(t))
  PROVE  /\ rest \in Seq(Char) /\ Len(rest) \in Nat /\ Len(rest) = Len(t) - start + 1
         /\ \A j \in 1..Len(rest) : rest[j] = t[start + j - 1]
<1>1. Len(t) \in Nat /\ start \in Int /\ start >= 1 /\ start <= Len(t) + 1
  OBVIOUS
<1>2. \A j \in start..Len(t) : t[j] \in Char
  BY <1>1
<1>3. /\ rest \in Seq(Char) /\ Len(rest) = (IF start <= Len(t) THEN Len(t) - start + 1 ELSE 0)
      /\ \A j \in 1..(Len(t) - start + 1) : rest[j] = t[start + j - 1]
  BY <1>1, <1>2, SubSeqProperties
<1>4. Len(rest) = Len(t) - start + 1
  BY <1>1, <1>3
<1> QED
  BY <1>1, <1>3, <1>4

LEMMA EndsWithin ==
  ASSUME NEW n \in Nat, NEW start \in Nat, NEW r \in Nat, NEW k \in Nat, NEW m \in Nat,
         NEW used \in Nat, start >= 1, start <= n + 1, r = n - start + 1, used <= r,
         used = k + m, m >= 1
  PROVE  /\ start + k \in Nat /\ start + k >= 1 /\ start + used = (start + k) + m
         /\ (start + k) + m - 1 <= n
         /\ start + used \in 1..(n + 1) /\ start + used > start + k - 1
  OBVIOUS

(* The field stands in the text, and a separator or the end after it.      *)
FieldAt(t, start, rest, seps, last, field, end, after) ==
  /\ field \in Seq(Char) /\ Abstract!At(t, start, field) /\ after \in 1..(Len(t) + 1)
  /\ \/ field = rest /\ after = Len(t) + 1 /\ end = Len(t) + 1
     \/ /\ ~ last
        /\ \E sep \in Range(seps) : Abstract!At(t, end, sep) /\ after = end + Len(sep)

LEMMA FieldStands ==
  ASSUME NEW t \in Seq(Char), NEW start \in 1..(Len(t) + 1),
         NEW rest, rest = SubSeq(t, start, Len(t)),
         NEW seps \in Seq(Seq(Char)), \A i \in DOMAIN seps : Len(seps[i]) >= 1,
         NEW last \in BOOLEAN, NEW field, NEW used, IsField(rest, seps, last, field, used)
  PROVE  FieldAt(t, start, rest, seps, last, field, start + Len(field), start + used)
<1>1. /\ rest \in Seq(Char) /\ Len(rest) \in Nat /\ Len(rest) = Len(t) - start + 1
      /\ \A j \in 1..Len(rest) : rest[j] = t[start + j - 1]
  BY RestIs
<1>2. start \in Nat /\ start >= 1 /\ Len(t) \in Nat /\ start <= Len(t) + 1
  OBVIOUS
<1>3. /\ field \in Seq(Char) /\ Len(field) <= Len(rest) /\ Len(field) \in Nat
      /\ \A j \in 1..Len(field) : field[j] = rest[j]
  BY DEF IsField
<1>4. Abstract!At(t, start, field)
  <2>1. start + Len(field) - 1 <= Len(t)
    BY <1>1, <1>2, <1>3
  <2>2. \A j \in 1..Len(field) : t[start + j - 1] = field[j]
    BY <1>1, <1>3
  <2> QED
    BY <1>2, <1>3, <2>1, <2>2, StandsAt
<1>5. CASE field = rest /\ used = Len(rest)
  <2>1. start + used = Len(t) + 1 /\ start + Len(field) = Len(t) + 1
    BY <1>1, <1>2, <1>5
  <2>2. start + used \in 1..(Len(t) + 1)
    BY <1>2, <2>1
  <2> QED
    BY <1>3, <1>4, <1>5, <2>1, <2>2 DEF FieldAt
<1>6. CASE /\ ~ last /\ used \in 1..Len(rest)
           /\ \E i \in DOMAIN seps : /\ used = Len(field) + Len(seps[i])
                                     /\ Stands(rest, Len(field), seps[i])
  <2>1. PICK i \in DOMAIN seps : /\ used = Len(field) + Len(seps[i])
                                 /\ Stands(rest, Len(field), seps[i])
    BY <1>6
  <2>2. PICK sep, m : sep = seps[i] /\ m = start + Len(field)
    OBVIOUS
  <2>3. sep \in Seq(Char) /\ sep \in Range(seps) /\ Len(sep) \in Nat /\ Len(sep) >= 1
    BY <2>2 DEF Range
  <2>4. used \in Nat /\ used <= Len(rest) /\ used = Len(field) + Len(sep)
    <3>1. used \in 1..Len(rest)
      BY <1>6
    <3> QED
      BY <1>1, <2>1, <2>2, <3>1
  <2>5. /\ m \in Nat /\ m >= 1 /\ start + used = m + Len(sep) /\ m + Len(sep) - 1 <= Len(t)
        /\ start + used \in 1..(Len(t) + 1) /\ start + used > start + Len(field) - 1
    BY <1>1, <1>2, <1>3, <2>2, <2>3, <2>4, EndsWithin
  <2>6. \A j \in 1..Len(sep) : t[m + j - 1] = sep[j]
    <3> TAKE j \in 1..Len(sep)
    <3>1. Len(field) + j \in 1..Len(rest) /\ start + (Len(field) + j) - 1 = m + j - 1
      <4>1. PICK k, r, n : k = Len(field) /\ r = Len(rest) /\ n = Len(sep)
        OBVIOUS
      <4>2. k \in Nat /\ r \in Nat /\ n \in Nat /\ k + n <= r /\ j \in 1..n /\ m = start + k
        BY <1>1, <1>3, <2>2, <2>3, <2>4, <4>1
      <4>3. k + j \in 1..r /\ start + (k + j) - 1 = m + j - 1
        BY <1>2, <4>2
      <4> QED
        BY <4>1, <4>3
    <3>2. rest[Len(field) + j] = sep[j]
      BY <2>1, <2>2 DEF Stands
    <3>3. rest[Len(field) + j] = t[start + (Len(field) + j) - 1]
      BY <1>1, <3>1
    <3> QED
      BY <3>1, <3>2, <3>3
  <2>7. Abstract!At(t, m, sep)
    BY <2>3, <2>5, <2>6, StandsAt
  <2>8. \E s \in Range(seps) : Abstract!At(t, m, s) /\ start + used = m + Len(s)
    BY <2>3, <2>5, <2>7
  <2>9. ~ last
    BY <1>6
  <2> QED
    BY <1>3, <1>4, <2>2, <2>5, <2>8, <2>9 DEF FieldAt
<1> QED
  BY <1>5, <1>6 DEF IsField

(* Whether the field after n of them is the last one. *)
LastOf(last, limit, n) == last \/ (limit > 0 /\ n = limit - 1)

(* One more field. *)
LEMMA SplitGoesOn ==
  ASSUME NEW t, NEW fields, NEW start, NEW seps \in Seq(Seq(Char)), NEW limit, NEW last,
         SplitOf(t, fields, start, seps, limit, last),
         \A i \in DOMAIN seps : Len(seps[i]) >= 1,
         NEW rest, rest = SubSeq(t, start, Len(t)),
         NEW field, NEW used, IsField(rest, seps, last, field, used), Len(field) >= 1,
         NEW new, new = LastOf(last, limit, Len(fields) + 1)
  PROVE  SplitOf(t, Append(fields, field), start + used, seps, limit, new)
<1>1. /\ t \in Seq(Char) /\ fields \in Seq(Seq(Char)) /\ start \in 1..(Len(t) + 1)
      /\ limit \in Nat /\ limit # 1 /\ last \in BOOLEAN
  BY DEF SplitOf
<1>2. PICK n, fs : n = Len(fields) /\ fs = Append(fields, field)
  OBVIOUS
<1>3. /\ rest \in Seq(Char) /\ Len(rest) \in Nat /\ Len(rest) = Len(t) - start + 1
      /\ \A j \in 1..Len(rest) : rest[j] = t[start + j - 1]
  BY <1>1, RestIs
<1>4. PICK after : after = start + used
  OBVIOUS
<1>5. PICK end : end = start + Len(field)
  OBVIOUS
<1>6. /\ field \in Seq(Char) /\ Abstract!At(t, start, field) /\ after \in 1..(Len(t) + 1)
      /\ \/ field = rest /\ after = Len(t) + 1 /\ end = Len(t) + 1
         \/ /\ ~ last
            /\ \E sep \in Range(seps) : Abstract!At(t, end, sep) /\ after = end + Len(sep)
  <2>1. FieldAt(t, start, rest, seps, last, field, start + Len(field), start + used)
    BY <1>1, FieldStands
  <2>2. FieldAt(t, start, rest, seps, last, field, end, after)
    BY <1>4, <1>5, <2>1
  <2> QED
    BY <2>2 DEF FieldAt
<1>7. EndsAt(t, Range(seps), end, after)
  <2>1. Len(t) + 1 > Len(t)
    BY <1>1
  <2> QED
    BY <1>6, <2>1 DEF EndsAt
<1>8. \E c : IsCut(t, fs, Range(seps), after, c)
  <2>1. PICK cut : IsCut(t, fields, Range(seps), start, cut)
    BY DEF SplitOf
  <2>2. start \in Nat
    BY <1>1
  <2> QED
    BY <1>1, <1>2, <1>5, <1>6, <1>7, <2>1, <2>2, CutAdded
<1>9. /\ n \in Nat /\ fs \in Seq(Seq(Char)) /\ Len(fs) = n + 1 /\ fs[n + 1] = field
      /\ \A i \in 1..n : fs[i] = fields[i]
  BY <1>1, <1>2, <1>6
<1>10. start <= Len(t)
  <2>1. Len(field) <= Len(rest)
    BY DEF IsField
  <2>2. Len(rest) >= 1
    BY <1>3, <1>6, <2>1
  <2> QED
    BY <1>1, <1>3, <2>2
<1>11. limit > 0 => n < limit
  <2>1. limit > 0 => n <= limit
    BY <1>2 DEF SplitOf
  <2>2. limit > 0 /\ n = limit => start = Len(t) + 1
    BY <1>2 DEF SplitOf
  <2>3. start # Len(t) + 1
    BY <1>1, <1>10
  <2> QED
    BY <1>1, <1>9, <2>1, <2>2, <2>3
<1>12. last => limit > 0 /\ n + 1 = limit
  <2>1. last => limit > 0 /\ n >= limit - 1
    BY <1>2 DEF SplitOf
  <2> QED
    BY <1>1, <1>9, <1>11, <2>1
<1>13. ~ last => (limit > 0 => n < limit - 1)
  BY <1>2 DEF SplitOf
<1>14. \A i \in 1..(n + 1) : i \in 1..n \/ i = n + 1
  BY <1>9
<1>15. \A i \in 1..(n + 1) : Len(fs[i]) >= 1
  <2>1. \A i \in 1..n : Len(fields[i]) >= 1
    BY <1>2 DEF SplitOf
  <2> QED
    BY <1>9, <1>14, <2>1
<1>16. \A i \in 1..(n + 1) : i # limit => Abstract!Clean(fs[i], Range(seps))
  <2>1. \A i \in 1..n : i # limit => Abstract!Clean(fields[i], Range(seps))
    BY <1>2 DEF SplitOf
  <2>2. n + 1 # limit => Abstract!Clean(field, Range(seps))
    <3> SUFFICES ASSUME n + 1 # limit PROVE Abstract!Clean(field, Range(seps))
      OBVIOUS
    <3>1. ~ last
      BY <1>12
    <3>2. PICK seen : seen = Seen(rest, seps)
      OBVIOUS
    <3>3. Going(seen, rest, seps)
      BY <1>3, <3>2, SeenIs
    <3>4. /\ Len(field) <= Len(rest) /\ \A j \in 1..Len(field) : field[j] = rest[j]
          /\ NoneEnds(seen, seps, Len(field))
      BY <3>1, <3>2 DEF IsField
    <3> QED
      BY <1>3, <1>6, <3>3, <3>4, FieldsAreClean
  <2> QED
    BY <1>9, <1>14, <2>1, <2>2
<1>17. /\ new \in BOOLEAN
       /\ new = (last \/ (limit > 0 /\ n + 1 = limit - 1))
  BY Zenon, <1>2 DEF LastOf
<1>18. new => limit > 0 /\ n + 1 >= limit - 1
  <2>1. CASE last
    BY <1>1, <1>9, <1>12, <2>1
  <2>2. CASE limit > 0 /\ n + 1 = limit - 1
    BY <1>1, <1>9, <2>2
  <2> QED
    BY <1>17, <2>1, <2>2
<1>19. ~ new => (limit > 0 => n + 1 < limit - 1)
  <2> SUFFICES ASSUME ~ new, limit > 0 PROVE n + 1 < limit - 1
    OBVIOUS
  <2>1. ~ last /\ n + 1 # limit - 1
    BY <1>17
  <2> QED
    BY <1>1, <1>9, <1>13, <2>1
<1>20. limit > 0 => n + 1 <= limit
  BY <1>1, <1>9, <1>11
<1>21. limit > 0 /\ n + 1 = limit => after = Len(t) + 1
  <2> SUFFICES ASSUME limit > 0, n + 1 = limit PROVE after = Len(t) + 1
    OBVIOUS
  <2>1. last
    BY <1>1, <1>9, <1>13
  <2> QED
    BY <1>6, <2>1
<1>22. SplitOf(t, fs, after, seps, limit, new)
  BY Zenon, <1>1, <1>6, <1>8, <1>9, <1>15, <1>16, <1>17, <1>18, <1>19, <1>20, <1>21 DEF SplitOf
<1> QED
  BY <1>2, <1>4, <1>22

(* An empty field ends the split. *)
LEMMA SplitIsDone ==
  ASSUME NEW t, NEW fields, NEW start, NEW seps \in Seq(Seq(Char)), NEW limit, NEW last,
         SplitOf(t, fields, start, seps, limit, last), t # NULL,
         \A i \in DOMAIN seps : Len(seps[i]) >= 1,
         NEW rest, rest = SubSeq(t, start, Len(t)),
         NEW field, NEW used, IsField(rest, seps, last, field, used), Len(field) = 0
  PROVE  Abstract!IsSplit(t, fields, Range(seps), limit)
<1>1. /\ t \in Seq(Char) /\ fields \in Seq(Seq(Char)) /\ start \in 1..(Len(t) + 1)
      /\ limit \in Nat /\ limit # 1 /\ last \in BOOLEAN /\ Len(fields) \in Nat
  BY DEF SplitOf
<1>2. PICK cut : IsCut(t, fields, Range(seps), start, cut)
  BY DEF SplitOf
<1>3. /\ cut \in [0..Len(fields) -> 1..(Len(t) + 1)] /\ cut[Len(fields)] = start
      /\ Abstract!Cuts(t, fields, Range(seps), cut)
  BY <1>2 DEF IsCut
<1>4. \/ start > Len(t)
      \/ /\ limit > 0 => Len(fields) < limit
         /\ \E sep \in Range(seps) : Abstract!At(t, start, sep)
  <2>1. PICK end : end = start + Len(field)
    OBVIOUS
  <2>2. end = start
    BY <1>1, <2>1
  <2>3. \/ end = Len(t) + 1
        \/ ~ last /\ \E sep \in Range(seps) : Abstract!At(t, end, sep)
    <3>1. FieldAt(t, start, rest, seps, last, field, start + Len(field), start + used)
      BY <1>1, FieldStands
    <3>2. FieldAt(t, start, rest, seps, last, field, end, start + used)
      BY <2>1, <3>1
    <3> QED
      BY <3>2 DEF FieldAt
  <2>4. CASE end = Len(t) + 1
    BY <1>1, <2>2, <2>4
  <2>5. CASE ~ last /\ \E sep \in Range(seps) : Abstract!At(t, end, sep)
    <3>1. limit > 0 => Len(fields) < limit - 1
      BY <2>5 DEF SplitOf
    <3>2. limit > 0 => Len(fields) < limit
      BY <1>1, <3>1
    <3> QED
      BY <2>2, <2>5, <3>2
  <2> QED
    BY <2>3, <2>4, <2>5
<1>5. <<>> \notin Abstract!Range(fields)
  <2>1. \A i \in DOMAIN fields : i \in 1..Len(fields) /\ Len(fields[i]) >= 1
    BY <1>1 DEF SplitOf
  <2>2. \A i \in DOMAIN fields : fields[i] # <<>>
    BY <2>1
  <2> QED
    BY <2>2 DEF Abstract!Range
<1>6. /\ limit > 0 => Len(fields) <= limit
      /\ \A i \in 1..Len(fields) : i # limit => Abstract!Clean(fields[i], Range(seps))
  BY DEF SplitOf
<1>7. \E c \in [0..Len(fields) -> 1..(Len(t) + 1)] :
        /\ Abstract!Cuts(t, fields, Range(seps), c)
        /\ \/ c[Len(fields)] > Len(t)
           \/ /\ limit > 0 => Len(fields) < limit
              /\ \E sep \in Range(seps) : Abstract!At(t, c[Len(fields)], sep)
  BY <1>3, <1>4
<1> QED
  BY Zenon, <1>1, <1>5, <1>6, <1>7 DEF Abstract!IsSplit

-----------------------------------------------------------------------------
(* A string implements Text.                                               *)

SplitFields == {"on", "start", "seps", "limit", "last", "fields", "before"}

Splitting ==
  /\ DOMAIN call = SplitFields /\ call.on = TRUE /\ call.before = Content
  /\ cfu_str.str # NULL /\ call.seps \in SepLists /\ call.limit \in Limits
  /\ SplitOf(Content, call.fields, call.start, call.seps, call.limit, call.last)

TextInv ==
  /\ BufferInv
  /\ status \in {"none", "running"} => call = NoCall
  /\ status = "splitting" => Splitting

LEMMA NoCallIs == NoCall.on = FALSE
  BY DEF NoCall

(* The text of a string between two calls. *)
LEMMA HeldIs ==
  ASSUME TextInv, status \in {"none", "running"}
  PROVE  /\ Held = TextOf(cfu_str) /\ Content = TextOf(cfu_str) /\ Sound(cfu_str)
         /\ call = NoCall
  BY NoCallIs DEF TextInv, BufferInv, Held, Content, TextOf

LEMMA HeldNext ==
  ASSUME call' = NoCall
  PROVE  Held' = TextOf(cfu_str')
<1>1. call'.on = FALSE
  BY NoCallIs
<1> QED
  BY <1>1 DEF Held, Content, TextOf

(* A call that leaves t as the text. *)
LEMMA SetText ==
  ASSUME call' = NoCall, NEW of, NEW t, TextOf(cfu_str') = t, res' = Done(of)
  PROVE  Abstract!Set(of, t)
<1>1. Held' = t
  BY HeldNext
<1> QED
  BY <1>1 DEF Abstract!Set, Done, Answer, Abstract!Done, Abstract!Answer

(* A call that appends to it. *)
LEMMA ExtendText ==
  ASSUME TextInv, Running, NEW t, NEW n, NEW of, Prefix(t, n) \in Seq(Char),
         Becomes(Appended(cfu_str, Prefix(t, n)), of)
  PROVE  Abstract!Set(of, Abstract!Extended(t, n))
<1>1. Held = TextOf(cfu_str) /\ Sound(cfu_str) /\ call = NoCall
  BY HeldIs DEF Running
<1>2. PICK u : u = Prefix(t, n)
  OBVIOUS
<1>3. /\ TextOf(Appended(cfu_str, u)) = (IF TextOf(cfu_str) = NULL THEN <<>> ELSE TextOf(cfu_str)) \o u
  BY <1>1, <1>2, AppendedSound
<1>4. /\ cfu_str' = Appended(cfu_str, u) /\ res' = Done(of) /\ call' = NoCall
  BY <1>1, <1>2 DEF Becomes
<1>5. u = Abstract!Prefix(t, n)
  BY <1>2 DEF Prefix, Abstract!Prefix
<1>6. TextOf(cfu_str') = Abstract!Extended(t, n)
  BY <1>1, <1>3, <1>4, <1>5 DEF Abstract!Extended
<1> QED
  BY <1>4, <1>6, SetText

(* A step that is not seen. *)
Unseen == UNCHANGED <<Held, res>>

LEMMA NewText ==
  ASSUME TextInv, New
  PROVE  Abstract!Next
<1>1. call' = NoCall
  BY HeldIs DEF New
<1>2. ASSUME NEW n \in InitialSizes, cfu_str' = Created(n), res' = Done(<<"new", n>>)
      PROVE  Abstract!New
  <2>1. PICK of : of = <<"new", n>>
    OBVIOUS
  <2>2. n \in Nat
    BY Arguments
  <2>3. PICK t : t = IF n = 0 THEN NULL ELSE <<>>
    OBVIOUS
  <2>4. TextOf(cfu_str') = t
    BY <1>2, <2>2, <2>3, CreatedSound
  <2>5. res' = Done(of)
    BY <1>2, <2>1
  <2>6. Abstract!Set(of, t)
    BY <1>1, <2>4, <2>5, SetText
  <2> QED
    BY <2>1, <2>3, <2>6 DEF Abstract!New
<1>3. ASSUME NEW t \in Strings, cfu_str' = Appended(Created(0), t), res' = Done(<<"from", t>>)
      PROVE  Abstract!New
  <2>1. t \in Seq(Char) /\ t \in Texts \cup {<<>>}
    BY Arguments DEF Strings
  <2>2. Sound(Created(0)) /\ TextOf(Created(0)) = NULL
    BY CreatedSound
  <2>3. TextOf(cfu_str') = <<>> \o t
    BY <1>3, <2>1, <2>2, AppendedSound
  <2>4. TextOf(cfu_str') = t
    BY <2>1, <2>3, ConcatEmptySeq
  <2>5. PICK of : of = <<"from", t>>
    OBVIOUS
  <2>6. res' = Done(of)
    BY <1>3, <2>5
  <2>7. Abstract!Set(of, t)
    BY <1>1, <2>4, <2>6, SetText
  <2> QED
    BY <2>1, <2>5, <2>7 DEF Abstract!New
<1> QED
  BY <1>2, <1>3 DEF New, Abstract!Next

(* The string leaves the model; nothing is said about it any more. *)
LEMMA UndefinedUnseen ==
  ASSUME Undefined
  PROVE  Unseen
  BY DEF Undefined, Unseen, Held, Content

LEMMA AppendNText ==
  ASSUME TextInv, NEW t \in Strings, NEW n \in Counts, AppendN(t, n)
  PROVE  Abstract!Next \/ Unseen
<1>1. CASE Undefined
  BY <1>1, UndefinedUnseen
<1>2. CASE Becomes(Appended(cfu_str, Prefix(t, n)), <<"append", t, n>>)
  <2>1. Prefix(t, n) \in Seq(Char) /\ t \in Texts \cup {<<>>} /\ Running
    BY Arguments, PrefixIs DEF Strings, AppendN
  <2>2. PICK of : of = <<"append", t, n>>
    OBVIOUS
  <2>3. Becomes(Appended(cfu_str, Prefix(t, n)), of)
    BY <1>2, <2>2
  <2>4. Abstract!Set(of, Abstract!Extended(t, n))
    BY <2>1, <2>3, ExtendText
  <2>5. Abstract!Extend(n)
    BY <2>1, <2>2, <2>4 DEF Abstract!Extend
  <2> QED
    BY <2>5 DEF Abstract!Next
<1> QED
  BY <1>1, <1>2 DEF AppendN

LEMMA AppendOwnText ==
  ASSUME TextInv, NEW n \in Counts, AppendOwn(n)
  PROVE  Abstract!Next \/ Unseen
<1>1. CASE Undefined
  BY <1>1, UndefinedUnseen
<1>2. CASE Becomes(Appended(cfu_str, Prefix(Content, n)), <<"append own", n>>)
  <2>1. Running /\ cfu_str.str # NULL
    BY DEF AppendOwn
  <2>2. PICK t : t = Content
    OBVIOUS
  <2>3. t = Held /\ t # NULL /\ t \in Seq(Char)
    BY <2>1, <2>2, HeldIs, ContentIs DEF Running
  <2>4. n \in Nat
    BY Arguments
  <2>5. Prefix(t, n) \in Seq(Char)
    BY <2>3, <2>4, PrefixIs
  <2>6. PICK of : of = <<"append own", n>>
    OBVIOUS
  <2>7. Becomes(Appended(cfu_str, Prefix(t, n)), of)
    BY <1>2, <2>2, <2>6
  <2>8. Abstract!Set(of, Abstract!Extended(t, n))
    BY <2>1, <2>5, <2>7, ExtendText
  <2>9. Held # NULL /\ Abstract!Set(of, Abstract!Extended(Held, n))
    BY <2>3, <2>8
  <2>10. Abstract!Extend(n)
    BY <2>6, <2>9 DEF Abstract!Extend
  <2> QED
    BY <2>10 DEF Abstract!Next
<1> QED
  BY <1>1, <1>2 DEF AppendOwn

LEMMA DupText ==
  ASSUME TextInv, Dup
  PROVE  Abstract!Next
<1>1. call = NoCall /\ Sound(cfu_str) /\ Held = TextOf(cfu_str)
  BY HeldIs DEF Dup, Running
<1>2. ASSUME NEW s, NEW of, NEW t, Becomes(s, of), TextOf(s) = t PROVE Abstract!Set(of, t)
  <2>1. cfu_str' = s /\ call' = NoCall /\ res' = Done(of)
    BY <1>1, <1>2 DEF Becomes
  <2>2. TextOf(cfu_str') = t
    BY <1>2, <2>1
  <2> QED
    BY <2>1, <2>2, SetText
<1>3. TextOf(NoString) = NULL
  BY DEF TextOf, NoString, String
<1>4. \A t \in Strings : TextOf(Overwritten(cfu_str, t)) = t
  BY <1>1, OverwrittenSound, Arguments
<1>5. CASE Becomes(NoString, <<"dup", NULL>>)
  <2>1. PICK of, t : of = <<"dup", t>> /\ t = NULL
    OBVIOUS
  <2>2. Becomes(NoString, of)
    BY <1>5, <2>1
  <2>3. Abstract!Set(of, t)
    BY <1>2, <1>3, <2>1, <2>2
  <2>4. Abstract!Dup
    BY <2>1, <2>3 DEF Abstract!Dup
  <2> QED
    BY <2>4 DEF Abstract!Next
<1>6. ASSUME NEW t \in Strings, Becomes(Overwritten(cfu_str, t), <<"dup", t>>)
      PROVE  Abstract!Dup
  <2>1. PICK of : of = <<"dup", t>>
    OBVIOUS
  <2>2. Becomes(Overwritten(cfu_str, t), of)
    BY <1>6, <2>1
  <2>3. Abstract!Set(of, t)
    BY <1>2, <1>4, <2>2
  <2>4. t \in Texts \cup {<<>>, NULL}
    BY DEF Strings
  <2> QED
    BY <2>1, <2>3, <2>4 DEF Abstract!Dup
<1>7. CASE cfu_str.str # NULL /\ Becomes(Overwritten(cfu_str, <<>>), <<"dup own">>)
  <2>1. PICK of, t : of = <<"dup own">> /\ t = <<>>
    OBVIOUS
  <2>2. t \in Strings /\ Becomes(Overwritten(cfu_str, t), of)
    BY <1>7, <2>1 DEF Strings
  <2>3. Abstract!Set(of, t)
    BY <1>2, <1>4, <2>2
  <2>4. Held # NULL
    BY <1>1, <1>7, ContentIs
  <2>5. Abstract!Dup
    BY <2>1, <2>3, <2>4 DEF Abstract!Dup
  <2> QED
    BY <2>5 DEF Abstract!Next
<1> QED
  BY <1>5, <1>6, <1>7 DEF Dup, Abstract!Next

LEMMA ClearText ==
  ASSUME TextInv, Clear
  PROVE  Abstract!Next
<1>1. call = NoCall /\ Sound(cfu_str) /\ Held = TextOf(cfu_str)
  BY HeldIs DEF Clear, Running
<1>2. PICK t, of : t = TextOf(Cleared(cfu_str)) /\ of = <<"clear">>
  OBVIOUS
<1>3. t = IF cfu_str.str = NULL THEN NULL ELSE <<>>
  BY <1>1, <1>2, ClearedSound
<1>4. Held = NULL <=> cfu_str.str = NULL
  BY <1>1, SoundText, ContentIs DEF TextOf
<1>5. call' = NoCall /\ TextOf(cfu_str') = t /\ res' = Done(of)
  BY <1>1, <1>2 DEF Clear, Becomes
<1>6. Abstract!Set(of, t)
  BY <1>5, SetText
<1>7. t = Abstract!Emptied
  BY <1>3, <1>4 DEF Abstract!Emptied
<1>8. Abstract!Clear
  BY <1>2, <1>6, <1>7 DEF Abstract!Clear
<1> QED
  BY <1>8 DEF Abstract!Next

LEMMA DestroyText ==
  ASSUME TextInv, Destroy
  PROVE  Abstract!Next
<1>1. PICK t, of : t = NULL /\ of = <<"destroy">>
  OBVIOUS
<1>2. call' = NoCall /\ res' = Done(of)
  BY <1>1, HeldIs DEF Destroy, Running
<1>3. TextOf(cfu_str') = t
  BY <1>1 DEF TextOf, NoString, String, Destroy
<1>4. Abstract!Set(of, t)
  BY <1>2, <1>3, SetText
<1>5. Abstract!Destroy
  BY <1>1, <1>4 DEF Abstract!Destroy
<1> QED
  BY <1>5 DEF Abstract!Next

(* The cells in use are a C string, and it is the text. *)
LEMMA CopiedIs ==
  ASSUME NEW s, Sound(s)
  PROVE  Copied(s) = TextOf(s)
<1>1. CASE s.str = NULL
  BY <1>1 DEF Copied, TextOf
<1>2. CASE s.str # NULL
  <2>1. PICK str, n : str = s.str /\ n = s.used_size
    OBVIOUS
  <2>2. str \in Seq(Cell) /\ Ends(str, n) /\ TextOf(s) = Read(str)
    BY <1>2, <2>1, SoundText
  <2>3. n \in Nat /\ n >= 1 /\ n <= Len(str) /\ Len(str) \in Nat
    BY <2>2 DEF Ends
  <2>4. PICK u : u = SubSeq(str, 1, n)
    OBVIOUS
  <2>5. u \in Seq(Cell) /\ Len(u) = n /\ \A i \in 1..n : u[i] = str[i]
    BY <2>2, <2>3, <2>4
  <2>6. Ends(u, n)
    BY <2>2, <2>3, <2>5 DEF Ends
  <2>7. /\ Read(u) \in Seq(Char) /\ Len(Read(u)) = n - 1 /\ \A i \in 1..(n - 1) : Read(u)[i] = u[i]
    BY <2>5, <2>6, ReadUpTo
  <2>8. /\ Read(str) \in Seq(Char) /\ Len(Read(str)) = n - 1
        /\ \A i \in 1..(n - 1) : Read(str)[i] = str[i]
    BY <2>2, ReadUpTo
  <2>9. \A i \in 1..(n - 1) : i \in 1..n
    BY <2>3
  <2>10. Read(u) = Read(str)
    BY <2>5, <2>7, <2>8, <2>9, SeqEqual
  <2> QED
    BY <1>2, <2>1, <2>2, <2>4, <2>10 DEF Copied
<1> QED
  BY <1>1, <1>2

LEMMA CopyText ==
  ASSUME TextInv, GetBufferCopy
  PROVE  Abstract!Next
<1>1. Held = TextOf(cfu_str) /\ Sound(cfu_str) /\ call' = NoCall /\ cfu_str' = cfu_str
  BY HeldIs DEF GetBufferCopy, Running
<1>2. Held' = Held
  BY <1>1, HeldNext
<1>3. res' = Answer(<<"copy">>, <<Held>>, 0)
  BY <1>1, CopiedIs DEF GetBufferCopy
<1>4. Abstract!CopyOut
  BY <1>2, <1>3 DEF Abstract!CopyOut, Answer, Abstract!Answer
<1> QED
  BY <1>4 DEF Abstract!Next

(* Every field that is returned is a copy of the one found. *)
LEMMA FieldsReturned ==
  ASSUME NEW fields \in Seq(Seq(Char) \cup {NULL}), NEW seps, NEW limit,
         Return(fields, seps, limit)
  PROVE  /\ call' = NoCall /\ status' = "running"
         /\ res' = Answer(<<"split", seps, limit>>, fields, Len(fields))
<1>1. ASSUME NEW f \in Seq(Char) \cup {NULL}
      PROVE  (IF f = NULL THEN NULL ELSE Read(Appended(Created(0), f).str)) = f
  <2>1. CASE f = NULL
    BY <2>1
  <2>2. CASE f # NULL
    <3>1. f \in Seq(Char)
      BY <2>2
    <3>2. Sound(Created(0)) /\ TextOf(Created(0)) = NULL
      BY CreatedSound
    <3>3. PICK s : s = Appended(Created(0), f)
      OBVIOUS
    <3>4. s.str # NULL /\ TextOf(s) = <<>> \o f
      BY <3>1, <3>2, <3>3, AppendedSound
    <3>5. <<>> \o f = f
      BY <3>1, ConcatEmptySeq
    <3>6. Read(s.str) = f
      BY <3>4, <3>5 DEF TextOf
    <3> QED
      BY <2>2, <3>3, <3>6
  <2> QED
    BY <2>1, <2>2
<1>2. PICK texts : texts = [i \in DOMAIN fields |->
             IF fields[i] = NULL THEN NULL ELSE Read(Appended(Created(0), fields[i]).str)]
  OBVIOUS
<1>3. \A i \in DOMAIN fields : fields[i] \in Seq(Char) \cup {NULL}
  OBVIOUS
<1>4. texts = [i \in DOMAIN fields |-> fields[i]]
  BY <1>1, <1>2, <1>3
<1>5. texts = fields
  BY <1>4
<1>6. res' = Answer(<<"split", seps, limit>>, texts, Len(fields))
  BY <1>2 DEF Return
<1> QED
  BY <1>5, <1>6 DEF Return

LEMMA SplitAnswered ==
  ASSUME NEW t, Held = t, Held' = t, NEW fields, NEW seps \in SepLists, NEW limit \in Limits,
         res' = Answer(<<"split", seps, limit>>, fields, Len(fields)),
         Abstract!IsSplit(t, fields, Abstract!Range(seps), limit)
  PROVE  Abstract!Next
<1>1. PICK of, n : of = <<"split", seps, limit>> /\ n = Len(fields)
  OBVIOUS
<1>2. res' = [of |-> of, texts |-> fields, n |-> n]
  BY <1>1 DEF Answer
<1>3. res'.texts = fields
  BY <1>2
<1>4. res' = Abstract!Answer(of, res'.texts, Len(res'.texts))
  BY <1>1, <1>2, <1>3 DEF Abstract!Answer
<1>5. Abstract!Split(seps, limit)
  BY <1>1, <1>3, <1>4 DEF Abstract!Split
<1> QED
  BY <1>5 DEF Abstract!Next

LEMMA Separators ==
  ASSUME NEW seps \in SepLists
  PROVE  seps \in Seq(Seq(Char)) /\ \A i \in DOMAIN seps : Len(seps[i]) >= 1
<1>1. seps \in Seq(Texts) /\ \A t \in Texts : t \in Seq(Char) /\ t # <<>>
  BY CfuStringAssumption
<1>2. Seq(Texts) \subseteq Seq(Seq(Char))
  BY <1>1, SeqMonotonic
<1>3. \A t \in Texts : Len(t) >= 1
  <2> TAKE t \in Texts
  <2>1. t \in Seq(Char) /\ t # <<>>
    BY <1>1
  <2> QED
    BY <2>1
<1> QED
  BY <1>1, <1>2, <1>3

(* A call of many steps begins. *)
LEMMA BeginText ==
  ASSUME Held' = Held, res' = UnderWay
  PROVE  Abstract!Next
<1>1. Abstract!Begin
  BY DEF Abstract!Begin, UnderWay, Done, Answer, Abstract!Done, Abstract!Answer
<1> QED
  BY <1>1 DEF Abstract!Next

LEMMA SplitText ==
  ASSUME TextInv, NEW seps \in SepLists, NEW limit \in Limits, Split(seps, limit)
  PROVE  /\ Abstract!Next
         /\ status' = "splitting" => Splitting'
         /\ status' = "running" => call' = NoCall
<1>1. Held = TextOf(cfu_str) /\ Sound(cfu_str) /\ cfu_str' = cfu_str /\ call = NoCall
      /\ Content = Held
  BY HeldIs DEF Split, Running
<1>2. PICK t : t = Held
  OBVIOUS
<1>3. t \in Seq(Char) \cup {NULL}
  BY <1>1, <1>2, SoundText
<1>4. limit \in Nat
  BY Arguments
<1>5. CASE limit = 1
  <2>1. PICK fields : fields = <<Copied(cfu_str)>>
    OBVIOUS
  <2>2. Return(fields, seps, limit)
    BY <1>5, <2>1 DEF Split
  <2>3. fields = <<t>>
    BY <1>1, <1>2, <2>1, CopiedIs
  <2>4. fields \in Seq(Seq(Char) \cup {NULL})
    BY <1>3, <2>3
  <2>5. /\ call' = NoCall /\ status' = "running"
        /\ res' = Answer(<<"split", seps, limit>>, fields, Len(fields))
    BY <2>2, <2>4, FieldsReturned
  <2>6. Held' = t
    BY <1>1, <1>2, <2>5, HeldNext
  <2>7. Abstract!IsSplit(t, fields, Abstract!Range(seps), limit)
    BY <1>5, <2>3 DEF Abstract!IsSplit
  <2>8. Abstract!Next
    BY <1>2, <2>5, <2>6, <2>7, SplitAnswered
  <2> QED
    BY <2>5, <2>8
<1>6. CASE limit # 1 /\ cfu_str.str = NULL
  <2>1. PICK fields : fields = <<>>
    OBVIOUS
  <2>2. Return(fields, seps, limit)
    BY <1>6, <2>1 DEF Split
  <2>3. fields \in Seq(Seq(Char) \cup {NULL})
    BY <2>1, EmptySeq
  <2>4. /\ call' = NoCall /\ status' = "running"
        /\ res' = Answer(<<"split", seps, limit>>, fields, Len(fields))
    BY <2>2, <2>3, FieldsReturned
  <2>5. Held' = t /\ t = NULL
    BY <1>1, <1>2, <1>6, <2>4, HeldNext DEF TextOf
  <2>6. Abstract!IsSplit(t, fields, Abstract!Range(seps), limit)
    BY <1>6, <2>1, <2>5 DEF Abstract!IsSplit
  <2>7. Abstract!Next
    BY <1>2, <2>4, <2>5, <2>6, SplitAnswered
  <2> QED
    BY <2>4, <2>7
<1>7. CASE limit # 1 /\ cfu_str.str # NULL
  <2>1. PICK none, no : none = <<>> /\ no = FALSE
    OBVIOUS
  <2>2. /\ call' = [on |-> TRUE, start |-> 1, seps |-> seps, limit |-> limit,
                    last |-> no, fields |-> none, before |-> Content]
        /\ status' = "splitting" /\ res' = UnderWay
    BY <1>7, <2>1 DEF Split
  <2>3. DOMAIN call' = SplitFields
    BY <2>2 DEF SplitFields
  <2>4. /\ call'.on = TRUE /\ call'.before = Content /\ call'.seps = seps /\ call'.limit = limit
        /\ call'.fields = none /\ call'.start = 1 /\ call'.last = no
    BY <2>2
  <2>5. Held' = Held
    BY <1>1, <2>4 DEF Held
  <2>6. Content \in Seq(Char) /\ Content' = Content
    BY <1>1, <1>7, ContentIs DEF Content
  <2>7. SplitOf(Content, none, 1, seps, limit, no)
    BY <1>4, <1>7, <2>1, <2>6, SplitBegins
  <2>8. Splitting'
    BY <1>1, <1>7, <2>3, <2>4, <2>6, <2>7 DEF Splitting
  <2>9. Abstract!Next
    BY <2>2, <2>5, BeginText
  <2> QED
    BY <2>2, <2>8, <2>9
<1> QED
  BY <1>5, <1>6, <1>7

LEMMA NextFieldText ==
  ASSUME TextInv, NextField
  PROVE  /\ Abstract!Next \/ Unseen
         /\ status' = "splitting" => Splitting'
         /\ status' = "running" => call' = NoCall
<1>1. Splitting /\ Sound(cfu_str) /\ cfu_str' = cfu_str
  BY DEF NextField, TextInv, BufferInv
<1>2. PICK t, fields, start, seps, limit, last :
        /\ t = Content /\ fields = call.fields /\ start = call.start /\ seps = call.seps
        /\ limit = call.limit /\ last = call.last
  OBVIOUS
<1>3. /\ SplitOf(t, fields, start, seps, limit, last) /\ seps \in SepLists /\ limit \in Limits
      /\ DOMAIN call = SplitFields /\ Held = t /\ call.on = TRUE /\ call.before = t
      /\ cfu_str.str # NULL
  BY <1>1, <1>2 DEF Splitting, Held
<1>4. t # NULL /\ Content' = t /\ t = TextOf(cfu_str)
  BY <1>1, <1>2, <1>3, ContentIs DEF Content
<1>5. seps \in Seq(Seq(Char)) /\ \A i \in DOMAIN seps : Len(seps[i]) >= 1
  BY <1>3, Separators
<1>6. /\ t \in Seq(Char) /\ fields \in Seq(Seq(Char)) /\ start \in 1..(Len(t) + 1)
      /\ last \in BOOLEAN
  BY <1>3 DEF SplitOf
<1>7. PICK rest : rest = SubSeq(t, start, Len(t))
  OBVIOUS
<1>8. rest \in Seq(Char)
  BY <1>6, <1>7, RestIs
<1>9. PICK next : next = CheckSep(rest, seps, last)
  OBVIOUS
<1>10. PICK field, used : field = next[1] /\ used = next[2]
  OBVIOUS
<1>11. IsField(rest, seps, last, field, used)
  BY <1>5, <1>6, <1>8, <1>9, <1>10, CheckSepFinds
<1>12. field \in Seq(Char)
  BY <1>11 DEF IsField
<1>13. IF field = <<>> THEN Return(fields, seps, limit)
       ELSE /\ call' = [call EXCEPT !.fields = Append(fields, field), !.start = @ + used,
                          !.last = @ \/ (limit > 0 /\ Len(Append(fields, field)) = limit - 1)]
            /\ UNCHANGED <<res, status>>
  BY <1>2, <1>7, <1>9, <1>10 DEF NextField
<1>14. CASE field = <<>>
  <2>1. Return(fields, seps, limit)
    BY <1>13, <1>14
  <2>2. Len(field) = 0
    BY <1>14
  <2>3. fields \in Seq(Seq(Char) \cup {NULL})
    <3>1. Seq(Char) \subseteq Seq(Char) \cup {NULL}
      OBVIOUS
    <3> QED
      BY <1>6, <3>1, SeqMonotonic
  <2>4. /\ call' = NoCall /\ status' = "running"
        /\ res' = Answer(<<"split", seps, limit>>, fields, Len(fields))
    BY <2>1, <2>3, FieldsReturned
  <2>5. Held' = t
    BY <1>1, <1>4, <2>4, HeldNext
  <2>6. Abstract!IsSplit(t, fields, Range(seps), limit)
    BY <1>3, <1>4, <1>5, <1>7, <1>11, <2>2, SplitIsDone
  <2>7. Range(seps) = Abstract!Range(seps)
    BY DEF Range, Abstract!Range
  <2>8. Abstract!IsSplit(t, fields, Abstract!Range(seps), limit)
    BY <2>6, <2>7
  <2>9. Abstract!Next
    BY <1>3, <2>4, <2>5, <2>8, SplitAnswered
  <2> QED
    BY <2>4, <2>9
<1>15. CASE field # <<>>
  <2>1. PICK fs, after, new :
          /\ fs = Append(fields, field) /\ after = start + used
          /\ new = LastOf(last, limit, Len(fields) + 1)
    OBVIOUS
  <2>2. Len(fs) = Len(fields) + 1
    BY <1>6, <1>12, <2>1
  <2>3. (last \/ (limit > 0 /\ Len(fs) = limit - 1)) = new
    BY <2>1, <2>2 DEF LastOf
  <2>4. /\ call' = [call EXCEPT !.fields = fs, !.start = after, !.last = new]
        /\ res' = res /\ status' = status
    BY <1>2, <1>13, <1>15, <2>1, <2>3
  <2>5. DOMAIN call' = SplitFields
    BY <1>3, <2>4
  <2>6. /\ call'.fields = fs /\ call'.start = after /\ call'.last = new
        /\ call'.on = TRUE /\ call'.before = t /\ call'.seps = seps /\ call'.limit = limit
    BY <1>2, <1>3, <2>4 DEF SplitFields
  <2>7. Held' = Held
    BY <1>3, <2>6 DEF Held
  <2>8. Len(field) >= 1
    BY <1>12, <1>15
  <2>9. SplitOf(t, fs, after, seps, limit, new)
    <3>1. SplitOf(t, Append(fields, field), start + used, seps, limit, new)
      BY <1>3, <1>5, <1>7, <1>11, <2>1, <2>8, SplitGoesOn
    <3> QED
      BY <2>1, <3>1
  <2>10. Splitting'
    BY <1>1, <1>3, <1>4, <2>5, <2>6, <2>9 DEF Splitting
  <2> QED
    BY <2>4, <2>7, <2>10 DEF Unseen, NextField
<1> QED
  BY <1>14, <1>15

LEMMA SprintfText ==
  ASSUME TextInv, Sprintf
  PROVE  Abstract!Next /\ status' = "formatting"
<1>1. Held = Content
  BY HeldIs DEF Sprintf, Running
<1>2. call'.on = TRUE /\ call'.before = Content
  BY DEF Sprintf
<1>3. Held' = Held /\ res' = UnderWay
  BY <1>1, <1>2 DEF Held, Sprintf
<1> QED
  BY <1>3, BeginText DEF Sprintf

(* Formats: a step that keeps `before' is not seen. *)
LEMMA FormatUnseen ==
  ASSUME FormatInv, call'.on = call.on, call'.before = call.before, res' = res
  PROVE  Unseen
<1>1. call.on = TRUE
  BY DEF FormatInv
<1> QED
  BY <1>1 DEF Unseen, Held

Formatting ==
  \/ Literal \/ PercentSign \/ PercentPercent \/ InConversion
  \/ ConvertNumber \/ ConvertString \/ ConvertBlank

LEMMA FlushKeeps ==
  ASSUME FormatInv, NEW fmt, NEW t, Flush(fmt, t)
  PROVE  call'.on = call.on /\ call'.before = call.before /\ res' = res /\ status' = status
<1>1. PICK n, m : n = Len(fmt) + 1 /\ m = call.count + Len(t)
  OBVIOUS
<1>2. call' = [call EXCEPT !.fmt = fmt, !.at = "text", !.start = n, !.end = n, !.count = m]
  BY <1>1 DEF Flush
<1>3. DOMAIN call = Fields
  BY DEF FormatInv
<1> QED
  BY <1>2, <1>3 DEF Fields, Flush

LEMMA ConvertKeeps ==
  ASSUME FormatInv, NEW ch, NEW due, NEW arg, Convert(ch, due, arg)
  PROVE  call'.on = call.on /\ call'.before = call.before /\ res' = res /\ status' = status
<1>1. PICK fmt, size, n, m, args :
        /\ fmt = Append(call.fmt, ch) /\ size = Room(call.size, Len(arg))
        /\ n = Len(call.fmt) + 2 /\ args = Append(call.args, arg)
        /\ m = call.count + Len(arg) + IF due THEN Len(Literals(call.fmt)) ELSE 0
  OBVIOUS
<1>2. call' = [call EXCEPT !.fmt = fmt, !.at = "text", !.size = size, !.start = n, !.end = n,
                 !.count = m, !.args = args]
  BY <1>1 DEF Convert
<1>3. DOMAIN call = Fields
  BY DEF FormatInv
<1> QED
  BY <1>2, <1>3 DEF Fields, Convert

LEMMA FormattingText ==
  ASSUME TextInv, Formatting
  PROVE  Unseen /\ status' \in {"formatting", "undefined"}
<1>1. status = "formatting"
  BY Zenon DEF Formatting, Literal, PercentSign, PercentPercent, InConversion, ConvertNumber,
               ConvertString, ConvertBlank, Reading
<1>2. FormatInv
  BY <1>1 DEF TextInv, BufferInv
<1>3. DOMAIN call = Fields
  BY <1>2 DEF FormatInv
<1>4. ASSUME call'.on = call.on, call'.before = call.before, res' = res, status' = status
      PROVE  Unseen /\ status' \in {"formatting", "undefined"}
  BY <1>1, <1>2, <1>4, FormatUnseen
<1>5. CASE Literal
  <2>1. PICK ch : call' = [call EXCEPT !.fmt = Append(@, ch), !.end = Len(call.fmt) + 1,
                             !.count = @ + 1]
    BY <1>5, Zenon DEF Literal
  <2>2. call'.on = call.on /\ call'.before = call.before
    BY <1>3, <2>1 DEF Fields
  <2> QED
    BY <1>4, <1>5, <2>2 DEF Literal
<1>6. CASE PercentSign
  <2>1. call'.on = call.on /\ call'.before = call.before
    BY <1>3, <1>6 DEF Fields, PercentSign
  <2> QED
    BY <1>4, <1>6, <2>1 DEF PercentSign
<1>7. CASE PercentPercent
  <2>1. \E fmt, t : Flush(fmt, t)
    BY <1>7 DEF PercentPercent
  <2> QED
    BY <1>2, <1>4, <2>1, FlushKeeps
<1>8. CASE InConversion
  <2>1. PICK ch : \/ call' = [call EXCEPT !.fmt = Append(@, ch), !.at = "spec"]
                  \/ call' = [call EXCEPT !.fmt = Append(@, ch)]
    BY <1>8, Zenon DEF InConversion
  <2>2. call'.on = call.on /\ call'.before = call.before
    BY <1>3, <2>1 DEF Fields
  <2>3. res' = res /\ status' = status
    BY <1>8, Zenon DEF InConversion
  <2> QED
    BY <1>4, <2>2, <2>3
<1>9. CASE Undefined
  BY <1>9, UndefinedUnseen DEF Undefined
<1>10. CASE ConvertNumber
  <2>1. Undefined \/ \E ch, due, arg : Convert(ch, due, arg)
    BY <1>10, Zenon DEF ConvertNumber
  <2> QED
    BY <1>2, <1>4, <1>9, <2>1, ConvertKeeps
<1>11. CASE ConvertString
  <2>1. Undefined \/ \E ch, due, arg : Convert(ch, due, arg)
    BY <1>11, Zenon DEF ConvertString
  <2> QED
    BY <1>2, <1>4, <1>9, <2>1, ConvertKeeps
<1>12. CASE ConvertBlank
  <2>1. \E fmt, t : Flush(fmt, t)
    BY <1>12, Zenon DEF ConvertBlank
  <2> QED
    BY <1>2, <1>4, <2>1, FlushKeeps
<1> QED
  BY Zenon, <1>5, <1>6, <1>7, <1>8, <1>10, <1>11, <1>12 DEF Formatting

LEMMA EndText ==
  ASSUME TextInv, FormatEnds
  PROVE  Abstract!Next /\ call' = NoCall /\ status' = "running"
<1>1. PICK n : call' = NoCall /\ status' = "running" /\ res' = Answer(<<"print">>, <<>>, n)
  BY DEF FormatEnds
<1>2. Sound(cfu_str')
  BY EndBuffer DEF TextInv, BufferInv
<1>3. TextOf(cfu_str') \in Seq(Char) \cup {NULL}
  <2>1. PICK s : s = cfu_str'
    OBVIOUS
  <2>2. Sound(s)
    BY <1>2, <2>1
  <2>3. TextOf(s) \in Seq(Char) \cup {NULL}
    BY <2>2, SoundText
  <2> QED
    BY <2>1, <2>3
<1>4. Held' \in Seq(Char) \cup {NULL}
  BY <1>1, <1>3, HeldNext
<1>5. res'.n = n
  BY <1>1 DEF Answer
<1>6. res' = Abstract!Answer(<<"print">>, <<>>, res'.n)
  BY <1>1, <1>5 DEF Answer, Abstract!Answer
<1>7. Abstract!PrintInto
  BY <1>4, <1>6 DEF Abstract!PrintInto
<1> QED
  BY <1>1, <1>7 DEF Abstract!Next

(* Where the step leaves the call. *)
CallNext ==
  /\ status' \in {"none", "running"} => call' = NoCall
  /\ status' = "splitting" => Splitting'

(* A step from a string with no call under way to another. *)
LEMMA StillNoCall ==
  ASSUME TextInv, status \in {"none", "running"}, call' = call,
         status' \in {"none", "running", "undefined"}
  PROVE  CallNext
  BY HeldIs DEF CallNext

LEMMA UndefinedCall ==
  ASSUME Undefined
  PROVE  CallNext
  BY DEF Undefined, CallNext

LEMMA TextInit ==
  ASSUME Init
  PROVE  TextInv /\ Abstract!Init
<1>1. call = NoCall /\ status = "none" /\ cfu_str = NoString
  BY DEF Init
<1>2. call.on = FALSE
  BY <1>1, NoCallIs
<1>3. Held = NULL
  BY <1>1, <1>2 DEF Held, Content, NoString, String
<1>4. Abstract!Init
  BY <1>3 DEF Init, Abstract!Init, Done, Answer, Abstract!Done, Abstract!Answer
<1>5. TextInv
  BY <1>1, InitBuffer DEF TextInv
<1> QED
  BY <1>4, <1>5

(* Every step is one of the text or is not seen. *)
LEMMA TextNext ==
  ASSUME TextInv, Next
  PROVE  (Abstract!Next \/ Unseen) /\ CallNext
<1>1. CASE New
  <2>1. CallNext
    BY <1>1, StillNoCall DEF New
  <2> QED
    BY <1>1, <2>1, NewText
<1>2. CASE Dup
  <2>1. CallNext
    BY <1>2, StillNoCall DEF Dup, Running, Becomes
  <2> QED
    BY <1>2, <2>1, DupText
<1>3. CASE Clear
  <2>1. CallNext
    BY <1>3, StillNoCall DEF Clear, Running, Becomes
  <2> QED
    BY <1>3, <2>1, ClearText
<1>4. CASE GetBufferCopy
  <2>1. CallNext
    BY <1>4, StillNoCall DEF GetBufferCopy, Running
  <2> QED
    BY <1>4, <2>1, CopyText
<1>5. CASE Destroy
  <2>1. CallNext
    BY <1>5, StillNoCall DEF Destroy, Running
  <2> QED
    BY <1>5, <2>1, DestroyText
<1>6. ASSUME NEW n \in Counts, AppendOwn(n) PROVE (Abstract!Next \/ Unseen) /\ CallNext
  <2>1. CallNext
    BY <1>6, StillNoCall, UndefinedCall DEF AppendOwn, Running, Becomes
  <2> QED
    BY <1>6, <2>1, AppendOwnText
<1>7. ASSUME NEW n \in Counts, NEW t \in Strings, AppendN(t, n)
      PROVE  (Abstract!Next \/ Unseen) /\ CallNext
  <2>1. CallNext
    BY <1>7, StillNoCall, UndefinedCall DEF AppendN, Running, Becomes
  <2> QED
    BY <1>7, <2>1, AppendNText
<1>8. ASSUME NEW seps \in SepLists, NEW limit \in Limits, Split(seps, limit)
      PROVE  (Abstract!Next \/ Unseen) /\ CallNext
  <2>1. status' \in {"running", "splitting"}
    BY <1>8 DEF Split, Return
  <2> QED
    BY <1>8, <2>1, SplitText DEF CallNext
<1>9. CASE NextField
  <2>1. status' \in {"running", "splitting"}
    BY <1>9 DEF NextField, Return
  <2> QED
    BY <1>9, <2>1, NextFieldText DEF CallNext
<1>10. CASE Sprintf
  BY <1>10, SprintfText DEF CallNext
<1>11. CASE Formatting
  BY <1>11, FormattingText DEF CallNext
<1>12. CASE FormatOverrun
  BY <1>12, UndefinedUnseen, UndefinedCall DEF FormatOverrun
<1>13. CASE FormatEnds
  BY <1>13, EndText DEF CallNext
<1>14. CASE Ended
  <2>1. status = "undefined" /\ Undefined
    BY <1>14 DEF Ended, Undefined, vars
  <2> QED
    BY <2>1, UndefinedUnseen, UndefinedCall
<1> QED
  BY Zenon, <1>1, <1>2, <1>3, <1>4, <1>5, <1>6, <1>7, <1>8, <1>9, <1>10, <1>11, <1>12, <1>13,
     <1>14 DEF Next, Formatting

LEMMA TextStep ==
  ASSUME TextInv, [Next]_vars
  PROVE  TextInv' /\ [Abstract!Next]_<<Held, res>>
<1>1. BufferInv'
  BY BufferStep DEF TextInv
<1>2. CASE Next
  <2>1. (Abstract!Next \/ Unseen) /\ CallNext
    BY <1>2, TextNext
  <2>2. TextInv'
    BY <1>1, <2>1 DEF CallNext, TextInv
  <2> QED
    BY <2>1, <2>2 DEF Unseen
<1>3. CASE UNCHANGED vars
  <2>1. cfu_str' = cfu_str /\ call' = call /\ status' = status /\ res' = res
    BY <1>3 DEF vars
  <2>2. Held' = Held
    BY <2>1 DEF Held, Content
  <2>3. Splitting => Splitting'
    BY <2>1 DEF Splitting, Content
  <2>4. TextInv'
    BY <1>1, <2>1, <2>3 DEF TextInv
  <2> QED
    BY <2>1, <2>2, <2>4
<1> QED
  BY <1>2, <1>3

(* A string is a text: each call sets, extends or clears it as its         *)
(* arguments say, and what is copied out and the fields of a split are     *)
(* those of the text, through every growth of the buffer and every step of *)
(* a split (CfuString.ImplementsText).                                     *)
THEOREM StringIsAText == Spec => ImplementsText
<1>1. TextInv /\ [Next]_vars => TextInv'
  BY TextStep
<1>2. TextInv /\ [Next]_vars => [Abstract!Next]_<<Held, res>>
  BY TextStep
<1>3. Init => TextInv /\ Abstract!Init
  BY TextInit
<1> QED
  BY <1>1, <1>2, <1>3, PTL DEF Spec, ImplementsText, Abstract!Spec

-----------------------------------------------------------------------------
(* Printing.  What a reader of the format fmt makes of it: where it is     *)
(* behind each character, how many arguments it has used, what it has      *)
(* printed.                                                                *)

After(x, c) ==
  IF x = "text" THEN (IF c = "percent" THEN "percent" ELSE "text")
  ELSE IF c \in {"d", "s", "blank"} \/ (c = "percent" /\ x = "percent") THEN "text" ELSE "spec"

Reader(at, fmt) ==
  /\ at \in [0..Len(fmt) -> {"text", "percent", "spec"}] /\ at[0] = "text"
  /\ \A i \in 1..Len(fmt) : at[i] = After(at[i - 1], fmt[i])

Converts(x, c) == x # "text" /\ c \in {"d", "s"}
One(x, c) == IF Converts(x, c) THEN 1 ELSE 0

Uses(used, at, fmt) ==
  /\ used \in [0..Len(fmt) -> Nat] /\ used[0] = 0
  /\ \A i \in 1..Len(fmt) : used[i] = used[i - 1] + One(at[i - 1], fmt[i])

Piece(x, c, arg) ==
  IF Converts(x, c) THEN arg
  ELSE IF x = "text" /\ c # "percent" THEN <<c>>
  ELSE IF x = "percent" /\ c = "percent" THEN <<"percent">>
  ELSE <<>>

Prints(out, at, used, fmt, args) ==
  /\ out \in [0..Len(fmt) -> Seq(Char)] /\ out[0] = <<>>
  /\ \A i \in 1..Len(fmt) : out[i] = out[i - 1] \o Piece(at[i - 1], fmt[i], args[used[i]])

Printing(at, used, out, fmt, args) ==
  /\ Reader(at, fmt) /\ Uses(used, at, fmt) /\ Prints(out, at, used, fmt, args)
  /\ used[Len(fmt)] = Len(args) /\ \A i \in 0..Len(fmt) : used[i] <= Len(args)

LEMMA PieceType ==
  ASSUME NEW x, NEW c \in FormatChar, NEW arg \in Seq(Char)
  PROVE  Piece(x, c, arg) \in Seq(Char)
<1>1. <<c>> \in Seq(Char) /\ <<>> \in Seq(Char)
  BY Arguments, EmptySeq
<1>2. CASE c = "percent"
  BY <1>1, <1>2 DEF Piece
<1>3. CASE c # "percent"
  BY <1>1, <1>3 DEF Piece
<1> QED
  BY <1>2, <1>3

LEMMA PieceIgnores ==
  ASSUME NEW x, NEW c, ~ Converts(x, c), NEW a, NEW b
  PROVE  Piece(x, c, a) = Piece(x, c, b)
  BY DEF Piece

(* The same function as far as it was defined. *)
Longer(f, n, x) == [i \in 0..(n + 1) |-> IF i = n + 1 THEN x ELSE f[i]]
Goes(g, f, n) == \A i \in 0..n : g[i] = f[i]

LEMMA LongerIs ==
  ASSUME NEW n \in Nat, NEW S, NEW f \in [0..n -> S], NEW x \in S
  PROVE  /\ Longer(f, n, x) \in [0..(n + 1) -> S]
         /\ Longer(f, n, x)[n + 1] = x /\ Goes(Longer(f, n, x), f, n)
<1>1. \A i \in 0..(n + 1) : (IF i = n + 1 THEN x ELSE f[i]) \in S
  <2> TAKE i \in 0..(n + 1)
  <2>1. CASE i = n + 1
    BY <2>1
  <2>2. CASE i # n + 1
    <3>1. i \in 0..n
      BY <2>2
    <3> QED
      BY <2>2, <3>1
  <2> QED
    BY <2>1, <2>2
<1>2. \A i \in 0..n : i \in 0..(n + 1) /\ i # n + 1
  OBVIOUS
<1>3. n + 1 \in 0..(n + 1)
  OBVIOUS
<1> QED
  BY <1>1, <1>2, <1>3 DEF Longer, Goes

Grows(at2, used2, out2, at, out, fmt, more, x, ch, arg) ==
  /\ Printing(at2, used2, out2, Append(fmt, ch), more)
  /\ Goes(at2, at, Len(fmt)) /\ at2[Len(fmt) + 1] = After(x, ch)
  /\ out2[Len(fmt) + 1] = out[Len(fmt)] \o Piece(x, ch, arg)

(* One character more, and an argument if it ends a conversion. *)
LEMMA OneMore ==
  ASSUME NEW fmt \in Seq(FormatChar), NEW args \in Seq(Seq(Char)),
         NEW at, NEW used, NEW out, Printing(at, used, out, fmt, args),
         NEW ch \in FormatChar, NEW arg \in Seq(Char), NEW x, x = at[Len(fmt)],
         NEW more, more = IF Converts(x, ch) THEN Append(args, arg) ELSE args
  PROVE  \E at2, used2, out2 : Grows(at2, used2, out2, at, out, fmt, more, x, ch, arg)
<1>1. PICK n, v : n = Len(fmt) /\ v = Append(fmt, ch)
  OBVIOUS
<1>2. /\ n \in Nat /\ v \in Seq(FormatChar) /\ Len(v) = n + 1 /\ v[n + 1] = ch
      /\ \A i \in 1..n : v[i] = fmt[i]
  BY <1>1, AppendProperties
<1>3. Reader(at, fmt) /\ Uses(used, at, fmt) /\ Prints(out, at, used, fmt, args)
  BY DEF Printing
<1>4. PICK a, u, o : /\ a = Longer(at, n, After(x, ch))
                     /\ u = Longer(used, n, used[n] + One(x, ch))
                     /\ o = Longer(out, n, out[n] \o Piece(x, ch, arg))
  OBVIOUS
<1>5. n \in 0..n
  BY <1>2
<1>6. /\ a \in [0..(n + 1) -> {"text", "percent", "spec"}]
      /\ a[n + 1] = After(x, ch) /\ Goes(a, at, n)
  <2>1. After(x, ch) \in {"text", "percent", "spec"}
    BY DEF After
  <2>2. PICK S, y : S = {"text", "percent", "spec"} /\ y = After(x, ch)
    OBVIOUS
  <2>3. at \in [0..n -> S] /\ y \in S
    BY <1>1, <1>3, <2>1, <2>2 DEF Reader
  <2>4. a = Longer(at, n, y)
    BY <1>4, <2>2
  <2>5. a \in [0..(n + 1) -> S] /\ a[n + 1] = y /\ Goes(a, at, n)
    <3>1. n \in Nat
      BY <1>2
    <3>2. /\ Longer(at, n, y) \in [0..(n + 1) -> S]
          /\ Longer(at, n, y)[n + 1] = y /\ Goes(Longer(at, n, y), at, n)
      BY <3>1, <2>3, LongerIs
    <3> QED
      BY <2>4, <3>2
  <2> QED
    BY <2>2, <2>5
<1>7. /\ u \in [0..(n + 1) -> Nat]
      /\ u[n + 1] = used[n] + One(x, ch) /\ Goes(u, used, n) /\ used[n] \in Nat
  <2>1. used[n] \in Nat /\ used[n] + One(x, ch) \in Nat
    BY <1>1, <1>3, <1>5 DEF Uses, One
  <2>2. PICK S, y : S = Nat /\ y = used[n] + One(x, ch)
    OBVIOUS
  <2>3. used \in [0..n -> S] /\ y \in S
    BY <1>1, <1>3, <2>1, <2>2 DEF Uses
  <2>4. u = Longer(used, n, y)
    BY <1>4, <2>2
  <2>5. u \in [0..(n + 1) -> S] /\ u[n + 1] = y /\ Goes(u, used, n)
    <3>1. n \in Nat
      BY <1>2
    <3>2. /\ Longer(used, n, y) \in [0..(n + 1) -> S]
          /\ Longer(used, n, y)[n + 1] = y /\ Goes(Longer(used, n, y), used, n)
      BY <3>1, <2>3, LongerIs
    <3> QED
      BY <2>4, <3>2
  <2> QED
    BY <2>1, <2>2, <2>5
<1>8. /\ o \in [0..(n + 1) -> Seq(Char)]
      /\ o[n + 1] = out[n] \o Piece(x, ch, arg) /\ Goes(o, out, n)
  <2>1. out[n] \in Seq(Char) /\ Piece(x, ch, arg) \in Seq(Char)
    BY <1>1, <1>3, <1>5, PieceType DEF Prints
  <2>2. out[n] \o Piece(x, ch, arg) \in Seq(Char)
    BY <2>1, ConcatProperties
  <2>3. PICK S, y : S = Seq(Char) /\ y = out[n] \o Piece(x, ch, arg)
    OBVIOUS
  <2>4. out \in [0..n -> S] /\ y \in S
    BY <1>1, <1>3, <2>2, <2>3 DEF Prints
  <2>5. o = Longer(out, n, y)
    BY <1>4, <2>3
  <2>6. o \in [0..(n + 1) -> S] /\ o[n + 1] = y /\ Goes(o, out, n)
    <3>1. n \in Nat
      BY <1>2
    <3>2. /\ Longer(out, n, y) \in [0..(n + 1) -> S]
          /\ Longer(out, n, y)[n + 1] = y /\ Goes(Longer(out, n, y), out, n)
      BY <3>1, <2>4, LongerIs
    <3> QED
      BY <2>5, <3>2
  <2> QED
    BY <2>3, <2>6
<1>9. \A i \in 1..(n + 1) : (i \in 1..n /\ i - 1 \in 0..n /\ i \in 0..n) \/ (i = n + 1 /\ i - 1 = n)
  BY <1>2
<1>10. a[n] = x /\ u[n] = used[n] /\ o[n] = out[n]
  BY <1>1, <1>5, <1>6, <1>7, <1>8 DEF Goes
<1>11. 0 \in 0..n /\ a[0] = "text" /\ u[0] = 0 /\ o[0] = <<>>
  BY <1>1, <1>2, <1>3, <1>6, <1>7, <1>8 DEF Goes, Reader, Uses, Prints
<1>12. Reader(a, v)
  <2>1. ASSUME NEW i \in 1..(n + 1) PROVE a[i] = After(a[i - 1], v[i])
    <3>1. CASE i \in 1..n /\ i - 1 \in 0..n /\ i \in 0..n
      BY <1>1, <1>2, <1>3, <1>6, <3>1 DEF Reader, Goes
    <3>2. CASE i = n + 1 /\ i - 1 = n
      BY <1>2, <1>6, <1>10, <3>2
    <3> QED
      BY <1>9, <3>1, <3>2
  <2> QED
    BY <1>2, <1>6, <1>11, <2>1 DEF Reader
<1>13. Uses(u, a, v)
  <2>1. ASSUME NEW i \in 1..(n + 1) PROVE u[i] = u[i - 1] + One(a[i - 1], v[i])
    <3>1. CASE i \in 1..n /\ i - 1 \in 0..n /\ i \in 0..n
      <4>1. u[i] = used[i] /\ u[i - 1] = used[i - 1] /\ a[i - 1] = at[i - 1] /\ v[i] = fmt[i]
        BY <1>2, <1>6, <1>7, <3>1 DEF Goes
      <4>2. used[i] = used[i - 1] + One(at[i - 1], fmt[i])
        BY <1>1, <1>3, <3>1 DEF Uses
      <4> QED
        BY <4>1, <4>2
    <3>2. CASE i = n + 1 /\ i - 1 = n
      BY <1>2, <1>7, <1>10, <3>2
    <3> QED
      BY <1>9, <3>1, <3>2
  <2> QED
    BY <1>2, <1>7, <1>11, <2>1 DEF Uses
<1>14. /\ Len(args) \in Nat /\ used[n] = Len(args) /\ \A i \in 0..n : used[i] <= Len(args)
  BY <1>1 DEF Printing
<1>15. /\ Converts(x, ch) => /\ Len(more) = Len(args) + 1 /\ more[Len(args) + 1] = arg
                             /\ \A i \in 1..Len(args) : more[i] = args[i]
       /\ ~ Converts(x, ch) => more = args
  BY AppendProperties
<1>16. u[n + 1] = Len(more) /\ Len(more) \in Nat /\ Len(args) <= Len(more)
       /\ (Converts(x, ch) => u[n + 1] = Len(args) + 1)
  BY <1>7, <1>14, <1>15 DEF One
<1>17. \A i \in 0..(n + 1) : u[i] <= Len(more)
  <2> TAKE i \in 0..(n + 1)
  <2>1. CASE i = n + 1
    BY <1>16, <2>1
  <2>2. CASE i # n + 1
    <3>1. i \in 0..n
      BY <1>2, <2>2
    <3>2. u[i] = used[i] /\ used[i] <= Len(args) /\ used[i] \in Nat
      BY <1>1, <1>3, <1>7, <1>14, <3>1 DEF Goes, Uses
    <3> QED
      BY <1>14, <1>16, <3>2
  <2> QED
    BY <2>1, <2>2
<1>18. Prints(o, a, u, v, more)
  <2>1. ASSUME NEW i \in 1..(n + 1)
        PROVE  o[i] = o[i - 1] \o Piece(a[i - 1], v[i], more[u[i]])
    <3>1. CASE i \in 1..n /\ i - 1 \in 0..n /\ i \in 0..n
      <4>1. /\ o[i] = out[i] /\ o[i - 1] = out[i - 1] /\ u[i] = used[i] /\ a[i - 1] = at[i - 1]
            /\ v[i] = fmt[i]
        BY <1>2, <1>6, <1>7, <1>8, <3>1 DEF Goes
      <4>2. out[i] = out[i - 1] \o Piece(at[i - 1], fmt[i], args[used[i]])
        BY <1>1, <1>3, <3>1 DEF Prints
      <4>3. Piece(at[i - 1], fmt[i], args[used[i]]) = Piece(at[i - 1], fmt[i], more[used[i]])
        <5>1. CASE ~ Converts(at[i - 1], fmt[i])
          BY <5>1, PieceIgnores
        <5>2. CASE Converts(at[i - 1], fmt[i])
          <6>1. used[i] = used[i - 1] + 1 /\ used[i - 1] \in Nat /\ used[i] <= Len(args)
            BY <1>1, <1>3, <1>14, <3>1, <5>2 DEF Uses, One
          <6>2. used[i] \in 1..Len(args)
            BY <1>14, <6>1
          <6>3. more[used[i]] = args[used[i]]
            BY <1>15, <6>2
          <6> QED
            BY <6>3
        <5> QED
          BY <5>1, <5>2
      <4> QED
        BY <4>1, <4>2, <4>3
    <3>2. CASE i = n + 1 /\ i - 1 = n
      <4>1. Piece(x, ch, arg) = Piece(x, ch, more[u[n + 1]])
        <5>1. CASE ~ Converts(x, ch)
          BY <5>1, PieceIgnores
        <5>2. CASE Converts(x, ch)
          BY <1>15, <1>16, <5>2
        <5> QED
          BY <5>1, <5>2
      <4> QED
        BY <1>2, <1>8, <1>10, <3>2, <4>1
    <3> QED
      BY <1>9, <3>1, <3>2
  <2> QED
    BY <1>2, <1>8, <1>11, <2>1 DEF Prints
<1>19. Printing(a, u, o, v, more)
  BY <1>2, <1>12, <1>13, <1>16, <1>17, <1>18 DEF Printing
<1> QED
  BY <1>1, <1>6, <1>8, <1>19 DEF Grows

-----------------------------------------------------------------------------
(* There is only one such reader.                                          *)

StepsAlike(n, f, g) ==
  f[0] = g[0] /\ \A i \in 1..n : f[i - 1] = g[i - 1] => f[i] = g[i]

Alike(n, f, g) == \A i \in 0..n : f[i] = g[i]

LEMMA SameUpTo ==
  ASSUME NEW n \in Nat, NEW f, NEW g, StepsAlike(n, f, g)
  PROVE  Alike(n, f, g)
<1>0. f[0] = g[0] /\ \A i \in 1..n : f[i - 1] = g[i - 1] => f[i] = g[i]
  BY DEF StepsAlike
<1> DEFINE G == {i \in Nat : i <= n => f[i] = g[i]}
<1>1. 0 \in G
  BY <1>0
<1>2. ASSUME NEW i \in Nat, i \in G PROVE i + 1 \in G
  <2>1. ASSUME i + 1 <= n PROVE f[i + 1] = g[i + 1]
    <3>1. i + 1 \in 1..n /\ (i + 1) - 1 = i /\ f[i] = g[i]
      BY <1>2, <2>1
    <3> QED
      BY <1>0, <3>1
  <2> QED
    BY <2>1
<1>3. Nat \subseteq G
  <2> HIDE DEF G
  <2> QED
    BY <1>1, <1>2, Induction
<1> QED
  BY <1>3 DEF Alike

StateStep(at, fmt) ==
  [i \in 0..Len(fmt) |->
     IF i = 0 THEN "text"
     ELSE CASE at[i - 1] = "text" -> IF fmt[i] = "percent" THEN "percent" ELSE "text"
            [] at[i - 1] # "text" ->
                 IF fmt[i] \in {"d", "s", "blank"} \/ (fmt[i] = "percent" /\ at[i - 1] = "percent")
                   THEN "text" ELSE "spec"]

LEMMA StateIs ==
  ASSUME NEW fmt \in Seq(FormatChar), NEW at, Reader(at, fmt)
  PROVE  FormatState(fmt) = at
<1>1. PICK n \in Nat : n = Len(fmt)
  OBVIOUS
<1>2. \A x, c : After(x, c) = CASE x = "text" -> IF c = "percent" THEN "percent" ELSE "text"
            [] x # "text" ->
                 IF c \in {"d", "s", "blank"} \/ (c = "percent" /\ x = "percent")
                   THEN "text" ELSE "spec"
  BY DEF After
<1>3. \A g : StateStep(g, fmt) =
        [i \in 0..n |-> IF i = 0 THEN "text" ELSE After(g[i - 1], fmt[i])]
  BY <1>1, <1>2 DEF StateStep
<1>4. at = [i \in 0..n |-> IF i = 0 THEN "text" ELSE After(at[i - 1], fmt[i])]
  <2>1. ASSUME NEW i \in 0..n
        PROVE  at[i] = IF i = 0 THEN "text" ELSE After(at[i - 1], fmt[i])
    <3>1. i = 0 \/ i \in 1..n
      OBVIOUS
    <3> QED
      BY <1>1, <3>1 DEF Reader
  <2> QED
    BY <1>1, <2>1 DEF Reader
<1>5. at = StateStep(at, fmt)
  BY <1>3, <1>4
<1>6. FormatState(fmt) = CHOOSE g : g = StateStep(g, fmt)
  BY DEF FormatState, StateStep
<1>7. FormatState(fmt) = StateStep(FormatState(fmt), fmt)
  BY <1>5, <1>6
<1>8. PICK g : g = FormatState(fmt)
  OBVIOUS
<1>9. g = [i \in 0..n |-> IF i = 0 THEN "text" ELSE After(g[i - 1], fmt[i])]
  BY <1>3, <1>7, <1>8
<1>10. g[0] = at[0] /\ \A i \in 1..n : g[i - 1] = at[i - 1] => g[i] = at[i]
  BY <1>1, <1>9 DEF Reader
<1>11. \A i \in 0..n : g[i] = at[i]
  <2>1. StepsAlike(n, g, at)
    BY ONLY <1>10 DEF StepsAlike
  <2>2. Alike(n, g, at)
    BY ONLY n \in Nat, <2>1, SameUpTo
  <2> QED
    BY ONLY <2>2 DEF Alike
<1>12. g = [i \in 0..n |-> g[i]] /\ at = [i \in 0..n |-> at[i]]
  BY <1>4, <1>9
<1> QED
  BY <1>8, <1>11, <1>12

UsedStep(used, at, fmt) ==
  [i \in 0..Len(fmt) |->
     IF i = 0 THEN 0
     ELSE used[i - 1] + (IF at[i - 1] # "text" /\ fmt[i] \in {"d", "s"} THEN 1 ELSE 0)]

OutStep(out, at, used, fmt, args) ==
  [i \in 0..Len(fmt) |->
     IF i = 0 THEN <<>>
     ELSE out[i - 1] \o
          CASE at[i - 1] # "text" /\ fmt[i] \in {"d", "s"} -> args[used[i]]
            [] at[i - 1] = "text" /\ fmt[i] # "percent" -> <<fmt[i]>>
            [] at[i - 1] = "percent" /\ fmt[i] = "percent" -> <<"percent">>
            [] OTHER -> <<>>]

UsedOf(at, fmt) == CHOOSE used : used = UsedStep(used, at, fmt)
OutOf(at, used, fmt, args) == CHOOSE out : out = OutStep(out, at, used, fmt, args)

LEMMA ExpectedOf ==
  ASSUME NEW fmt, NEW args
  PROVE  Expected(fmt, args) =
           OutOf(FormatState(fmt), UsedOf(FormatState(fmt), fmt), fmt, args)[Len(fmt)]
  BY DEF Expected, OutOf, UsedOf, OutStep, UsedStep

LEMMA UsedIs ==
  ASSUME NEW fmt \in Seq(FormatChar), NEW at, NEW used, Uses(used, at, fmt)
  PROVE  UsedOf(at, fmt) = used
<1>1. PICK n \in Nat : n = Len(fmt)
  OBVIOUS
<1>2. \A g : UsedStep(g, at, fmt) =
        [i \in 0..n |-> IF i = 0 THEN 0 ELSE g[i - 1] + One(at[i - 1], fmt[i])]
  BY <1>1 DEF UsedStep, One, Converts
<1>3. used = [i \in 0..n |-> IF i = 0 THEN 0 ELSE used[i - 1] + One(at[i - 1], fmt[i])]
  <2>1. ASSUME NEW i \in 0..n
        PROVE  used[i] = IF i = 0 THEN 0 ELSE used[i - 1] + One(at[i - 1], fmt[i])
    <3>1. i = 0 \/ i \in 1..n
      OBVIOUS
    <3> QED
      BY <1>1, <3>1 DEF Uses
  <2> QED
    BY <1>1, <2>1 DEF Uses
<1>4. used = UsedStep(used, at, fmt)
  BY <1>2, <1>3
<1>5. UsedOf(at, fmt) = UsedStep(UsedOf(at, fmt), at, fmt)
  BY <1>4 DEF UsedOf
<1>6. PICK g : g = UsedOf(at, fmt)
  OBVIOUS
<1>7. g = [i \in 0..n |-> IF i = 0 THEN 0 ELSE g[i - 1] + One(at[i - 1], fmt[i])]
  BY <1>2, <1>5, <1>6
<1>8. g[0] = used[0] /\ \A i \in 1..n : g[i - 1] = used[i - 1] => g[i] = used[i]
  BY <1>1, <1>7 DEF Uses
<1>9. \A i \in 0..n : g[i] = used[i]
  <2>1. StepsAlike(n, g, used)
    BY ONLY <1>8 DEF StepsAlike
  <2>2. Alike(n, g, used)
    BY ONLY n \in Nat, <2>1, SameUpTo
  <2> QED
    BY ONLY <2>2 DEF Alike
<1>10. g = [i \in 0..n |-> g[i]] /\ used = [i \in 0..n |-> used[i]]
  BY <1>3, <1>7
<1> QED
  BY <1>6, <1>9, <1>10

LEMMA OutIs ==
  ASSUME NEW fmt \in Seq(FormatChar), NEW args, NEW at, NEW used, NEW out,
         Prints(out, at, used, fmt, args)
  PROVE  OutOf(at, used, fmt, args)[Len(fmt)] = out[Len(fmt)]
<1>1. PICK n \in Nat : n = Len(fmt)
  OBVIOUS
<1> DEFINE add(i) == Piece(at[i - 1], fmt[i], args[used[i]])
<1>2. \A g : OutStep(g, at, used, fmt, args) =
        [i \in 0..n |-> IF i = 0 THEN <<>> ELSE g[i - 1] \o add(i)]
  BY <1>1 DEF OutStep, Piece, Converts
<1> HIDE DEF add
<1>3. out[0] = <<>> /\ (\A i \in 1..n : out[i] = out[i - 1] \o add(i)) /\ DOMAIN out = 0..n
  BY <1>1 DEF Prints, add
<1>4. out = [i \in 0..n |-> IF i = 0 THEN <<>> ELSE out[i - 1] \o add(i)]
  <2>1. ASSUME NEW i \in 0..n
        PROVE  out[i] = IF i = 0 THEN <<>> ELSE out[i - 1] \o add(i)
    <3>1. i = 0 \/ i \in 1..n
      OBVIOUS
    <3> QED
      BY <1>3, <3>1
  <2>2. out = [i \in 0..n |-> out[i]]
    BY <1>1 DEF Prints
  <2> QED
    BY <2>1, <2>2
<1>5. out = OutStep(out, at, used, fmt, args)
  BY <1>2, <1>4
<1>6. OutOf(at, used, fmt, args) = OutStep(OutOf(at, used, fmt, args), at, used, fmt, args)
  BY <1>5 DEF OutOf
<1>7. PICK g : g = OutOf(at, used, fmt, args)
  OBVIOUS
<1>8. g = [i \in 0..n |-> IF i = 0 THEN <<>> ELSE g[i - 1] \o add(i)]
  BY <1>2, <1>6, <1>7
<1>9. g[0] = out[0] /\ \A i \in 1..n : g[i - 1] = out[i - 1] => g[i] = out[i]
  <2>1. 0 \in 0..n /\ \A i \in 1..n : i \in 0..n /\ i # 0
    OBVIOUS
  <2>2. g[0] = <<>>
    BY <1>8, <2>1
  <2>3. ASSUME NEW i \in 1..n, g[i - 1] = out[i - 1] PROVE g[i] = out[i]
    <3>1. g[i] = g[i - 1] \o add(i)
      BY <1>8, <2>1
    <3>2. out[i] = out[i - 1] \o add(i)
      BY <1>3
    <3> QED
      BY <2>3, <3>1, <3>2
  <2> QED
    BY <1>3, <2>2, <2>3
<1>10. \A i \in 0..n : g[i] = out[i]
  <2>1. StepsAlike(n, g, out)
    BY ONLY <1>9 DEF StepsAlike
  <2>2. Alike(n, g, out)
    BY ONLY n \in Nat, <2>1, SameUpTo
  <2> QED
    BY ONLY <2>2 DEF Alike
<1>11. n \in 0..n
  OBVIOUS
<1> QED
  BY <1>1, <1>7, <1>10, <1>11

LEMMA ExpectedIs ==
  ASSUME NEW fmt \in Seq(FormatChar), NEW args, NEW at, NEW used, NEW out,
         Printing(at, used, out, fmt, args)
  PROVE  Expected(fmt, args) = out[Len(fmt)] /\ FormatState(fmt) = at
<1>1. FormatState(fmt) = at /\ UsedOf(at, fmt) = used
  BY StateIs, UsedIs DEF Printing
<1>2. OutOf(at, used, fmt, args)[Len(fmt)] = out[Len(fmt)]
  BY OutIs DEF Printing
<1> QED
  BY <1>1, <1>2, ExpectedOf

-----------------------------------------------------------------------------
(* What was read of the format, and what of it is not printed yet.         *)

IsLiteral(at, fmt, i) == i >= 1 /\ at[i - 1] = "text" /\ fmt[i] # "percent"

(* A conversion that cfustring_vsprintf gets wrong. *)
Wrong(at, fmt) ==
  \E i, j \in 1..Len(fmt) :
    /\ at[i - 1] = "text" /\ fmt[i] = "percent"
    /\ i < j /\ at[j - 1] # "text" /\ \A k \in i..(j - 1) : at[k] # "text"
    /\ fmt[j] = "blank" \/ (fmt[j] = "d" /\ ~ IsLiteral(at, fmt, i - 1))

LEMMA SupportedIs ==
  ASSUME NEW fmt \in Seq(FormatChar), NEW at, FormatState(fmt) = at, Supported(fmt)
  PROVE  /\ ~ Wrong(at, fmt)
         /\ IsLiteral(at, fmt, Len(fmt)) => IsLiteral(at, fmt, Len(fmt) - 1)
<1>1. /\ \A i, j \in 1..Len(fmt) :
           (/\ at[i - 1] = "text" /\ fmt[i] = "percent"
            /\ i < j /\ at[j - 1] # "text" /\ \A k \in i..(j - 1) : at[k] # "text") =>
             fmt[j] # "blank" /\ (fmt[j] = "d" => IsLiteral(at, fmt, i - 1))
      /\ IsLiteral(at, fmt, Len(fmt)) => IsLiteral(at, fmt, Len(fmt) - 1)
  BY Zenon DEF Supported, IsLiteral
<1>2. ~ Wrong(at, fmt)
  BY <1>1, Zenon DEF Wrong
<1> QED
  BY <1>1, <1>2

(* Where the literals end that wait to be printed. *)
Upto(c) == IF c.at = "text" THEN Len(c.fmt) ELSE c.ptr - 1

(* start and end enclose them; with none or one of them start is end.      *)
Awaits(at, c) ==
  /\ at[Len(c.fmt)] = c.at
  /\ c.start \in 1..(Upto(c) + 1) /\ Upto(c) \in 0..Len(c.fmt)
  /\ \A k \in c.start..Upto(c) : IsLiteral(at, c.fmt, k)
  /\ ~ IsLiteral(at, c.fmt, c.start - 1)
  /\ c.end = IF c.start > Upto(c) THEN c.start ELSE Upto(c)
  /\ c.at # "text" => /\ c.ptr \in 1..Len(c.fmt) /\ at[c.ptr - 1] = "text"
                      /\ c.fmt[c.ptr] = "percent"
                      /\ \A k \in c.ptr..Len(c.fmt) : at[k] # "text"

Pending(c) == SubSeq(c.fmt, c.start, Upto(c))

Shown(s) == IF TextOf(s) = NULL THEN <<>> ELSE TextOf(s)

Progress(at, used, out, s, c) ==
  /\ Printing(at, used, out, c.fmt, c.args)
  /\ Awaits(at, c)
  /\ Wrong(at, c.fmt) \/ Shown(s) \o Pending(c) = out[Len(c.fmt)]

PrintsRight(s, c) ==
  /\ c.count \in Nat /\ Len(Shown(s)) <= c.count
  /\ c.args \in Seq(Seq(Char))
  /\ \E at, used, out : Progress(at, used, out, s, c)

PrintInv == status = "formatting" => PrintsRight(cfu_str, call)

LEMMA ShownType ==
  ASSUME NEW s, Sound(s)
  PROVE  Shown(s) \in Seq(Char) /\ Len(Shown(s)) \in Nat
<1>1. TextOf(s) # NULL => TextOf(s) \in Seq(Char)
  BY SoundText
<1>2. <<>> \in Seq(Char)
  BY EmptySeq
<1> QED
  BY <1>1, <1>2 DEF Shown

LEMMA ShownAppended ==
  ASSUME NEW s, Sound(s), NEW t \in Seq(Char)
  PROVE  /\ Sound(Appended(s, t)) /\ Shown(Appended(s, t)) = Shown(s) \o t
         /\ Len(Shown(Appended(s, t))) = Len(Shown(s)) + Len(t)
<1>1. /\ Sound(Appended(s, t)) /\ Appended(s, t).str # NULL
      /\ TextOf(Appended(s, t)) = Shown(s) \o t
  BY AppendedSound DEF Shown
<1>2. Shown(s) \in Seq(Char)
  BY ShownType
<1>3. Shown(s) \o t \in Seq(Char) /\ Len(Shown(s) \o t) = Len(Shown(s)) + Len(t)
  BY <1>2, ConcatProperties
<1>4. Shown(s) \o t # NULL
  BY <1>3, CharFacts
<1>5. Shown(Appended(s, t)) = Shown(s) \o t
  BY <1>1, <1>4 DEF Shown
<1> QED
  BY <1>1, <1>3, <1>5

LEMMA ThreeTexts ==
  ASSUME NEW u \in Seq(Char), NEW v \in Seq(Char), NEW w \in Seq(Char)
  PROVE  (u \o v) \o w = u \o (v \o w)
  BY ConcatAssociative

(* Parts of a format. *)
LEMMA PartSame ==
  ASSUME NEW S, NEW fmt \in Seq(S), NEW ch \in S, NEW a \in Nat, NEW b \in Nat,
         a >= 1, b <= Len(fmt)
  PROVE  SubSeq(Append(fmt, ch), a, b) = SubSeq(fmt, a, b)
<1>1. PICK v \in Seq(S) : v = Append(fmt, ch)
  <2>1. Append(fmt, ch) \in Seq(S)
    BY AppendProperties
  <2> QED
    BY <2>1
<1>2. Len(v) = Len(fmt) + 1 /\ \A i \in 1..Len(fmt) : v[i] = fmt[i]
  BY <1>1, AppendProperties
<1>3. \A i \in a..b : v[i] = fmt[i]
  BY <1>2
<1> QED
  BY <1>1, <1>2, <1>3

LEMMA PartMore ==
  ASSUME NEW S, NEW fmt \in Seq(S), NEW a \in Nat, NEW b \in Nat,
         a >= 1, a <= b, b <= Len(fmt)
  PROVE  SubSeq(fmt, a, b) = SubSeq(fmt, a, b - 1) \o <<fmt[b]>>
<1>1. b \in 1..Len(fmt) /\ fmt[b] \in S
  BY ElementOfSeq
<1>2. PICK x \in S : x = fmt[b]
  BY <1>1
<1>3. PICK p, q, r : p = SubSeq(fmt, a, b) /\ q = SubSeq(fmt, a, b - 1) /\ r = <<x>>
  OBVIOUS
<1>4. p \in Seq(S) /\ Len(p) = b - a + 1 /\ \A i \in 1..(b - a + 1) : p[i] = fmt[a + i - 1]
  BY <1>3, SubSeqProperties
<1>5. q \in Seq(S) /\ Len(q) = b - a /\ \A i \in 1..(b - a) : q[i] = fmt[a + i - 1]
  BY <1>3, SubSeqProperties
<1>6. r \in Seq(S) /\ Len(r) = 1 /\ r[1] = x
  BY <1>3
<1>7. /\ q \o r \in Seq(S) /\ Len(q \o r) = b - a + 1
      /\ \A i \in 1..(b - a + 1) : (q \o r)[i] = IF i <= b - a THEN q[i] ELSE r[i - (b - a)]
  <2>1. PICK w : w = q \o r
    OBVIOUS
  <2>2. w \in Seq(S) /\ Len(w) = Len(q) + Len(r)
        /\ \A i \in 1..(Len(q) + Len(r)) : w[i] = IF i <= Len(q) THEN q[i] ELSE r[i - Len(q)]
    BY <1>5, <1>6, <2>1, ConcatProperties
  <2> QED
    BY <1>5, <1>6, <2>1, <2>2
<1>8. ASSUME NEW i \in 1..(b - a + 1) PROVE p[i] = (q \o r)[i]
  <2>1. CASE i <= b - a
    BY <1>4, <1>5, <1>7, <2>1
  <2>2. CASE ~ (i <= b - a)
    <3>1. i = b - a + 1 /\ i - (b - a) = 1 /\ a + i - 1 = b
      BY <2>2
    <3> QED
      BY <1>2, <1>4, <1>6, <1>7, <2>2, <3>1
  <2> QED
    BY <2>1, <2>2
<1>9. p = q \o r
  BY <1>4, <1>7, <1>8, SeqEqual
<1> QED
  BY <1>2, <1>3, <1>9

LEMMA WrongKept ==
  ASSUME NEW fmt \in Seq(FormatChar), NEW ch \in FormatChar, NEW at, NEW at2,
         Goes(at2, at, Len(fmt)), Wrong(at, fmt)
  PROVE  Wrong(at2, Append(fmt, ch))
<1>1. PICK n, v : n = Len(fmt) /\ v = Append(fmt, ch)
  OBVIOUS
<1>2. n \in Nat /\ Len(v) = n + 1 /\ \A i \in 1..n : v[i] = fmt[i]
  BY <1>1, AppendProperties
<1>3. PICK i, j \in 1..n :
        /\ at[i - 1] = "text" /\ fmt[i] = "percent"
        /\ i < j /\ at[j - 1] # "text" /\ \A k \in i..(j - 1) : at[k] # "text"
        /\ fmt[j] = "blank" \/ (fmt[j] = "d" /\ ~ IsLiteral(at, fmt, i - 1))
  BY <1>1 DEF Wrong
<1>4. \A k \in 0..n : at2[k] = at[k]
  BY <1>1 DEF Goes
<1>5. /\ i \in 1..(n + 1) /\ j \in 1..(n + 1) /\ i - 1 \in 0..n /\ j - 1 \in 0..n
      /\ v[i] = fmt[i] /\ v[j] = fmt[j]
  BY <1>2, <1>3
<1>6. \A k \in i..(j - 1) : k \in 0..n
  BY <1>2, <1>3
<1>7. IsLiteral(at2, v, i - 1) => IsLiteral(at, fmt, i - 1)
  <2>1. ASSUME i - 1 >= 1 PROVE i - 1 \in 1..n /\ (i - 1) - 1 \in 0..n
    BY <1>2, <1>3, <2>1
  <2> QED
    BY <1>2, <1>4, <2>1 DEF IsLiteral
<1>8. /\ at2[i - 1] = "text" /\ v[i] = "percent"
      /\ i < j /\ at2[j - 1] # "text" /\ \A k \in i..(j - 1) : at2[k] # "text"
      /\ v[j] = "blank" \/ (v[j] = "d" /\ ~ IsLiteral(at2, v, i - 1))
  BY <1>3, <1>4, <1>5, <1>6, <1>7
<1> QED
  BY <1>1, <1>2, <1>5, <1>8 DEF Wrong

-----------------------------------------------------------------------------
(* The ways in which a character changes what waits.  The call has the     *)
(* fields c before and d behind it, the string is s, then r.               *)

ReadsCh(c, d, ch) ==
  c.fmt \in Seq(FormatChar) /\ c.args \in Seq(Seq(Char)) /\ d.fmt = Append(c.fmt, ch)

(* Facts about the reader behind one character more. *)
ReadOn(at2, v, at, fmt, ch) ==
  /\ Len(v) = Len(fmt) + 1 /\ Len(fmt) \in Nat /\ v[Len(fmt) + 1] = ch
  /\ \A k \in 0..Len(fmt) : at2[k] = at[k]
  /\ \A k \in 1..Len(fmt) : v[k] = fmt[k]
  /\ \A k \in 0..Len(fmt) : IsLiteral(at2, v, k) <=> IsLiteral(at, fmt, k)

LEMMA ReadOne ==
  ASSUME NEW fmt \in Seq(FormatChar), NEW ch \in FormatChar, NEW at, NEW at2,
         Goes(at2, at, Len(fmt)), NEW v, v = Append(fmt, ch)
  PROVE  ReadOn(at2, v, at, fmt, ch)
<1>1. /\ Len(v) = Len(fmt) + 1 /\ Len(fmt) \in Nat /\ v[Len(fmt) + 1] = ch
      /\ \A k \in 0..Len(fmt) : at2[k] = at[k]
      /\ \A k \in 1..Len(fmt) : v[k] = fmt[k]
  BY AppendProperties DEF Goes
<1>2. ASSUME NEW k \in 0..Len(fmt) PROVE IsLiteral(at2, v, k) <=> IsLiteral(at, fmt, k)
  <2>1. CASE k = 0
    BY <2>1 DEF IsLiteral
  <2>2. CASE k # 0
    <3>1. k \in 1..Len(fmt) /\ k - 1 \in 0..Len(fmt)
      BY <1>1, <2>2
    <3>2. v[k] = fmt[k] /\ at2[k - 1] = at[k - 1]
      BY <1>1, <3>1
    <3> QED
      BY <3>2 DEF IsLiteral
  <2> QED
    BY <2>1, <2>2
<1> QED
  BY <1>1, <1>2 DEF ReadOn

LEMMA LiteralAdvances ==
  ASSUME NEW s, NEW c, NEW d, NEW at, NEW used, NEW out, Progress(at, used, out, s, c),
         Sound(s), NEW ch \in FormatChar, ReadsCh(c, d, ch),
         c.at = "text", ch # "percent", d.at = "text", d.args = c.args,
         d.start = c.start, d.end = Len(c.fmt) + 1
  PROVE  \E at2, used2, out2 : Progress(at2, used2, out2, s, d)
<1>1. PICK fmt \in Seq(FormatChar) : fmt = c.fmt
  BY DEF ReadsCh
<1>2. PICK n \in Nat : n = Len(fmt)
  OBVIOUS
<1>3. Printing(at, used, out, fmt, c.args) /\ Awaits(at, c) /\ at[n] = "text"
  BY <1>1, <1>2 DEF Progress, Awaits
<1>4. ~ Converts("text", ch) /\ After("text", ch) = "text" /\ Piece("text", ch, <<>>) = <<ch>>
      /\ <<>> \in Seq(Char)
  BY EmptySeq DEF Converts, After, Piece
<1>5. PICK at2, used2, out2 :
        /\ Printing(at2, used2, out2, Append(fmt, ch), c.args)
        /\ Goes(at2, at, n) /\ at2[n + 1] = "text" /\ out2[n + 1] = out[n] \o <<ch>>
  <2>1. PICK x, arg, more : x = "text" /\ arg = <<>> /\ more = c.args
    OBVIOUS
  <2>2. /\ more \in Seq(Seq(Char)) /\ more = IF Converts(x, ch) THEN Append(more, arg) ELSE more
        /\ arg \in Seq(Char) /\ x = at[Len(fmt)] /\ Printing(at, used, out, fmt, more)
    BY <1>2, <1>3, <1>4, <2>1 DEF ReadsCh
  <2>3. PICK at2, used2, out2 : Grows(at2, used2, out2, at, out, fmt, more, x, ch, arg)
    BY <2>2, OneMore
  <2> QED
    BY <1>2, <1>4, <2>1, <2>3 DEF Grows
<1>6. PICK v : v = d.fmt /\ v = Append(fmt, ch)
  BY <1>1 DEF ReadsCh
<1>7. /\ Len(v) = n + 1 /\ v[n + 1] = ch /\ \A k \in 0..n : at2[k] = at[k]
      /\ \A k \in 0..n : IsLiteral(at2, v, k) <=> IsLiteral(at, fmt, k)
  <2>1. Goes(at2, at, Len(fmt)) /\ v = Append(fmt, ch)
    BY <1>2, <1>5, <1>6
  <2>2. ReadOn(at2, v, at, fmt, ch)
    BY <2>1, ReadOne
  <2> QED
    BY <1>2, <2>2 DEF ReadOn
<1>8. /\ c.start \in 1..(n + 1) /\ (\A k \in c.start..n : IsLiteral(at, fmt, k))
      /\ ~ IsLiteral(at, fmt, c.start - 1) /\ Upto(c) = n
  BY <1>1, <1>2, <1>3 DEF Awaits, Upto
<1>9. Upto(d) = n + 1
  BY <1>6, <1>7 DEF Upto
<1>10. Awaits(at2, d)
  <2>1. n + 1 >= 1 /\ (n + 1) - 1 = n /\ n \in 0..n
    OBVIOUS
  <2>2. IsLiteral(at2, v, n + 1)
    BY <1>3, <1>7, <2>1 DEF IsLiteral
  <2>3. ASSUME NEW k \in c.start..(n + 1) PROVE IsLiteral(at2, v, k)
    <3>1. k = n + 1 \/ (k \in c.start..n /\ k \in 0..n)
      BY <1>8
    <3> QED
      BY <1>7, <1>8, <2>2, <3>1
  <2>4. c.start - 1 \in 0..n
    BY <1>8
  <2>5. ~ IsLiteral(at2, v, c.start - 1)
    BY <1>7, <1>8, <2>4
  <2>6. ~ (c.start > n + 1) /\ c.start \in 1..(n + 1 + 1) /\ n + 1 \in 0..(n + 1)
    BY <1>8
  <2>7. d.end = n + 1
    BY <1>1, <1>2
  <2> QED
    BY <1>5, <1>6, <1>7, <1>9, <2>3, <2>5, <2>6, <2>7 DEF Awaits
<1>11. ASSUME Shown(s) \o Pending(c) = out[n] PROVE Shown(s) \o Pending(d) = out2[n + 1]
  <2>1. PICK p : p = SubSeq(fmt, c.start, n)
    OBVIOUS
  <2>2. SubSeq(v, c.start, n + 1) = SubSeq(v, c.start, n) \o <<ch>>
    <3>1. v \in Seq(FormatChar)
      BY <1>6, AppendProperties
    <3>2. (n + 1) - 1 = n /\ c.start \in Nat /\ c.start >= 1 /\ c.start <= n + 1 /\ n + 1 <= Len(v)
      BY <1>7, <1>8
    <3>3. PICK i, m : i = c.start /\ m = n + 1
      OBVIOUS
    <3>4. i \in Nat /\ m \in Nat /\ i >= 1 /\ i <= m /\ m <= Len(v)
      BY <3>2, <3>3
    <3>5. SubSeq(v, i, m) = SubSeq(v, i, m - 1) \o <<v[m]>>
      BY <3>1, <3>4, PartMore
    <3> QED
      BY <1>7, <3>2, <3>3, <3>5
  <2>3. SubSeq(v, c.start, n) = p
    <3>1. PICK a : a = c.start
      OBVIOUS
    <3>2. a \in Nat /\ a >= 1 /\ n <= Len(fmt)
      BY ONLY <1>2, <1>8, <3>1, n \in Nat
    <3>3. SubSeq(Append(fmt, ch), a, n) = SubSeq(fmt, a, n)
      BY ONLY <3>2, fmt \in Seq(FormatChar), ch \in FormatChar, n \in Nat, PartSame
    <3> QED
      BY ONLY <1>6, <2>1, <3>1, <3>3
  <2>4. Pending(d) = p \o <<ch>> /\ Pending(c) = p
    BY <1>1, <1>6, <1>8, <1>9, <2>1, <2>2, <2>3 DEF Pending
  <2>5. p \in Seq(Char) /\ <<ch>> \in Seq(Char) /\ Shown(s) \in Seq(Char)
    <3>1. p \in Seq(FormatChar)
      BY <1>2, <1>8, <2>1, SubSeqProperties
    <3> QED
      BY <3>1, Arguments, ShownType
  <2>6. Shown(s) \o (p \o <<ch>>) = (Shown(s) \o p) \o <<ch>>
    BY <2>5, ThreeTexts
  <2> QED
    BY <1>5, <1>11, <2>4, <2>6
<1>12. Wrong(at2, d.fmt) \/ Shown(s) \o Pending(d) = out2[Len(d.fmt)]
  BY <1>1, <1>2, <1>5, <1>6, <1>7, <1>11, WrongKept DEF Progress
<1> QED
  BY <1>5, <1>6, <1>10, <1>12 DEF Progress

(* Nothing is printed nor waits: a percent sign, or a character in a       *)
(* conversion.                                                             *)
LEMMA QuietAdvances ==
  ASSUME NEW s, NEW c, NEW d, NEW at, NEW used, NEW out, Progress(at, used, out, s, c),
         Sound(s), NEW ch \in FormatChar, ReadsCh(c, d, ch),
         d.at # "text", d.at = After(c.at, ch), d.args = c.args,
         d.start = c.start, d.end = c.end,
         c.at = "text" => ch = "percent" /\ d.ptr = Len(c.fmt) + 1,
         c.at # "text" => d.ptr = c.ptr
  PROVE  \E at2, used2, out2 : Progress(at2, used2, out2, s, d)
<1>1. PICK fmt \in Seq(FormatChar) : fmt = c.fmt
  BY DEF ReadsCh
<1>2. PICK n \in Nat : n = Len(fmt)
  OBVIOUS
<1>3. Printing(at, used, out, fmt, c.args) /\ Awaits(at, c)
  BY <1>1 DEF Progress
<1>4. PICK x : x = c.at
  OBVIOUS
<1>5. at[n] = x
  BY <1>1, <1>2, <1>3, <1>4 DEF Awaits
<1>6. ~ Converts(x, ch) /\ Piece(x, ch, <<>>) = <<>> /\ <<>> \in Seq(Char)
  BY <1>4, EmptySeq DEF Converts, After, Piece
<1>7. PICK at2, used2, out2 :
        /\ Printing(at2, used2, out2, Append(fmt, ch), c.args)
        /\ Goes(at2, at, n) /\ at2[n + 1] = d.at /\ out2[n + 1] = out[n] \o <<>>
  <2>1. PICK arg, more : arg = <<>> /\ more = c.args
    OBVIOUS
  <2>2. /\ more \in Seq(Seq(Char)) /\ more = IF Converts(x, ch) THEN Append(more, arg) ELSE more
        /\ arg \in Seq(Char) /\ x = at[Len(fmt)] /\ Printing(at, used, out, fmt, more)
    BY <1>2, <1>3, <1>5, <1>6, <2>1 DEF ReadsCh
  <2>3. PICK at2, used2, out2 : Grows(at2, used2, out2, at, out, fmt, more, x, ch, arg)
    BY <2>2, OneMore
  <2> QED
    BY <1>2, <1>4, <1>6, <2>1, <2>3 DEF Grows
<1>8. PICK v : v = d.fmt /\ v = Append(fmt, ch)
  BY <1>1 DEF ReadsCh
<1>9. /\ Len(v) = n + 1 /\ v[n + 1] = ch /\ (\A k \in 0..n : at2[k] = at[k])
      /\ (\A k \in 1..n : v[k] = fmt[k])
      /\ \A k \in 0..n : IsLiteral(at2, v, k) <=> IsLiteral(at, fmt, k)
  <2>1. Goes(at2, at, Len(fmt)) /\ v = Append(fmt, ch)
    BY <1>2, <1>7, <1>8
  <2>2. ReadOn(at2, v, at, fmt, ch)
    BY <2>1, ReadOne
  <2> QED
    BY <1>2, <2>2 DEF ReadOn
<1>10. PICK m : m = Upto(c)
  OBVIOUS
<1>11. /\ c.start \in 1..(m + 1) /\ m \in 0..n /\ (\A k \in c.start..m : IsLiteral(at, fmt, k))
       /\ ~ IsLiteral(at, fmt, c.start - 1) /\ c.end = IF c.start > m THEN c.start ELSE m
  BY <1>1, <1>2, <1>3, <1>10 DEF Awaits
<1>12. d.ptr \in 1..(n + 1) /\ Upto(d) = m /\ d.ptr = m + 1
  <2>1. CASE c.at = "text"
    BY <1>1, <1>2, <1>10, <2>1 DEF Upto
  <2>2. CASE c.at # "text"
    <3>1. c.ptr \in 1..n /\ m = c.ptr - 1
      BY <1>1, <1>2, <1>3, <1>10, <2>2 DEF Awaits, Upto
    <3> QED
      BY <2>2, <3>1 DEF Upto
  <2> QED
    BY <2>1, <2>2
<1>13. /\ at2[d.ptr - 1] = "text" /\ v[d.ptr] = "percent"
       /\ \A k \in d.ptr..(n + 1) : at2[k] # "text"
  <2>1. CASE c.at = "text"
    <3>1. d.ptr = n + 1 /\ d.ptr - 1 = n /\ n \in 0..n
      BY <1>1, <1>2, <2>1
    <3>2. at2[n] = "text" /\ v[n + 1] = "percent"
      BY <1>4, <1>5, <1>9, <2>1, <3>1
    <3>3. \A k \in d.ptr..(n + 1) : k = n + 1
      BY <3>1
    <3> QED
      BY <1>7, <3>1, <3>2, <3>3
  <2>2. CASE c.at # "text"
    <3>1. /\ c.ptr \in 1..n /\ at[c.ptr - 1] = "text" /\ fmt[c.ptr] = "percent"
          /\ \A k \in c.ptr..n : at[k] # "text"
      BY <1>1, <1>2, <1>3, <2>2 DEF Awaits
    <3>2. d.ptr = c.ptr /\ c.ptr - 1 \in 0..n
      BY <2>2, <3>1
    <3>3. ASSUME NEW k \in d.ptr..(n + 1) PROVE at2[k] # "text"
      <4>1. k = n + 1 \/ (k \in c.ptr..n /\ k \in 0..n)
        BY <3>1, <3>2
      <4> QED
        BY <1>7, <1>9, <3>1, <4>1
    <3> QED
      BY <1>9, <3>1, <3>2, <3>3
  <2> QED
    BY <2>1, <2>2
<1>14. Awaits(at2, d)
  <2>1. ASSUME NEW k \in c.start..m PROVE IsLiteral(at2, v, k)
    <3>1. k \in 0..n
      BY <1>11
    <3> QED
      BY <1>9, <1>11, <3>1
  <2>2. c.start - 1 \in 0..n
    BY <1>11
  <2>3. ~ IsLiteral(at2, v, c.start - 1)
    BY <1>9, <1>11, <2>2
  <2>4. m \in 0..(n + 1)
    BY <1>11
  <2> QED
    BY <1>7, <1>8, <1>9, <1>11, <1>12, <1>13, <2>1, <2>3, <2>4 DEF Awaits
<1>15. Pending(d) = Pending(c)
  <2>1. SubSeq(v, c.start, m) = SubSeq(fmt, c.start, m)
    <3>1. PICK a, b : a = c.start /\ b = m
      OBVIOUS
    <3>2. a \in Nat /\ b \in Nat /\ a >= 1 /\ b <= Len(fmt)
      BY ONLY <1>2, <1>11, <3>1, n \in Nat
    <3>3. SubSeq(Append(fmt, ch), a, b) = SubSeq(fmt, a, b)
      BY ONLY <3>2, fmt \in Seq(FormatChar), ch \in FormatChar, PartSame
    <3> QED
      BY ONLY <1>8, <3>1, <3>3
  <2> QED
    BY <1>1, <1>8, <1>10, <1>12, <2>1 DEF Pending
<1>16. out2[n + 1] = out[n]
  <2>1. out[n] \in Seq(Char)
    BY <1>2, <1>3 DEF Printing, Prints
  <2> QED
    BY <1>7, <2>1, ConcatEmptySeq
<1>17. Wrong(at2, d.fmt) \/ Shown(s) \o Pending(d) = out2[Len(d.fmt)]
  BY <1>1, <1>2, <1>7, <1>8, <1>9, <1>15, <1>16, WrongKept DEF Progress
<1> QED
  BY <1>7, <1>8, <1>14, <1>17 DEF Progress

(* A conversion ends, and what waited is printed with what it yields, if   *)
(* it is one of those that are supported.                                  *)
LEMMA FlushAdvances ==
  ASSUME NEW s, NEW r, NEW c, NEW d, NEW at, NEW used, NEW out,
         Progress(at, used, out, s, c), Sound(s), NEW ch \in FormatChar, ReadsCh(c, d, ch),
         NEW arg \in Seq(Char), c.at # "text", After(c.at, ch) = "text", d.at = "text",
         d.args = IF Converts(c.at, ch) THEN Append(c.args, arg) ELSE c.args,
         d.start = Len(c.fmt) + 2, d.end = Len(c.fmt) + 2,
         NEW t, Shown(r) = Shown(s) \o t, Shown(r) \in Seq(Char),
         \/ ch = "blank" \/ (ch = "d" /\ c.start = c.ptr)
         \/ t = Pending(c) \o Piece(c.at, ch, arg)
  PROVE  \E at2, used2, out2 : Progress(at2, used2, out2, r, d)
<1>1. PICK fmt \in Seq(FormatChar) : fmt = c.fmt
  BY DEF ReadsCh
<1>2. PICK n \in Nat : n = Len(fmt)
  OBVIOUS
<1>3. Printing(at, used, out, fmt, c.args) /\ Awaits(at, c)
  BY <1>1 DEF Progress
<1>4. PICK x : x = c.at
  OBVIOUS
<1>5. at[n] = x
  BY <1>1, <1>2, <1>3, <1>4 DEF Awaits
<1>6. PICK at2, used2, out2 :
        /\ Printing(at2, used2, out2, Append(fmt, ch), d.args)
        /\ Goes(at2, at, n) /\ at2[n + 1] = "text" /\ out2[n + 1] = out[n] \o Piece(x, ch, arg)
  <2>1. PICK args, more : args = c.args /\ more = d.args
    OBVIOUS
  <2>2. /\ args \in Seq(Seq(Char)) /\ more = IF Converts(x, ch) THEN Append(args, arg) ELSE args
        /\ x = at[Len(fmt)] /\ Printing(at, used, out, fmt, args)
    BY <1>2, <1>3, <1>4, <1>5, <2>1 DEF ReadsCh
  <2>3. PICK at2, used2, out2 : Grows(at2, used2, out2, at, out, fmt, more, x, ch, arg)
    BY <2>2, OneMore
  <2> QED
    BY <1>2, <1>4, <2>1, <2>3 DEF Grows
<1>7. PICK v : v = d.fmt /\ v = Append(fmt, ch)
  BY <1>1 DEF ReadsCh
<1>8. /\ Len(v) = n + 1 /\ v[n + 1] = ch /\ (\A k \in 0..n : at2[k] = at[k])
      /\ (\A k \in 1..n : v[k] = fmt[k])
      /\ \A k \in 0..n : IsLiteral(at2, v, k) <=> IsLiteral(at, fmt, k)
  <2>1. Goes(at2, at, Len(fmt)) /\ v = Append(fmt, ch)
    BY <1>2, <1>6, <1>7
  <2>2. ReadOn(at2, v, at, fmt, ch)
    BY <2>1, ReadOne
  <2> QED
    BY <1>2, <2>2 DEF ReadOn
<1>9. /\ c.ptr \in 1..n /\ at[c.ptr - 1] = "text" /\ fmt[c.ptr] = "percent"
      /\ \A k \in c.ptr..n : at[k] # "text"
  BY <1>1, <1>2, <1>3 DEF Awaits
<1>10. Upto(d) = n + 1
  BY <1>7, <1>8 DEF Upto
<1>11. Awaits(at2, d)
  <2>1. d.start = n + 2 /\ d.end = n + 2
    BY <1>1, <1>2
  <2>2. at2[n] # "text" /\ (n + 2) - 1 = n + 1 /\ (n + 1) - 1 = n
    <3>1. n \in 0..n
      OBVIOUS
    <3> QED
      BY <1>4, <1>5, <1>8, <3>1
  <2>3. ~ IsLiteral(at2, v, (n + 2) - 1)
    BY <2>2 DEF IsLiteral
  <2>4. n + 2 \in 1..(n + 1 + 1) /\ n + 2 > n + 1 /\ (n + 2)..(n + 1) = {} /\ n + 1 \in 0..(n + 1)
    OBVIOUS
  <2> QED
    BY <1>6, <1>7, <1>8, <1>10, <2>1, <2>3, <2>4 DEF Awaits
<1>12. Pending(d) = <<>>
  <2>1. SubSeq(v, n + 2, n + 1) = <<>>
    BY <1>8, SubSeqEmpty
  <2> QED
    BY <1>1, <1>2, <1>7, <1>10, <2>1 DEF Pending
<1>13. Shown(r) \o Pending(d) = Shown(r)
  BY <1>12, ConcatEmptySeq
<1>14. ASSUME ch = "blank" \/ (ch = "d" /\ c.start = c.ptr) PROVE Wrong(at2, v)
  <2>1. /\ c.ptr \in 1..Len(v) /\ n + 1 \in 1..Len(v) /\ c.ptr < n + 1 /\ (n + 1) - 1 = n
        /\ c.ptr - 1 \in 0..n /\ n \in 0..n
    BY <1>8, <1>9
  <2>2. at2[c.ptr - 1] = "text" /\ v[c.ptr] = "percent" /\ at2[n] # "text"
    BY <1>4, <1>5, <1>8, <1>9, <2>1
  <2>3. ASSUME NEW k \in c.ptr..((n + 1) - 1) PROVE at2[k] # "text"
    <3>1. k \in c.ptr..n /\ k \in 0..n
      BY <1>9, <2>1
    <3> QED
      BY <1>8, <1>9, <3>1
  <2>4. v[n + 1] = "d" => ~ IsLiteral(at2, v, c.ptr - 1)
    <3>1. ASSUME c.start = c.ptr PROVE ~ IsLiteral(at, fmt, c.ptr - 1)
      BY <1>1, <1>3, <3>1 DEF Awaits
    <3> QED
      BY <1>8, <1>14, <2>1, <3>1
  <2>5. v[n + 1] = "blank" \/ (v[n + 1] = "d" /\ ~ IsLiteral(at2, v, c.ptr - 1))
    BY <1>8, <1>14, <2>4
  <2>6. /\ at2[c.ptr - 1] = "text" /\ v[c.ptr] = "percent"
        /\ c.ptr < n + 1 /\ at2[(n + 1) - 1] # "text"
        /\ \A k \in c.ptr..((n + 1) - 1) : at2[k] # "text"
        /\ v[n + 1] = "blank" \/ (v[n + 1] = "d" /\ ~ IsLiteral(at2, v, c.ptr - 1))
    BY <2>1, <2>2, <2>3, <2>5
  <2> QED
    BY <2>1, <2>6 DEF Wrong
<1>15. ASSUME Shown(s) \o Pending(c) = out[n], t = Pending(c) \o Piece(x, ch, arg)
       PROVE  Shown(r) = out2[n + 1]
  <2>1. Shown(s) \in Seq(Char) /\ Piece(x, ch, arg) \in Seq(Char)
    BY ShownType, PieceType
  <2>2. Pending(c) \in Seq(Char)
    <3>1. fmt \in Seq(Char) /\ c.start \in Nat /\ c.start >= 1 /\ Upto(c) \in Nat /\ Upto(c) <= Len(fmt)
      BY <1>1, <1>3, Arguments DEF Awaits
    <3> QED
      BY <1>1, <3>1, PartOf DEF Pending
  <2>3. Shown(s) \o (Pending(c) \o Piece(x, ch, arg)) = (Shown(s) \o Pending(c)) \o Piece(x, ch, arg)
    <3>1. PICK u, v2, w : u = Shown(s) /\ v2 = Pending(c) /\ w = Piece(x, ch, arg)
      OBVIOUS
    <3>2. u \in Seq(Char) /\ v2 \in Seq(Char) /\ w \in Seq(Char)
      BY <2>1, <2>2, <3>1
    <3>3. (u \o v2) \o w = u \o (v2 \o w)
      BY <3>2, ThreeTexts
    <3> QED
      BY <3>1, <3>3
  <2> QED
    BY <1>6, <1>15, <2>3
<1>16. Wrong(at2, d.fmt) \/ Shown(r) \o Pending(d) = out2[Len(d.fmt)]
  <2>1. Wrong(at, fmt) \/ Shown(s) \o Pending(c) = out[n]
    BY <1>1, <1>2 DEF Progress
  <2>2. Wrong(at, fmt) => Wrong(at2, v)
    BY <1>2, <1>6, <1>7, WrongKept
  <2> QED
    BY <1>4, <1>7, <1>8, <1>13, <1>14, <1>15, <2>1, <2>2
<1> QED
  BY <1>6, <1>7, <1>11, <1>16 DEF Progress

-----------------------------------------------------------------------------
(* Every step keeps the invariant.                                         *)

(* What is known of the call under way. *)
LEMMA PrintFacts ==
  ASSUME BufferInv, PrintInv, status = "formatting"
  PROVE  /\ FormatInv /\ Sound(cfu_str) /\ DOMAIN call = Fields
         /\ call.fmt \in Seq(FormatChar) /\ Len(call.fmt) \in Nat
         /\ call.count \in Nat /\ Len(Shown(cfu_str)) <= call.count
         /\ call.args \in Seq(Seq(Char))
         /\ \E at, used, out : Progress(at, used, out, cfu_str, call)
  BY FormatFacts DEF PrintInv, PrintsRight

LEMMA LiteralPrints ==
  ASSUME BufferInv, PrintInv, Literal
  PROVE  PrintInv'
<1>1. status = "formatting" /\ call.at = "text" /\ UNCHANGED <<cfu_str, status>>
  BY DEF Literal, Reading
<1>2. PICK ch \in FormatChar : /\ ch # "percent"
        /\ call' = [call EXCEPT !.fmt = Append(@, ch), !.end = Len(call.fmt) + 1, !.count = @ + 1]
  <2>1. \E ch \in FormatChar \ {"percent"} :
          call' = [call EXCEPT !.fmt = Append(@, ch), !.end = Len(call.fmt) + 1, !.count = @ + 1]
    BY Zenon DEF Literal
  <2> QED
    BY <2>1
<1>3. /\ DOMAIN call = Fields /\ Sound(cfu_str) /\ call.fmt \in Seq(FormatChar)
      /\ call.count \in Nat /\ Len(Shown(cfu_str)) <= call.count /\ call.args \in Seq(Seq(Char))
  BY <1>1, PrintFacts
<1>4. PICK d : d = call'
  OBVIOUS
<1>5. /\ d.fmt = Append(call.fmt, ch) /\ d.end = Len(call.fmt) + 1 /\ d.count = call.count + 1
      /\ d.at = call.at /\ d.start = call.start /\ d.args = call.args
  BY <1>2, <1>3, <1>4 DEF Fields
<1>6. ReadsCh(call, d, ch)
  BY <1>3, <1>5 DEF ReadsCh
<1>7. PICK at, used, out : Progress(at, used, out, cfu_str, call)
  BY <1>1, PrintFacts
<1>8. \E at2, used2, out2 : Progress(at2, used2, out2, cfu_str, d)
  BY <1>1, <1>2, <1>3, <1>5, <1>6, <1>7, LiteralAdvances
<1>9. Len(Shown(cfu_str)) \in Nat
  BY <1>3, ShownType
<1>10. PrintsRight(cfu_str, d)
  BY <1>3, <1>5, <1>8, <1>9 DEF PrintsRight
<1> QED
  BY <1>1, <1>4, <1>10 DEF PrintInv

(* A character that opens a conversion or stands in it. *)
LEMMA QuietPrints ==
  ASSUME BufferInv, PrintInv, status = "formatting", UNCHANGED <<cfu_str, status>>,
         NEW ch \in FormatChar, NEW d, d = call', d.fmt = Append(call.fmt, ch),
         d.at # "text", d.at = After(call.at, ch), d.args = call.args,
         d.start = call.start, d.end = call.end, d.count = call.count,
         call.at = "text" => ch = "percent" /\ d.ptr = Len(call.fmt) + 1,
         call.at # "text" => d.ptr = call.ptr
  PROVE  PrintInv'
<1>1. /\ Sound(cfu_str) /\ call.fmt \in Seq(FormatChar)
      /\ call.count \in Nat /\ Len(Shown(cfu_str)) <= call.count /\ call.args \in Seq(Seq(Char))
  BY PrintFacts
<1>2. ReadsCh(call, d, ch)
  BY <1>1 DEF ReadsCh
<1>3. PICK at, used, out : Progress(at, used, out, cfu_str, call)
  BY PrintFacts
<1>4. \E at2, used2, out2 : Progress(at2, used2, out2, cfu_str, d)
  BY <1>1, <1>2, <1>3, QuietAdvances
<1>5. PrintsRight(cfu_str, d)
  BY <1>1, <1>4 DEF PrintsRight
<1> QED
  BY <1>5 DEF PrintInv

LEMMA PercentPrints ==
  ASSUME BufferInv, PrintInv, PercentSign
  PROVE  PrintInv'
<1>1. /\ status = "formatting" /\ call.at = "text" /\ UNCHANGED <<cfu_str, status>>
      /\ "percent" \in FormatChar
  BY DEF PercentSign, Reading
<1>2. PICK ch \in FormatChar : ch = "percent"
  BY <1>1
<1>3. call' = [call EXCEPT !.fmt = Append(@, ch), !.at = "percent", !.ptr = Len(call.fmt) + 1]
  BY <1>2 DEF PercentSign
<1>4. DOMAIN call = Fields
  BY <1>1, PrintFacts
<1>5. PICK d : d = call'
  OBVIOUS
<1>6. /\ d.fmt = Append(call.fmt, ch) /\ d.at = "percent" /\ d.ptr = Len(call.fmt) + 1
      /\ d.start = call.start /\ d.end = call.end /\ d.count = call.count /\ d.args = call.args
  BY <1>3, <1>4, <1>5 DEF Fields
<1>7. d.at = After(call.at, ch) /\ d.at # "text"
  BY <1>1, <1>2, <1>6 DEF After
<1> QED
  BY <1>1, <1>2, <1>5, <1>6, <1>7, QuietPrints

LEMMA ConversionPrints ==
  ASSUME BufferInv, PrintInv, InConversion
  PROVE  PrintInv'
<1>1. UNCHANGED <<cfu_str, status>>
  BY Zenon DEF InConversion
<1>2. CASE Reading({"percent"}) /\ \E ch \in FormatChar \ {"percent", "d", "s", "blank"} :
             call' = [call EXCEPT !.fmt = Append(@, ch), !.at = "spec"]
  <2>1. PICK ch \in FormatChar : /\ ch \notin {"percent", "d", "s", "blank"}
          /\ call' = [call EXCEPT !.fmt = Append(@, ch), !.at = "spec"]
    BY <1>2
  <2>2. status = "formatting" /\ call.at = "percent"
    BY <1>2 DEF Reading
  <2>3. DOMAIN call = Fields
    BY <2>2, PrintFacts
  <2>4. PICK d : d = call'
    OBVIOUS
  <2>5. /\ d.fmt = Append(call.fmt, ch) /\ d.at = "spec" /\ d.ptr = call.ptr
        /\ d.start = call.start /\ d.end = call.end /\ d.count = call.count /\ d.args = call.args
    BY <2>1, <2>3, <2>4 DEF Fields
  <2>6. d.at = After(call.at, ch) /\ d.at # "text"
    BY <2>1, <2>2, <2>5 DEF After
  <2> QED
    BY <1>1, <2>2, <2>4, <2>5, <2>6, QuietPrints
<1>3. CASE Reading({"spec"}) /\ \E ch \in FormatChar \ {"d", "s", "blank"} :
             call' = [call EXCEPT !.fmt = Append(@, ch)]
  <2>1. PICK ch \in FormatChar : /\ ch \notin {"d", "s", "blank"}
          /\ call' = [call EXCEPT !.fmt = Append(@, ch)]
    BY <1>3
  <2>2. status = "formatting" /\ call.at = "spec"
    BY <1>3 DEF Reading
  <2>3. DOMAIN call = Fields
    BY <2>2, PrintFacts
  <2>4. PICK d : d = call'
    OBVIOUS
  <2>5. /\ d.fmt = Append(call.fmt, ch) /\ d.at = "spec" /\ d.ptr = call.ptr
        /\ d.start = call.start /\ d.end = call.end /\ d.count = call.count /\ d.args = call.args
    BY <2>1, <2>2, <2>3, <2>4 DEF Fields
  <2>6. d.at = After(call.at, ch) /\ d.at # "text"
    BY <2>1, <2>2, <2>5 DEF After
  <2> QED
    BY <1>1, <2>2, <2>4, <2>5, <2>6, QuietPrints
<1> QED
  BY <1>2, <1>3, Zenon DEF InConversion

(* The end of a conversion: the text t is printed, and the reader is back  *)
(* among literals.                                                         *)
LEMMA PrintedAdvances ==
  ASSUME BufferInv, PrintInv, status = "formatting", status' = status, call.at # "text",
         NEW ch \in FormatChar, NEW arg \in Seq(Char), NEW t \in Seq(Char),
         NEW r, r = cfu_str', Sound(r), Shown(r) = Shown(cfu_str) \o t,
         NEW d, d = call', d.fmt = Append(call.fmt, ch), d.at = "text",
         After(call.at, ch) = "text",
         d.args = IF Converts(call.at, ch) THEN Append(call.args, arg) ELSE call.args,
         d.start = Len(call.fmt) + 2, d.end = Len(call.fmt) + 2,
         d.count = call.count + Len(t),
         \/ ch = "blank" \/ (ch = "d" /\ call.start = call.ptr)
         \/ t = Pending(call) \o Piece(call.at, ch, arg)
  PROVE  PrintInv'
<1>1. /\ Sound(cfu_str) /\ call.fmt \in Seq(FormatChar)
      /\ call.count \in Nat /\ Len(Shown(cfu_str)) <= call.count /\ call.args \in Seq(Seq(Char))
  BY PrintFacts
<1>2. ReadsCh(call, d, ch)
  BY <1>1 DEF ReadsCh
<1>3. PICK at, used, out : Progress(at, used, out, cfu_str, call)
  BY PrintFacts
<1>4. Shown(r) \in Seq(Char) /\ Len(Shown(r)) \in Nat
  BY ShownType
<1>5. \E at2, used2, out2 : Progress(at2, used2, out2, r, d)
  BY <1>1, <1>2, <1>3, <1>4, FlushAdvances
<1>6. Len(Shown(r)) <= d.count /\ d.count \in Nat
  <2>1. Shown(cfu_str) \in Seq(Char) /\ Len(Shown(cfu_str)) \in Nat
    BY <1>1, ShownType
  <2>2. Len(Shown(cfu_str) \o t) = Len(Shown(cfu_str)) + Len(t) /\ Len(t) \in Nat
    BY <2>1, ConcatProperties
  <2> QED
    BY <1>1, <2>1, <2>2
<1>7. d.args \in Seq(Seq(Char))
  BY <1>1, AppendProperties
<1>8. PrintsRight(r, d)
  BY <1>5, <1>6, <1>7 DEF PrintsRight
<1> QED
  BY <1>8 DEF PrintInv

LEMMA FlushPrints ==
  ASSUME BufferInv, PrintInv, status = "formatting", call.at # "text",
         NEW ch \in FormatChar, NEW t \in Seq(Char), NEW fmt, fmt = Append(call.fmt, ch),
         Flush(fmt, t), After(call.at, ch) = "text", ~ Converts(call.at, ch),
         ch = "blank" \/ t = Pending(call) \o Piece(call.at, ch, <<>>)
  PROVE  PrintInv'
<1>1. DOMAIN call = Fields /\ Sound(cfu_str) /\ call.fmt \in Seq(FormatChar)
  BY PrintFacts
<1>2. Len(fmt) = Len(call.fmt) + 1 /\ Len(call.fmt) \in Nat
  BY <1>1, AppendProperties
<1>3. PICK n, m : n = Len(fmt) + 1 /\ m = call.count + Len(t)
  OBVIOUS
<1>4. call' = [call EXCEPT !.fmt = fmt, !.at = "text", !.start = n, !.end = n, !.count = m]
  BY <1>3 DEF Flush
<1>5. PICK d : d = call'
  OBVIOUS
<1>6. /\ d.fmt = fmt /\ d.at = "text" /\ d.start = n /\ d.end = n /\ d.count = m
      /\ d.args = call.args
  BY <1>1, <1>4, <1>5 DEF Fields
<1>7. n = Len(call.fmt) + 2
  BY <1>2, <1>3
<1>8. PICK r : r = Appended(cfu_str, t)
  OBVIOUS
<1>9. Sound(r) /\ Shown(r) = Shown(cfu_str) \o t
  BY <1>1, <1>8, ShownAppended
<1>10. r = cfu_str' /\ status' = status
  BY <1>8 DEF Flush
<1>11. PICK arg \in Seq(Char) : arg = <<>>
  BY EmptySeq
<1>12. ch = "blank" \/ t = Pending(call) \o Piece(call.at, ch, arg)
  BY <1>11
<1>13. d.args = IF Converts(call.at, ch) THEN Append(call.args, arg) ELSE call.args
  BY <1>6
<1>14. d.count = call.count + Len(t) /\ d.start = Len(call.fmt) + 2 /\ d.end = Len(call.fmt) + 2
  BY <1>3, <1>6, <1>7
<1> QED
  BY <1>5, <1>6, <1>9, <1>10, <1>12, <1>13, <1>14, PrintedAdvances

(* Where the literals are that wait before a conversion. *)
LEMMA WaitingIs ==
  ASSUME BufferInv, PrintInv, status = "formatting", call.at # "text"
  PROVE  /\ call.ptr \in 1..Len(call.fmt) /\ call.fmt[call.ptr] = "percent"
         /\ call.start \in 1..call.ptr /\ Pending(call) = SubSeq(call.fmt, call.start, call.ptr - 1)
         /\ Pending(call) \in Seq(Char)
         /\ call.start = call.ptr => Pending(call) = <<>>
         /\ call.start # call.ptr => Literals(call.fmt) = Pending(call)
<1>1. PICK at, used, out : Progress(at, used, out, cfu_str, call)
  BY PrintFacts
<1>2. call.fmt \in Seq(FormatChar) /\ call.fmt \in Seq(Char) /\ Len(call.fmt) \in Nat
  BY PrintFacts, Arguments
<1>3. /\ call.ptr \in 1..Len(call.fmt) /\ call.fmt[call.ptr] = "percent"
      /\ Upto(call) = call.ptr - 1 /\ call.start \in 1..(call.ptr - 1 + 1)
      /\ call.end = IF call.start > call.ptr - 1 THEN call.start ELSE call.ptr - 1
  BY <1>1 DEF Progress, Awaits, Upto
<1>4. call.ptr \in Nat /\ call.start \in 1..call.ptr /\ call.start \in Nat
  BY <1>2, <1>3
<1>5. Pending(call) = SubSeq(call.fmt, call.start, call.ptr - 1)
  BY <1>3 DEF Pending
<1>6. SubSeq(call.fmt, call.start, call.ptr - 1) \in Seq(Char)
  <2>1. PICK m, n : m = call.start /\ n = call.ptr - 1
    OBVIOUS
  <2>2. m \in Nat /\ n \in Nat /\ m >= 1 /\ n <= Len(call.fmt)
    BY <1>2, <1>3, <1>4, <2>1
  <2>3. SubSeq(call.fmt, m, n) \in Seq(Char)
    BY <1>2, <2>2, PartOf
  <2> QED
    BY <2>1, <2>3
<1>7. ASSUME call.start = call.ptr PROVE Pending(call) = <<>>
  BY <1>2, <1>4, <1>5, <1>7, SubSeqEmpty
<1>8. ASSUME call.start # call.ptr PROVE Literals(call.fmt) = Pending(call)
  <2>1. call.end = call.ptr - 1
    BY <1>3, <1>4, <1>8
  <2> QED
    BY <1>5, <2>1 DEF Literals
<1> QED
  BY <1>3, <1>4, <1>5, <1>6, <1>7, <1>8

LEMMA PercentPercentPrints ==
  ASSUME BufferInv, PrintInv, PercentPercent
  PROVE  PrintInv'
<1>1. status = "formatting" /\ call.at = "percent" /\ "percent" \in FormatChar
  BY DEF PercentPercent, Reading
<1>2. PICK ch \in FormatChar : ch = "percent"
  BY <1>1
<1>3. PICK fmt, t : fmt = Append(call.fmt, ch) /\ t = SubSeq(fmt, call.start, call.ptr)
  OBVIOUS
<1>4. Flush(fmt, t)
  BY <1>2, <1>3 DEF PercentPercent
<1>5. /\ call.ptr \in 1..Len(call.fmt) /\ call.fmt[call.ptr] = ch /\ call.start \in 1..call.ptr
      /\ Pending(call) = SubSeq(call.fmt, call.start, call.ptr - 1) /\ Pending(call) \in Seq(Char)
  BY <1>1, <1>2, WaitingIs
<1>6. call.fmt \in Seq(FormatChar) /\ Len(call.fmt) \in Nat
  BY <1>1, PrintFacts
<1>7. PICK m, n : m = call.start /\ n = call.ptr
  OBVIOUS
<1>8. m \in Nat /\ n \in Nat /\ m >= 1 /\ m <= n /\ n <= Len(call.fmt)
  BY <1>5, <1>6, <1>7
<1>9. t = Pending(call) \o <<ch>>
  <2>1. SubSeq(fmt, m, n) = SubSeq(call.fmt, m, n)
    BY <1>3, <1>6, <1>8, PartSame
  <2>2. SubSeq(call.fmt, m, n) = SubSeq(call.fmt, m, n - 1) \o <<call.fmt[n]>>
    BY <1>6, <1>8, PartMore
  <2> QED
    BY <1>3, <1>5, <1>7, <2>1, <2>2
<1>10. t \in Seq(Char)
  <2>1. <<ch>> \in Seq(Char)
    BY Arguments
  <2> QED
    BY <1>5, <1>9, <2>1, ConcatProperties
<1>11. After(call.at, ch) = "text" /\ ~ Converts(call.at, ch) /\ Piece(call.at, ch, <<>>) = <<ch>>
  BY <1>1, <1>2 DEF After, Converts, Piece
<1>12. t = Pending(call) \o Piece(call.at, ch, <<>>)
  BY <1>9, <1>11
<1> QED
  BY <1>1, <1>3, <1>4, <1>10, <1>11, <1>12, FlushPrints

LEMMA BlankPrints ==
  ASSUME BufferInv, PrintInv, ConvertBlank
  PROVE  PrintInv'
<1>1. status = "formatting" /\ call.at # "text" /\ "blank" \in FormatChar
  BY DEF ConvertBlank, Reading
<1>2. PICK ch \in FormatChar : ch = "blank"
  BY <1>1
<1>3. PICK fmt, t : fmt = Append(call.fmt, ch) /\ t = Literals(call.fmt)
  OBVIOUS
<1>4. Flush(fmt, t)
  BY <1>2, <1>3 DEF ConvertBlank
<1>5. t \in Seq(Char)
  BY <1>1, <1>3, FormatFacts, LiteralsAre DEF FormatInv
<1>6. After(call.at, ch) = "text" /\ ~ Converts(call.at, ch)
  BY <1>1, <1>2 DEF After, Converts
<1> QED
  BY <1>1, <1>2, <1>3, <1>4, <1>5, <1>6, FlushPrints

LEMMA ConvertPrints ==
  ASSUME BufferInv, PrintInv, status = "formatting", call.at # "text",
         NEW ch \in FormatChar, ch \in {"d", "s"}, NEW due \in BOOLEAN, NEW arg \in Seq(Char),
         Convert(ch, due, arg),
         due => ch = "d" \/ call.start # call.ptr,
         ~ due => call.start = call.ptr
  PROVE  PrintInv'
<1>1. /\ DOMAIN call = Fields /\ Sound(cfu_str) /\ call.fmt \in Seq(FormatChar)
      /\ Len(call.fmt) \in Nat /\ FormatInv /\ call.count \in Nat
  BY PrintFacts
<1>2. PICK literals : literals = IF due THEN Literals(call.fmt) ELSE <<>>
  OBVIOUS
<1>3. literals \in Seq(Char) /\ Len(literals) \in Nat
  <2>1. call.end <= Len(call.fmt)
    BY <1>1 DEF FormatInv
  <2>2. Literals(call.fmt) \in Seq(Char) /\ <<>> \in Seq(Char)
    BY <1>1, <2>1, LiteralsAre, EmptySeq
  <2>3. literals \in Seq(Char)
    BY <1>2, <2>2
  <2> QED
    BY <2>3
<1>4. PICK before, size : /\ before = IF due THEN Appended(cfu_str, literals) ELSE cfu_str
                          /\ size = Room(call.size, Len(arg))
  OBVIOUS
<1>5. Sound(before) /\ Shown(before) = Shown(cfu_str) \o literals
  <2>1. CASE due
    BY <1>1, <1>3, <1>4, <2>1, ShownAppended
  <2>2. CASE ~ due
    <3>1. Shown(cfu_str) \in Seq(Char)
      BY <1>1, ShownType
    <3>2. literals = <<>> /\ before = cfu_str
      BY <1>2, <1>4, <2>2
    <3>3. Shown(cfu_str) \o <<>> = Shown(cfu_str)
      BY <3>1, ConcatEmptySeq
    <3> QED
      BY <1>1, <3>2, <3>3
  <2> QED
    BY <2>1, <2>2
<1>6. Printed(arg, size) = arg
  <2>1. call.size \in Nat /\ call.size >= 1 /\ Len(arg) \in Nat
    BY <1>1 DEF FormatInv
  <2>2. size \in Nat /\ size > Len(arg) + 1
    BY <1>4, <2>1, RoomFacts
  <2> QED
    BY <2>1, <2>2 DEF Printed
<1>7. PICK r : r = Appended(before, arg)
  OBVIOUS
<1>8. r = cfu_str' /\ status' = status
  <2>1. before = IF due THEN Appended(cfu_str, Literals(call.fmt)) ELSE cfu_str
    BY <1>2, <1>4
  <2>2. cfu_str' = Appended(before, Printed(arg, size)) /\ status' = status
    BY <1>4, <2>1 DEF Convert
  <2> QED
    BY <1>6, <1>7, <2>2
<1>9. PICK t : t = literals \o arg
  OBVIOUS
<1>10. t \in Seq(Char) /\ Len(t) = Len(literals) + Len(arg)
  BY <1>3, <1>9, ConcatProperties
<1>11. Sound(r) /\ Shown(r) = Shown(cfu_str) \o t
  <2>1. Sound(r) /\ Shown(r) = Shown(before) \o arg
    BY <1>5, <1>7, ShownAppended
  <2>2. PICK u \in Seq(Char) : u = Shown(cfu_str)
    BY <1>1, ShownType
  <2>3. (u \o literals) \o arg = u \o (literals \o arg)
    BY <1>3, ThreeTexts
  <2> QED
    BY <1>5, <1>9, <2>1, <2>2, <2>3
<1>12. PICK fmt, args, n, m : /\ fmt = Append(call.fmt, ch) /\ args = Append(call.args, arg)
         /\ n = call.count + Len(arg) + (IF due THEN Len(Literals(call.fmt)) ELSE 0)
         /\ m = Len(call.fmt) + 2
  OBVIOUS
<1>13. call' = [call EXCEPT !.fmt = fmt, !.at = "text", !.size = size, !.start = m, !.end = m,
                  !.count = n, !.args = args]
  BY <1>4, <1>12 DEF Convert
<1>14. PICK d : d = call'
  OBVIOUS
<1>15. /\ d.fmt = fmt /\ d.at = "text" /\ d.start = m /\ d.end = m /\ d.count = n
       /\ d.args = args
  BY <1>1, <1>13, <1>14 DEF Fields
<1>16. n = call.count + Len(t)
  <2>1. Len(literals) = IF due THEN Len(Literals(call.fmt)) ELSE 0
    BY <1>2
  <2>2. n = call.count + Len(arg) + Len(literals)
    BY <1>12, <2>1
  <2> QED
    BY <1>1, <1>3, <1>10, <2>2
<1>17. Converts(call.at, ch) /\ After(call.at, ch) = "text" /\ Piece(call.at, ch, arg) = arg
  BY DEF Converts, After, Piece
<1>18. (ch = "d" /\ call.start = call.ptr) \/ t = Pending(call) \o Piece(call.at, ch, arg)
  <2>1. /\ call.start = call.ptr => Pending(call) = <<>>
        /\ call.start # call.ptr => Literals(call.fmt) = Pending(call)
    BY WaitingIs
  <2>2. CASE due /\ call.start # call.ptr
    BY <1>2, <1>9, <1>17, <2>1, <2>2
  <2>3. CASE due /\ call.start = call.ptr
    BY <2>3
  <2>4. CASE ~ due
    BY <1>2, <1>9, <1>17, <2>1, <2>4
  <2> QED
    BY <2>2, <2>3, <2>4
<1>19. d.args = IF Converts(call.at, ch) THEN Append(call.args, arg) ELSE call.args
  BY <1>12, <1>15, <1>17
<1>20. d.count = call.count + Len(t) /\ d.start = Len(call.fmt) + 2 /\ d.end = Len(call.fmt) + 2
       /\ d.fmt = Append(call.fmt, ch) /\ d.at = "text"
  BY <1>12, <1>15, <1>16
<1> QED
  BY <1>8, <1>10, <1>11, <1>14, <1>17, <1>18, <1>19, <1>20, PrintedAdvances

LEMMA NumberPrints ==
  ASSUME BufferInv, PrintInv, ConvertNumber
  PROVE  PrintInv'
<1>1. status = "formatting" /\ call.at # "text" /\ "d" \in FormatChar
  BY DEF ConvertNumber, Reading
<1>2. ASSUME NEW arg \in Numbers, Convert("d", TRUE, arg) PROVE PrintInv'
  <2>1. PICK ch, due : ch = "d" /\ due = TRUE
    OBVIOUS
  <2>2. /\ Convert(ch, due, arg) /\ ch \in FormatChar /\ due \in BOOLEAN /\ arg \in Seq(Char)
        /\ ch \in {"d", "s"}
    BY <1>1, <1>2, <2>1, Arguments
  <2>3. (due => ch = "d" \/ call.start # call.ptr) /\ (~ due => call.start = call.ptr)
    BY <2>1
  <2> QED
    BY <1>1, <2>2, <2>3, ConvertPrints
<1>3. CASE Undefined
  BY <1>3 DEF Undefined, PrintInv
<1> QED
  BY <1>2, <1>3 DEF ConvertNumber

LEMMA StringPrints ==
  ASSUME BufferInv, PrintInv, ConvertString
  PROVE  PrintInv'
<1>1. status = "formatting" /\ call.at # "text" /\ "s" \in FormatChar
  BY DEF ConvertString, Reading
<1>2. ASSUME NEW arg \in Strings \cup {<<"null">>}, Convert("s", call.ptr # call.start, arg)
      PROVE  PrintInv'
  <2>1. PICK ch, due : ch = "s" /\ due = (call.ptr # call.start)
    OBVIOUS
  <2>2. Convert(ch, due, arg) /\ ch \in FormatChar /\ ch \in {"d", "s"}
    BY <1>1, <1>2, <2>1
  <2>3. arg \in Seq(Char)
    BY <1>2, Arguments
  <2>4. due \in BOOLEAN
    BY <2>1
  <2>5. (due => ch = "d" \/ call.start # call.ptr) /\ (~ due => call.start = call.ptr)
    BY <2>1
  <2> QED
    BY <1>1, <2>2, <2>3, <2>4, <2>5, ConvertPrints
<1>3. CASE Undefined
  BY <1>3 DEF Undefined, PrintInv
<1> QED
  BY <1>2, <1>3 DEF ConvertString

(* Nothing is read and nothing printed when the call begins. *)
LEMMA SprintfPrints ==
  ASSUME BufferInv, Sprintf
  PROVE  PrintInv'
<1>1. PICK s : s = Cleared(cfu_str)
  OBVIOUS
<1>2. Shown(s) = <<>> /\ s = cfu_str'
  <2>1. TextOf(s) = IF cfu_str.str = NULL THEN NULL ELSE <<>>
    BY <1>1, ClearedSound DEF BufferInv
  <2>2. s = cfu_str'
    BY <1>1 DEF Sprintf
  <2> QED
    BY <2>1, <2>2 DEF Shown
<1>3. PICK none, n, at, used, out :
        /\ none = <<>> /\ n = 0 /\ at = [i \in 0..n |-> "text"]
        /\ used = [i \in 0..n |-> n] /\ out = [i \in 0..n |-> none]
  OBVIOUS
<1>4. /\ none \in Seq(FormatChar) /\ none \in Seq(Char) /\ none \in Seq(Seq(Char))
      /\ Len(none) = n /\ n \in 0..n /\ n \in Nat
  BY <1>3, EmptySeq
<1>5. PICK d : d = call'
  OBVIOUS
<1>6. d = [on |-> TRUE, fmt |-> none, at |-> "text", ptr |-> 1, start |-> 1, end |-> 1,
           size |-> Scratch, count |-> n, args |-> none, before |-> Content]
  BY <1>3, <1>5 DEF Sprintf
<1>7. /\ d.fmt = none /\ d.at = "text" /\ d.start = 1 /\ d.end = 1 /\ d.count = n
      /\ d.args = none
  BY <1>6
<1>8. 1..n = {}
  BY <1>3
<1>9. Reader(at, none)
  <2>1. at \in [0..n -> {"text", "percent", "spec"}] /\ at[0] = "text"
    BY <1>3, <1>4
  <2> QED
    BY <1>4, <1>8, <2>1 DEF Reader
<1>10. Uses(used, at, none)
  <2>1. used \in [0..n -> Nat] /\ used[0] = 0
    BY <1>3, <1>4
  <2> QED
    BY <1>4, <1>8, <2>1 DEF Uses
<1>11. Prints(out, at, used, none, none)
  <2>1. out \in [0..n -> Seq(Char)] /\ out[0] = <<>>
    BY <1>3, <1>4
  <2> QED
    BY <1>4, <1>8, <2>1 DEF Prints
<1>12. Printing(at, used, out, none, none)
  <2>1. used[n] = n /\ \A i \in 0..n : used[i] <= n
    BY <1>3, <1>4
  <2> QED
    BY <1>4, <1>9, <1>10, <1>11, <2>1 DEF Printing
<1>13. Upto(d) = n
  BY <1>4, <1>7 DEF Upto
<1>14. Awaits(at, d)
  <2>1. at[n] = "text" /\ 1 \in 1..(n + 1) /\ n \in 0..n /\ 1 > n
    BY <1>3
  <2>2. ~ IsLiteral(at, none, 1 - 1)
    BY DEF IsLiteral
  <2> QED
    BY <1>3, <1>4, <1>7, <1>13, <2>1, <2>2 DEF Awaits
<1>15. Shown(s) \o Pending(d) = out[n]
  <2>1. SubSeq(none, 1, n) = <<>>
    BY <1>3, <1>4, SubSeqEmpty
  <2>2. Pending(d) = <<>>
    BY <1>7, <1>13, <2>1 DEF Pending
  <2>3. none \o none = none
    BY <1>3, <1>4, ConcatEmptySeq
  <2>4. out[n] = none
    BY <1>3, <1>4
  <2> QED
    BY <1>2, <1>3, <2>2, <2>3, <2>4
<1>16. Progress(at, used, out, s, d)
  BY <1>4, <1>7, <1>12, <1>14, <1>15 DEF Progress
<1>17. PrintsRight(s, d)
  <2>1. Len(Shown(s)) = n /\ d.count \in Nat /\ Len(Shown(s)) <= d.count
    BY <1>2, <1>3, <1>4, <1>7
  <2> QED
    BY <1>4, <1>7, <1>16, <2>1 DEF PrintsRight
<1> QED
  BY <1>2, <1>5, <1>17 DEF PrintInv

LEMMA PrintStep ==
  ASSUME BufferInv, PrintInv, [Next]_vars
  PROVE  PrintInv'
<1>1. ASSUME status' # "formatting" PROVE PrintInv'
  BY <1>1 DEF PrintInv
<1>2. CASE New
  BY <1>1, <1>2 DEF New
<1>3. CASE Dup
  BY <1>1, <1>3 DEF Dup, Running, Becomes
<1>4. CASE Clear
  BY <1>1, <1>4 DEF Clear, Running, Becomes
<1>5. CASE GetBufferCopy
  BY <1>1, <1>5 DEF GetBufferCopy, Running
<1>6. CASE Destroy
  BY <1>1, <1>6 DEF Destroy
<1>7. CASE Undefined
  BY <1>1, <1>7 DEF Undefined
<1>8. ASSUME NEW n \in Counts, AppendOwn(n) PROVE PrintInv'
  BY <1>1, <1>7, <1>8 DEF AppendOwn, Running, Becomes
<1>9. ASSUME NEW n \in Counts, NEW t \in Strings, AppendN(t, n) PROVE PrintInv'
  BY <1>1, <1>7, <1>9 DEF AppendN, Running, Becomes
<1>10. ASSUME NEW seps \in SepLists, NEW limit \in Limits, Split(seps, limit) PROVE PrintInv'
  <2>1. status' \in {"running", "splitting"}
    BY <1>10 DEF Split, Return
  <2> QED
    BY <1>1, <2>1
<1>11. CASE NextField
  <2>1. status' \in {"running", "splitting"}
    BY <1>11 DEF NextField, Return
  <2> QED
    BY <1>1, <2>1
<1>12. CASE Sprintf
  BY <1>12, SprintfPrints
<1>13. CASE Literal
  BY <1>13, LiteralPrints
<1>14. CASE PercentSign
  BY <1>14, PercentPrints
<1>15. CASE PercentPercent
  BY <1>15, PercentPercentPrints
<1>16. CASE InConversion
  BY <1>16, ConversionPrints
<1>17. CASE ConvertNumber
  BY <1>17, NumberPrints
<1>18. CASE ConvertString
  BY <1>18, StringPrints
<1>19. CASE ConvertBlank
  BY <1>19, BlankPrints
<1>20. CASE FormatOverrun
  BY <1>7, <1>20 DEF FormatOverrun
<1>21. CASE FormatEnds
  BY <1>1, <1>21 DEF FormatEnds
<1>22. CASE UNCHANGED vars
  <2>1. cfu_str' = cfu_str /\ call' = call /\ status' = status
    BY <1>22 DEF vars
  <2> QED
    BY <2>1 DEF PrintInv
<1>23. CASE Ended
  BY <1>22, <1>23 DEF Ended
<1>24. CASE Next
  BY Zenon, <1>2, <1>3, <1>4, <1>5, <1>6, <1>8, <1>9, <1>10, <1>11, <1>12, <1>13, <1>14,
     <1>15, <1>16, <1>17, <1>18, <1>19, <1>20, <1>21, <1>23, <1>24 DEF Next
<1> QED
  BY <1>22, <1>24

-----------------------------------------------------------------------------
(* What is printed in the end.                                             *)

(* Whatever the format, what is returned is not less than is printed. *)
LEMMA EndCounts ==
  ASSUME BufferInv, PrintInv, FormatEnds
  PROVE  Len(Shown(cfu_str')) <= res'.n
<1>1. status = "formatting" /\ FormatInv /\ Sound(cfu_str)
  BY FormatFacts DEF FormatEnds
<1>2. call.count \in Nat /\ Len(Shown(cfu_str)) <= call.count
  BY <1>1, PrintFacts
<1>3. PICK rest : /\ rest = IF call.end = call.start THEN <<>> ELSE Literals(call.fmt)
                  /\ cfu_str' = IF rest = <<>> THEN cfu_str ELSE Appended(cfu_str, rest)
                  /\ res' = Answer(<<"print">>, <<>>, call.count + Len(rest))
  BY DEF FormatEnds
<1>4. res'.n = call.count + Len(rest)
  BY <1>3 DEF Answer
<1>5. rest \in Seq(Char) /\ Len(rest) \in Nat
  <2>1. CASE call.end = call.start
    BY <1>3, <2>1, EmptySeq
  <2>2. CASE call.end # call.start
    <3>1. call.end <= Len(call.fmt)
      BY <1>1, <2>2 DEF FormatInv, FormatEnds
    <3> QED
      BY <1>1, <1>3, <2>2, <3>1, LiteralsAre
  <2> QED
    BY <2>1, <2>2
<1>6. Shown(cfu_str) \in Seq(Char) /\ Len(Shown(cfu_str)) \in Nat
  BY <1>1, ShownType
<1>7. CASE rest = <<>>
  <2>1. cfu_str' = cfu_str
    BY <1>3, <1>7
  <2> QED
    BY <1>2, <1>4, <1>5, <1>6, <2>1
<1>8. CASE rest # <<>>
  <2>1. cfu_str' = Appended(cfu_str, rest)
    BY <1>3, <1>8
  <2>2. Shown(cfu_str') = Shown(cfu_str) \o rest
    BY <1>1, <1>5, <2>1, ShownAppended
  <2>3. Len(Shown(cfu_str')) = Len(Shown(cfu_str)) + Len(rest)
    BY <1>5, <1>6, <2>2
  <2> QED
    BY <1>2, <1>4, <1>5, <1>6, <2>3
<1> QED
  BY <1>7, <1>8

LEMMA EndPrints ==
  ASSUME BufferInv, PrintInv, FormatEnds, Supported(call.fmt)
  PROVE  Shown(cfu_str') = Expected(call.fmt, call.args)
<1>1. status = "formatting" /\ call.at = "text"
  BY DEF FormatEnds
<1>2. call.fmt \in Seq(FormatChar) /\ Len(call.fmt) \in Nat /\ Sound(cfu_str)
  BY <1>1, PrintFacts
<1>3. PICK at, used, out : Progress(at, used, out, cfu_str, call)
  BY <1>1, PrintFacts
<1>4. PICK n : n = Len(call.fmt)
  OBVIOUS
<1>5. Expected(call.fmt, call.args) = out[n] /\ FormatState(call.fmt) = at
  BY <1>2, <1>3, <1>4, ExpectedIs DEF Progress
<1>6. ~ Wrong(at, call.fmt) /\ (IsLiteral(at, call.fmt, n) => IsLiteral(at, call.fmt, n - 1))
  BY <1>2, <1>4, <1>5, SupportedIs
<1>7. /\ call.start \in 1..(n + 1) /\ Upto(call) = n
      /\ \A k \in call.start..n : IsLiteral(at, call.fmt, k)
      /\ ~ IsLiteral(at, call.fmt, call.start - 1)
      /\ call.end = IF call.start > n THEN call.start ELSE n
  BY <1>1, <1>3, <1>4 DEF Progress, Awaits, Upto
<1>8. Shown(cfu_str) \o Pending(call) = out[n]
  BY <1>3, <1>4, <1>6 DEF Progress
<1>9. Pending(call) = SubSeq(call.fmt, call.start, n)
  BY <1>7 DEF Pending
<1>10. Shown(cfu_str) \in Seq(Char)
  BY <1>2, ShownType
<1>11. CASE call.start > n
  <2>1. cfu_str' = cfu_str
    BY <1>7, <1>11 DEF FormatEnds
  <2>2. Pending(call) = <<>>
    BY <1>2, <1>4, <1>7, <1>9, <1>11, SubSeqEmpty
  <2>3. Shown(cfu_str) \o Pending(call) = Shown(cfu_str)
    BY <1>10, <2>2, ConcatEmptySeq
  <2> QED
    BY <1>5, <1>8, <2>1, <2>3
<1>12. CASE ~ (call.start > n)
  <2>1. call.end = n /\ n \in call.start..n /\ call.start <= n
    BY <1>2, <1>4, <1>7, <1>12
  <2>2. call.start # n
    BY <1>6, <1>7, <2>1
  <2>3. Pending(call) # <<>>
    <3>1. Len(Pending(call)) = n - call.start + 1
      BY <1>2, <1>4, <1>7, <1>9, <2>1
    <3>2. Len(Pending(call)) > 0
      BY <1>2, <1>4, <1>7, <2>1, <3>1
    <3> QED
      BY <3>2
  <2>4. Pending(call) \in Seq(Char)
    <3>1. call.fmt \in Seq(Char)
      BY <1>2, Arguments
    <3>2. PICK m : m = call.start
      OBVIOUS
    <3>3. m \in Nat /\ m >= 1 /\ n \in Nat /\ n <= Len(call.fmt)
      BY <1>2, <1>4, <1>7, <3>2
    <3>4. SubSeq(call.fmt, m, n) \in Seq(Char)
      BY <3>1, <3>3, PartOf
    <3> QED
      BY <1>9, <3>2, <3>4
  <2>5. Shown(Appended(cfu_str, Pending(call))) = Shown(cfu_str) \o Pending(call)
    BY <1>2, <2>4, ShownAppended
  <2>6. cfu_str' = Appended(cfu_str, Pending(call))
    BY <1>9, <2>1, <2>2, <2>3 DEF FormatEnds, Literals
  <2> QED
    BY <1>5, <1>8, <2>5, <2>6
<1> QED
  BY <1>11, <1>12

(* Whichever step is taken while a format is read, it goes on, ends or is  *)
(* undefined.                                                              *)
LEMMA WhilePrinting ==
  ASSUME BufferInv, status = "formatting", Next
  PROVE  \/ FormatEnds
         \/ status' \in {"formatting", "undefined"}
<1>1. CASE Formatting
  <2>1. TextInv
    BY DEF TextInv
  <2> QED
    BY <1>1, <2>1, FormattingText
<1>2. CASE New \/ Dup \/ Clear \/ GetBufferCopy \/ Destroy
  BY <1>2, Zenon DEF New, Dup, Clear, GetBufferCopy, Destroy, Running
<1>3. ASSUME NEW n \in Counts, AppendOwn(n) PROVE FALSE
  BY <1>3, Zenon DEF AppendOwn, Running
<1>4. ASSUME NEW n \in Counts, NEW t \in Strings, AppendN(t, n) PROVE FALSE
  BY <1>4, Zenon DEF AppendN, Running
<1>5. ASSUME NEW seps \in SepLists, NEW limit \in Limits, Split(seps, limit) PROVE FALSE
  BY <1>5, Zenon DEF Split, Running
<1>6. CASE NextField
  BY <1>6, Zenon DEF NextField
<1>7. CASE Sprintf
  BY <1>7, Zenon DEF Sprintf, Running
<1>8. CASE FormatOverrun
  BY <1>8 DEF FormatOverrun, Undefined
<1>9. CASE Ended
  BY <1>9, Zenon DEF Ended
<1> QED
  BY Zenon, <1>1, <1>2, <1>3, <1>4, <1>5, <1>6, <1>7, <1>8, <1>9 DEF Next, Formatting

(* A supported format prints what sprintf prints, and of no format is less *)
(* counted up or returned than was printed (CfuString.FormatRight).        *)
THEOREM FormatsAreRight == Spec => FormatRight
<1> DEFINE new == IF cfu_str'.str = NULL THEN <<>> ELSE Read(cfu_str'.str)
           Right == status = "formatting" /\ status' # "undefined" =>
                      IF status' = "running"
                        THEN /\ Supported(call.fmt) => new = Expected(call.fmt, call.args)
                             /\ Len(new) <= res'.n
                        ELSE Len(new) <= call'.count
<1>1. Init => BufferInv /\ PrintInv
  BY InitBuffer DEF Init, PrintInv
<1>2. BufferInv /\ PrintInv /\ [Next]_vars => BufferInv' /\ PrintInv'
  BY BufferStep, PrintStep
<1>3. ASSUME BufferInv, PrintInv, Next PROVE Right
  <2>1. SUFFICES ASSUME status = "formatting", status' # "undefined"
                 PROVE  IF status' = "running"
                          THEN /\ Supported(call.fmt) => new = Expected(call.fmt, call.args)
                               /\ Len(new) <= res'.n
                          ELSE Len(new) <= call'.count
    OBVIOUS
  <2>2. new = Shown(cfu_str')
    <3>1. PICK s : s = cfu_str'
      OBVIOUS
    <3>2. BufferInv'
      BY <1>2, <1>3
    <3>3. Sound(s)
      BY <3>1, <3>2 DEF BufferInv
    <3>4. s.str # NULL => TextOf(s) # NULL /\ TextOf(s) = Read(s.str)
      BY <3>3, SoundText, CharFacts DEF TextOf
    <3>5. s.str = NULL => TextOf(s) = NULL
      BY DEF TextOf
    <3> QED
      BY <3>1, <3>4, <3>5 DEF Shown
  <2>3. CASE FormatEnds
    <3>1. status' = "running"
      BY <2>3 DEF FormatEnds
    <3>2. Supported(call.fmt) => Shown(cfu_str') = Expected(call.fmt, call.args)
      BY <1>3, <2>3, EndPrints
    <3>3. Len(Shown(cfu_str')) <= res'.n
      BY <1>3, <2>3, EndCounts
    <3> QED
      BY <2>2, <3>1, <3>2, <3>3
  <2>4. CASE status' = "formatting"
    <3>1. PrintsRight(cfu_str, call)'
      BY <1>2, <1>3, <2>4 DEF PrintInv
    <3>2. Len(Shown(cfu_str')) <= call'.count
      BY <3>1 DEF PrintsRight
    <3> QED
      BY <2>2, <2>4, <3>2
  <2> HIDE DEF new
  <2> QED
    BY <1>3, <2>1, <2>3, <2>4, WhilePrinting
<1>4. BufferInv /\ PrintInv /\ [Next]_vars => [Right]_vars
  BY <1>3
<1>5. ([][Right]_vars) => FormatRight
  BY DEF FormatRight
<1> HIDE DEF Right
<1> QED
  BY <1>1, <1>2, <1>4, <1>5, PTL DEF Spec
=============================================================================
