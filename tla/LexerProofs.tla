----------------------------- MODULE LexerProofs ----------------------------
(***************************************************************************)
(* Proofs about Lexer, for every Alphabet, MaxSource and MAX_IDENT.        *)
(***************************************************************************)
EXTENDS Lexer, NatLemmas, FiniteSetTheorems, SequenceTheorems, TLAPS

Reading == {"scan", "id", "number"}

(* A character was read behind which nothing may be read any more. *)
EndInv ==
  /\ cls = "EOS" => pc \in {"called", "ended"}
  /\ \A p \in 1..Len(source) : source[p] = NUL =>
       p = Len(source) /\ (offset = Len(source) => cls = "EOS")

BufInv == Len(buf) <= MAX_IDENT - 1

(* What was read of the token under way. *)
PartInv ==
  /\ pc = "scan" => start = offset
  /\ pc = "id" =>
       /\ start < offset
       /\ Len(buf) = offset - start
       /\ \A i \in 1..Len(buf) : buf[i] = source[start + i]
       /\ source[start + 1] \in Letters
  /\ pc = "number" =>
       /\ start < offset
       /\ \A p \in (start + 1)..offset : source[p] \in Digits

-----------------------------------------------------------------------------
LEMMA ReadFacts ==
  ASSUME TypeOK, NEW c \in Char \cup {NUL}, Read(c)
  PROVE  /\ source' \in Seq(Char \cup {NUL})
         /\ Len(source') = offset + 1
         /\ source'[offset + 1] = c
         /\ Len(source) \in Nat
         /\ offset \in Nat
         /\ offset <= Len(source)
         /\ Len(source) <= offset + 1
         /\ \A p \in 1..Len(source) : source'[p] = source[p]
<1>1. /\ source \in Seq(Char \cup {NUL})
      /\ offset \in 0..Len(source) /\ Len(source) <= offset + 1
      /\ Len(source) \in Nat /\ offset \in Nat
  BY DEF TypeOK
<1>2. CASE offset < Len(source)
  BY <1>1, <1>2 DEF Read
<1>3. CASE ~(offset < Len(source))
  <2>1. source' = Append(source, c) /\ Len(source) = offset
    BY <1>1, <1>3 DEF Read
  <2> QED
    BY <1>1, <2>1
<1> QED
  BY <1>2, <1>3

LEMMA CharFacts ==
  /\ White \subseteq Char /\ Punctuation \subseteq Char /\ Letters \subseteq IdChar
  /\ Digits \subseteq IdChar /\ IdChar \subseteq Char
  /\ NUL \notin Char
  BY DEF White, Punctuation, Letters, Digits, IdChar, Char, NUL, DigitValue, PunctClass

LEMMA OtherChars == {"_", "bad"} \subseteq Char
  BY Zenon DEF Char, IdChar

LEMMA ClassFacts ==
  /\ \A c \in Punctuation : PunctClass[c] \in Class \ {"EOS", "ERR"}
  /\ \A w : IdClass(w) \in {"DEF", "IF", "ELSE", "ID"}
  /\ {"DEF", "IF", "ELSE", "ID", "DBL", "EOS", "ERR"} \subseteq Class
  /\ \A c \in Digits : DigitValue[c] \in Nat
  BY DEF Class, Punctuation, PunctClass, IdClass, KeywordClass, Keywords, Digits, DigitValue

LEMMA DeliverType ==
  ASSUME TypeOK, NEW t \in Class, NEW str \in Seq(IdChar), NEW num \in Nat,
         NEW last \in Nat, Deliver(t, str, num, last)
  PROVE  /\ cls' \in Class /\ pc' = "called" /\ cls' = t
         /\ toks' \in Seq(Token)
         /\ Len(toks') = Len(toks) + 1
         /\ toks'[Len(toks) + 1] = [cls |-> t, str |-> str, num |-> num,
                                    first |-> start + 1, last |-> last]
         /\ \A k \in 1..Len(toks) : toks'[k] = toks[k]
<1>1. start + 1 \in Nat
  BY DEF TypeOK
<1>2. [cls |-> t, str |-> str, num |-> num, first |-> start + 1, last |-> last] \in Token
  BY <1>1 DEF Token
<1> QED
  BY <1>2 DEF Deliver, TypeOK

Inv == TypeOK /\ BufInv /\ PartInv /\ EndInv

LEMMA InitInv == ASSUME Init PROVE Inv
<1>1. "ERR" \in Class
  BY DEF Class
<1>2. TypeOK
  BY <1>1 DEF Init, TypeOK
<1>3. BufInv
  BY LexerAssumption DEF Init, BufInv
<1>4. PartInv /\ EndInv
  BY DEF Init, PartInv, EndInv
<1> QED
  BY <1>2, <1>3, <1>4 DEF Inv

(* At most the last character read is the end, and nothing is read behind. *)
LEMMA ReadEnd ==
  ASSUME Inv, pc \in Reading, NEW c \in Char \cup {NUL}, Read(c)
  PROVE  \A p \in 1..Len(source') : source'[p] = NUL => p = Len(source') /\ c = NUL
<1>1. cls # "EOS"
  BY DEF Inv, EndInv, Reading
<1>2. TypeOK
  BY DEF Inv
<1> SUFFICES ASSUME NEW p \in 1..Len(source'), source'[p] = NUL
             PROVE  p = Len(source') /\ c = NUL
  OBVIOUS
<1>3. p \in 1..Len(source) \/ p = offset + 1
  BY <1>2, ReadFacts
<1>4. CASE p = offset + 1
  BY <1>2, <1>4, ReadFacts
<1>5. CASE p \in 1..Len(source) /\ p # offset + 1
  <2>1. source[p] = NUL
    BY <1>2, <1>5, ReadFacts
  <2>2. p = Len(source) /\ offset # Len(source)
    BY <2>1, <1>1, <1>5 DEF Inv, EndInv
  <2> QED
    BY <2>2, <1>2, <1>5, ReadFacts
<1> QED
  BY <1>3, <1>4, <1>5

LEMMA InvStep == ASSUME Inv, [Next]_vars PROVE Inv'
<1> USE DEF Inv
<1>1. CASE ReadToken
  <2>1. TypeOK'
    BY <1>1 DEF ReadToken, TypeOK
  <2>2. BufInv' /\ PartInv' /\ EndInv'
    BY <1>1 DEF ReadToken, BufInv, PartInv, EndInv, TypeOK
  <2> QED
    BY <2>1, <2>2
<1>2. CASE SkipWhite
  <2>1. PICK c \in White : Read(c) /\ lineno' = IF c = "newline" THEN lineno + 1 ELSE lineno
    BY <1>2 DEF SkipWhite
  <2>2. c \in Char \cup {NUL} /\ c # NUL /\ pc \in Reading
    BY <1>2, CharFacts DEF SkipWhite, Reading
  <2>3. TypeOK'
    BY <1>2, <2>1, <2>2, ReadFacts DEF SkipWhite, Advance, TypeOK
  <2>4. BufInv' /\ PartInv'
    BY <1>2 DEF SkipWhite, Advance, BufInv, PartInv
  <2>5. EndInv'
    BY <1>2, <2>1, <2>2, ReadEnd DEF SkipWhite, EndInv
  <2> QED
    BY <2>3, <2>4, <2>5
<1>3. CASE Punct
  <2>1. PICK c \in Punctuation : Read(c) /\ Deliver(PunctClass[c], <<>>, 0, offset + 1)
    BY <1>3 DEF Punct
  <2>2. c \in Char \cup {NUL} /\ c # NUL /\ pc \in Reading
    BY <1>3, CharFacts DEF Punct, Reading
  <2>3. cls' \in Class \ {"EOS"} /\ pc' = "called" /\ toks' \in Seq(Token)
    <3>1. offset + 1 \in Nat /\ <<>> \in Seq(IdChar)
      BY DEF TypeOK
    <3>2. PunctClass[c] \in Class \ {"EOS"}
      BY ClassFacts
    <3> QED
      BY <2>1, <3>1, <3>2, DeliverType
  <2>4. TypeOK'
    BY <1>3, <2>1, <2>2, <2>3, ReadFacts DEF Punct, Advance, TypeOK
  <2>5. BufInv' /\ PartInv'
    BY <1>3, <2>3 DEF Punct, BufInv, PartInv
  <2>6. EndInv'
    BY <2>1, <2>2, <2>3, ReadEnd DEF EndInv
  <2> QED
    BY <2>4, <2>5, <2>6
<1>4. CASE EndOfSource
  <2>1. Read(NUL) /\ Deliver("EOS", <<>>, 0, offset + 1) /\ pc \in Reading
    BY <1>4 DEF EndOfSource, Reading
  <2>2. cls' \in Class /\ cls' = "EOS" /\ pc' = "called" /\ toks' \in Seq(Token)
    <3>1. offset + 1 \in Nat /\ <<>> \in Seq(IdChar)
      BY DEF TypeOK
    <3> QED
      BY <2>1, <3>1, ClassFacts, DeliverType
  <2>3. TypeOK'
    BY <1>4, <2>1, <2>2, ReadFacts DEF EndOfSource, Advance, TypeOK
  <2>4. BufInv' /\ PartInv'
    BY <1>4, <2>2 DEF EndOfSource, BufInv, PartInv
  <2>5. EndInv'
    BY <2>1, <2>2, ReadEnd DEF EndInv
  <2> QED
    BY <2>3, <2>4, <2>5
<1>5. CASE Unrecognized
  <2>1. PICK c \in Char : Read(c)
    BY <1>5, OtherChars DEF Unrecognized
  <2>2. c \in Char \cup {NUL} /\ c # NUL /\ pc \in Reading
    BY <1>5, CharFacts DEF Unrecognized, Reading
  <2>3. /\ offset' = offset + 1 /\ pc' = "died" /\ cls' = "ERR"
        /\ UNCHANGED <<lineno, buf, n, start, toks>>
    BY <1>5 DEF Unrecognized, Advance
  <2>4. TypeOK'
    BY <2>1, <2>2, <2>3, ReadFacts, ClassFacts DEF TypeOK
  <2>5. BufInv' /\ PartInv'
    BY <2>3 DEF BufInv, PartInv
  <2>6. EndInv'
    BY <2>1, <2>2, <2>3, ReadEnd DEF EndInv
  <2> QED
    BY <2>4, <2>5, <2>6
<1>6. CASE IdBegins
  <2>1. PICK c \in Letters : Read(c) /\ buf' = <<c>>
    BY <1>6 DEF IdBegins
  <2>2. c \in Char \cup {NUL} /\ c # NUL /\ pc \in Reading /\ c \in IdChar
    BY <1>6, CharFacts DEF IdBegins, Reading
  <2>3. TypeOK'
    BY <1>6, <2>1, <2>2, ReadFacts DEF IdBegins, Advance, TypeOK
  <2>4. BufInv'
    BY <2>1, LexerAssumption DEF BufInv
  <2>5. PartInv'
    BY <1>6, <2>1, <2>2, ReadFacts DEF IdBegins, Advance, PartInv, TypeOK
  <2>6. EndInv'
    BY <1>6, <2>1, <2>2, ReadEnd DEF IdBegins, EndInv
  <2> QED
    BY <2>3, <2>4, <2>5, <2>6
<1>7. CASE IdMore
  <2>1. PICK c \in IdChar : Read(c) /\ buf' = Append(buf, c)
    BY <1>7 DEF IdMore
  <2>2. c \in Char \cup {NUL} /\ c # NUL /\ pc \in Reading
    BY <1>7, CharFacts DEF IdMore, Reading
  <2>3. buf' \in Seq(IdChar) /\ Len(buf') = Len(buf) + 1 /\ Len(buf) \in Nat
        /\ buf'[Len(buf) + 1] = c /\ \A i \in 1..Len(buf) : buf'[i] = buf[i]
    BY <2>1 DEF TypeOK
  <2>4. TypeOK'
    BY <1>7, <2>1, <2>2, <2>3, ReadFacts DEF IdMore, Advance, TypeOK
  <2>5. BufInv'
    BY <1>7, <2>3, LexerAssumption DEF IdMore, Full, BufInv
  <2>6. PartInv'
    <3>1. /\ pc = "id" /\ pc' = "id" /\ start' = start /\ offset' = offset + 1
          /\ start \in Nat /\ offset \in Nat
      BY <1>7 DEF IdMore, Advance, TypeOK
    <3>2. /\ start < offset /\ Len(buf) = offset - start
          /\ \A i \in 1..Len(buf) : buf[i] = source[start + i]
          /\ source[start + 1] \in Letters
      BY <3>1 DEF PartInv
    <3>3. /\ \A p \in 1..Len(source) : source'[p] = source[p]
          /\ source'[offset + 1] = c /\ Len(source) \in Nat /\ offset <= Len(source)
      BY <2>1, <2>2, ReadFacts
    <3>4. source'[start + 1] \in Letters
      BY <3>1, <3>2, <3>3
    <3>5. ASSUME NEW i \in 1..Len(buf') PROVE buf'[i] = source'[start + i]
      <4>1. CASE i = Len(buf) + 1
        BY <4>1, <2>3, <3>1, <3>2, <3>3
      <4>2. CASE i \in 1..Len(buf)
        <5>1. start + i \in 1..Len(source)
          BY <4>2, <2>3, <3>1, <3>2, <3>3
        <5> QED
          BY <4>2, <5>1, <2>3, <3>2, <3>3
      <4> QED
        BY <4>1, <4>2, <2>3
    <3> QED
      BY <3>1, <3>2, <3>4, <3>5, <2>3 DEF PartInv
  <2>7. EndInv'
    BY <1>7, <2>1, <2>2, ReadEnd DEF IdMore, EndInv
  <2> QED
    BY <2>4, <2>5, <2>6, <2>7
<1>8. CASE IdEnds
  <2>1. PICK c \in Char \cup {NUL} : Read(c)
    BY <1>8 DEF IdEnds
  <2>2. pc \in Reading /\ cls # "EOS"
    BY <1>8 DEF IdEnds, Reading, EndInv
  <2>3. cls' \in Class \ {"EOS"} /\ pc' = "called" /\ toks' \in Seq(Token)
    <3>1. offset \in Nat /\ (IF IdClass(buf) = "ID" THEN buf ELSE <<>>) \in Seq(IdChar)
      BY DEF TypeOK
    <3>2. IdClass(buf) \in Class \ {"EOS"}
      BY ClassFacts
    <3>3. Deliver(IdClass(buf), IF IdClass(buf) = "ID" THEN buf ELSE <<>>, 0, offset)
      BY <1>8 DEF IdEnds
    <3> QED
      BY <3>1, <3>2, <3>3, DeliverType
  <2>4. TypeOK'
    BY <1>8, <2>1, <2>3, ReadFacts DEF IdEnds, PutBack, TypeOK
  <2>5. BufInv' /\ PartInv'
    BY <1>8, <2>3 DEF IdEnds, BufInv, PartInv
  <2>6. EndInv'
    BY <1>8, <2>1, <2>2, <2>3, ReadEnd, ReadFacts DEF IdEnds, PutBack, EndInv
  <2> QED
    BY <2>4, <2>5, <2>6
<1>9. CASE NumberBegins
  <2>1. PICK c \in Digits : Read(c) /\ n' = DigitValue[c]
    BY <1>9 DEF NumberBegins
  <2>2. c \in Char \cup {NUL} /\ c # NUL /\ pc \in Reading /\ n' \in Nat
    BY <1>9, <2>1, CharFacts, ClassFacts DEF NumberBegins, Reading
  <2>3. TypeOK'
    BY <1>9, <2>1, <2>2, ReadFacts DEF NumberBegins, Advance, TypeOK
  <2>4. BufInv'
    BY <1>9 DEF NumberBegins, BufInv
  <2>5. PartInv'
    BY <1>9, <2>1, <2>2, ReadFacts DEF NumberBegins, Advance, PartInv, TypeOK
  <2>6. EndInv'
    BY <1>9, <2>1, <2>2, ReadEnd DEF NumberBegins, EndInv
  <2> QED
    BY <2>3, <2>4, <2>5, <2>6
<1>10. CASE NumberMore
  <2>1. PICK c \in Digits : Read(c) /\ n' = Shift(n, DigitValue[c])
    BY <1>10 DEF NumberMore
  <2>2. c \in Char \cup {NUL} /\ c # NUL /\ pc \in Reading /\ n' \in Nat
    <3>1. DigitValue[c] \in Nat /\ n \in Nat
      BY ClassFacts DEF TypeOK
    <3>2. n' \in Nat
      BY <2>1, <3>1 DEF Shift
    <3> QED
      BY <1>10, <3>2, CharFacts DEF NumberMore, Reading
  <2>3. TypeOK'
    BY <1>10, <2>1, <2>2, ReadFacts DEF NumberMore, Advance, TypeOK
  <2>4. BufInv'
    BY <1>10 DEF NumberMore, BufInv
  <2>5. PartInv'
    BY <1>10, <2>1, <2>2, ReadFacts DEF NumberMore, Advance, PartInv, TypeOK
  <2>6. EndInv'
    BY <1>10, <2>1, <2>2, ReadEnd DEF NumberMore, EndInv
  <2> QED
    BY <2>3, <2>4, <2>5, <2>6
<1>11. CASE NumberEnds
  <2>1. PICK c \in (Char \ Digits) \cup {NUL} : Read(c)
    BY <1>11 DEF NumberEnds
  <2>2. pc \in Reading /\ cls # "EOS" /\ c \in Char \cup {NUL}
    BY <1>11 DEF NumberEnds, Reading, EndInv
  <2>3. cls' = "DBL" /\ cls' \in Class /\ pc' = "called" /\ toks' \in Seq(Token)
    <3>1. offset \in Nat /\ <<>> \in Seq(IdChar) /\ n \in Nat
      BY DEF TypeOK
    <3>2. Deliver("DBL", <<>>, n, offset)
      BY <1>11 DEF NumberEnds
    <3> QED
      BY <3>1, <3>2, ClassFacts, DeliverType
  <2>4. TypeOK'
    BY <1>11, <2>1, <2>2, <2>3, ReadFacts DEF NumberEnds, PutBack, TypeOK
  <2>5. BufInv' /\ PartInv'
    BY <1>11, <2>3 DEF NumberEnds, BufInv, PartInv
  <2>6. EndInv'
    BY <1>11, <2>1, <2>2, <2>3, ReadEnd, ReadFacts DEF NumberEnds, PutBack, EndInv
  <2> QED
    BY <2>4, <2>5, <2>6
<1>12. CASE UNCHANGED vars
  BY <1>12 DEF vars, TypeOK, BufInv, PartInv, EndInv
<1> QED
  BY <1>1, <1>2, <1>3, <1>4, <1>5, <1>6, <1>7, <1>8, <1>9, <1>10, <1>11, <1>12
     DEF Next, Step, Ended

-----------------------------------------------------------------------------
(* Every step leaves what was read as it is, and reads on.                 *)

Grows ==
  /\ source' \in Seq(Char \cup {NUL})
  /\ Len(source') \in Nat /\ Len(source') >= Len(source)
  /\ \A p \in 1..Len(source) : source'[p] = source[p]
  /\ offset' >= offset

LEMMA ReadGrows ==
  ASSUME TypeOK, NEW c \in Char \cup {NUL}, Read(c), offset' \in {offset, offset + 1}
  PROVE  Grows
  BY ReadFacts DEF Grows

LEMMA StepGrows == ASSUME Inv, [Next]_vars PROVE Grows
<1> USE DEF Inv
<1>1. CASE UNCHANGED source /\ UNCHANGED offset
  BY <1>1 DEF Grows, TypeOK
<1>2. ASSUME \E c \in Char \cup {NUL} : Read(c), offset' = offset + 1 \/ offset' = offset
      PROVE  Grows
  BY <1>2, ReadGrows
<1>3. CASE ReadToken
  BY <1>1, <1>3 DEF ReadToken
<1>4. CASE SkipWhite \/ Punct \/ IdBegins
  BY <1>2, <1>4, CharFacts DEF SkipWhite, Punct, IdBegins, Advance
<1>5. CASE EndOfSource
  BY <1>2, <1>5 DEF EndOfSource, Advance
<1>6. CASE Unrecognized
  BY <1>2, <1>6, OtherChars DEF Unrecognized, Advance
<1>7. CASE IdMore
  BY <1>2, <1>7, CharFacts DEF IdMore, Advance
<1>8. CASE IdEnds
  BY <1>2, <1>8 DEF IdEnds, PutBack
<1>9. CASE NumberBegins \/ NumberMore
  BY <1>2, <1>9, CharFacts DEF NumberBegins, NumberMore, Advance
<1>10. CASE NumberEnds
  BY <1>2, <1>10 DEF NumberEnds, PutBack
<1>11. CASE UNCHANGED vars
  BY <1>1, <1>11 DEF vars
<1> QED
  BY <1>3, <1>4, <1>5, <1>6, <1>7, <1>8, <1>9, <1>10, <1>11 DEF Next, Step, Ended

LEMMA LexemeKept ==
  ASSUME TypeOK, Grows, NEW a \in Nat \ {0}, NEW b \in Nat, b <= Len(source)
  PROVE  SubSeq(source', a, b) = SubSeq(source, a, b)
<1>1. source \in Seq(Char \cup {NUL}) /\ Len(source) \in Nat
  BY DEF TypeOK
<1>2. \A p \in a..b : source'[p] = source[p]
  BY <1>1 DEF Grows
<1> QED
  BY <1>1, <1>2 DEF Grows

(* A token that lies in what was read, means what its characters say and   *)
(* goes as far as it can.                                                  *)
Longest(t) ==
  LET next == source[t.last + 1]
  IN /\ t.cls \in {"ID", "DEF", "IF", "ELSE"} =>
          /\ t.last < Len(source)
          /\ next \notin IdChar \/ t.last - t.first + 1 = MAX_IDENT - 1
     /\ t.cls = "DBL" => t.last < Len(source) /\ next \notin Digits

Sound(t) ==
  /\ 1 <= t.first /\ t.first <= t.last /\ t.last <= offset
  /\ Means(t, Lexeme(t))
  /\ Longest(t)

LEMMA SoundKept ==
  ASSUME TypeOK, Grows, NEW t \in Token, Sound(t), offset' \in Nat
  PROVE  Sound(t)'
<1>1. /\ t.first \in Nat \ {0} /\ t.last \in Nat /\ offset \in Nat
      /\ Len(source) \in Nat /\ offset <= Len(source) /\ t.last <= Len(source)
  BY DEF Sound, Token, TypeOK
<1>2. Lexeme(t)' = Lexeme(t)
  <2>1. SubSeq(source', t.first, t.last) = SubSeq(source, t.first, t.last)
    BY <1>1, LexemeKept
  <2> QED
    BY <2>1 DEF Lexeme
<1>3. Longest(t)'
  <2>1. Longest(t)
    BY DEF Sound
  <2>2. Len(source') >= Len(source) /\ Len(source') \in Nat
    BY DEF Grows
  <2>3. ASSUME t.last < Len(source) PROVE source'[t.last + 1] = source[t.last + 1]
    BY <1>1, <2>3 DEF Grows
  <2> QED
    BY <1>1, <2>1, <2>2, <2>3 DEF Longest
<1>4. Means(t, Lexeme(t))'
  BY <1>2 DEF Sound, Means
<1> QED
  BY <1>1, <1>3, <1>4 DEF Sound, Grows

-----------------------------------------------------------------------------
(* The tokens delivered so far, and what lies between them.                *)

Good == {t \in Token : Sound(t)}

TilesInv ==
  \A k \in 1..Len(toks) :
    /\ toks[k] \in Good
    /\ k > 1 => toks[k - 1].last < toks[k].first
    /\ pc \in Reading => toks[k].last <= start

Covered ==
  {p \in 1..Len(source) : \/ source[p] \in White
                          \/ \E k \in 1..Len(toks) : p \in toks[k].first..toks[k].last}

CoverInv ==
  /\ pc # "died" => \A p \in 1..offset : p \in Covered \/ (p > start /\ pc \in {"id", "number"})
  /\ pc = "died" => 1..(offset - 1) \subseteq Covered

LEMMA GoodKept == ASSUME Inv, Inv', [Next]_vars PROVE Good \subseteq Good'
<1>1. ASSUME NEW t \in Token, Sound(t) PROVE Sound(t)'
  BY <1>1, StepGrows, SoundKept DEF Inv, TypeOK
<1> QED
  BY <1>1 DEF Good

(* A new token begins behind the others. *)
LEMMA TilesKept ==
  ASSUME Inv, [Next]_vars, Inv', TilesInv,
         \/ /\ UNCHANGED toks
            /\ pc' \in Reading => \A k \in 1..Len(toks) : toks[k].last <= start'
         \/ /\ pc \in Reading /\ pc' = "called"
            /\ \E t \in Good' : toks' = Append(toks, t) /\ t.first = start + 1
  PROVE  TilesInv'
<1>1. toks \in Seq(Token) /\ Len(toks) \in Nat /\ start \in Nat
  BY DEF Inv, TypeOK
<1>2. \A k \in 1..Len(toks) : toks[k] \in Good'
  BY GoodKept DEF TilesInv
<1>3. CASE UNCHANGED toks /\ (pc' \in Reading => \A k \in 1..Len(toks) : toks[k].last <= start')
  BY <1>2, <1>3 DEF TilesInv
<1>4. ASSUME pc \in Reading, pc' = "called", NEW t \in Good', toks' = Append(toks, t),
             t.first = start + 1
      PROVE  TilesInv'
  <2>1. /\ Len(toks') = Len(toks) + 1 /\ toks'[Len(toks) + 1] = t
        /\ \A k \in 1..Len(toks) : toks'[k] = toks[k]
    BY <1>1, <1>4
  <2>2. pc' \notin Reading
    BY <1>4 DEF Reading
  <2>3. ASSUME NEW k \in 1..Len(toks')
        PROVE  toks'[k] \in Good' /\ (k > 1 => toks'[k - 1].last < toks'[k].first)
    <3>1. CASE k = Len(toks) + 1
      <4>1. k > 1 => toks[k - 1].last <= start /\ toks[k - 1] \in Token
        BY <1>1, <1>4, <3>1 DEF TilesInv
      <4>2. k > 1 => toks[k - 1].last \in Nat
        BY <4>1 DEF Token
      <4> QED
        BY <1>1, <1>4, <2>1, <3>1, <4>1, <4>2
    <3>2. CASE k \in 1..Len(toks)
      BY <1>1, <1>2, <2>1, <3>2 DEF TilesInv
    <3> QED
      BY <1>1, <2>1, <3>1, <3>2
  <2> QED
    BY <2>2, <2>3 DEF TilesInv
<1> QED
  BY <1>3, <1>4

LEMMA CoverKept ==
  ASSUME Inv, [Next]_vars, Inv',
         \/ UNCHANGED toks
         \/ \E t : toks' = Append(toks, t)
  PROVE  Covered \subseteq Covered'
<1>1. toks \in Seq(Token) /\ Len(toks) \in Nat /\ Grows
  BY StepGrows DEF Inv, TypeOK
<1>2. Len(toks') \in Nat /\ Len(toks') >= Len(toks) /\ \A k \in 1..Len(toks) : toks'[k] = toks[k]
  BY <1>1
<1>3. Len(source) \in Nat
  BY DEF Inv, TypeOK
<1> QED
  BY <1>1, <1>2, <1>3 DEF Covered, Grows

-----------------------------------------------------------------------------
(* The new tokens.                                                         *)

LEMMA CharClasses ==
  /\ White \cap IdChar = {} /\ White \cap Punctuation = {} /\ NUL \notin White
  /\ "newline" \in White
  /\ Punctuation \cap IdChar = {} /\ Letters \cap Digits = {}
  /\ NUL \notin Punctuation \cup IdChar
  /\ \A c \in Punctuation : PunctClass[c] \notin {"ID", "DEF", "IF", "ELSE", "DBL", "ERR", "EOS"}
  BY Zenon DEF White, IdChar, Punctuation, Letters, Digits, NUL, PunctClass, DigitValue

(* The cases of Means exclude each other. *)
LEMMA MeansCases ==
  ASSUME NEW t, NEW w
  PROVE  /\ w[1] \in Punctuation /\ Len(w) = 1 /\ t.cls = PunctClass[w[1]] => Means(t, w)
         /\ w[1] = NUL /\ Len(w) = 1 /\ t.cls = "EOS" => Means(t, w)
         /\ w[1] \in Digits /\ t.cls = "DBL" /\ (\A k \in 1..Len(w) : w[k] \in Digits)
              => Means(t, w)
         /\ (/\ w[1] \in Letters /\ \A k \in 1..Len(w) : w[k] \in IdChar
             /\ IF w \in Keywords THEN t.cls = KeywordClass[w] ELSE t.cls = "ID" /\ t.str = w)
              => Means(t, w)
<1>1. /\ Punctuation \cap Digits = {} /\ Punctuation \cap Letters = {}
      /\ Digits \cap Letters = {} /\ NUL \notin Punctuation \cup Digits \cup Letters
  BY CharClasses, CharFacts
<1>2. ASSUME w[1] \in Punctuation, Len(w) = 1, t.cls = PunctClass[w[1]] PROVE Means(t, w)
  <2>1. w[1] # NUL /\ w[1] \notin Digits /\ w[1] \notin Letters
    BY <1>1, <1>2
  <2> QED
    BY <1>2, <2>1 DEF Means
<1>3. ASSUME w[1] = NUL, Len(w) = 1, t.cls = "EOS" PROVE Means(t, w)
  <2>1. w[1] \notin Punctuation /\ w[1] \notin Digits /\ w[1] \notin Letters
    BY <1>1, <1>3
  <2> QED
    BY <1>3, <2>1 DEF Means
<1>4. ASSUME w[1] \in Digits, t.cls = "DBL", \A k \in 1..Len(w) : w[k] \in Digits
      PROVE  Means(t, w)
  <2>1. w[1] # NUL /\ w[1] \notin Punctuation /\ w[1] \notin Letters
    BY <1>1, <1>4
  <2> QED
    BY <1>4, <2>1 DEF Means
<1>5. ASSUME w[1] \in Letters, \A k \in 1..Len(w) : w[k] \in IdChar,
             IF w \in Keywords THEN t.cls = KeywordClass[w] ELSE t.cls = "ID" /\ t.str = w
      PROVE  Means(t, w)
  <2>1. w[1] # NUL /\ w[1] \notin Punctuation /\ w[1] \notin Digits
    BY <1>1, <1>5
  <2> QED
    BY <1>5, <2>1 DEF Means
<1> QED
  BY <1>2, <1>3, <1>4, <1>5

(* A token of one character: punctuation or the end. *)
LEMMA GoodSingle ==
  ASSUME TypeOK, pc = "scan", PartInv, NEW c \in Punctuation \cup {NUL}, Read(c), Advance,
         NEW class, class = IF c = NUL THEN "EOS" ELSE PunctClass[c]
  PROVE  [cls |-> class, str |-> <<>>, num |-> 0, first |-> start + 1, last |-> offset + 1]
           \in Good'
<1>0. PICK t : t = [cls |-> class, str |-> <<>>, num |-> 0, first |-> start + 1,
                    last |-> offset + 1]
  OBVIOUS
<1>1. c \in Char \cup {NUL}
  BY CharFacts
<1>2. /\ source' \in Seq(Char \cup {NUL}) /\ Len(source') = offset + 1
      /\ source'[offset + 1] = c /\ offset \in Nat /\ offset' = offset + 1 /\ start = offset
  BY <1>1, ReadFacts DEF Advance, PartInv
<1>3. class \in Class /\ class \notin {"ID", "DEF", "IF", "ELSE", "DBL"}
  BY ClassFacts, CharClasses
<1>4. t \in Token /\ t.cls = class /\ t.first = offset + 1 /\ t.last = offset + 1
  BY <1>0, <1>2, <1>3 DEF Token
<1>5. Lexeme(t)' = SubSeq(source', offset + 1, offset + 1)
  BY <1>4 DEF Lexeme
<1>6. Len(SubSeq(source', offset + 1, offset + 1)) = 1
      /\ SubSeq(source', offset + 1, offset + 1)[1] = c
  BY <1>2
<1>7. Means(t, SubSeq(source', offset + 1, offset + 1))
  <2>1. c = NUL \/ c \in Punctuation
    OBVIOUS
  <2>2. c \in Punctuation => c # NUL
    BY CharClasses
  <2> QED
    BY <1>4, <1>6, <2>1, <2>2, MeansCases
<1>8. Longest(t)'
  BY <1>3, <1>4 DEF Longest
<1>9. Means(t, Lexeme(t))'
  BY <1>5, <1>7 DEF Means
<1>10. Sound(t)'
  BY <1>2, <1>4, <1>8, <1>9 DEF Sound
<1> QED
  BY <1>0, <1>4, <1>10 DEF Good

LEMMA GoodId ==
  ASSUME Inv, pc = "id", NEW c \in Char \cup {NUL}, Read(c), c \notin IdChar \/ Full,
         UNCHANGED offset
  PROVE  [cls |-> IdClass(buf), str |-> IF IdClass(buf) = "ID" THEN buf ELSE <<>>,
          num |-> 0, first |-> start + 1, last |-> offset] \in Good'
<1>0. PICK t : t = [cls |-> IdClass(buf), str |-> IF IdClass(buf) = "ID" THEN buf ELSE <<>>,
                    num |-> 0, first |-> start + 1, last |-> offset]
  OBVIOUS
<1>1. /\ source' \in Seq(Char \cup {NUL}) /\ Len(source') = offset + 1
      /\ source'[offset + 1] = c /\ offset \in Nat /\ start \in Nat
      /\ \A p \in 1..offset : source'[p] = source[p]
  BY ReadFacts DEF Inv, TypeOK
<1>2. /\ start < offset /\ Len(buf) = offset - start
      /\ \A i \in 1..Len(buf) : buf[i] = source[start + i]
      /\ source[start + 1] \in Letters /\ buf \in Seq(IdChar) /\ Len(buf) <= MAX_IDENT - 1
  BY DEF Inv, PartInv, BufInv, TypeOK
<1>3. IdClass(buf) \in Class /\ IdClass(buf) # "DBL"
  BY ClassFacts
<1>4. t \in Token /\ t.cls = IdClass(buf) /\ t.first = start + 1 /\ t.last = offset
      /\ (IdClass(buf) = "ID" => t.str = buf)
  BY <1>0, <1>1, <1>2, <1>3 DEF Token
<1>5. Lexeme(t)' = buf
  <2>1. Lexeme(t)' = SubSeq(source', start + 1, offset)
    BY <1>4 DEF Lexeme
  <2>2. /\ SubSeq(source', start + 1, offset) \in Seq(Char \cup {NUL})
        /\ Len(SubSeq(source', start + 1, offset)) = Len(buf)
        /\ \A i \in 1..Len(buf) : SubSeq(source', start + 1, offset)[i] = source'[start + i]
    BY <1>1, <1>2
  <2>3. buf \in Seq(Char \cup {NUL})
    BY <1>2, CharFacts
  <2>4. \A i \in 1..Len(buf) : buf[i] = source'[start + i]
    BY <1>1, <1>2
  <2>5. \A i \in 1..Len(buf) : SubSeq(source', start + 1, offset)[i] = buf[i]
    BY <2>2, <2>4
  <2> QED
    BY <2>1, <2>2, <2>3, <2>5, SeqEqual
<1>6. Means(t, buf)
  <2>1. buf[1] \in Letters /\ \A k \in 1..Len(buf) : buf[k] \in IdChar
    BY <1>1, <1>2
  <2>2. IF buf \in Keywords THEN t.cls = KeywordClass[buf] ELSE t.cls = "ID" /\ t.str = buf
    BY <1>4 DEF IdClass
  <2> QED
    BY <2>1, <2>2, MeansCases
<1>7. Longest(t)'
  <2>1. c \notin IdChar \/ offset - start = MAX_IDENT - 1
    BY <1>1, <1>2, LexerAssumption DEF Full
  <2> QED
    BY <1>1, <1>3, <1>4, <2>1 DEF Longest
<1>8. Means(t, Lexeme(t))'
  BY <1>5, <1>6 DEF Means
<1>9. Sound(t)'
  BY <1>1, <1>2, <1>4, <1>7, <1>8 DEF Sound
<1> QED
  BY <1>0, <1>4, <1>9 DEF Good

LEMMA GoodNumber ==
  ASSUME Inv, pc = "number", NEW c \in (Char \ Digits) \cup {NUL}, Read(c), UNCHANGED offset
  PROVE  [cls |-> "DBL", str |-> <<>>, num |-> n, first |-> start + 1, last |-> offset] \in Good'
<1>0. PICK t : t = [cls |-> "DBL", str |-> <<>>, num |-> n, first |-> start + 1,
                    last |-> offset]
  OBVIOUS
<1>1. /\ source' \in Seq(Char \cup {NUL}) /\ Len(source') = offset + 1
      /\ source'[offset + 1] = c /\ offset \in Nat /\ start \in Nat
      /\ \A p \in 1..offset : source'[p] = source[p]
  BY ReadFacts DEF Inv, TypeOK
<1>2. start < offset /\ (\A p \in (start + 1)..offset : source[p] \in Digits) /\ n \in Nat
  BY DEF Inv, PartInv, TypeOK
<1>3. c \notin Digits
  BY CharClasses, CharFacts
<1>4. t \in Token /\ t.cls = "DBL" /\ t.first = start + 1 /\ t.last = offset
  BY <1>0, <1>1, <1>2, ClassFacts DEF Token
<1>5. Lexeme(t)' = SubSeq(source', start + 1, offset)
  BY <1>4 DEF Lexeme
<1>6. Means(t, SubSeq(source', start + 1, offset))
  <2>1. /\ Len(SubSeq(source', start + 1, offset)) = offset - start
        /\ \A i \in 1..(offset - start) : SubSeq(source', start + 1, offset)[i] = source'[start + i]
    BY <1>1, <1>2
  <2>2. \A i \in 1..(offset - start) : SubSeq(source', start + 1, offset)[i] \in Digits
    BY <1>1, <1>2, <2>1
  <2>3. SubSeq(source', start + 1, offset)[1] \in Digits
    BY <1>1, <1>2, <2>2
  <2> QED
    BY <1>4, <2>1, <2>2, <2>3, MeansCases
<1>7. Longest(t)'
  BY <1>1, <1>3, <1>4 DEF Longest
<1>8. Means(t, Lexeme(t))'
  BY <1>5, <1>6 DEF Means
<1>9. Sound(t)'
  BY <1>1, <1>2, <1>4, <1>7, <1>8 DEF Sound
<1> QED
  BY <1>0, <1>4, <1>9 DEF Good

LEMMA TilesStep == ASSUME Inv, [Next]_vars, Inv', TilesInv PROVE TilesInv'
<1>1. toks \in Seq(Token) /\ start \in 0..offset /\ offset \in Nat
  BY DEF Inv, TypeOK
<1>2. ASSUME NEW k \in 1..Len(toks)
      PROVE  toks[k].last \in Nat /\ toks[k].last <= offset
  BY <1>1 DEF TilesInv, Good, Sound, Token
<1>3. CASE ReadToken
  BY <1>2, <1>3, TilesKept DEF ReadToken, Reading
<1>4. CASE SkipWhite
  <2>1. UNCHANGED toks /\ pc = "scan" /\ start' = offset + 1
    BY <1>4 DEF SkipWhite
  <2>2. \A k \in 1..Len(toks) : toks[k].last <= start'
    BY <1>1, <1>2, <2>1
  <2> QED
    BY <2>1, <2>2, TilesKept
<1>5. CASE Punct \/ EndOfSource
  <2>1. PICK c \in Punctuation \cup {NUL} :
               Read(c) /\ Deliver(IF c = NUL THEN "EOS" ELSE PunctClass[c], <<>>, 0, offset + 1)
    BY <1>5, CharClasses DEF Punct, EndOfSource
  <2>2. pc = "scan" /\ Advance /\ pc \in Reading /\ TypeOK /\ PartInv
    BY <1>5 DEF Punct, EndOfSource, Reading, Inv
  <2>3. [cls |-> IF c = NUL THEN "EOS" ELSE PunctClass[c], str |-> <<>>, num |-> 0,
         first |-> start + 1, last |-> offset + 1] \in Good'
    BY <2>1, <2>2, GoodSingle
  <2> QED
    BY <2>1, <2>2, <2>3, TilesKept DEF Deliver
<1>6. CASE Unrecognized
  BY <1>6, TilesKept DEF Unrecognized, Reading
<1>7. CASE IdBegins \/ NumberBegins
  <2>1. UNCHANGED <<toks, start>> /\ pc \in Reading
    BY <1>7 DEF IdBegins, NumberBegins, Reading
  <2> QED
    BY <2>1, TilesKept DEF TilesInv
<1>8. CASE IdMore \/ NumberMore
  <2>1. UNCHANGED <<toks, start>> /\ pc \in Reading
    BY <1>8 DEF IdMore, NumberMore, Reading
  <2> QED
    BY <2>1, TilesKept DEF TilesInv
<1>9. CASE IdEnds
  <2>1. PICK c \in Char \cup {NUL} : Read(c) /\ (c \notin IdChar \/ Full)
    BY <1>9 DEF IdEnds
  <2>2. pc = "id" /\ UNCHANGED offset /\ pc \in Reading
        /\ Deliver(IdClass(buf), IF IdClass(buf) = "ID" THEN buf ELSE <<>>, 0, offset)
    BY <1>9 DEF IdEnds, PutBack, Reading
  <2>3. [cls |-> IdClass(buf), str |-> IF IdClass(buf) = "ID" THEN buf ELSE <<>>,
         num |-> 0, first |-> start + 1, last |-> offset] \in Good'
    BY <2>1, <2>2, GoodId
  <2> QED
    BY <2>2, <2>3, TilesKept DEF Deliver
<1>10. CASE NumberEnds
  <2>1. PICK c \in (Char \ Digits) \cup {NUL} : Read(c)
    BY <1>10 DEF NumberEnds
  <2>2. pc = "number" /\ UNCHANGED offset /\ pc \in Reading /\ Deliver("DBL", <<>>, n, offset)
    BY <1>10 DEF NumberEnds, PutBack, Reading
  <2>3. [cls |-> "DBL", str |-> <<>>, num |-> n, first |-> start + 1, last |-> offset]
          \in Good'
    BY <2>1, <2>2, GoodNumber
  <2> QED
    BY <2>2, <2>3, TilesKept DEF Deliver
<1>11. CASE UNCHANGED vars
  BY <1>11, TilesKept DEF vars, TilesInv
<1> QED
  BY <1>3, <1>4, <1>5, <1>6, <1>7, <1>8, <1>9, <1>10, <1>11 DEF Next, Step, Ended

LEMMA CoverStep == ASSUME Inv, [Next]_vars, Inv', CoverInv PROVE CoverInv'
<1>1. /\ toks \in Seq(Token) /\ start \in 0..offset /\ offset \in Nat /\ Len(toks) \in Nat
      /\ offset <= Len(source) /\ Len(source) \in Nat
  BY DEF Inv, TypeOK
<1>0. offset' <= Len(source') /\ offset' \in Nat /\ Len(source') \in Nat
  BY DEF Inv, TypeOK
<1>2. (\E t : toks' = Append(toks, t)) \/ UNCHANGED toks
  BY DEF Next, Step, Ended, vars, ReadToken, SkipWhite, Punct, EndOfSource, Unrecognized,
         IdBegins, IdMore, IdEnds, NumberBegins, NumberMore, NumberEnds, Deliver
<1>3. Covered \subseteq Covered'
  BY <1>1, <1>2, CoverKept
<1>4. CASE ReadToken
  BY <1>1, <1>3, <1>4 DEF ReadToken, CoverInv
<1>5. CASE SkipWhite
  <2>1. PICK c \in White : Read(c)
    BY <1>5 DEF SkipWhite
  <2>2. source'[offset + 1] \in White
    BY <2>1, CharFacts, ReadFacts DEF Inv
  <2>3. pc = "scan" /\ pc' = "scan" /\ offset' = offset + 1
    BY <1>5 DEF SkipWhite, Advance
  <2>4. offset + 1 \in Covered'
    BY <1>0, <1>1, <2>2, <2>3 DEF Covered
  <2>5. \A p \in 1..offset' : p \in 1..offset \/ p = offset + 1
    BY <1>1, <2>3
  <2> QED
    BY <1>3, <2>3, <2>4, <2>5 DEF CoverInv
<1>6. CASE Punct \/ EndOfSource
  <2>1. PICK t : toks' = Append(toks, t) /\ t.first = start + 1 /\ t.last = offset + 1
    <3>1. \E class : Deliver(class, <<>>, 0, offset + 1)
      BY <1>6 DEF Punct, EndOfSource
    <3> QED
      BY <3>1 DEF Deliver
  <2>2. pc = "scan" /\ pc' = "called" /\ offset' = offset + 1 /\ start = offset
    BY <1>6 DEF Punct, EndOfSource, Deliver, Advance, Inv, PartInv
  <2>3. toks'[Len(toks) + 1] = t /\ Len(toks) + 1 \in 1..Len(toks')
    BY <1>1, <2>1
  <2>4. offset + 1 \in Covered'
    BY <1>0, <1>1, <2>1, <2>2, <2>3 DEF Covered
  <2>5. \A p \in 1..offset' : p \in 1..offset \/ p = offset + 1
    BY <1>1, <2>2
  <2> QED
    BY <1>3, <2>2, <2>4, <2>5 DEF CoverInv
<1>7. CASE Unrecognized
  <2>1. pc = "scan" /\ pc' = "died" /\ offset' = offset + 1
    BY <1>7 DEF Unrecognized, Advance
  <2> QED
    BY <1>1, <1>3, <2>1 DEF CoverInv
<1>8. CASE IdBegins \/ NumberBegins
  <2>1. pc = "scan" /\ pc' \in {"id", "number"} /\ offset' = offset + 1 /\ start' = start
        /\ start = offset
    BY <1>8 DEF IdBegins, NumberBegins, Advance, Inv, PartInv
  <2>2. \A p \in 1..offset' : p \in 1..offset \/ p > start'
    BY <1>1, <2>1
  <2> QED
    BY <1>3, <2>1, <2>2 DEF CoverInv
<1>9. CASE IdMore \/ NumberMore
  <2>1. pc \in {"id", "number"} /\ pc' = pc /\ offset' = offset + 1 /\ start' = start
    BY <1>9 DEF IdMore, NumberMore, Advance
  <2>2. \A p \in 1..offset' : p \in 1..offset \/ p > start'
    BY <1>1, <2>1
  <2> QED
    BY <1>3, <2>1, <2>2 DEF CoverInv
<1>10. CASE IdEnds \/ NumberEnds
  <2>1. PICK t : toks' = Append(toks, t) /\ t.first = start + 1 /\ t.last = offset
    BY <1>10 DEF IdEnds, NumberEnds, Deliver
  <2>2. pc \in {"id", "number"} /\ pc' = "called" /\ offset' = offset
    BY <1>10 DEF IdEnds, NumberEnds, Deliver, PutBack
  <2>3. toks'[Len(toks) + 1] = t /\ Len(toks) + 1 \in 1..Len(toks')
    BY <1>1, <2>1
  <2>4. (start + 1)..offset \subseteq Covered'
    BY <1>0, <1>1, <2>1, <2>2, <2>3 DEF Covered
  <2>5. \A p \in 1..offset : p \in (start + 1)..offset \/ ~(p > start)
    BY <1>1
  <2> QED
    BY <1>3, <2>2, <2>4, <2>5 DEF CoverInv
<1>11. CASE UNCHANGED vars
  BY <1>11 DEF vars, CoverInv, Covered
<1> QED
  BY <1>4, <1>5, <1>6, <1>7, <1>8, <1>9, <1>10, <1>11 DEF Next, Step, Ended

-----------------------------------------------------------------------------
(* Lines.                                                                  *)

Newlines == {p \in 1..offset : source[p] = "newline"}
CountInv == lineno = 1 + Cardinality(Newlines)

LEMMA CountSame ==
  ASSUME Inv, [Next]_vars, CountInv, UNCHANGED lineno,
         \/ UNCHANGED offset
         \/ offset' = offset + 1 /\ source'[offset + 1] # "newline"
  PROVE  CountInv'
<1>1. /\ offset \in Nat /\ offset <= Len(source) /\ Len(source) \in Nat
      /\ \A p \in 1..offset : source'[p] = source[p]
  BY StepGrows DEF Inv, TypeOK, Grows
<1>2. Newlines' = Newlines
  BY <1>1 DEF Newlines
<1> QED
  BY <1>2 DEF CountInv

LEMMA CountStep == ASSUME Inv, [Next]_vars, CountInv PROVE CountInv'
<1>1. offset \in Nat /\ offset <= Len(source) /\ Len(source) \in Nat /\ lineno \in Nat
  BY DEF Inv, TypeOK
<1>2. ASSUME NEW c \in Char \cup {NUL}, Read(c), c # "newline", offset' = offset + 1,
             UNCHANGED lineno
      PROVE  CountInv'
  BY <1>2, ReadFacts, CountSame DEF Inv
<1>3. "newline" \notin Punctuation \cup Letters \cup Digits \cup IdChar \cup {NUL}
  BY CharClasses, CharFacts
<1>4. CASE ReadToken
  BY <1>4, CountSame DEF ReadToken
<1>5. CASE SkipWhite
  <2>1. PICK c \in White : Read(c) /\ lineno' = IF c = "newline" THEN lineno + 1 ELSE lineno
    BY <1>5 DEF SkipWhite
  <2>2. c \in Char \cup {NUL} /\ offset' = offset + 1
    BY <1>5, CharFacts DEF SkipWhite, Advance
  <2>3. CASE c = "newline"
    <3>1. source'[offset + 1] = "newline" /\ \A p \in 1..offset : source'[p] = source[p]
      BY <1>1, <2>1, <2>2, <2>3, ReadFacts DEF Inv
    <3>2. Newlines' = Newlines \cup {offset + 1}
      BY <1>1, <2>2, <3>1 DEF Newlines
    <3>3. IsFiniteSet(Newlines) /\ Cardinality(Newlines) \in Nat
      <4>1. IsFiniteSet(1..offset)
        BY <1>1, FS_Interval
      <4>2. Newlines \subseteq 1..offset
        BY DEF Newlines
      <4> QED
        BY <4>1, <4>2, FS_Subset, FS_CardinalityType
    <3>4. offset + 1 \notin Newlines
      BY <1>1 DEF Newlines
    <3>5. Cardinality(Newlines') = Cardinality(Newlines) + 1
      BY <3>2, <3>3, <3>4, FS_AddElement
    <3> QED
      BY <2>1, <2>3, <3>3, <3>5 DEF CountInv
  <2>4. CASE c # "newline"
    BY <1>2, <2>1, <2>2, <2>4
  <2> QED
    BY <2>3, <2>4
<1>6. CASE Punct
  BY <1>2, <1>3, <1>6, CharFacts DEF Punct, Advance
<1>7. CASE EndOfSource
  BY <1>2, <1>3, <1>7 DEF EndOfSource, Advance
<1>8. CASE Unrecognized
  <2>1. PICK c \in Char : Read(c) /\ c # "newline"
    BY <1>8, OtherChars, Zenon DEF Unrecognized
  <2> QED
    BY <1>2, <1>8, <2>1 DEF Unrecognized, Advance
<1>9. CASE IdBegins \/ IdMore
  <2>1. \E c \in IdChar : Read(c)
    BY <1>9, CharFacts DEF IdBegins, IdMore
  <2> QED
    BY <1>2, <1>3, <1>9, <2>1, CharFacts DEF IdBegins, IdMore, Advance
<1>10. CASE NumberBegins \/ NumberMore
  BY <1>2, <1>3, <1>10, CharFacts DEF NumberBegins, NumberMore, Advance
<1>11. CASE IdEnds \/ NumberEnds
  BY <1>11, CountSame DEF IdEnds, NumberEnds, PutBack
<1>12. CASE UNCHANGED vars
  BY <1>12, CountSame DEF vars
<1> QED
  BY <1>4, <1>5, <1>6, <1>7, <1>8, <1>9, <1>10, <1>11, <1>12 DEF Next, Step, Ended

-----------------------------------------------------------------------------
LexerInv == Inv /\ TilesInv /\ CoverInv /\ CountInv

LEMMA LexerInvariant == Spec => []LexerInv
<1>1. ASSUME Init PROVE LexerInv
  <2>1. TilesInv /\ CoverInv
    BY <1>1 DEF Init, TilesInv, CoverInv
  <2>2. CountInv
    <3>1. Newlines = {}
      BY <1>1 DEF Init, Newlines
    <3> QED
      BY <1>1, <3>1, FS_EmptySet DEF Init, CountInv
  <2> QED
    BY <1>1, <2>1, <2>2, InitInv DEF LexerInv
<1>2. LexerInv /\ [Next]_vars => LexerInv'
  BY InvStep, TilesStep, CoverStep, CountStep DEF LexerInv
<1> QED
  BY <1>1, <1>2, PTL DEF Spec

(* Every variable of the tokenizer has its type, and it is at most one     *)
(* character behind what it read (lex.c: c = l->source[l->offset++]).      *)
THEOREM LexerTypeCorrect == Spec => []TypeOK
<1>1. LexerInv => TypeOK
  BY DEF LexerInv, Inv
<1> QED
  BY <1>1, LexerInvariant, PTL

(* consume_id never writes behind its buffer, whatever its size, and       *)
(* nothing behind the end of the source is read.                           *)
THEOREM LexerInBounds == Spec => []InBounds
<1>1. LexerInv => InBounds
  BY DEF LexerInv, Inv, BufInv, EndInv, InBounds
<1> QED
  BY <1>1, LexerInvariant, PTL

(* The tokens, in order, are the characters of the source but for white    *)
(* space, each means what its characters say, and newlines are counted.    *)
THEOREM TokensTileSource == Spec => []TokensTile
<1>1. LexerInv => TokensTile
  <2> SUFFICES ASSUME LexerInv PROVE TokensTile
    OBVIOUS
  <2>1. lineno = 1 + Cardinality({p \in 1..offset : source[p] = "newline"})
    BY DEF LexerInv, CountInv, Newlines
  <2>2. \A k \in 1..Len(toks) :
          /\ toks[k].first <= toks[k].last
          /\ Means(toks[k], Lexeme(toks[k]))
          /\ k > 1 => toks[k - 1].last < toks[k].first
    BY DEF LexerInv, TilesInv, Good, Sound
  <2>3. ASSUME NEW p \in 1..(IF pc = "died" THEN offset - 1 ELSE offset)
        PROVE  \/ source[p] \in White
               \/ p > start /\ pc \in {"id", "number"}
               \/ \E k \in 1..Len(toks) : p \in toks[k].first..toks[k].last
    BY DEF LexerInv, CoverInv, Covered
  <2> QED
    BY <2>1, <2>2, <2>3 DEF TokensTile
<1> QED
  BY <1>1, LexerInvariant, PTL

(* Words and numbers are as long as the characters behind them and the     *)
(* buffer of consume_id allow.                                             *)
THEOREM TokensAreLongest == Spec => []LongestMatch
<1>1. LexerInv => LongestMatch
  BY DEF LexerInv, TilesInv, Good, Sound, Longest, LongestMatch
<1> QED
  BY <1>1, LexerInvariant, PTL

-----------------------------------------------------------------------------
(* The value of a number.                                                  *)

Powers(m) ==
  LET power[j \in 0..m] == IF j = 0 THEN 1 ELSE 10 * power[j - 1]
  IN power

Sums(w, p) ==
  LET sum[j \in 0..Len(w)] ==
        IF j = 0 THEN 0 ELSE sum[j - 1] + DigitValue[w[Len(w) + 1 - j]] * p[j - 1]
  IN sum

LEMMA ValueIs == ASSUME NEW w PROVE Value(w) = Sums(w, Powers(Len(w)))[Len(w)]
  BY DEF Value, Sums, Powers

IsPowers(p, m) ==
  /\ p \in [0..m -> Nat] /\ p[0] = 1
  /\ \A i \in 1..m : p[i] = 10 * p[i - 1]

LEMMA PowersAre == ASSUME NEW m \in Nat PROVE IsPowers(Powers(m), m)
<1> DEFINE step == [i \in Nat |-> [x \in Nat |-> 10 * x]]
           Def(f) == [i \in 0..m |-> IF i = 0 THEN 1 ELSE 10 * f[i - 1]]
<1>1. Keeps(step, Nat)
  BY DEF Keeps
<1>2. PICK f \in [0..m -> Nat] : f[0] = 1 /\ \A i \in 1..m : f[i] = step[i][f[i - 1]]
  <2>1. Runs(1, step, Nat, m) # {}
    <3> HIDE DEF step
    <3> QED
      BY <1>1, Recursion
  <2> HIDE DEF step
  <2> QED
    BY <2>1 DEF Runs
<1>3. \A i \in 1..m : f[i] = 10 * f[i - 1]
  <2> TAKE i \in 1..m
  <2>1. i - 1 \in 0..m /\ i \in Nat /\ f[i - 1] \in Nat
    OBVIOUS
  <2> QED
    BY <1>2, <2>1
<1>4. f = Def(f)
  BY <1>2, <1>3
<1>5. Powers(m) = Def(Powers(m))
  <2>1. Powers(m) = CHOOSE g : g = Def(g)
    BY DEF Powers
  <2> HIDE DEF Def
  <2> QED
    BY <1>4, <2>1
<1>6. PICK p : p = Powers(m)
  OBVIOUS
<1>7. p = Def(p)
  BY <1>5, <1>6
<1>8. p[0] = 1 /\ \A i \in 1..m : p[i] = 10 * p[i - 1]
  BY <1>7
<1>9. \A i \in Nat : i <= m => p[i] \in Nat
  <2> DEFINE G == {i \in Nat : i <= m => p[i] \in Nat}
  <2>1. 0 \in G
    BY <1>8
  <2>2. ASSUME NEW i \in Nat, i \in G PROVE i + 1 \in G
    <3>1. ASSUME i + 1 <= m PROVE p[i + 1] \in Nat
      <4>1. i + 1 \in 1..m /\ (i + 1) - 1 = i /\ p[i] \in Nat
        BY <2>2, <3>1
      <4>2. p[i + 1] = 10 * p[i]
        BY <1>8, <4>1
      <4> QED
        BY <4>1, <4>2
    <3> QED
      BY <3>1
  <2>3. Nat \subseteq G
    <3> HIDE DEF G
    <3> QED
      BY <2>1, <2>2, Induction
  <2> QED
    BY <2>3
<1>10. p \in [0..m -> Nat]
  <2>1. DOMAIN p = 0..m
    BY <1>7
  <2> QED
    BY <1>7, <1>9, <2>1
<1> QED
  BY <1>6, <1>8, <1>10 DEF IsPowers

IsSums(s, w, p) ==
  /\ s \in [0..Len(w) -> Nat] /\ s[0] = 0
  /\ \A i \in 1..Len(w) : s[i] = s[i - 1] + DigitValue[w[Len(w) + 1 - i]] * p[i - 1]

LEMMA SumsAre ==
  ASSUME NEW w \in Seq(Digits), NEW p, IsPowers(p, Len(w))
  PROVE  IsSums(Sums(w, p), w, p)
<1> DEFINE m == Len(w)
           add(i) == DigitValue[w[m + 1 - i]] * p[i - 1]
           step == [i \in Nat |-> [x \in Nat |-> IF i \in 1..m THEN x + add(i) ELSE x]]
           Def(f) == [i \in 0..m |-> IF i = 0 THEN 0 ELSE f[i - 1] + add(i)]
<1>0. m \in Nat
  OBVIOUS
<1>a. \A i \in 1..m : add(i) \in Nat
  <2> TAKE i \in 1..m
  <2>1. i - 1 \in 0..m /\ m + 1 - i \in 1..m
    BY <1>0
  <2>2. w[m + 1 - i] \in Digits /\ p[i - 1] \in Nat
    BY <2>1 DEF IsPowers
  <2>3. DigitValue[w[m + 1 - i]] \in Nat
    BY <2>2, ClassFacts
  <2> QED
    BY <2>2, <2>3
<1> HIDE DEF add
<1>1. Keeps(step, Nat)
  BY <1>a DEF Keeps
<1>2. PICK f \in [0..m -> Nat] : f[0] = 0 /\ \A i \in 1..m : f[i] = step[i][f[i - 1]]
  <2>1. Runs(0, step, Nat, m) # {}
    <3> HIDE DEF step, m
    <3> QED
      BY <1>0, <1>1, Recursion
  <2> HIDE DEF step
  <2> QED
    BY <2>1 DEF Runs
<1>3. \A i \in 1..m : f[i] = f[i - 1] + add(i)
  <2> TAKE i \in 1..m
  <2>1. i - 1 \in 0..m /\ i \in Nat /\ f[i - 1] \in Nat
    BY <1>0
  <2> QED
    BY <1>2, <2>1
<1>4. f = Def(f)
  BY <1>2, <1>3
<1>5. Sums(w, p) = Def(Sums(w, p))
  <2>1. Sums(w, p) = CHOOSE g : g = Def(g)
    BY DEF Sums, add
  <2> HIDE DEF Def
  <2> QED
    BY <1>4, <2>1
<1>6. PICK s : s = Sums(w, p)
  OBVIOUS
<1>7. s = Def(s)
  BY <1>5, <1>6
<1>8. s[0] = 0 /\ \A i \in 1..m : s[i] = s[i - 1] + add(i)
  BY <1>0, <1>7
<1>9. \A i \in Nat : i <= m => s[i] \in Nat
  <2> DEFINE G == {i \in Nat : i <= m => s[i] \in Nat}
  <2>1. 0 \in G
    BY <1>8
  <2>2. ASSUME NEW i \in Nat, i \in G PROVE i + 1 \in G
    <3>1. ASSUME i + 1 <= m PROVE s[i + 1] \in Nat
      <4>1. i + 1 \in 1..m /\ (i + 1) - 1 = i /\ s[i] \in Nat
        BY <2>2, <3>1
      <4>2. s[i + 1] = s[i] + add(i + 1)
        BY <1>8, <4>1
      <4> QED
        BY <1>a, <4>1, <4>2
    <3> QED
      BY <3>1
  <2>3. Nat \subseteq G
    <3> HIDE DEF G
    <3> QED
      BY <2>1, <2>2, Induction
  <2> QED
    BY <2>3
<1>10. s \in [0..m -> Nat]
  <2>1. DOMAIN s = 0..m
    BY <1>7
  <2> QED
    BY <1>7, <1>9, <2>1
<1> QED
  BY <1>6, <1>8, <1>10 DEF IsSums, add

(* A digit behind the others makes them ten times as much: what consume_   *)
(* number does with n.                                                     *)
LEMMA ValueShifts ==
  ASSUME NEW w \in Seq(Digits), NEW c \in Digits
  PROVE  Value(Append(w, c)) = Shift(Value(w), DigitValue[c])
<1> DEFINE m == Len(w)
<1>1. PICK v \in Seq(Digits) : v = Append(w, c)
  <2>1. Append(w, c) \in Seq(Digits)
    BY AppendProperties
  <2> QED
    BY <2>1
<1>2. /\ m \in Nat /\ Len(v) = m + 1 /\ v[m + 1] = c
      /\ \A i \in 1..m : v[i] = w[i]
  BY <1>1, AppendProperties
<1>3. PICK p, q : p = Powers(m) /\ q = Powers(m + 1)
  OBVIOUS
<1>4. IsPowers(p, m) /\ IsPowers(q, m + 1)
  BY <1>2, <1>3, PowersAre
<1>5. PICK s, t : s = Sums(w, p) /\ t = Sums(v, q)
  OBVIOUS
<1>6. IsSums(s, w, p) /\ IsSums(t, v, q)
  BY <1>2, <1>4, <1>5, SumsAre
<1>7. DigitValue[c] \in Nat
  BY ClassFacts
<1>8. PICK d \in Nat : d = DigitValue[c]
  BY <1>7
<1> DEFINE G == {j \in Nat : j <= m => t[j + 1] = 10 * s[j] + d /\ q[j] = p[j]}
<1>9. 0 \in G
  <2>1. 1 \in 1..Len(v) /\ 1 - 1 = 0 /\ Len(v) + 1 - 1 = m + 1
    BY <1>2
  <2>2. t[1] = t[1 - 1] + DigitValue[v[Len(v) + 1 - 1]] * q[1 - 1]
    BY <1>6, <2>1 DEF IsSums
  <2>3. t[0] = 0 /\ s[0] = 0 /\ q[0] = 1 /\ p[0] = 1
    BY <1>4, <1>6 DEF IsSums, IsPowers
  <2>4. t[1] = d
    BY <1>2, <1>8, <2>1, <2>2, <2>3
  <2> QED
    BY <2>3, <2>4
<1>10. ASSUME NEW j \in Nat, j \in G PROVE j + 1 \in G
  <2> SUFFICES ASSUME j + 1 <= m
               PROVE  t[(j + 1) + 1] = 10 * s[j + 1] + d /\ q[j + 1] = p[j + 1]
    OBVIOUS
  <2>1. t[j + 1] = 10 * s[j] + d /\ q[j] = p[j]
    BY <1>2, <1>10
  <2>2. j + 1 \in 1..m /\ j + 1 \in 1..(m + 1) /\ (j + 1) - 1 = j /\ j \in 0..m
    BY <1>2
  <2>3. p[j + 1] = 10 * p[j] /\ q[j + 1] = 10 * q[j] /\ p[j] \in Nat
    BY <1>4, <2>2 DEF IsPowers
  <2>4. PICK x : x = w[m + 1 - (j + 1)]
    OBVIOUS
  <2>5. m + 1 - (j + 1) \in 1..m
    BY <1>2, <2>2
  <2>6. x \in Digits /\ v[m + 1 - (j + 1)] = x /\ DigitValue[x] \in Nat
    BY <1>2, <2>4, <2>5, ClassFacts
  <2>7. s[j + 1] = s[j] + DigitValue[x] * p[j] /\ s[j] \in Nat
    BY <1>6, <2>2, <2>4 DEF IsSums
  <2>8. t[j + 2] = t[j + 1] + DigitValue[x] * q[j + 1]
    <3>1. j + 2 \in 1..Len(v) /\ (j + 2) - 1 = j + 1 /\ Len(v) + 1 - (j + 2) = m + 1 - (j + 1)
      BY <1>2, <2>2
    <3>2. t[j + 2] = t[(j + 2) - 1] + DigitValue[v[Len(v) + 1 - (j + 2)]] * q[(j + 2) - 1]
      BY <1>6, <3>1 DEF IsSums
    <3> QED
      BY <2>6, <3>1, <3>2
  <2>9. \A a, b \in Nat : a * (10 * b) = 10 * (a * b)
    OBVIOUS
  <2>10. DigitValue[x] * q[j + 1] = 10 * (DigitValue[x] * p[j])
    BY <2>1, <2>3, <2>6, <2>9
  <2>11. DigitValue[x] * p[j] \in Nat
    BY <2>3, <2>6
  <2>12. PICK y \in Nat : y = DigitValue[x] * p[j]
    BY <2>11
  <2>13. t[j + 2] = 10 * s[j] + d + 10 * y /\ s[j + 1] = s[j] + y
    BY <2>1, <2>7, <2>8, <2>10, <2>12
  <2>14. t[j + 2] = 10 * s[j + 1] + d
    BY <2>7, <2>13
  <2>15. (j + 1) + 1 = j + 2
    OBVIOUS
  <2> QED
    BY <2>1, <2>3, <2>14, <2>15
<1>11. m \in G
  <2>1. Nat \subseteq G
    <3> HIDE DEF G
    <3> QED
      BY <1>9, <1>10, Induction
  <2> HIDE DEF G
  <2> QED
    BY <1>2, <2>1
<1>12. t[m + 1] = 10 * s[m] + d
  BY <1>2, <1>11
<1>13. s[m] \in Nat
  <2>1. s \in [0..Len(w) -> Nat]
    BY <1>6 DEF IsSums
  <2>2. m \in 0..m /\ Len(w) = m
    BY ONLY <1>2, m \in Nat
  <2> QED
    BY ONLY <2>1, <2>2
<1>14. Value(w) = s[m] /\ Value(v) = t[m + 1]
  BY <1>2, <1>3, <1>5, ValueIs
<1> QED
  BY <1>1, <1>8, <1>12, <1>13, <1>14 DEF Shift

(* One digit is its own value. *)
LEMMA ValueOfDigit == ASSUME NEW c \in Digits PROVE Value(<<c>>) = DigitValue[c]
<1>1. PICK w \in Seq(Digits) : w = <<c>>
  <2>1. <<c>> \in Seq(Digits)
    OBVIOUS
  <2> QED
    BY <2>1
<1>2. Len(w) = 1 /\ w[1] = c /\ DigitValue[c] \in Nat
  BY <1>1, ClassFacts
<1>3. PICK p : p = Powers(1)
  OBVIOUS
<1>4. IsPowers(p, Len(w)) /\ p[0] = 1
  BY <1>2, <1>3, PowersAre DEF IsPowers
<1>5. PICK s : s = Sums(w, p)
  OBVIOUS
<1>6. IsSums(s, w, p)
  BY <1>4, <1>5, SumsAre
<1>7. 1 \in 1..Len(w) /\ Len(w) + 1 - 1 = 1 /\ 1 - 1 = 0
  BY <1>2
<1>8. s[1] = s[1 - 1] + DigitValue[w[Len(w) + 1 - 1]] * p[1 - 1] /\ s[0] = 0
  BY <1>6, <1>7 DEF IsSums
<1>9. s[1] = DigitValue[c]
  BY <1>2, <1>4, <1>7, <1>8
<1> QED
  BY <1>1, <1>2, <1>3, <1>5, <1>9, ValueIs

-----------------------------------------------------------------------------
(* n is the value of the digits read so far. *)
ValueInv ==
  /\ pc = "number" => n = Value(SubSeq(source, start + 1, offset))
  /\ NumbersRead

LEMMA ValueInit == ASSUME Init PROVE ValueInv
  BY DEF Init, ValueInv, NumbersRead

(* What was delivered keeps its value. *)
LEMMA DeliveredKept ==
  ASSUME Inv, TilesInv, NumbersRead, [Next]_vars, NEW k \in 1..Len(toks),
         toks[k].cls = "DBL"
  PROVE  toks[k].num = Value(SubSeq(source', toks[k].first, toks[k].last))
<1>1. PICK t \in Token : t = toks[k] /\ Sound(t)
  BY DEF TilesInv, Good
<1>2. /\ t.first \in Nat \ {0} /\ t.last \in Nat /\ t.last <= offset
      /\ offset <= Len(source) /\ offset \in Nat /\ Len(source) \in Nat
  BY SMTT(40), <1>1 DEF Sound, Token, Inv, TypeOK
<1>3. t.last <= Len(source)
  BY <1>2
<1>4. SubSeq(source', t.first, t.last) = SubSeq(source, t.first, t.last)
  BY <1>2, <1>3, StepGrows, LexemeKept DEF Inv
<1> QED
  BY <1>1, <1>4 DEF NumbersRead, Lexeme

LEMMA NumbersKept ==
  ASSUME Inv, Inv', TilesInv, NumbersRead, [Next]_vars,
         \/ UNCHANGED toks
         \/ \E t \in Token : /\ toks' = Append(toks, t)
                             /\ t.cls = "DBL" => t.num = Value(SubSeq(source', t.first, t.last))
  PROVE  NumbersRead'
<1>0. toks \in Seq(Token) /\ toks' \in Seq(Token)
  BY DEF Inv, TypeOK
<1>1. ASSUME NEW k \in 1..Len(toks'), toks'[k].cls = "DBL"
      PROVE  toks'[k].num = Value(SubSeq(source', toks'[k].first, toks'[k].last))
  <2>1. CASE UNCHANGED toks
    BY <1>1, <2>1, DeliveredKept
  <2>2. ASSUME NEW t \in Token, toks' = Append(toks, t),
               t.cls = "DBL" => t.num = Value(SubSeq(source', t.first, t.last))
        PROVE  toks'[k].num = Value(SubSeq(source', toks'[k].first, toks'[k].last))
    <3>1. CASE k \in 1..Len(toks)
      <4>1. toks'[k] = toks[k]
        BY <1>0, <2>2, <3>1
      <4> QED
        BY <1>1, <3>1, <4>1, DeliveredKept
    <3>2. CASE k \notin 1..Len(toks)
      <4>1. toks'[k] = t
        BY <1>0, <2>2, <3>2
      <4> QED
        BY <1>1, <2>2, <4>1
    <3> QED
      BY <3>1, <3>2
  <2> QED
    BY <2>1, <2>2
<1> QED
  BY <1>1 DEF NumbersRead, Lexeme

LEMMA ValueStep ==
  ASSUME Inv, [Next]_vars, Inv', TilesInv, ValueInv
  PROVE  ValueInv'
<1>1. NumbersRead /\ TypeOK /\ PartInv
  BY DEF ValueInv, Inv
<1>2. /\ source \in Seq(Char \cup {NUL}) /\ offset \in Nat /\ start \in Nat
      /\ Len(source) \in Nat /\ offset <= Len(source) /\ start <= offset
  BY DEF Inv, TypeOK
<1>3. CASE UNCHANGED toks /\ pc' # "number"
  BY <1>1, <1>3, NumbersKept DEF ValueInv
<1>4. CASE ReadToken \/ SkipWhite \/ Unrecognized \/ IdBegins \/ IdMore
  <2>1. UNCHANGED toks /\ pc' # "number"
    BY <1>4 DEF ReadToken, SkipWhite, Unrecognized, IdBegins, IdMore
  <2> QED
    BY <1>3, <2>1
<1>5. ASSUME NEW t, NEW str, NEW num, NEW last, Deliver(t, str, num, last),
             t = "DBL" => num = Value(SubSeq(source', start + 1, last))
      PROVE  ValueInv'
  <2>1. PICK x : x = [cls |-> t, str |-> str, num |-> num, first |-> start + 1, last |-> last]
    OBVIOUS
  <2>2. toks' = Append(toks, x) /\ pc' = "called" /\ toks' \in Seq(Token) /\ toks \in Seq(Token)
    BY <1>5, <2>1 DEF Deliver, Inv, TypeOK
  <2>3. x = toks'[Len(toks')] /\ Len(toks') \in 1..Len(toks')
    BY <2>2
  <2>4. x \in Token
    BY <2>2, <2>3
  <2>5. x.cls = "DBL" => x.num = Value(SubSeq(source', x.first, x.last))
    BY <1>5, <2>1
  <2>6. NumbersRead'
    BY <1>1, <2>2, <2>4, <2>5, NumbersKept
  <2> QED
    BY <2>2, <2>6 DEF ValueInv
<1>6. CASE Punct \/ EndOfSource
  <2>1. PICK c \in Punctuation \cup {NUL} :
               Deliver(IF c = NUL THEN "EOS" ELSE PunctClass[c], <<>>, 0, offset + 1)
    BY <1>6, CharClasses DEF Punct, EndOfSource
  <2>2. PICK t, str, num : /\ Deliver(t, str, num, offset + 1) /\ t # "DBL"
    BY <2>1, CharClasses
  <2> QED
    BY <1>5, <2>2
<1>7. CASE IdEnds
  <2>1. Deliver(IdClass(buf), IF IdClass(buf) = "ID" THEN buf ELSE <<>>, 0, offset)
    BY <1>7 DEF IdEnds
  <2>2. IdClass(buf) # "DBL"
    BY ClassFacts DEF IdClass, KeywordClass, Keywords
  <2>3. PICK t, str, num : Deliver(t, str, num, offset) /\ t # "DBL"
    BY <2>1, <2>2
  <2> QED
    BY <1>5, <2>3
<1>8. CASE NumberEnds
  <2>1. PICK c \in (Char \ Digits) \cup {NUL} : Read(c)
    BY <1>8 DEF NumberEnds
  <2>2. pc = "number" /\ Deliver("DBL", <<>>, n, offset)
    BY <1>8 DEF NumberEnds
  <2>3. SubSeq(source', start + 1, offset) = SubSeq(source, start + 1, offset)
    BY <1>1, <1>2, StepGrows, LexemeKept
  <2>4. n = Value(SubSeq(source', start + 1, offset))
    BY <2>2, <2>3 DEF ValueInv
  <2>5. PICK t, str : Deliver(t, str, n, offset)
    BY <2>2
  <2> QED
    BY <1>5, <2>4, <2>5
<1>9. CASE NumberBegins
  <2>1. PICK c \in Digits : Read(c) /\ n' = DigitValue[c]
    BY <1>9 DEF NumberBegins
  <2>2. UNCHANGED <<toks, start>> /\ pc = "scan" /\ offset' = offset + 1
    BY <1>9 DEF NumberBegins, Advance
  <2>3. /\ source' \in Seq(Char \cup {NUL}) /\ Len(source') = offset + 1
        /\ source'[offset + 1] = c
    BY <1>1, <2>1, ReadFacts, CharFacts
  <2>4. start = offset
    BY <1>1, <2>2 DEF PartInv
  <2>5. SubSeq(source', start' + 1, offset') = <<c>>
    <3>1. PICK u : u = SubSeq(source', offset + 1, offset + 1)
      OBVIOUS
    <3>2. u \in Seq(Char \cup {NUL}) /\ Len(u) = 1 /\ u[1] = c
      <4>1. offset + 1 \in 1..Len(source')
        BY <1>2, <2>3
      <4> QED
        BY <1>2, <2>3, <3>1, <4>1, SubSeqProperties
    <3>3. <<c>> \in Seq(Char \cup {NUL}) /\ Len(<<c>>) = 1 /\ <<c>>[1] = c
      BY CharFacts
    <3>4. u = <<c>>
      BY <3>2, <3>3, SeqEqual
    <3> QED
      BY <2>2, <2>4, <3>1, <3>4
  <2>6. n' = Value(SubSeq(source', start' + 1, offset'))
    BY <2>1, <2>5, ValueOfDigit
  <2>7. NumbersRead'
    BY <1>1, <2>2, NumbersKept
  <2> QED
    BY <2>6, <2>7 DEF ValueInv
<1>10. CASE NumberMore
  <2>1. PICK c \in Digits : Read(c) /\ n' = Shift(n, DigitValue[c])
    BY <1>10 DEF NumberMore
  <2>2. UNCHANGED <<toks, start>> /\ pc = "number" /\ offset' = offset + 1
    BY <1>10 DEF NumberMore, Advance
  <2>3. /\ source' \in Seq(Char \cup {NUL}) /\ Len(source') = offset + 1
        /\ source'[offset + 1] = c
        /\ \A p \in 1..offset : source'[p] = source[p]
    BY <1>1, <1>2, <2>1, ReadFacts, CharFacts
  <2>4. start < offset /\ \A p \in (start + 1)..offset : source[p] \in Digits
    BY <1>1, <2>2 DEF PartInv
  <2>5. PICK w : w = SubSeq(source, start + 1, offset)
    OBVIOUS
  <2>6. w \in Seq(Digits)
    <3>1. w \in Seq(Char \cup {NUL}) /\ Len(w) = offset - start
      BY <1>2, <2>4, <2>5
    <3>2. \A i \in 1..Len(w) : w[i] \in Digits
      BY <1>2, <2>4, <2>5, <3>1
    <3> QED
      BY <3>1, <3>2
  <2>7. SubSeq(source', start + 1, offset + 1) = Append(w, c)
    <3>1. /\ SubSeq(source', start + 1, offset + 1) \in Seq(Char \cup {NUL})
          /\ Len(SubSeq(source', start + 1, offset + 1)) = offset - start + 1
      BY <1>2, <2>3, <2>4
    <3>2. Len(w) = offset - start
      BY <1>2, <2>4, <2>5
    <3>3. ASSUME NEW i \in 1..(offset - start + 1)
          PROVE  SubSeq(source', start + 1, offset + 1)[i] = Append(w, c)[i]
      <4>0. /\ Len(Append(w, c)) = offset - start + 1
            /\ Append(w, c)[offset - start + 1] = c
            /\ \A j \in 1..(offset - start) : Append(w, c)[j] = w[j]
        BY <2>6, <3>2, AppendProperties
      <4>1. SubSeq(source', start + 1, offset + 1)[i] = source'[start + i]
        BY <1>2, <2>3, <2>4
      <4>2. CASE i = offset - start + 1
        <5>1. start + i = offset + 1
          BY <1>2, <4>2
        <5> QED
          BY <2>3, <4>0, <4>1, <4>2, <5>1
      <4>3. CASE i # offset - start + 1
        <5>1. start + i \in 1..offset /\ i \in 1..(offset - start)
          BY <1>2, <2>4, <4>3
        <5>2. w[i] = source[start + i]
          BY <1>2, <2>4, <2>5, <5>1
        <5> QED
          BY <2>3, <4>0, <4>1, <5>1, <5>2
      <4> QED
        BY <4>2, <4>3
    <3>4. Append(w, c) \in Seq(Char \cup {NUL}) /\ Len(Append(w, c)) = offset - start + 1
      <4>1. Digits \subseteq Char
        BY CharFacts
      <4>2. w \in Seq(Char \cup {NUL}) /\ c \in Char \cup {NUL}
        BY <2>6, <4>1
      <4> QED
        BY <3>2, <4>2
    <3> QED
      BY <3>1, <3>3, <3>4, SeqEqual
  <2>8. n' = Value(Append(w, c))
    <3>1. n = Value(w)
      BY <2>2, <2>5 DEF ValueInv
    <3> QED
      BY <2>1, <2>6, <3>1, ValueShifts
  <2>9. n' = Value(SubSeq(source', start' + 1, offset'))
    BY <2>2, <2>7, <2>8
  <2>10. NumbersRead'
    BY <1>1, <2>2, NumbersKept
  <2> QED
    BY <2>9, <2>10 DEF ValueInv
<1>11. CASE UNCHANGED vars
  <2>1. UNCHANGED <<toks, pc, n, source, start, offset>>
    BY <1>11 DEF vars
  <2> QED
    BY <1>1, <2>1, NumbersKept DEF ValueInv
<1> QED
  BY <1>4, <1>6, <1>7, <1>8, <1>9, <1>10, <1>11 DEF Next, Step, Ended

(* A number has the value its digits have in decimal, wherever it stands   *)
(* and however many they are, as long as a double does not round (lex.c:   *)
(* n = n * 10 + (c - '0')).                                                *)
THEOREM NumbersAreRead == Spec => []NumbersRead
<1>1. ASSUME Init PROVE ValueInv
  BY <1>1, ValueInit
<1>2. LexerInv /\ LexerInv' /\ [Next]_vars /\ ValueInv => ValueInv'
  BY ValueStep DEF LexerInv
<1>3. ValueInv => NumbersRead
  BY DEF ValueInv
<1> QED
  BY <1>1, <1>2, <1>3, LexerInvariant, PTL DEF Spec

-----------------------------------------------------------------------------
(* The refinement of the stream of token classes.                          *)

LEMMA DeliverRefines ==
  ASSUME Inv, pc \in Reading, NEW str, NEW num, NEW last,
         NEW t \in Promised!TokType, Deliver(t, str, num, last)
  PROVE  Promised!Deliver(t)
<1>1. toks \in Seq(Token) /\ Len(toks) \in Nat
  BY DEF Inv, TypeOK
<1>2. pc # "died" /\ cls # "EOS"
  BY DEF Inv, EndInv, Reading
<1>3. PICK x : toks' = Append(toks, x) /\ x.cls = t
  BY DEF Deliver
<1>4. Len(toks') = Len(toks) + 1 /\ toks'[Len(toks) + 1] = x
      /\ \A k \in 1..Len(toks) : toks'[k] = toks[k]
  BY <1>1, <1>3
<1>5. Classes' = Append(Classes, t)
  BY <1>1, <1>3, <1>4 DEF Classes
<1>6. (pc # "died" /\ cls # "EOS")' = (t # "EOS")
  BY DEF Deliver
<1> QED
  BY <1>2, <1>5, <1>6 DEF Promised!Deliver

LEMMA StepRefines ==
  ASSUME Inv, [Next]_vars
  PROVE  [Promised!Next]_<<Classes, pc # "died" /\ cls # "EOS">>
<1> DEFINE Stutters == UNCHANGED <<Classes, pc # "died" /\ cls # "EOS">>
<1>1. ASSUME UNCHANGED <<toks, cls>>, pc # "died" <=> pc' # "died" PROVE Stutters
  BY <1>1 DEF Classes
<1>2. ASSUME NEW t \in Promised!TokType, Promised!Deliver(t) PROVE Promised!Next
  BY <1>2 DEF Promised!Next
<1>3. CASE ReadToken \/ SkipWhite \/ IdBegins \/ IdMore \/ NumberBegins \/ NumberMore
  BY <1>1, <1>3 DEF ReadToken, SkipWhite, IdBegins, IdMore, NumberBegins, NumberMore
<1>4. CASE Punct
  <2>1. PICK c \in Punctuation : Deliver(PunctClass[c], <<>>, 0, offset + 1)
    BY <1>4 DEF Punct
  <2>2. PunctClass[c] \in Promised!TokType
    BY DEF PunctClass, Punctuation, Promised!TokType
  <2> QED
    BY <1>2, <1>4, <2>1, <2>2, DeliverRefines DEF Punct, Reading
<1>5. CASE EndOfSource
  <2>1. "EOS" \in Promised!TokType
    BY DEF Promised!TokType
  <2> QED
    BY <1>2, <1>5, <2>1, DeliverRefines DEF EndOfSource, Reading
<1>6. CASE Unrecognized
  <2>1. pc = "scan" /\ pc' = "died" /\ UNCHANGED toks
    BY <1>6 DEF Unrecognized
  <2>2. pc # "died" /\ cls # "EOS"
    BY <2>1 DEF Inv, EndInv
  <2>3. Promised!Die
    BY <2>1, <2>2 DEF Promised!Die, Classes
  <2> QED
    BY <2>3 DEF Promised!Next
<1>7. CASE IdEnds
  <2>1. IdClass(buf) \in Promised!TokType
    BY ClassFacts DEF Promised!TokType
  <2> QED
    BY <1>2, <1>7, <2>1, DeliverRefines DEF IdEnds, Reading
<1>8. CASE NumberEnds
  <2>1. "DBL" \in Promised!TokType
    BY DEF Promised!TokType
  <2> QED
    BY <1>2, <1>8, <2>1, DeliverRefines DEF NumberEnds, Reading
<1>9. CASE UNCHANGED vars
  BY <1>1, <1>9 DEF vars
<1> QED
  BY <1>3, <1>4, <1>5, <1>6, <1>7, <1>8, <1>9 DEF Next, Step, Ended

(* What lex_scan hands to the parser is a stream of token classes that     *)
(* ends with EOS and is never continued, or with the death of the program. *)
THEOREM LexerImplementsStream == Spec => ImplementsStream
<1>1. Init => Promised!Init
  BY DEF Init, Promised!Init, Classes
<1>2. LexerInv /\ [Next]_vars => [Promised!Next]_<<Classes, pc # "died" /\ cls # "EOS">>
  BY StepRefines DEF LexerInv
<1> QED
  BY <1>1, <1>2, LexerInvariant, PTL DEF Spec, ImplementsStream, Promised!Spec
=============================================================================
