------------------------------- MODULE Lexer --------------------------------
(***************************************************************************)
(* The tokenizer of src/lex.c, one action per iteration of its loops, with *)
(* tok_strm_readf as the caller: it scans until end-of-source.             *)
(*                                                                         *)
(* The source is chosen while it is read: `source' holds the characters    *)
(* read so far and grows when the lexer reads one more; NUL ends it.  The  *)
(* C offset counts from 0, so source[offset + 1] is the next character.    *)
(*                                                                         *)
(* Letters that occur in no keyword behave alike: "x" stands for all of    *)
(* them, as "bad" does for the characters no case accepts.  `toks' is the  *)
(* history of the tokens delivered, with the part of the source each was   *)
(* read from; `start' is the offset at which the one being read begins.    *)
(***************************************************************************)
EXTENDS Naturals, Sequences, FiniteSets

CONSTANTS
  Alphabet,    \* the characters a source may hold
  MaxSource,   \* bound: how many of them, without NUL
  MAX_IDENT    \* size of the buffer of consume_id

Letters == {"d", "e", "f", "i", "l", "s", "x"}
White == {"newline", "space", "tab"}

DigitValue == [c \in {"0", "1", "7"} |->
                 CASE c = "0" -> 0 [] c = "1" -> 1 [] c = "7" -> 7]
Digits == DOMAIN DigitValue

PunctClass ==
  [c \in {",", ";", "(", ")", "{", "}", "+", "-", "*", "/", "<"} |->
     CASE c = "," -> "COMMA"  [] c = ";" -> "SEMI"   [] c = "(" -> "LPAREN"
       [] c = ")" -> "RPAREN" [] c = "{" -> "LCURL"  [] c = "}" -> "RCURL"
       [] c = "+" -> "ADD"    [] c = "-" -> "SUB"    [] c = "*" -> "MUL"
       [] c = "/" -> "DIV"    [] c = "<" -> "CMPLT"]
Punctuation == DOMAIN PunctClass

NUL == "NUL"
IdChar == Letters \cup Digits \cup {"_"}
Char == IdChar \cup White \cup Punctuation \cup {"bad"}

ASSUME LexerAssumption ==
  /\ Alphabet \subseteq Char
  /\ MaxSource \in Nat
  /\ MAX_IDENT \in Nat /\ MAX_IDENT >= 2

VARIABLES
  source,   \* what was read of the source text
  offset,   \* lexer.offset
  lineno,   \* lexer.lineno
  cls,      \* lexer.tok.cls
  buf,      \* buf[0..i-1] of consume_id
  n,        \* n of consume_number
  pc,       \* called, scan, id, number; ended and died at the end
  start,
  toks

vars == <<source, offset, lineno, cls, buf, n, pc, start, toks>>

-----------------------------------------------------------------------------
KeywordClass ==
  [w \in {<<"d", "e", "f">>, <<"i", "f">>, <<"e", "l", "s", "e">>} |->
     CASE w = <<"d", "e", "f">> -> "DEF" [] w = <<"i", "f">> -> "IF"
       [] OTHER -> "ELSE"]
Keywords == DOMAIN KeywordClass

(* strcmp of buf with each keyword: mutated, a keyword followed by other   *)
(* characters is taken for the keyword.                                    *)
IdClassByPrefix(w) ==
  IF Len(w) >= 2 /\ SubSeq(w, 1, 2) = <<"i", "f">> THEN "IF"
  ELSE IF w \in Keywords THEN KeywordClass[w] ELSE "ID"
IdClass(w) == IF w \in Keywords THEN KeywordClass[w] ELSE "ID"

Class == {PunctClass[c] : c \in Punctuation} \cup
         {"ID", "DBL", "EOS", "ERR", "DEF", "IF", "ELSE"}

(* A token, with its value: str of an ID, num of a DBL. *)
Token == [cls: Class, str: Seq(IdChar), num: Nat, first: Nat, last: Nat]

(* c = l->source[l->offset++], but for the increment *)
Read(c) ==
  IF offset < Len(source)
    THEN c = source[offset + 1] /\ UNCHANGED source
    ELSE /\ c \in {NUL} \cup (IF Len(source) < MaxSource THEN Alphabet
                                                         ELSE {})
         /\ source' = Append(source, c)

AdvanceTwice == offset' = offset + 2                     \* mutant
Advance == offset' = offset + 1

PutBackForgotten == Advance                              \* mutant
PutBack == UNCHANGED offset

(* set_tok_type, and the return from _lex_scan *)
Deliver(t, str, num, last) ==
  /\ cls' = t
  /\ toks' = Append(toks, [cls |-> t, str |-> str, num |-> num,
                           first |-> start + 1, last |-> last])
  /\ pc' = "called"

ReadTokenPastEnd ==                                      \* mutant
  /\ pc = "called"
  /\ pc' = "scan" /\ start' = offset
  /\ UNCHANGED <<source, offset, lineno, cls, buf, n, toks>>

(* The loop of tok_strm_readf: another token unless this one was EOS. *)
ReadToken ==
  /\ pc = "called"
  /\ IF cls = "EOS"
       THEN pc' = "ended" /\ UNCHANGED start
       ELSE pc' = "scan" /\ start' = offset
  /\ UNCHANGED <<source, offset, lineno, cls, buf, n, toks>>

SkipWhiteStuck ==                                        \* mutant
  /\ pc = "scan"
  /\ \E c \in White : Read(c)
  /\ UNCHANGED <<offset, lineno, start, cls, buf, n, pc, toks>>

SkipWhite ==
  /\ pc = "scan"
  /\ \E c \in White :
       Read(c) /\ lineno' = IF c = "newline" THEN lineno + 1 ELSE lineno
  /\ Advance
  /\ start' = offset + 1
  /\ UNCHANGED <<cls, buf, n, pc, toks>>

Punct ==
  /\ pc = "scan"
  /\ \E c \in Punctuation :
       Read(c) /\ Deliver(PunctClass[c], <<>>, 0, offset + 1)
  /\ Advance
  /\ UNCHANGED <<lineno, buf, n, start>>

EndOfSource ==
  /\ pc = "scan"
  /\ Read(NUL)
  /\ Deliver("EOS", <<>>, 0, offset + 1)
  /\ Advance
  /\ UNCHANGED <<lineno, buf, n, start>>

(* lex_scan dies on a character that starts no token. *)
Unrecognized ==
  /\ pc = "scan"
  /\ \E c \in {"_", "bad"} : Read(c)
  /\ Advance
  /\ cls' = "ERR"
  /\ pc' = "died"
  /\ UNCHANGED <<lineno, buf, n, start, toks>>

(* consume_id: the first character is stored before the loop tests. *)
IdBegins ==
  /\ pc = "scan"
  /\ \E c \in Letters : Read(c) /\ buf' = <<c>>
  /\ Advance
  /\ pc' = "id"
  /\ UNCHANGED <<lineno, cls, n, start, toks>>

FullTooEarly == Len(buf) >= MAX_IDENT - 2                \* mutants
FullTooLate == Len(buf) >= MAX_IDENT
Full == Len(buf) >= MAX_IDENT - 1

IdMore ==
  /\ pc = "id"
  /\ \E c \in IdChar : Read(c) /\ buf' = Append(buf, c)
  /\ ~Full
  /\ Advance
  /\ UNCHANGED <<lineno, cls, n, pc, start, toks>>

(* The character the loop stops at was read, and is put back. *)
IdEnds ==
  /\ pc = "id"
  /\ \E c \in Char \cup {NUL} : Read(c) /\ (c \notin IdChar \/ Full)
  /\ PutBack
  /\ Deliver(IdClass(buf), IF IdClass(buf) = "ID" THEN buf ELSE <<>>, 0, offset)
  /\ UNCHANGED <<lineno, buf, n, start>>

(* consume_number.  n is a double: up to 2^53 its arithmetic on naturals   *)
(* is exact, and what is said of values here ends where it rounds.         *)
NumberBegins ==
  /\ pc = "scan"
  /\ \E c \in Digits : Read(c) /\ n' = DigitValue[c]
  /\ Advance
  /\ pc' = "number"
  /\ UNCHANGED <<lineno, cls, buf, start, toks>>

ShiftReversed(m, d) == d * 10 + m                        \* mutant
Shift(m, d) == m * 10 + d

NumberMore ==
  /\ pc = "number"
  /\ \E c \in Digits : Read(c) /\ n' = Shift(n, DigitValue[c])
  /\ Advance
  /\ UNCHANGED <<lineno, cls, buf, pc, start, toks>>

NumberEnds ==
  /\ pc = "number"
  /\ \E c \in (Char \ Digits) \cup {NUL} : Read(c)
  /\ PutBack
  /\ Deliver("DBL", <<>>, n, offset)
  /\ UNCHANGED <<lineno, buf, n, start>>

Step == \/ ReadToken \/ SkipWhite \/ Punct \/ EndOfSource \/ Unrecognized
        \/ IdBegins \/ IdMore \/ IdEnds
        \/ NumberBegins \/ NumberMore \/ NumberEnds

Ended == pc \in {"ended", "died"} /\ UNCHANGED vars

Next == Step \/ Ended

(* tok is uninitialised until the first token is delivered; "ERR" stands   *)
(* for what it holds, which tok_strm_readf does not look at.               *)
Init ==
  /\ source = <<>>
  /\ offset = 0
  /\ lineno = 1
  /\ cls = "ERR"
  /\ buf = <<>>
  /\ n = 0
  /\ pc = "called"
  /\ start = 0
  /\ toks = <<>>

Spec == Init /\ [][Next]_vars

(* A single thread that is never blocked: it goes on while it can. *)
FairSpec == Spec /\ WF_vars(Step)

-----------------------------------------------------------------------------
(* Properties.                                                             *)

(* Every variable has its type, and the offset is inside what was read:    *)
(* at most one character, put back, lies beyond it.                        *)
TypeOK ==
  /\ source \in Seq(Char \cup {NUL})
  /\ offset \in 0..Len(source)
  /\ Len(source) <= offset + 1
  /\ lineno \in Nat \ {0}
  /\ cls \in Class
  /\ buf \in Seq(IdChar)
  /\ n \in Nat
  /\ pc \in {"called", "scan", "id", "number", "ended", "died"}
  /\ start \in 0..offset
  /\ toks \in Seq(Token)

(* The terminating '\0' of the identifier fits in the buffer, and nothing  *)
(* behind the NUL that ends the source is ever read.                       *)
InBounds ==
  /\ Len(buf) <= MAX_IDENT - 1
  /\ \A p \in 1..Len(source) : source[p] = NUL => p = Len(source)

(* The characters of token t. *)
Lexeme(t) == SubSeq(source, t.first, t.last)

(* What a lexeme means, whatever precedes and follows it. *)
Means(t, w) ==
  CASE w[1] \in Punctuation -> Len(w) = 1 /\ t.cls = PunctClass[w[1]]
    [] w[1] = NUL -> Len(w) = 1 /\ t.cls = "EOS"
    [] w[1] \in Digits -> /\ t.cls = "DBL"
                          /\ \A k \in 1..Len(w) : w[k] \in Digits
    [] w[1] \in Letters ->
         /\ \A k \in 1..Len(w) : w[k] \in IdChar
         /\ IF w \in Keywords
              THEN t.cls = KeywordClass[w]
              ELSE t.cls = "ID" /\ t.str = w

(* Each token stands for its characters and each character that is not     *)
(* white space belongs to one token, in the order of the source: the       *)
(* tokenizer neither loses a character nor reads one twice, and counts     *)
(* each newline once, those it puts back too.                              *)
TokensTile ==
  /\ lineno = 1 + Cardinality({p \in 1..offset : source[p] = "newline"})
  /\ \A k \in 1..Len(toks) :
       /\ toks[k].first <= toks[k].last
       /\ Means(toks[k], Lexeme(toks[k]))
       /\ k > 1 => toks[k - 1].last < toks[k].first
  /\ \A p \in 1..(IF pc = "died" THEN offset - 1 ELSE offset) :
       \/ source[p] \in White
       \/ p > start /\ pc \in {"id", "number"}
       \/ \E k \in 1..Len(toks) : p \in toks[k].first..toks[k].last

(* A word or a number ends only where the next character cannot belong to  *)
(* it, or where the buffer is full.                                        *)
LongestMatch ==
  \A k \in 1..Len(toks) :
    LET t == toks[k]
        next == source[t.last + 1]
    IN /\ t.cls \in {"ID", "DEF", "IF", "ELSE"} =>
            next \notin IdChar \/ t.last - t.first + 1 = MAX_IDENT - 1
       /\ t.cls = "DBL" => next \notin Digits

(* The number that the digits w stand for: each times the power of ten of  *)
(* its place.                                                              *)
Value(w) ==
  LET power[j \in 0..Len(w)] == IF j = 0 THEN 1 ELSE 10 * power[j - 1]
      sum[j \in 0..Len(w)] ==
        IF j = 0 THEN 0
        ELSE sum[j - 1] + DigitValue[w[Len(w) + 1 - j]] * power[j - 1]
  IN sum[Len(w)]

(* The value of a number is that of its digits, all of them and no other.  *)
NumbersRead ==
  \A k \in 1..Len(toks) :
    toks[k].cls = "DBL" => toks[k].num = Value(Lexeme(toks[k]))

(* The tokens are the stream of classes lex_scan promises its callers.     *)
Classes == [k \in 1..Len(toks) |-> toks[k].cls]
Promised == INSTANCE TokenStream WITH
              stream <- Classes, open <- pc # "died" /\ cls # "EOS"
ImplementsStream == Promised!Spec

(* Every source text is tokenized to its end, or rejected. *)
Terminates == <>(pc \in {"ended", "died"})
=============================================================================
