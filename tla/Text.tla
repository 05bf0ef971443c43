-------------------------------- MODULE Text --------------------------------
(***************************************************************************)
(* What a string of cfustring.h promises: a text that is set, extended,    *)
(* printed into, copied out and split, whatever memory holds it.           *)
(***************************************************************************)
EXTENDS Naturals, SequencesExt

CONSTANTS Char, Texts, NULL, InitialSizes, Counts, SepLists, Limits

VARIABLES
  text,     \* a sequence of characters; NULL for no text at all
  res       \* the last call, with its arguments, the texts it handed out and
            \* a number it returned

Answer(of, texts, n) == [of |-> of, texts |-> texts, n |-> n]
Done(of) == Answer(of, <<>>, 0)

Init == text = NULL /\ res = Done(<<"destroy">>)

(* The call sets the text to t, whatever it was. *)
Set(of, t) == res' = Done(of) /\ text' = t

Emptied == IF text = NULL THEN NULL ELSE <<>>

(* A string is made with room for n characters, or from a text. *)
New ==
  \/ \E n \in InitialSizes : Set(<<"new", n>>, IF n = 0 THEN NULL ELSE <<>>)
  \/ \E t \in Texts \cup {<<>>} : Set(<<"from", t>>, t)

(* The string's own text is gone before it can be copied. *)
Dup ==
  \/ \E t \in Texts \cup {<<>>, NULL} : Set(<<"dup", t>>, t)
  \/ text # NULL /\ Set(<<"dup own">>, <<>>)

Clear == Set(<<"clear">>, Emptied)

Destroy == Set(<<"destroy">>, NULL)

(* n = 0: the whole of it. *)
Prefix(t, n) == IF n = 0 \/ n > Len(t) THEN t ELSE SubSeq(t, 1, n)

(* Behind the text comes the beginning of t. *)
Extended(t, n) == (IF text = NULL THEN <<>> ELSE text) \o Prefix(t, n)

(* Another text, or the string's own, is put behind the text. *)
Extend(n) ==
  \/ \E t \in Texts \cup {<<>>} : Set(<<"append", t, n>>, Extended(t, n))
  \/ text # NULL /\ Set(<<"append own", n>>, Extended(text, n))

CopyOut == res' = Answer(<<"copy">>, <<text>>, 0) /\ UNCHANGED text

(* The separator is at place p of t. *)
At(t, p, sep) == p + Len(sep) - 1 <= Len(t) /\ SubSeq(t, p, p + Len(sep) - 1) = sep

(* The fields stand in t one behind the other, from cut to cut, each with  *)
(* a separator or the end of t after it.                                   *)
Cuts(t, fs, seps, cut) ==
  /\ cut[0] = 1
  /\ \A i \in 1..Len(fs) :
       LET end == cut[i - 1] + Len(fs[i])
       IN /\ At(t, cut[i - 1], fs[i])
          /\ \/ end > Len(t) /\ cut[i] = end
             \/ \E sep \in seps : At(t, end, sep) /\ cut[i] = end + Len(sep)

(* Not every separator is found: one stays in the field where another      *)
(* attempt at it was under way, as "ab" in "aab".                          *)
Clean(field, seps) ==
  \A sep \in seps : \A p \in 1..Len(field) : At(field, p, sep) =>
    \E q \in 1..(p - 1) : p - q < Len(sep) /\ IsPrefix(SubSeq(field, q, p - 1), sep)

(* The fields and the separators between them are the text.  Splitting     *)
(* stops at its end or before an empty field; the field number `limit' is  *)
(* all the rest, with the separators in it, and limit = 0 is none.         *)
IsSplit(t, fs, seps, limit) ==
  IF limit = 1 THEN fs = <<t>>
  ELSE IF t = NULL THEN fs = <<>>
  ELSE /\ <<>> \notin Range(fs)
       /\ limit > 0 => Len(fs) <= limit
       /\ \E cut \in [0..Len(fs) -> 1..(Len(t) + 1)] :
            /\ Cuts(t, fs, seps, cut)
            /\ \/ cut[Len(fs)] > Len(t)
               \/ /\ limit > 0 => Len(fs) < limit
                  /\ \E sep \in seps : At(t, cut[Len(fs)], sep)
       /\ \A i \in 1..Len(fs) : i # limit => Clean(fs[i], seps)

(* A call that takes many steps begins. *)
Begin == res' = Done(<<"under way">>) /\ UNCHANGED text

Split(seps, limit) ==
  /\ res' = Answer(<<"split", seps, limit>>, res'.texts, Len(res'.texts))
  /\ IsSplit(text, res'.texts, Range(seps), limit)
  /\ UNCHANGED text

(* Something is printed instead of the text; what, FormatRight says. *)
PrintInto ==
  /\ res' = Answer(<<"print">>, <<>>, res'.n)
  /\ text' \in Seq(Char) \cup {NULL}

Next ==
  \/ New \/ Dup \/ Clear \/ Destroy \/ CopyOut \/ Begin \/ PrintInto
  \/ \E n \in Counts : Extend(n)
  \/ \E seps \in SepLists, limit \in Limits : Split(seps, limit)

Spec == Init /\ [][Next]_<<text, res>>
=============================================================================
