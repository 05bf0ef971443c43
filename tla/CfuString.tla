----------------------------- MODULE CfuString -----------------------------
(***************************************************************************)
(* The growing strings of lib/cfustring.c, cell by cell: the buffer, its   *)
(* size and the size in use, printing into it and splitting it.            *)
(*                                                                         *)
(* A text is a sequence of characters.  In formats, "d" stands for the     *)
(* characters that end a number's conversion (u d f F x X p), "s" for      *)
(* itself, "blank" for a blank and a tab, "other" for any but these and    *)
(* the percent sign.  The text "(null)" is one character, "null".          *)
(***************************************************************************)
EXTENDS Integers, SequencesExt, FiniteSetsExt

CONSTANTS
  Char,         \* characters considered
  Texts,        \* C strings considered as arguments
  InitialSizes, \* arguments of cfustring_new_with_initial_size
  Counts,       \* arguments n of cfustring_append_n
  SepLists,     \* lists of separators considered
  Limits,       \* limits considered for a split
  FormatChar,   \* characters considered in formats
  Numbers,      \* what vsnprintf makes of a number
  Scratch,      \* initial size of the buffer it prints to: 128 in the code
  NULL,         \* the NULL pointer
  NUL,          \* the character that ends a C string
  Garbage,      \* content of memory nobody wrote to
  MaxText,      \* bound: length of the text
  MaxFormat     \* bound: length of a format

ASSUME CfuStringAssumption ==
  /\ \A t \in Texts \cup Numbers : t \in Seq(Char) /\ t # <<>>
  /\ SepLists \subseteq Seq(Texts)
  /\ InitialSizes \cup Counts \cup Limits \cup {MaxText, MaxFormat} \subseteq Nat
  /\ Scratch \in Nat \ {0}
  /\ FormatChar \subseteq {"percent", "d", "s", "blank", "other"}
  /\ FormatChar \cup {"null"} \subseteq Char
  /\ NUL \notin Char /\ NULL \notin Seq(Char \cup {NUL, Garbage})

VARIABLES
  cfu_str,      \* struct cfustring: str, max_size, used_size
  call,         \* the local variables of the call under way
  res,          \* the last call, with its arguments, the texts it handed out
                \* and the number it returned
  status        \* none (no string), running, formatting, splitting,
                \* undefined

vars == <<cfu_str, call, res, status>>

-----------------------------------------------------------------------------
(* Buffers.                                                                *)

Filled(n, c) == [i \in 1..n |-> c]
String(str, max_size, used_size) ==
  [str |-> str, max_size |-> max_size, used_size |-> used_size]

NoString == String(NULL, 0, 0)

(* The C string in the cells: they are read up to the first NUL. *)
Read(cells) ==
  LET ends == {i \in 1..Len(cells) : cells[i] = NUL}
  IN IF ends = {} THEN cells ELSE SubSeq(cells, 1, Min(ends) - 1)

Content == IF cfu_str.str = NULL THEN NULL ELSE Read(cfu_str.str)

(* memcpy of t to cells[at] and what follows. *)
Written(cells, at, t) ==
  [i \in 1..Max({Len(cells), at + Len(t) - 1}) |->
     IF i \in at..(at + Len(t) - 1) THEN t[i - at + 1] ELSE cells[i]]

(* cfustring_new_with_initial_size *)
Created(n) == IF n = 0 THEN NoString ELSE String(Filled(n, NUL), n, 1)

(* cfustring_clear *)
Cleared(s) ==
  IF s.str = NULL THEN s ELSE String(Written(s.str, 1, <<NUL>>), s.max_size, 1)

(* Mutant: the buffer is taken to be large enough if the old text fits. *)
NeedStale(used, len) == used + 1
Need(used, len) == used + len + 1

Doubled(max, need) == IF 2 * max >= need THEN 2 * max ELSE need

(* cfustring_append_n, its argument read: t is not NULL.                   *)
Appended(s, t) ==
  LET d == IF s.str = NULL
             THEN String(Written(Filled(Len(t) + 1, Garbage), 1, <<NUL>>), Len(t) + 1, 1)
             ELSE s
      need == Need(d.used_size, Len(t))
      size == IF need > d.max_size THEN Doubled(d.max_size, need) ELSE d.max_size
      cells == IF need > d.max_size
                 THEN Written(Filled(size, Garbage), 1, SubSeq(d.str, 1, d.used_size))
                 ELSE d.str
  IN String(Written(cells, d.used_size, t \o <<NUL>>), size, d.used_size + Len(t))

Prefix(t, n) == IF n = 0 \/ n > Len(t) THEN t ELSE SubSeq(t, 1, n)

-----------------------------------------------------------------------------
(* Operations on the buffer.                                               *)

Strings == Texts \cup {<<>>}

(* An answer names the call with the arguments passed. *)
Answer(of, texts, n) == [of |-> of, texts |-> texts, n |-> n]
Done(of) == Answer(of, <<>>, 0)
UnderWay == Done(<<"under way">>)
NoCall == [on |-> FALSE]

Running == status = "running"
Undefined == status' = "undefined" /\ UNCHANGED <<cfu_str, call, res>>
Becomes(s, of) == cfu_str' = s /\ res' = Done(of) /\ UNCHANGED <<call, status>>

(* cfustring_new_with_initial_size, cfustring_new_from_string *)
New ==
  /\ status = "none"
  /\ \/ \E n \in InitialSizes : cfu_str' = Created(n) /\ res' = Done(<<"new", n>>)
     \/ \E t \in Strings :
          cfu_str' = Appended(Created(0), t) /\ res' = Done(<<"from", t>>)
  /\ status' = "running"
  /\ UNCHANGED call

(* The loop that counts up to n characters looks at the first one each     *)
(* time: n are copied if there is one, also those behind the end.          *)
Overread(t, n) == t # <<>> /\ n > Len(t)

(* cfustring_append_n, cfustring_append for n = 0 *)
AppendN(t, n) ==
  /\ Running
  /\ IF Overread(t, n) THEN Undefined
     ELSE /\ (IF Content = NULL THEN 0 ELSE Len(Content)) + Len(t) <= MaxText
          /\ Becomes(Appended(cfu_str, Prefix(t, n)), <<"append", t, n>>)

(* The same with the string's own buffer as the argument: if the buffer    *)
(* grows the argument is freed before it is read.                          *)
AppendOwn(n) ==
  /\ Running
  /\ cfu_str.str # NULL
  /\ LET t == Prefix(Content, n)
     IN IF \/ Overread(Content, n)
           \/ t # <<>> /\ Need(cfu_str.used_size, Len(t)) > cfu_str.max_size
          THEN Undefined
          ELSE /\ Len(Content) + Len(t) <= MaxText
               /\ Becomes(Appended(cfu_str, t), <<"append own", n>>)

Overwritten(s, t) == Appended(Cleared(s), t)

(* cfustring_dup, of NULL, of a text or of the string's own buffer, which  *)
(* is cleared before it is read; cfustring_clear.                          *)
Dup ==
  /\ Running
  /\ \/ Becomes(NoString, <<"dup", NULL>>)
     \/ \E t \in Strings : Becomes(Overwritten(cfu_str, t), <<"dup", t>>)
     \/ cfu_str.str # NULL /\ Becomes(Overwritten(cfu_str, <<>>), <<"dup own">>)

Clear == Running /\ Becomes(Cleared(cfu_str), <<"clear">>)

(* cfustring_get_buffer_copy: exactly the cells in use. *)
Copied(s) == IF s.str = NULL THEN NULL ELSE Read(SubSeq(s.str, 1, s.used_size))

GetBufferCopy ==
  /\ Running
  /\ res' = Answer(<<"copy">>, <<Copied(cfu_str)>>, 0)
  /\ UNCHANGED <<cfu_str, call, status>>

(* cfustring_destroy *)
Destroy ==
  /\ Running
  /\ cfu_str' = NoString
  /\ res' = Done(<<"destroy">>)
  /\ status' = "none"
  /\ UNCHANGED call

-----------------------------------------------------------------------------
(* Splitting: __cfustring_split_to_raw and _check_sep.                     *)

(* cfustring_split: every field is made a string.                          *)
Return(fields, seps, limit) ==
  /\ res' = Answer(<<"split", seps, limit>>,
                   [i \in DOMAIN fields |->
                      IF fields[i] = NULL THEN NULL
                      ELSE Read(Appended(Created(0), fields[i]).str)],
                   Len(fields))
  /\ call' = NoCall
  /\ status' = "running"

Split(seps, limit) ==
  /\ Running
  /\ IF limit = 1 THEN Return(<<Copied(cfu_str)>>, seps, limit)
     ELSE IF cfu_str.str = NULL THEN Return(<<>>, seps, limit)
     ELSE /\ call' = [on |-> TRUE, start |-> 1, seps |-> seps, limit |-> limit,
                      last |-> FALSE, fields |-> <<>>, before |-> Content]
          /\ status' = "splitting"
          /\ res' = UnderWay
  /\ UNCHANGED cfu_str

(* How much of each separator has been seen when the character end of t    *)
(* was looked at.                                                          *)
Seen(t, seps) ==
  LET seen[end \in 0..Len(t)] ==
        [i \in DOMAIN seps |->
           IF end > 0 /\ seen[end - 1][i] < Len(seps[i]) /\ seps[i][seen[end - 1][i] + 1] = t[end]
             THEN seen[end - 1][i] + 1 ELSE 0]
  IN seen

(* The separators that are complete with the character end of t. *)
Complete(t, seps, end) == {i \in DOMAIN seps : Seen(t, seps)[end][i] = Len(seps[i])}

(* Mutant: one character of the separator is left in the field. *)
FieldLong(end, sep) == end - Len(sep) + 1
FieldLen(end, sep) == end - Len(sep)

(* The field t begins with, <<>> if there is none, and how much of t it is *)
(* with its separator.                                                     *)
CheckSep(t, seps, last) ==
  LET ends == IF last THEN {} ELSE {end \in 1..Len(t) : Complete(t, seps, end) # {}}
  IN IF ends = {} THEN <<t, Len(t)>>
     ELSE LET end == Min(ends)
          IN <<SubSeq(t, 1, FieldLen(end, seps[Min(Complete(t, seps, end))])), end>>

NextField ==
  /\ status = "splitting"
  /\ LET rest == SubSeq(Content, call.start, Len(Content))
         next == CheckSep(rest, call.seps, call.last)
         fields == Append(call.fields, next[1])
     IN IF next[1] = <<>> THEN Return(call.fields, call.seps, call.limit)
        ELSE /\ call' = [call EXCEPT !.fields = fields, !.start = @ + next[2],
                           !.last = @ \/ (call.limit > 0 /\ Len(fields) = call.limit - 1)]
             /\ UNCHANGED <<res, status>>
  /\ UNCHANGED cfu_str

-----------------------------------------------------------------------------
(* Printing: cfustring_vsprintf, one action per character of the format,   *)
(* which is chosen when it is looked at.  at: where in the loop;           *)
(* ptr: place of the percent sign; start, end: the literals not appended   *)
(* yet; size: of the buffer; count: the value returned; args and before    *)
(* (the text when the call began) are history.                             *)

Sprintf ==
  /\ Running
  /\ cfu_str' = Cleared(cfu_str)
  /\ call' = [on |-> TRUE, fmt |-> <<>>, at |-> "text", ptr |-> 1, start |-> 1, end |-> 1,
              size |-> Scratch, count |-> 0, args |-> <<>>, before |-> Content]
  /\ status' = "formatting"
  /\ res' = UnderWay

PowerOfTwo[k \in Nat] == IF k = 0 THEN 1 ELSE 2 * PowerOfTwo[k - 1]

(* Mutant: the buffer is taken to be large enough when its NUL is cut off. *)
RoomTight(size, len) == IF len > size THEN 2 * len ELSE size
(* _safe_sprintf: the buffer is doubled until len characters fit. *)
Room(size, len) ==
  Min({room \in {PowerOfTwo[k] * size : k \in 0..(len + 1)} : len < room - 1})

(* What vsnprintf leaves in a buffer of that size. *)
Printed(t, size) == IF Len(t) < size THEN t ELSE SubSeq(t, 1, size - 1)

Reading(where) ==
  status = "formatting" /\ call.at \in where /\ Len(call.fmt) < MaxFormat

Literals(fmt) == SubSeq(fmt, call.start, call.end)

(* The text t is appended; fmt is what was read of the format. *)
Flush(fmt, t) ==
  /\ cfu_str' = Appended(cfu_str, t)
  /\ call' = [call EXCEPT !.fmt = fmt, !.at = "text",
                 !.start = Len(fmt) + 1, !.end = Len(fmt) + 1,
                 !.count = @ + Len(t)]
  /\ UNCHANGED <<res, status>>

Literal ==
  /\ Reading({"text"})
  /\ \E ch \in FormatChar \ {"percent"} :
       call' = [call EXCEPT !.fmt = Append(@, ch), !.end = Len(call.fmt) + 1, !.count = @ + 1]
  /\ UNCHANGED <<cfu_str, res, status>>

PercentSign ==
  /\ Reading({"text"})
  /\ "percent" \in FormatChar
  /\ call' = [call EXCEPT !.fmt = Append(@, "percent"), !.at = "percent", !.ptr = Len(call.fmt) + 1]
  /\ UNCHANGED <<cfu_str, res, status>>

PercentPercent ==
  /\ Reading({"percent"})
  /\ "percent" \in FormatChar
  /\ LET fmt == Append(call.fmt, "percent")
     IN Flush(fmt, SubSeq(fmt, call.start, call.ptr))

(* Any character but those that are known to end a conversion. *)
InConversion ==
  /\ \/ Reading({"percent"}) /\ \E ch \in FormatChar \ {"percent", "d", "s", "blank"} :
          call' = [call EXCEPT !.fmt = Append(@, ch), !.at = "spec"]
     \/ Reading({"spec"}) /\ \E ch \in FormatChar \ {"d", "s", "blank"} :
          call' = [call EXCEPT !.fmt = Append(@, ch)]
  /\ UNCHANGED <<cfu_str, res, status>>

(* Two conversions given to vsnprintf at once, with one argument. *)
TwoInOne == \E i \in (call.ptr + 1)..Len(call.fmt) : call.fmt[i] = "percent"

(* The literals if they are due, then the argument by way of the buffer. *)
Convert(ch, due, arg) ==
  LET size == Room(call.size, Len(arg))
      literals == Literals(call.fmt)
      before == IF due THEN Appended(cfu_str, literals) ELSE cfu_str
  IN /\ cfu_str' = Appended(before, Printed(arg, size))
     /\ call' = [call EXCEPT !.fmt = Append(@, ch), !.at = "text", !.size = size,
                    !.start = Len(call.fmt) + 2, !.end = Len(call.fmt) + 2,
                    !.count = @ + Len(arg) + IF due THEN Len(literals) ELSE 0,
                    !.args = Append(@, arg)]
     /\ UNCHANGED <<res, status>>

ConvertNumber ==
  /\ Reading({"percent", "spec"})
  /\ "d" \in FormatChar
  /\ IF TwoInOne THEN Undefined ELSE \E arg \in Numbers : Convert("d", TRUE, arg)

(* NULL is printed as "(null)". *)
ConvertString ==
  /\ Reading({"percent", "spec"})
  /\ "s" \in FormatChar
  /\ IF TwoInOne THEN Undefined
     ELSE \E arg \in Strings \cup {<<"null">>} : Convert("s", call.ptr # call.start, arg)

ConvertBlank ==
  /\ Reading({"percent", "spec"})
  /\ "blank" \in FormatChar
  /\ Flush(Append(call.fmt, "blank"), Literals(call.fmt))

(* A conversion that does not end: the NUL is skipped as well. *)
FormatOverrun ==
  /\ status = "formatting" /\ call.at # "text"
  /\ Undefined

FormatEnds ==
  /\ status = "formatting" /\ call.at = "text"
  /\ LET rest == IF call.end = call.start THEN <<>> ELSE Literals(call.fmt)
     IN /\ cfu_str' = IF rest = <<>> THEN cfu_str ELSE Appended(cfu_str, rest)
        /\ res' = Answer(<<"print">>, <<>>, call.count + Len(rest))
  /\ call' = NoCall
  /\ status' = "running"

Ended == status = "undefined" /\ UNCHANGED vars

Next ==
  \/ New \/ Dup \/ Clear \/ GetBufferCopy \/ Destroy
  \/ \E n \in Counts : AppendOwn(n) \/ \E t \in Strings : AppendN(t, n)
  \/ \E seps \in SepLists, limit \in Limits : Split(seps, limit)
  \/ NextField
  \/ Sprintf \/ Literal \/ PercentSign \/ PercentPercent \/ InConversion
  \/ ConvertNumber \/ ConvertString \/ ConvertBlank \/ FormatOverrun \/ FormatEnds
  \/ Ended

Init ==
  /\ cfu_str = NoString /\ call = NoCall /\ res = Done(<<"destroy">>) /\ status = "none"

Spec == Init /\ [][Next]_vars

-----------------------------------------------------------------------------
(* Properties.                                                             *)

(* The C string in the buffer ends where used_size says and nowhere        *)
(* before, and no write went beyond the memory that was allocated.         *)
TypeOK ==
  /\ status \in {"none", "running", "formatting", "splitting", "undefined"}
  /\ cfu_str.str # NULL =>
       /\ Len(cfu_str.str) = cfu_str.max_size
       /\ cfu_str.used_size \in 1..cfu_str.max_size
       /\ cfu_str.used_size = Len(Content) + 1

(* The text, as it was when the call under way began. *)
Held == IF call.on THEN call.before ELSE Content

Abstract == INSTANCE Text WITH text <- Held

(* A string is a text: each call sets, extends or clears it as its         *)
(* arguments say, and the copies that are handed out and the fields it is  *)
(* split into are those of the text, through every growth of the buffer.   *)
ImplementsText == Abstract!Spec

(* What the state of a reader of the format is behind each character. *)
FormatState(fmt) ==
  LET at[i \in 0..Len(fmt)] ==
        IF i = 0 THEN "text"
        ELSE CASE at[i - 1] = "text" -> IF fmt[i] = "percent" THEN "percent" ELSE "text"
               [] at[i - 1] # "text" ->
                    IF fmt[i] \in {"d", "s", "blank"} \/ (fmt[i] = "percent" /\ at[i - 1] = "percent")
                      THEN "text" ELSE "spec"
  IN at

(* What sprintf prints for that format and those arguments: what each of   *)
(* its characters adds, a conversion the next argument.                    *)
Expected(fmt, args) ==
  LET at == FormatState(fmt)
      converts(i) == at[i - 1] # "text" /\ fmt[i] \in {"d", "s"}
      used[i \in 0..Len(fmt)] ==
        IF i = 0 THEN 0 ELSE used[i - 1] + (IF converts(i) THEN 1 ELSE 0)
      out[i \in 0..Len(fmt)] ==
        IF i = 0 THEN <<>>
        ELSE out[i - 1] \o
             CASE converts(i) -> args[used[i]]
               [] at[i - 1] = "text" /\ fmt[i] # "percent" -> <<fmt[i]>>
               [] at[i - 1] = "percent" /\ fmt[i] = "percent" -> <<"percent">>
               [] OTHER -> <<>>
  IN out[Len(fmt)]

(* Formats without the cases cfustring_vsprintf gets wrong: a number that  *)
(* no literal stands before, a blank in a conversion, and one literal      *)
(* alone at the end.                                                       *)
Supported(fmt) ==
  LET at == FormatState(fmt)
      literal(i) == i >= 1 /\ at[i - 1] = "text" /\ fmt[i] # "percent"
      percent(i) == at[i - 1] = "text" /\ fmt[i] = "percent"
  IN /\ \A i, j \in 1..Len(fmt) :
          (percent(i) /\ i < j /\ at[j - 1] # "text" /\ \A k \in i..(j - 1) : at[k] # "text") =>
            /\ fmt[j] # "blank"
            /\ fmt[j] = "d" => literal(i - 1)
     /\ literal(Len(fmt)) => literal(Len(fmt) - 1)

(* Formats that are supported print what sprintf prints, through flushed   *)
(* literals, growing buffers, empty and NULL strings; and whatever the     *)
(* format, the value counted up and returned is never less than the length *)
(* printed, before the last flush and after it.                            *)
FormatRight ==
  [][status = "formatting" /\ status' # "undefined" =>
       LET new == IF cfu_str'.str = NULL THEN <<>> ELSE Read(cfu_str'.str)
       IN IF status' = "running"
            THEN /\ Supported(call.fmt) => new = Expected(call.fmt, call.args)
                 /\ Len(new) <= res'.n
            ELSE Len(new) <= call'.count]_vars
=============================================================================
