----------------------------- MODULE TokenStream ----------------------------
(***************************************************************************)
(* What lex_scan promises its callers: each call delivers one token class  *)
(* of token.h; no token follows end-of-source; and a character that starts *)
(* no token ends the program instead of being delivered.                   *)
(***************************************************************************)
EXTENDS Sequences

VARIABLES
  stream,   \* the classes delivered so far
  open      \* whether another call may deliver one

TokType == {"EOS", "ID", "DEF", "SEMI", "COMMA", "LPAREN", "RPAREN", "LCURL",
            "RCURL", "DBL", "ADD", "SUB", "MUL", "DIV", "CMPLT", "IF", "ELSE"}

Init == stream = <<>> /\ open = TRUE

Deliver(t) ==
  /\ open
  /\ stream' = Append(stream, t)
  /\ open' = (t # "EOS")

Die == open /\ open' = FALSE /\ UNCHANGED stream

Next == (\E t \in TokType : Deliver(t)) \/ Die

Spec == Init /\ [][Next]_<<stream, open>>
=============================================================================
