----------------------------- MODULE MCCompiler -----------------------------
(* Model checking of Compiler: one-bit numbers, and the tokens offered. *)
EXTENDS Compiler, TLC

Bit == {0, 1}

BitArith ==
  [t \in {"ADD", "SUB", "MUL", "DIV", "CMPLT"} \X Bit \X Bit |->
     IF t[1] = "CMPLT" THEN IF t[2] < t[3] THEN 1 ELSE 0
     ELSE IF t[1] = "MUL" THEN t[2] * t[3] ELSE (t[2] + t[3]) % 2]

OneOrNone == {<<>>, <<"x">>}

(* A definition with a conditional, an operator and a call in its body. *)
ProgramSupply ==
  "DEF" :> 1 @@ "IF" :> 1 @@ "ELSE" :> 1 @@ "ID" :> 3 @@ "DBL" :> 2 @@ "CMPLT" :> 1
    @@ "LPAREN" :> 2 @@ "RPAREN" :> 2 @@ "LCURL" :> 3 @@ "RCURL" :> 3 @@ "SEMI" :> 4
    @@ [t \in {"ERR", "COMMA", "ADD", "SUB", "MUL", "DIV"} |-> 0]

(* Bound: only texts that begin like a definition or a conditional. *)
BeginsWell == input # <<>> => input[1] \in {"DEF", "IF"}

(* Bound: a text in which an error was reported is read no further than    *)
(* this many tokens.                                                       *)
ErrorsShort == err # "unset" => Len(input) <= 12

Bounds == BeginsWell /\ ErrorsShort
=============================================================================
