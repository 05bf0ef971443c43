------------------------------ MODULE MCParser ------------------------------
(* Source texts for TLC: how many tokens of each class a run offers. *)
EXTENDS Parser, TLC

Offer(f) == f @@ [t \in TokType \ {"EOS"} |-> 0]

(* Operators, calls and parentheses, in any number. *)
ExprSupply ==
  Offer([t \in {"DBL", "ID", "ADD", "MUL", "CMPLT", "LPAREN", "RPAREN",
                "SEMI"} |-> MaxTokens])

(* Nested conditionals with and without else branches. *)
StmtSupply ==
  Offer("DBL" :> 2 @@ "IF" :> 2 @@ "ELSE" :> 2 @@ "LPAREN" :> 2
        @@ "RPAREN" :> 2 @@ "LCURL" :> 4 @@ "RCURL" :> 4 @@ "SEMI" :> 2)

(* Function definitions with parameter lists, and operators in their body. *)
DefSupply ==
  Offer("ERR" :> 1 @@ "DEF" :> 1 @@ "ID" :> 5 @@ "LPAREN" :> 1 @@ "RPAREN" :> 1
        @@ "LCURL" :> 1 @@ "RCURL" :> 1 @@ "SEMI" :> 2 @@ "COMMA" :> 1
        @@ "ADD" :> 2)

(* Both kinds of text, but not mixed: the latter of at most 13 tokens, and *)
(* 15 of a text in which an error was reported.                            *)
BlockSupply == [t \in TokType \ {"EOS"} |->
                  IF StmtSupply[t] < DefSupply[t] THEN DefSupply[t] ELSE StmtSupply[t]]
Within(supply) == \A t \in TokType \ {"EOS"} : Count(t) <= supply[t]
OneKind ==
  /\ Within(StmtSupply) \/ (Within(DefSupply) /\ Len(input) <= 13)
  /\ err # "unset" => Len(input) <= 15

=============================================================================
