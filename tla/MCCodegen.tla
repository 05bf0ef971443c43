----------------------------- MODULE MCCodegen -----------------------------
(* Model checking of Codegen: one-bit numbers, and the bounds. *)
EXTENDS Codegen

Bit == {0, 1}

BitArith ==
  [t \in Ops \X Bit \X Bit |->
     IF t[1] \in {"ADD", "MUL"} THEN (t[2] + t[3]) % 2
     ELSE IF t[2] < t[3] THEN 1 ELSE 0]

ShortLists == {<<>>, <<"x">>, <<"x", "x">>}
OneList == {<<"x">>}

Bound(var, bin, call, if, def, empty) ==
  [t \in NodeType |-> CASE t = "VAR" -> var [] t = "BIN" -> bin [] t = "CALL" -> call
                        [] t = "IF" -> if [] t = "FUNCDEF" -> def [] t = "BLOCK" -> empty
                        [] OTHER -> 0]

IfSupply == Bound(1, 1, 1, 2, 1, 0)
ScopeSupply == Bound(1, 1, 1, 0, 2, 1)
=============================================================================
