--------------------------- MODULE CodegenClaims ---------------------------
(* What a comment of codegen.c says of the program and TLC refutes. *)
EXTENDS MCCodegen

(* codegen.c, comment in lilc_emit: wrap the node in a top-level `main'     *)
(* function if the user hasn't.  So a program that has a main of its own    *)
(* and follows the rules is emitted.                                        *)
UserMainEmitted ==
  mode = "emit" /\ status = "failed" /\ ub = {}
    /\ (\E n \in 2..Len(ast) : IsDef(n) /\ ast[n].name = "main")
  => \E n \in 2..Len(ast) : ~WellScoped(n, 1)
=============================================================================
