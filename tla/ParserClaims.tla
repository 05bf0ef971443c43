---------------------------- MODULE ParserClaims ----------------------------
(* What comments and messages of parse.c say of the parser and the parser  *)
(* does not do.  Each is refuted by a run of its own.                      *)
EXTENDS MCParser

Accepted == status = "accepted"

(* "Returns a pointer to the root node upon successful parsing--otherwise  *)
(* crashes" (parse.c:325): a program in which an error was reported is not *)
(* accepted.                                                               *)
ErrorsAreFatal == Accepted /\ ub = {} => err = "unset"

(* "funcdef: Too many parameters" (parse.c:188): a definition with         *)
(* MAX_FUNC_PARAMS parameters or more is never built.                      *)
TooManyParamsRejected ==
  \A n \in 1..Len(nodes) :
    nodes[n].type = "FUNCDEF" => Len(nodes[n].params) < MAX_FUNC_PARAMS
=============================================================================
