--------------------------- MODULE CodegenMeaning ---------------------------
(***************************************************************************)
(* What a Lilc function means, what the LLVM code generated for it means,  *)
(* and that the two agree.  A call is an arbitrary function of the callee  *)
(* and the arguments: the language has no side effects.                    *)
(***************************************************************************)
EXTENDS MCCodegen, TLC

CallValue(name, args) ==
  (Len(args) + (IF name = "main" THEN 1 ELSE 0)
   + (IF args = <<>> THEN 0 ELSE args[1])) % 2

BinValue(op, a, b) == IF op = "ONE" THEN IF a # 0 THEN 1 ELSE 0 ELSE Arith[<<op, a, b>>]

(* The value of node n where the parameters of its function are args. *)
RECURSIVE NodeValue(_, _)
NodeValue(n, args) ==
  LET x == ast[n]
      kid(i) == NodeValue(x.kids[i], args)
      last(is) == CHOOSE i \in is : \A j \in is : j <= i
      params == ast[x.scope].params
  IN CASE x.type = "DBL" -> x.val
       [] x.type = "VAR" -> args[last({i \in 1..Len(params) : params[i] = x.name})]
       [] x.type = "BIN" -> BinValue(x.op, kid(1), kid(2))
       [] x.type = "CALL" -> CallValue(x.name, [i \in 1..x.argc |-> kid(i)])
       [] x.type = "IF" -> IF kid(1) # 0 THEN kid(2) ELSE kid(3)
       [] x.type = "BLOCK" -> kid(Len(x.kids))

(* Run function f from instruction i of block b, entered from block from.  *)
(* done: the results so far, of <<block, instruction>>.                    *)
RECURSIVE Run(_, _, _, _, _, _)
Run(f, b, i, from, done, args) ==
  LET x == funcs[f].blocks[b][i]
      value(v) == CASE v.kind = "const" -> v.i
                    [] v.kind = "param" -> args[v.i]
                    [] v.kind = "instr" -> done[<<v.blk, v.i>>]
      arg(j) == value(x.args[j])
      jump(s) == Run(f, x.to[s][2], 1, b, done, args)
      next(r) == Run(f, b, i + 1, from, (<<b, i>> :> r) @@ done, args)
  IN CASE x.op = "ret" -> arg(1)
       [] x.op = "br" -> jump(1)
       [] x.op = "condbr" -> jump(IF arg(1) # 0 THEN 1 ELSE 2)
       [] x.op = "phi" -> next(arg(CHOOSE j \in 1..Len(x.to) : x.to[j] = <<f, from>>))
       [] x.op = "call" ->
            next(CallValue(funcs[x.callee].name, [j \in 1..Len(x.args) |-> arg(j)]))
       [] x.op = "ONE" -> next(BinValue("ONE", arg(1), 0))
       [] OTHER -> next(BinValue(x.op, arg(1), arg(2)))

(* The code of a verified function computes what its source says, for all  *)
(* arguments: operands keep their order through conditionals that split    *)
(* the block they were begun in, each branch of a conditional yields its   *)
(* own value, a block that of its last statement, a variable the parameter *)
(* of that name.                                                           *)
MeaningPreserved ==
  ub = {} => \A f \in 1..Len(funcs) :
    funcs[f].state = "verified" =>
      \A args \in [1..funcs[f].arity -> Num] :
        Run(f, 1, 1, 0, <<>>, args) = NodeValue(ast[funcs[f].def].kids[1], args)
=============================================================================
