------------------------------ MODULE Compiler ------------------------------
(***************************************************************************)
(* The compiler put together as test_codegen in test/test.c does it:       *)
(* parse() builds the AST from the text, lilc_eval() walks it.  The tokens *)
(* are chosen while the parser reads them; the code generator, which alone *)
(* may meet any node, here meets the node the parser put in that place.    *)
(* Names and numbers are chosen when it reads them.                        *)
(*                                                                         *)
(* from[n] is the parser's pointer to the n-th node of the walk.  Once     *)
(* undefined behaviour was met the process is not followed any further.    *)
(***************************************************************************)
EXTENDS Integers, Sequences, FiniteSets

CONSTANTS
  Supply, MaxTokens, MAX_FUNC_PARAMS,           \* see Parser
  Num, Literals, Arith, FuncNames, ParamNames, ParamLists   \* see Codegen

VARIABLES
  tok, input, pstack, pret, nodes, err, pub, pstatus,       \* see Parser
  mode, ast, cstack, cret, funcs, at, named_vals, cub, cstatus, \* see Codegen
  from          \* the parser's node for every node of ast

P == INSTANCE Parser WITH
       stack <- pstack, ret <- pret, ub <- pub, status <- pstatus

C == INSTANCE CodegenMeaning WITH
       stack <- cstack, ret <- cret, ub <- cub, status <- cstatus,
       Modes <- {"eval"}, Ops <- P!BinOps, MaxArgs <- MAX_FUNC_PARAMS,
       Supply <- [t \in P!NodeType |-> MaxTokens + 1], MaxMore <- MaxTokens

pvars == <<tok, input, pstack, pret, nodes, err, pub, pstatus>>
cvars == <<mode, ast, cstack, cret, funcs, at, named_vals, cub, cstatus>>
vars == <<pvars, cvars, from>>

-----------------------------------------------------------------------------
(* The walk over the parser's AST.                                         *)

Here == C!Top.node

(* The pointer do_codegen is called with next, below the node of the top   *)
(* frame.                                                                  *)
Pointer == IF Here = 0 THEN pret
           ELSE nodes[from[Here]].kids[Len(ast[Here].kids) + 1]

(* What the code generator reads of node q, in the form it takes in ast.   *)
Reads(x, q) ==
  /\ q # P!NULL
  /\ x.type = nodes[q].type
  /\ x.type = "BIN" => x.op = nodes[q].op
  /\ x.type = "CALL" => x.argc = Len(nodes[q].kids)
  /\ x.type = "FUNCDEF" => Len(x.params) = Len(nodes[q].params)

(* Steps that meet one node, or a function definition and its body. *)
Meets ==
  /\ \/ C!EnterDbl \/ C!EnterVar \/ C!EnterBin \/ C!EnterCall \/ C!EnterIf
     \/ C!EnterDef \/ C!Then \/ C!Else \/ C!EvalStarts
  /\ Reads(ast'[Len(ast) + 1], Pointer)
  /\ LET body == nodes[Pointer].kids[1]
     IN IF Len(ast') = Len(ast) + 1
          THEN from' = Append(from, Pointer)
          ELSE body # P!NULL /\ from' = from \o <<Pointer, body>>

MoreStmts == Len(ast[Here].kids) < Len(nodes[from[Here]].kids)

Continues ==
  /\ \/ C!Rhs \/ C!Bin \/ C!NextArg \/ C!StoreArg \/ C!BuildCall
     \/ C!Phi \/ C!IfFails \/ C!DefDone \/ C!StmtDone \/ C!Coded
     \/ C!NextStmt /\ MoreStmts
     \/ (C!BlockDone \/ C!EmptyBlock) /\ ~MoreStmts
  /\ UNCHANGED from

(* do_codegen reads the type of a node that is not there, codegen_if the   *)
(* function of a builder that is nowhere.                                  *)
DefinesHoles(q) ==
  /\ q # P!NULL /\ nodes[q].type = "FUNCDEF" /\ nodes[q].kids[1] = P!NULL
  /\ {name \in FuncNames : C!Definable(C!Named(name), Len(nodes[q].params))} # {}

ReadsNull ==
  /\ \/ C!At("expr") /\ (Pointer = P!NULL \/ DefinesHoles(Pointer))
     \/ C!At("cond") /\ cret # C!NULL /\ (at[1] = 0 \/ Pointer = P!NULL)
     \/ C!At("then") /\ cret # C!NULL /\ Pointer = P!NULL
  /\ cstatus' = "killed"
  /\ UNCHANGED <<mode, ast, cstack, cret, funcs, at, named_vals, cub, from>>

Parse == pub = {} /\ P!Step /\ UNCHANGED <<cvars, from>>

Generate ==
  /\ pstatus = "accepted" /\ pub = {} /\ cub = {}
  /\ Meets \/ Continues \/ ReadsNull
  /\ UNCHANGED pvars

Step == Parse \/ Generate

(* The process has ended, runs the program or is not followed any further. *)
Over == pstatus \in {"died", "killed"} \/ cstatus # "running" \/ pub # {} \/ cub # {}

Ended == Over /\ UNCHANGED vars

Next == Step \/ Ended

Init == P!Init /\ C!Init /\ from = <<>>

Spec == Init /\ [][Next]_vars

-----------------------------------------------------------------------------
(* What a text means, read off its tokens alone: the grammar of README.md, *)
(* with brackets matched by counting and operators split at the loosest,   *)
(* the last one first.                                                     *)

Opens == {"LPAREN", "LCURL"}
Closes == {"RPAREN", "RCURL"}

Depth(i, k) ==
  Cardinality({m \in i..(k - 1) : input[m] \in Opens})
    - Cardinality({m \in i..(k - 1) : input[m] \in Closes})

MinOf(S) == CHOOSE x \in S : \A y \in S : x <= y
MaxOf(S) == CHOOSE x \in S : \A y \in S : y <= x

(* The bracket that closes the one at i. *)
Close(i) == MinOf({k \in i..Len(input) : Depth(i, k + 1) = 0})

(* The number, the variable or the call of the walk that ends with token i. *)
NodeAt(i) ==
  CHOOSE n \in 1..Len(ast) :
    LET x == nodes[from[n]]
    IN x.type \in {"DBL", "VAR", "CALL"} /\ x.last - x.paren = i

ParamValue(d, name, args) ==
  args[MaxOf({i \in 1..Len(ast[d].params) : ast[d].params[i] = name})]

(* The value of the expression in tokens i to j, in function d of args. *)
RECURSIVE TextValue(_, _, _, _)

(* The value of the block whose opening brace is token i: that of its last *)
(* statement.                                                              *)
BlockValue(i, d, args) ==
  LET to == Close(i) - 1
      ends == {k \in i..(to - 1) : k = i \/ (input[k] = "SEMI" /\ Depth(i + 1, k) = 0)}
  IN TextValue(MaxOf(ends) + 1, to - 1, d, args)

TextValue(i, j, d, args) ==
  LET value(a, b) == TextValue(a, b, d, args)
      ops == {k \in (i + 1)..j : input[k] \in P!BinOps /\ Depth(i, k) = 0}
      level == MinOf({P!lbp[input[k]] : k \in ops})
      split == MaxOf({k \in ops : P!lbp[input[k]] = level})
      open == CHOOSE k \in i..j : Close(k) = j
      then == Close(i + 1) + 1
      node == ast[NodeAt(j)]
  IN CASE ops # {} ->
            C!BinValue(input[split], value(i, split - 1), value(split + 1, j))
       [] ops = {} /\ input[i] = "LPAREN" /\ open = i -> value(i + 1, j - 1)
       [] ops = {} /\ input[i] = "IF" ->
            IF value(i + 2, then - 2) # 0 THEN BlockValue(then, d, args)
            ELSE BlockValue(Close(then) + 2, d, args)
       [] input[j] = "DBL" -> node.val
       [] input[j] = "ID" -> ParamValue(d, node.name, args)
       [] OTHER ->
            C!CallValue(node.name,
              IF j = open + 1 THEN <<>> ELSE <<value(open + 1, j - 1)>>)

-----------------------------------------------------------------------------
(* Properties.                                                             *)

Compiled == cstatus = "done" /\ cub = {}

(* A program that compiles does what its text says, by the rules of        *)
(* precedence and the matching of brackets and of if with else: neither    *)
(* the parser's grouping nor its AST stands between the tokens and the     *)
(* code LLVM is given.                                                     *)
TextMeaning ==
  Compiled /\ err = "unset" => \A f \in 1..Len(funcs) :
    LET d == funcs[f].def
        open == nodes[from[d]].first + 2
    IN funcs[f].state = "verified" =>
         \A args \in [1..funcs[f].arity -> Num] :
           C!Run(f, 1, 1, 0, <<>>, args) = BlockValue(Close(open) + 1, d, args)

(* Call q is called by call r, which has taken over its name and nothing   *)
(* else: what q is called with is not generated.                           *)
DropsCall(r, q) ==
  /\ q < r
  /\ nodes[q].type = "CALL" /\ nodes[r].type = "CALL"
  /\ nodes[q].name = nodes[r].name

(* An error that the parser swallowed does not compile: the hole it leaves *)
(* in the AST is met by the code generator, or another failure comes first. *)
(* Only the arguments of a call that is itself called are never met.       *)
SwallowedErrorsStop ==
  cstatus = "done" /\ err # "unset" =>
    \E q, r \in 1..Len(nodes) : DropsCall(r, q)

(* The code generator reads through NULL for three reasons only: an error  *)
(* the parser swallowed, an if without else, an if outside of a function.  *)
CrashesExplained ==
  cstatus = "killed" /\ cub = {} =>
    \/ err # "unset"
    \/ \E q \in 1..Len(nodes) : nodes[q].type = "IF" /\ nodes[q].kids[3] = P!NULL
    \/ \E n \in 1..Len(ast) : ast[n].type = "IF" /\ ast[n].scope = 0
=============================================================================
