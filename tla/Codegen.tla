------------------------------ MODULE Codegen ------------------------------
(***************************************************************************)
(* The code generator of src/codegen.c: a recursive walk over the AST that *)
(* builds LLVM IR, as a machine with an explicit call stack.  A frame's pc *)
(* says where its function resumes after a call of do_codegen.             *)
(*                                                                         *)
(* The AST is chosen while it is walked: do_codegen meets any node that    *)
(* the parser can put in that place, as long as fewer than Supply[t] of    *)
(* type t were met; a number can stand in any place.  `ast' is the history of   *)
(* the nodes met, numbered in the order of the walk; a node carries the    *)
(* innermost function definition around it (scope, 0 if there is none).    *)
(*                                                                         *)
(* LLVM is external.  A function has blocks, a block has instructions; the *)
(* builder is a position <<function, block>>, <<0, 0>> before it is set.   *)
(* A value is a constant, a parameter, an instruction or a function.  A    *)
(* double is a member of Num; Arith tells what an operator makes of two.   *)
(* CMPLT stands for the comparison and the cast that follows it.           *)
(*                                                                         *)
(* `ub' collects the undefined behaviours met: the value of an empty block *)
(* ("uninit"), a deleted function used ("dangling"), a function used as a  *)
(* double ("type") and main run without its arguments ("arity").  The      *)
(* program then goes on as written or is killed.                           *)
(***************************************************************************)
EXTENDS Integers, Sequences, FiniteSets

CONSTANTS
  Modes,        \* entry points considered: "eval", "emit"
  Num,          \* the doubles, with 0 and 1
  Literals,     \* those that occur in the source
  Arith,        \* [Ops \X Num \X Num -> Num]
  Ops,          \* binary operators considered
  FuncNames,    \* names of functions, with "main"
  ParamNames,   \* names of parameters
  ParamLists,   \* parameter lists considered
  MaxArgs,      \* bound: arguments of a call
  Supply,       \* bound: how many nodes of each type are met; of blocks,
                \* how many empty ones
  MaxMore       \* bound: statements in all, beyond the first of each block

NodeType == {"DBL", "VAR", "BIN", "CALL", "IF", "FUNCDEF", "BLOCK"}

ASSUME CodegenAssumption ==
  /\ Modes \subseteq {"eval", "emit"}
  /\ {0, 1} \cup Literals \subseteq Num /\ Num \subseteq Nat
  /\ Ops \subseteq {"CMPLT", "ADD", "SUB", "MUL", "DIV"}
  /\ Arith \in [Ops \X Num \X Num -> Num]
  /\ "main" \in FuncNames
  /\ ParamLists \subseteq Seq(ParamNames)
  /\ Supply \in [NodeType -> Nat]
  /\ MaxArgs \in Nat /\ MaxMore \in Nat

VARIABLES
  mode,         \* which entry point was called
  ast,          \* history: the nodes met
  stack,        \* the C call stack, innermost frame last
  ret,          \* value the last call returned
  funcs,        \* every function ever added to the module
  at,           \* the builder's position
  named_vals,   \* the symbol table
  ub,           \* undefined behaviours met
  status        \* running, done, failed (exit(1)) or killed

vars == <<mode, ast, stack, ret, funcs, at, named_vals, ub, status>>

-----------------------------------------------------------------------------
(* LLVM values, instructions and functions.                                *)

NULL == [kind |-> "null", fn |-> 0, blk |-> 0, i |-> 0]
Const(n) == [kind |-> "const", fn |-> 0, blk |-> 0, i |-> n]
Param(f, i) == [kind |-> "param", fn |-> f, blk |-> 0, i |-> i]
Func(f) == [kind |-> "func", fn |-> f, blk |-> 0, i |-> 0]

Value == [kind: {"null", "const", "param", "instr", "func"}, fn: Nat,
          blk: Nat, i: Nat]

Pos == Nat \X Nat
Terminators == {"ret", "br", "condbr"}

Instr == [op: Ops \cup Terminators \cup {"ONE", "call", "phi"},
          args: Seq(Value), to: Seq(Pos), callee: Nat]

(* open while its body is generated; then verified, or deleted because the *)
(* body failed (dropped) or the verifier did (rejected).                   *)
Function == [name: FuncNames, arity: Nat, blocks: Seq(Seq(Instr)),
             state: {"open", "verified", "dropped", "rejected"}, def: Nat]

Live(f) == funcs[f].state \in {"open", "verified"}

(* LLVMGetNamedFunction: 0 when there is none. *)
Named(name) ==
  LET fs == {f \in 1..Len(funcs) : Live(f) /\ funcs[f].name = name}
  IN IF fs = {} THEN 0 ELSE CHOOSE f \in fs : TRUE

(* The builder folds an operation on constants and inserts nothing. *)
Folds(op, args) == op \in Ops \cup {"ONE"} /\ \A i \in 1..Len(args) : args[i].kind = "const"

Fold(op, args) ==
  Const(IF op = "ONE" THEN IF args[1].i # 0 THEN 1 ELSE 0
        ELSE Arith[<<op, args[1].i, args[2].i>>])

Insert(fs, pos, op, args, to, callee) ==
  IF Folds(op, args) \/ pos[1] = 0 THEN fs
  ELSE [fs EXCEPT ![pos[1]].blocks[pos[2]] =
          Append(@, [op |-> op, args |-> args, to |-> to, callee |-> callee])]

Result(fs, pos, op, args) ==
  IF Folds(op, args) THEN Fold(op, args)
  ELSE [kind |-> "instr", fn |-> pos[1], blk |-> pos[2],
        i |-> IF pos[1] = 0 THEN 0 ELSE Len(fs[pos[1]].blocks[pos[2]]) + 1]

(* What goes wrong when an instruction with these operands is built here.  *)
Hazards(args) ==
  LET used == {args[i] : i \in 1..Len(args)}
      dead(f) == f # 0 /\ ~Live(f)
  IN (IF dead(at[1]) \/ \E v \in used : dead(v.fn) THEN {"dangling"} ELSE {})
     \cup (IF \E v \in used : v.kind = "func" THEN {"type"} ELSE {})

-----------------------------------------------------------------------------
(* LLVMVerifyFunction, of function f in the module fs.                     *)

Blocks(fs, f) == 1..Len(fs[f].blocks)

Succ(fs, f, b) ==
  LET code == fs[f].blocks[b]
      to == code[Len(code)].to
  IN IF code = <<>> \/ code[Len(code)].op \notin Terminators
       THEN {} ELSE {to[i] : i \in 1..Len(to)}

Preds(fs, f, b) == {c \in Blocks(fs, f) : <<f, b>> \in Succ(fs, f, c)}

(* The blocks reachable from the entry without passing through avoid. *)
Reachable(fs, f, avoid) ==
  LET R[k \in 0..Len(fs[f].blocks)] ==
        LET near == R[k - 1]
        IN IF k = 0 THEN {1} \ {avoid}
           ELSE near \cup {b \in Blocks(fs, f) \ {avoid} :
                             Preds(fs, f, b) \cap near # {}}
  IN R[Len(fs[f].blocks)]

Dominates(fs, f, a, b) == a = b \/ b \notin Reachable(fs, f, a)

(* v may be used as a double in block b of f, before its i-th instruction. *)
Usable(fs, f, b, i, v) ==
  \/ v.kind = "const"
  \/ v.kind = "param" /\ v.fn = f
  \/ /\ v.kind = "instr" /\ v.fn = f
     /\ IF v.blk = b THEN v.i < i ELSE Dominates(fs, f, v.blk, b)

PhiOK(fs, f, b, x) ==
  LET preds == {<<f, c>> : c \in Preds(fs, f, b)}
  IN /\ {x.to[j] : j \in 1..Len(x.to)} = preds
     /\ Len(x.to) = Cardinality(preds)
     /\ \A j \in 1..Len(x.to) :
          LET c == x.to[j][2]
          IN Usable(fs, f, c, Len(fs[f].blocks[c]) + 1, x.args[j])

WellFormed(fs, f) ==
  \A b \in Blocks(fs, f) :
    LET code == fs[f].blocks[b]
    IN /\ code # <<>>
       /\ \A s \in Succ(fs, f, b) : s[1] = f /\ s[2] # 1
       /\ \A i \in 1..Len(code) :
            /\ i = Len(code) <=> code[i].op \in Terminators
            /\ IF code[i].op = "phi"
                 THEN i = 1 /\ PhiOK(fs, f, b, code[i])
                 ELSE \A j \in 1..Len(code[i].args) :
                        Usable(fs, f, b, i, code[i].args[j])
            /\ code[i].op = "call" =>
                 /\ fs[code[i].callee].state \in {"open", "verified"}
                 /\ fs[code[i].callee].arity = Len(code[i].args)

-----------------------------------------------------------------------------
(* Calls, returns and the AST.                                             *)

Labels == {"main", "coded", "expr", "block", "stmt", "lhs", "rhs", "args",
           "arg", "cond", "then", "else", "body"}

(* vals: values kept across a call; blks: the blocks of codegen_if, with   *)
(* then_block replaced by the block its code ends in; fn: the function of  *)
(* codegen_funcdef or the callee of codegen_funccall.                      *)
Frame == [pc: Labels, node: Nat, vals: Seq(Value), blks: Seq(Pos), fn: Nat]

Node == [type: NodeType, name: FuncNames \cup ParamNames \cup {"-"},
         op: Ops \cup {"-"}, val: Num, params: Seq(ParamNames), argc: Nat,
         kids: Seq(Nat), scope: Nat]

NewFrame(pc, node) ==
  [pc |-> pc, node |-> node, vals |-> <<>>, blks |-> <<>>, fn |-> 0]

Top == stack[Len(stack)]
At(pc) == status = "running" /\ Top.pc = pc
Resume(f) == [stack EXCEPT ![Len(stack)] = f]
Return(v) == stack' = SubSeq(stack, 1, Len(stack) - 1) /\ ret' = v

NewNode(type, scope) ==
  [type |-> type, name |-> "-", op |-> "-", val |-> 0, params |-> <<>>,
   argc |-> 0, kids |-> <<>>, scope |-> scope]

(* The scope of the nodes below node p. *)
ScopeOf(p) == IF p = 0 THEN 0
              ELSE IF ast[p].type = "FUNCDEF" THEN p ELSE ast[p].scope

Count(type) == Cardinality({n \in 1..Len(ast) : ast[n].type = type})
May(type) == Count(type) < Supply[type]

(* do_codegen meets node x below node p. *)
Meet(p, x) ==
  ast' = Append(IF p = 0 THEN ast
                ELSE [ast EXCEPT ![p].kids = Append(@, Len(ast) + 1)], x)

Fresh == Len(ast) + 1
Enter(type) == At("expr") /\ May(type)
Below(type) == NewNode(type, ScopeOf(Top.node))

NoCode == UNCHANGED <<mode, funcs, at, named_vals, ub, status>>

(* A call of do_codegen on a block below the top frame's node: the frame   *)
(* goes on as f.                                                           *)
CallBlock(f) ==
  /\ Meet(f.node, NewNode("BLOCK", ScopeOf(f.node)))
  /\ stack' = Append(Resume(f), NewFrame("block", Fresh))

(* A call of do_codegen on an expression: the callee's first step picks it. *)
CallExpr(f) == stack' = Append(Resume(f), NewFrame("expr", f.node))

-----------------------------------------------------------------------------
(* codegen_dbl, codegen_var, codegen_binop and codegen_funccall.           *)

EnterDbl ==
  /\ At("expr")
  /\ \E n \in Literals :
       /\ Meet(Top.node, [Below("DBL") EXCEPT !.val = n])
       /\ Return(Const(n))
  /\ NoCode

EnterVar ==
  /\ Enter("VAR")
  /\ \E x \in ParamNames :
       /\ Meet(Top.node, [Below("VAR") EXCEPT !.name = x])
       /\ Return(named_vals[x])
  /\ NoCode

EnterBin ==
  /\ Enter("BIN")
  /\ \E op \in Ops : Meet(Top.node, [Below("BIN") EXCEPT !.op = op])
  /\ CallExpr([Top EXCEPT !.pc = "lhs", !.node = Fresh])
  /\ NoCode /\ UNCHANGED ret

(* The right operand is generated even if the left one failed. *)
Rhs ==
  /\ At("lhs")
  /\ CallExpr([Top EXCEPT !.pc = "rhs", !.vals = <<ret>>])
  /\ NoCode /\ UNCHANGED <<ast, ret>>

(* Mutant: the operands change places. *)
OperandsSwapped(left, right) == <<right, left>>
Operands(left, right) == <<left, right>>

(* Mutant: only the right operand is checked. *)
RightFails(left, right) == right = NULL
EitherFails(left, right) == left = NULL \/ right = NULL

Bin ==
  /\ At("rhs")
  /\ LET op == ast[Top.node].op
         args == Operands(Top.vals[1], ret)
     IN IF EitherFails(Top.vals[1], ret)
          THEN Return(NULL) /\ UNCHANGED <<funcs, ub>>
          ELSE /\ funcs' = Insert(funcs, at, op, args, <<>>, 0)
               /\ Return(Result(funcs, at, op, args))
               /\ ub' = ub \cup Hazards(args)
  /\ UNCHANGED <<mode, ast, at, named_vals, status>>

(* Mutant: the number of arguments is not compared. *)
CallableAnyArity(f, argc) == f # 0
Callable(f, argc) == f # 0 /\ funcs[f].arity = argc

EnterCall ==
  /\ Enter("CALL")
  /\ \E name \in FuncNames, argc \in 0..MaxArgs :
       /\ Meet(Top.node, [Below("CALL") EXCEPT !.name = name, !.argc = argc])
       /\ IF Callable(Named(name), argc)
            THEN /\ stack' = Resume([Top EXCEPT !.pc = "args", !.node = Fresh,
                                                !.fn = Named(name)])
                 /\ UNCHANGED ret
            ELSE Return(NULL)
  /\ NoCode

NextArg ==
  /\ At("args")
  /\ Len(Top.vals) < ast[Top.node].argc
  /\ CallExpr([Top EXCEPT !.pc = "arg"])
  /\ NoCode /\ UNCHANGED <<ast, ret>>

StoreArg ==
  /\ At("arg")
  /\ IF ret = NULL
       THEN Return(NULL)
       ELSE /\ stack' = Resume([Top EXCEPT !.pc = "args", !.vals = Append(@, ret)])
            /\ UNCHANGED ret
  /\ NoCode /\ UNCHANGED ast

BuildCall ==
  /\ At("args")
  /\ Len(Top.vals) = ast[Top.node].argc
  /\ funcs' = Insert(funcs, at, "call", Top.vals, <<>>, Top.fn)
  /\ Return(Result(funcs, at, "call", Top.vals))
  /\ ub' = ub \cup Hazards(Top.vals) \cup (IF Live(Top.fn) THEN {} ELSE {"dangling"})
  /\ UNCHANGED <<mode, ast, at, named_vals, status>>

-----------------------------------------------------------------------------
(* codegen_if.                                                             *)

EnterIf ==
  /\ Enter("IF")
  /\ Meet(Top.node, Below("IF"))
  /\ CallExpr([Top EXCEPT !.pc = "cond", !.node = Fresh])
  /\ NoCode /\ UNCHANGED ret

(* The three blocks are appended to the function the builder is in; there  *)
(* is none before the first function definition.                           *)
Then ==
  /\ At("cond")
  /\ ret # NULL
  /\ at[1] # 0
  /\ LET f == at[1]
         n == Len(funcs[f].blocks)
         compared == Insert(funcs, at, "ONE", <<ret>>, <<>>, 0)
         branched == Insert(compared, at, "condbr",
                            <<Result(funcs, at, "ONE", <<ret>>)>>,
                            <<<<f, n + 1>>, <<f, n + 2>>>>, 0)
     IN /\ funcs' = [branched EXCEPT ![f].blocks = @ \o <<<<>>, <<>>, <<>>>>]
        /\ at' = <<f, n + 1>>
        /\ CallBlock([Top EXCEPT !.pc = "then",
                        !.blks = <<<<f, n + 1>>, <<f, n + 2>>, <<f, n + 3>>>>])
  /\ ub' = ub \cup Hazards(<<ret>>)
  /\ UNCHANGED <<mode, ret, named_vals, status>>

(* The block that ends the code of a branch of `if'. *)
EndsWhereItBegan == Top.blks[IF Top.pc = "then" THEN 1 ELSE 2]   \* mutant
BranchEnd == at

(* The then branch is closed with a branch to the merge block. *)
Else ==
  /\ At("then")
  /\ ret # NULL
  /\ funcs' = Insert(funcs, at, "br", <<>>, <<Top.blks[3]>>, 0)
  /\ at' = Top.blks[2]
  /\ CallBlock([Top EXCEPT !.pc = "else", !.vals = <<ret>>,
                           !.blks[1] = BranchEnd])
  /\ ub' = ub \cup Hazards(<<>>)
  /\ UNCHANGED <<mode, ret, named_vals, status>>

(* do_codegen dereferences the NULL pointer of a missing else block, and   *)
(* LLVMGetBasicBlockParent that of a missing insertion block.              *)
IfDies ==
  /\ \/ At("then") /\ ret # NULL
     \/ At("cond") /\ ret # NULL /\ at[1] = 0
  /\ status' = "killed"
  /\ UNCHANGED <<mode, ast, stack, ret, funcs, at, named_vals, ub>>

(* Mutant: the values that reach the merge block change places. *)
IncomingSwapped(then, else) == <<else, then>>
Incoming(then, else) == <<then, else>>

Phi ==
  /\ At("else")
  /\ ret # NULL
  /\ LET merge == Top.blks[3]
         args == Incoming(Top.vals[1], ret)
         closed == Insert(funcs, at, "br", <<>>, <<merge>>, 0)
     IN /\ at' = merge
        /\ funcs' = Insert(closed, merge, "phi", args, <<Top.blks[1], BranchEnd>>, 0)
        /\ Return(Result(closed, merge, "phi", args))
        /\ ub' = ub \cup Hazards(args)
  /\ UNCHANGED <<mode, ast, named_vals, status>>

IfFails ==
  /\ At("cond") \/ At("then") \/ At("else")
  /\ ret = NULL
  /\ Return(NULL)
  /\ NoCode /\ UNCHANGED ast

-----------------------------------------------------------------------------
(* codegen_funcdef and codegen_proto.                                      *)

NoNames == [x \in ParamNames |-> NULL]
OldNames == named_vals          \* mutant: the table is not cleared
Cleared == NoNames

(* cfuhash_put of every parameter in turn: a later one replaces an earlier *)
(* one of the same name.                                                   *)
FirstOf(is) == CHOOSE i \in is : \A j \in is : i <= j     \* mutant
LastOf(is) == CHOOSE i \in is : \A j \in is : j <= i

Scope(f, params) ==
  [x \in ParamNames |->
     LET is == {i \in 1..Len(params) : params[i] = x}
     IN IF is = {} THEN Cleared[x] ELSE Param(f, LastOf(is))]

(* Mutant: an existing function gets a second body. *)
DefinableAgain(f, arity) == f = 0 \/ funcs[f].arity = arity
(* A function of that name that has no body yet is used as it is. *)
Definable(f, arity) ==
  f = 0 \/ (funcs[f].arity = arity /\ funcs[f].blocks = <<>>)

(* The index of the block appended to n others, where the builder goes. *)
EntryBehind(n) == n             \* mutant
Entry(n) == n + 1

(* The definition is met below node p and its frame is pushed on base. *)
DefineFunction(base, p, name, params) ==
  LET old == Named(name)
      f == IF old = 0 THEN Len(funcs) + 1 ELSE old
      func == IF old # 0 THEN funcs[old]
              ELSE [name |-> name, arity |-> Len(params), blocks |-> <<>>,
                    state |-> "open", def |-> Fresh]
      x == [NewNode("FUNCDEF", ScopeOf(p)) EXCEPT !.name = name, !.params = params]
      known == IF p = 0 THEN ast ELSE [ast EXCEPT ![p].kids = Append(@, Fresh)]
  IN IF Definable(old, Len(params))
       THEN /\ ast' = known \o <<[x EXCEPT !.kids = <<Fresh + 1>>],
                                NewNode("BLOCK", Fresh)>>
            /\ funcs' = [g \in 1..Len(funcs) \cup {f} |->
                          IF g = f THEN [func EXCEPT !.blocks = Append(@, <<>>)]
                          ELSE funcs[g]]
            /\ at' = <<f, Entry(Len(func.blocks))>>
            /\ named_vals' = Scope(f, params)
            /\ stack' = base \o <<[NewFrame("body", Fresh) EXCEPT !.fn = f],
                                  NewFrame("block", Fresh + 1)>>
            /\ UNCHANGED ret
       ELSE /\ ast' = Append(known, x)
            /\ named_vals' = Cleared
            /\ stack' = base
            /\ ret' = NULL
            /\ UNCHANGED <<funcs, at>>

EnterDef ==
  /\ Enter("FUNCDEF")
  /\ \E name \in FuncNames, params \in ParamLists :
       DefineFunction(SubSeq(stack, 1, Len(stack) - 1), Top.node, name, params)
  /\ UNCHANGED <<mode, ub, status>>

(* The body's value is returned from wherever the builder is, and what the *)
(* verifier thinks of the function decides.                                *)
DefDone ==
  /\ At("body")
  /\ IF ret = NULL
       THEN /\ funcs' = [funcs EXCEPT ![Top.fn].state = "dropped"]
            /\ Return(NULL)
            /\ UNCHANGED ub
       ELSE /\ \E valid \in BOOLEAN :
                 LET built == Insert(funcs, at, "ret", <<ret>>, <<>>, 0)
                 IN /\ funcs' = [built EXCEPT ![Top.fn].state =
                                    IF valid THEN "verified" ELSE "rejected"]
                    /\ valid <=> WellFormed(built, Top.fn)
                    /\ Return(IF valid THEN Func(Top.fn) ELSE NULL)
            /\ ub' = ub \cup Hazards(<<ret>>)
  /\ UNCHANGED <<mode, ast, at, named_vals, status>>

-----------------------------------------------------------------------------
(* codegen_block.                                                          *)

More == {s \in (1..Len(ast)) \X (2..Len(ast)) :
           ast[s[1]].type = "BLOCK" /\ s[2] <= Len(ast[s[1]].kids)}

NextStmt ==
  /\ At("block")
  /\ Top.vals = <<>> \/ Cardinality(More) < MaxMore
  /\ CallExpr([Top EXCEPT !.pc = "stmt"])
  /\ NoCode /\ UNCHANGED <<ast, ret>>

(* Mutant: a statement that failed is skipped. *)
StmtSkipped ==
  /\ At("stmt")
  /\ stack' = Resume([Top EXCEPT !.pc = "block",
                       !.vals = IF ret = NULL THEN <<Const(0)>> ELSE <<ret>>])
  /\ NoCode /\ UNCHANGED <<ast, ret>>

StmtDone ==
  /\ At("stmt")
  /\ IF ret = NULL
       THEN Return(NULL)
       ELSE /\ stack' = Resume([Top EXCEPT !.pc = "block", !.vals = <<ret>>])
            /\ UNCHANGED ret
  /\ NoCode /\ UNCHANGED ast

BlockDone ==
  /\ At("block")
  /\ Top.vals # <<>>
  /\ Return(Top.vals[1])
  /\ NoCode /\ UNCHANGED ast

(* The value of an empty block is never assigned: it is whatever the last  *)
(* call left, or NULL, or no pointer at all (Killed).                      *)
EmptyBlock ==
  /\ At("block")
  /\ Top.vals = <<>>
  /\ Supply["BLOCK"] > Cardinality(ub \cap {"uninit"})
  /\ \E v \in {NULL, ret} : Return(v)
  /\ ub' = ub \cup {"uninit"}
  /\ UNCHANGED <<mode, ast, funcs, at, named_vals, status>>

-----------------------------------------------------------------------------
(* lilc_eval and lilc_emit.                                                *)

EvalStarts ==
  /\ At("main")
  /\ mode = "eval"
  /\ CallBlock([Top EXCEPT !.pc = "coded"])
  /\ NoCode /\ UNCHANGED ret

(* lilc_emit wraps the program in a function `main', whatever it is. *)
EmitStarts ==
  /\ At("main")
  /\ mode = "emit"
  /\ DefineFunction(<<[Top EXCEPT !.pc = "coded"]>>, 0, "main", <<>>)
  /\ UNCHANGED <<mode, ub, status>>

Coded ==
  /\ At("coded")
  /\ LET main == Named("main")
     IN IF ret = NULL \/ (mode = "eval" /\ main = 0)
          THEN status' = "failed" /\ UNCHANGED ub
          ELSE /\ status' = "done"
               /\ ub' = ub \cup (IF mode = "eval" /\ funcs[main].arity # 0
                                  THEN {"arity"} ELSE {})
  /\ UNCHANGED <<mode, ast, stack, ret, funcs, at, named_vals>>

Killed ==
  /\ status = "running"
  /\ ub # {}
  /\ status' = "killed"
  /\ UNCHANGED <<mode, ast, stack, ret, funcs, at, named_vals, ub>>

Step == \/ EnterDbl \/ EnterVar \/ EnterBin \/ EnterCall \/ EnterIf \/ EnterDef
        \/ Rhs \/ Bin \/ NextArg \/ StoreArg \/ BuildCall
        \/ Then \/ Else \/ IfDies \/ Phi \/ IfFails \/ DefDone
        \/ NextStmt \/ StmtDone \/ BlockDone \/ EmptyBlock
        \/ EvalStarts \/ EmitStarts \/ Coded \/ Killed

(* The process has ended, or the program runs. *)
Ended == status # "running" /\ UNCHANGED vars

Next == Step \/ Ended

Init ==
  /\ mode \in Modes
  /\ ast = <<>>
  /\ stack = <<NewFrame("main", 0)>>
  /\ ret = NULL
  /\ funcs = <<>>
  /\ at = <<0, 0>>
  /\ named_vals = NoNames
  /\ ub = {}
  /\ status = "running"

Spec == Init /\ [][Next]_vars

-----------------------------------------------------------------------------
(* Properties.                                                             *)

(* Every variable has its type, and the builder is in a block that exists. *)
TypeOK ==
  /\ mode \in Modes
  /\ ast \in Seq(Node)
  /\ stack \in Seq(Frame) /\ stack # <<>>
  /\ ret \in Value
  /\ funcs \in Seq(Function)
  /\ at # <<0, 0>> => at[1] \in 1..Len(funcs) /\ at[2] \in Blocks(funcs, at[1])
  /\ named_vals \in [ParamNames -> Value]
  /\ ub \subseteq {"uninit", "dangling", "type", "arity"}
  /\ status \in {"running", "done", "failed", "killed"}

IsDef(n) == ast[n].type = "FUNCDEF"
HasNested(d) == \E n \in 1..Len(ast) : IsDef(n) /\ ast[n].scope = d

(* While the body of a function is generated the builder is in it and the  *)
(* symbol table holds its parameters and nothing else, each name standing  *)
(* for the last one that has it, unless another definition is nested in it. *)
ScopeIsBuilder ==
  LET open == {i \in 1..Len(stack) : stack[i].pc = "body"}
      body == stack[CHOOSE i \in open : \A j \in open : j <= i]
      params == ast[body.node].params
  IN open # {} /\ ~HasNested(body.node) =>
       /\ at[1] = body.fn
       /\ \A x \in ParamNames :
            LET v == named_vals[x]
            IN IF v = NULL
                 THEN \A i \in 1..Len(params) : params[i] # x
                 ELSE /\ v = Param(body.fn, v.i)
                      /\ params[v.i] = x
                      /\ \A i \in 1..Len(params) : i > v.i => params[i] # x

(* LLVMVerifyFunction never finds fault with the code generated for a      *)
(* function, however its conditionals, calls and operators are nested: the *)
(* only functions it rejects contain the definition of another function,   *)
(* which leaves the builder there, and it rejects all of these.            *)
VerifierAgrees ==
  ub = {} => \A f \in 1..Len(funcs) :
    /\ funcs[f].state = "rejected" => HasNested(funcs[f].def)
    /\ funcs[f].state = "verified" => ~HasNested(funcs[f].def)

RootKids == IF ast = <<>> THEN {} ELSE {ast[1].kids[i] : i \in 1..Len(ast[1].kids)}

(* A function that was verified is still valid when the module is run or   *)
(* written out, unless statements at the top level added code to it.       *)
StaysValid ==
  status = "done" /\ ub = {} /\ (mode = "eval" => \A n \in RootKids : IsDef(n))
    => \A f \in 1..Len(funcs) :
         funcs[f].state = "verified" /\ WellFormed(funcs, f)

(* The rules of the language, top being the node that stands for the top   *)
(* level: variables are parameters of the innermost function, a function   *)
(* is called with as many arguments as it has parameters, after its        *)
(* definition or in it, and is defined once, at the top level.             *)
DefsBefore(n, top) == {d \in (top + 1)..(n - 1) : IsDef(d)}

WellScoped(n, top) ==
  LET x == ast[n]
      named == {d \in DefsBefore(n, top) : ast[d].name = x.name}
  IN CASE x.type = "VAR" ->
            /\ x.scope > top
            /\ \E i \in 1..Len(ast[x.scope].params) : ast[x.scope].params[i] = x.name
       [] x.type = "CALL" -> \E d \in named : Len(ast[d].params) = x.argc
       [] x.type = "FUNCDEF" -> x.scope = top /\ named = {}
       [] OTHER -> TRUE

HasMain == \E n \in 1..Len(ast) : IsDef(n) /\ ast[n].name = "main"

(* A program is generated if and only if it follows these rules and, to be *)
(* run, has a main: every failure is propagated to lilc_eval and lilc_emit *)
(* and none is made up, although names are looked up in a module from      *)
(* which functions are deleted and in a table that is shared by all.  Only *)
(* a variable outside of any function may be taken for a parameter.        *)
AcceptsWellScoped ==
  LET bad == {n \in 1..Len(ast) : ~WellScoped(n, 0)}
      ends == mode = "eval" => HasMain
  IN ub = {} =>
       /\ status = "done" =>
            ends /\ \A n \in bad : ast[n].type = "VAR" /\ ast[n].scope = 0
       /\ status = "failed" => bad # {} \/ ~ends

(* Code may be added to a deleted function, after the left operand of an   *)
(* operator failed, but then the program is not accepted.                  *)
DanglingFails == status = "done" => "dangling" \notin ub

=============================================================================
