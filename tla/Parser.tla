------------------------------- MODULE Parser -------------------------------
(***************************************************************************)
(* The Pratt parser of src/parse.c as a machine with an explicit call      *)
(* stack.  Every C function of the parser that calls another one is split  *)
(* at its calls; a frame's pc says where its function resumes.             *)
(*                                                                         *)
(* The source text is chosen while it is read: each lex_scan delivers any  *)
(* token, as long as fewer than MaxTokens of them and fewer than Supply[t] *)
(* of its class t were delivered.  `input' is the history of the tokens    *)
(* delivered; its last one is the lookahead `tok'.                         *)
(*                                                                         *)
(* AST nodes live in `nodes' and a pointer is an index into it (NULL = 0). *)
(* A `char *' to a name stands for the place in `input' of the identifier  *)
(* whose text it holds (lex.c copies the text of each one), and 0 for what *)
(* is no name.  A node and a frame carry, besides the C fields, the        *)
(* history variables first, last (the tokens the construct covers) and     *)
(* paren (how many pairs of parentheses enclose it).                       *)
(*                                                                         *)
(* `ub' collects the undefined behaviours met so far: reading past the end *)
(* of the source ("overread"), past the end of vtables ("vtable"), writing *)
(* past params[] or args[] ("params", "args") and reading the name of a    *)
(* node that has none ("cast").  After one of them the program either goes *)
(* on with an arbitrary outcome or is killed.                              *)
(***************************************************************************)
EXTENDS Naturals, Sequences, FiniteSets

CONSTANTS
  Supply,           \* bound: how many tokens of each class a source holds
  MaxTokens,        \* bound: how many tokens it holds in all
  MAX_FUNC_PARAMS   \* size of the arrays params[] and args[]

TokType == {"ERR", "EOS", "ID", "DEF", "SEMI", "COMMA", "LPAREN", "RPAREN",
            "LCURL", "RCURL", "DBL", "ADD", "SUB", "MUL", "DIV", "CMPLT",
            "IF", "ELSE"}

ASSUME ParserAssumption ==
  /\ Supply \in [TokType \ {"EOS"} -> Nat]
  /\ MaxTokens \in Nat
  /\ MAX_FUNC_PARAMS \in Nat \ {0}

VARIABLES
  tok,      \* lexer.tok.cls, the lookahead
  input,    \* history: every token delivered by lex_scan
  stack,    \* the C call stack, innermost frame last
  ret,      \* value the last call returned
  nodes,    \* the AST nodes allocated
  err,      \* parser.err, uninitialised until err() runs
  ub,       \* undefined behaviours met
  status    \* running, accepted, died (exit in die) or killed

vars == <<tok, input, stack, ret, nodes, err, ub, status>>

-----------------------------------------------------------------------------
(* The vtables of parse.c: lbp 0 where the initialiser leaves it out.      *)
(* ELSE lies one past the end of the array; see Undef.                     *)

BinOps == {"CMPLT", "ADD", "SUB", "MUL", "DIV"}
HasPrefix == {"DBL", "DEF", "ID", "IF", "LPAREN"}

lbp == [t \in TokType |->
          CASE t = "CMPLT" -> 1
            [] t \in {"ADD", "SUB"} -> 2
            [] t \in {"MUL", "DIV"} -> 3
            [] t = "LPAREN" -> 10
            [] OTHER -> 0]

Undef(t) == IF t = "ELSE" THEN {"vtable"} ELSE {}

NULL == 0

(* The token class each lex_consumef waits for, by the pc it is called at. *)
Waiting == {"stmt", "if", "cond", "then_open", "then", "else_open",
            "else_again", "paren", "def", "def_open", "body_open", "body"}

Expected == [pc \in Waiting |->
               CASE pc = "stmt" -> "SEMI"
                 [] pc \in {"if", "def_open"} -> "LPAREN"
                 [] pc \in {"cond", "paren"} -> "RPAREN"
                 [] pc \in {"then_open", "else_open", "body_open"} -> "LCURL"
                 [] pc \in {"then", "else_again", "body"} -> "RCURL"
                 [] pc = "def" -> "ID"]

Labels == Waiting \cup
          {"program", "parsed", "stmts", "expr", "loop", "right", "args",
           "arg", "more_args", "else?", "else", "params", "more_params"}

(* A frame: rbp belongs to expression(), op and left to the infix          *)
(* functions, kids to block() (stmts), lparen_infix() (args) and           *)
(* if_prefix() (cond, then, else), name (funcname) and params to           *)
(* funcdef_prefix().                                                       *)
Frame == [pc: Labels, rbp: 0..10, op: TokType, left: Nat, kids: Seq(Nat),
          name: Nat, params: Seq(Nat), first: Nat]

NodeType == {"DBL", "VAR", "BIN", "CALL", "IF", "FUNCDEF", "BLOCK"}

(* A node: name belongs to variables, calls and definitions, params to the *)
(* latter; kids are the nodes it points to.                                *)
Node == [type: NodeType, op: TokType, name: Nat, kids: Seq(Nat),
         params: Seq(Nat), paren: Nat, first: Nat, last: Nat]

ErrMsg == {"prefix", "infix", "operand", "argument", "param", "toomany",
           "else"}

-----------------------------------------------------------------------------
(* Calls, returns and the lexer.                                           *)

NewFrame(pc, first) ==
  [pc |-> pc, rbp |-> 0, op |-> "EOS", left |-> NULL, kids |-> <<>>,
   name |-> 0, params |-> <<>>, first |-> first]

(* Mutant: the operand of an operator is parsed with right binding power 0. *)
ExpressionAtZero(rbp, first) == NewFrame("expr", first)
Expression(rbp, first) == [NewFrame("expr", first) EXCEPT !.rbp = rbp]

NewNode(type, op, name, kids, params, first, last) ==
  [type |-> type, op |-> op, name |-> name, kids |-> kids,
   params |-> params, paren |-> 0, first |-> first, last |-> last]

Top == stack[Len(stack)]

At(pc) == status = "running" /\ Top.pc = pc

Resume(f) == [stack EXCEPT ![Len(stack)] = f]      \* the top frame becomes f
Goto(pc) == stack' = Resume([Top EXCEPT !.pc = pc])
Call(f, callee) == stack' = Append(Resume(f), callee)
Return(v) == /\ stack' = SubSeq(stack, 1, Len(stack) - 1)
             /\ ret' = v

(* Allocate a node and return it to the caller. *)
ReturnNode(n) == nodes' = Append(nodes, n) /\ Return(Len(nodes) + 1)

(* err(): record the message and return NULL. *)
FailSilently(msg) == Return(NULL) /\ UNCHANGED err     \* mutant
Fail(msg) == err' = msg /\ Return(NULL)

Count(t) == Cardinality({i \in 1..Len(input) : input[i] = t})

Available ==
  {t \in TokType \ {"EOS"} : Len(input) < MaxTokens /\ Count(t) < Supply[t]}

(* lex_scan.  A character the lexer does not know ends the program; reading *)
(* on after end-of-source leaves the buffer and yields any token.  Where   *)
(* the program ends here, an action leaves behind what the C function had  *)
(* still to do to its own stack frame and to nodes nobody reads any more,  *)
(* but err only where err() runs before the scan: see ScanThenFail.        *)
Scan(undef) ==
  \E c \in Available \cup {"EOS"} :
    /\ tok' = c
    /\ input' = Append(input, c)
    /\ status' = IF c = "ERR" THEN "died" ELSE status
    /\ ub' = ub \cup undef \cup (IF tok = "EOS" THEN {"overread"} ELSE {})

NoScan == UNCHANGED <<tok, input, status, ub>>

(* lex_scan, and if it comes back err(); `before' and `after' are the      *)
(* undefined behaviours met on either side of the scan.                    *)
ScanThenFail(before, after, msg) ==
  \/ Scan(before \cup after) /\ status' = status /\ Fail(msg)
  \/ Scan(before) /\ status' = "died" /\ UNCHANGED <<stack, ret, err>>

(* lex_consumef: the expected class is consumed ... *)
ConsumeAny(pc) == At(pc) /\ Scan({})      \* mutant: lex_scan instead
Consume(pc) == At(pc) /\ tok = Expected[pc] /\ Scan({})

(* ... and any other one ends the program. *)
ConsumeDies ==
  /\ \E pc \in Waiting :
       /\ At(pc)
       /\ tok # Expected[pc]
       /\ (pc = "else_again" => ret # NULL)
  /\ status' = "died"
  /\ UNCHANGED <<tok, input, stack, ret, nodes, err, ub>>

-----------------------------------------------------------------------------
(* expression(): the main loop of Pratt parsing.                           *)

Leaf(type) ==
  NewNode(type, "EOS", IF type = "VAR" THEN Len(input) ELSE 0, <<>>, <<>>,
          Len(input), Len(input))

(* Mutant: the node is returned but never allocated. *)
EnterLeafDangling ==
  /\ At("expr")
  /\ tok \in {"DBL", "ID"}
  /\ ret' = Len(nodes) + 1
  /\ Goto("loop")
  /\ Scan({})
  /\ UNCHANGED <<nodes, err>>

(* The prefix functions dbl_prefix and id_prefix return at once. *)
EnterLeaf ==
  /\ At("expr")
  /\ tok \in {"DBL", "ID"}
  /\ nodes' = Append(nodes, Leaf(IF tok = "DBL" THEN "DBL" ELSE "VAR"))
  /\ ret' = Len(nodes) + 1
  /\ Goto("loop")
  /\ Scan({})
  /\ UNCHANGED err

(* if_prefix and funcdef_prefix. *)
EnterPrefix ==
  /\ At("expr")
  /\ tok \in {"IF", "DEF"}
  /\ Call([Top EXCEPT !.pc = "loop"],
          NewFrame(IF tok = "IF" THEN "if" ELSE "def", Top.first))
  /\ Scan({})
  /\ UNCHANGED <<ret, nodes, err>>

(* lparen_prefix, up to its call of expression(). *)
CallParen == stack' = Resume([Top EXCEPT !.pc = "loop"])
                        \o <<NewFrame("paren", Top.first),
                             Expression(0, Len(input) + 1)>>

(* Mutant: the parenthesis is not consumed before the nested call. *)
EnterParenStuck ==
  At("expr") /\ tok = "LPAREN" /\ CallParen /\ NoScan
  /\ UNCHANGED <<ret, nodes, err>>

EnterParen ==
  At("expr") /\ tok = "LPAREN" /\ CallParen /\ Scan({})
  /\ UNCHANGED <<ret, nodes, err>>

NoPrefix ==
  /\ At("expr")
  /\ tok \notin HasPrefix
  /\ ScanThenFail({}, Undef(tok), "prefix")
  /\ UNCHANGED nodes

(* Left holds the value just returned; it is not checked against NULL. *)
Infix ==
  /\ At("loop")
  /\ Top.rbp < lbp[tok]
  /\ LET f == [NewFrame("right", Top.first) EXCEPT !.op = tok, !.left = ret]
     IN \/ /\ tok \in BinOps
           /\ stack' = stack \o <<f, Expression(lbp[tok], Len(input) + 1)>>
        \/ /\ tok = "LPAREN"
           /\ stack' = Append(stack, [f EXCEPT !.pc = "args"])
  /\ Scan({})
  /\ UNCHANGED <<ret, nodes, err>>

LoopEnds ==
  /\ At("loop")
  /\ Top.rbp >= lbp[tok]
  /\ Return(ret)
  /\ ub' = ub \cup Undef(tok)
  /\ UNCHANGED <<tok, input, status, nodes, err>>

(* The words read beyond vtables may also look like a binding power that   *)
(* is high enough, without an infix function.                              *)
LoopPastTable ==
  /\ At("loop")
  /\ tok = "ELSE"
  /\ ScanThenFail(Undef(tok), {}, "infix")
  /\ UNCHANGED nodes

-----------------------------------------------------------------------------
(* bin_op_infix and lparen_infix.                                          *)

Bin(left, right) ==
  NewNode("BIN", Top.op, 0, <<left, right>>, <<>>, Top.first, Len(input) - 1)

BinNodeSwapped(left, right) == Bin(right, left)         \* mutants
BinNodeTwice(left, right) == Bin(right, right)
BinNode(left, right) == Bin(left, right)

BinOp ==
  /\ At("right")
  /\ IF ret = NULL
       THEN Fail("operand") /\ UNCHANGED nodes
       ELSE /\ ReturnNode(BinNode(Top.left, ret))
            /\ UNCHANGED err
  /\ NoScan

(* One more argument: the loop runs while arg_count <= MAX_FUNC_PARAMS. *)
MoreArgsUnbounded == tok # "RPAREN"                     \* mutant
MoreArgs == tok # "RPAREN" /\ Len(Top.kids) <= MAX_FUNC_PARAMS

NextArg ==
  /\ At("args")
  /\ MoreArgs
  /\ Call([Top EXCEPT !.pc = "arg"], Expression(0, Len(input)))
  /\ NoScan
  /\ UNCHANGED <<ret, nodes, err>>

StoreArg ==
  /\ At("arg")
  /\ IF ret = NULL
       THEN Fail("argument") /\ UNCHANGED ub
       ELSE /\ stack' = Resume([Top EXCEPT !.pc = "more_args",
                                           !.kids = Append(@, ret)])
            /\ ub' = ub \cup (IF Len(Top.kids) >= MAX_FUNC_PARAMS
                                THEN {"args"} ELSE {})
            /\ UNCHANGED <<ret, err>>
  /\ UNCHANGED <<tok, input, status, nodes>>

(* lex_consume(COMMA) after an argument or a parameter: optional. *)
OptionalComma ==
  /\ \/ At("more_args") /\ Goto("args")
     \/ At("more_params") /\ Goto("params")
  /\ IF tok = "COMMA" THEN Scan({}) ELSE NoScan
  /\ UNCHANGED <<ret, nodes, err>>

(* The name is read through a cast to a variable node.  A call node keeps  *)
(* its name at the same offset, and nothing else of that call goes into    *)
(* the new node; the others hold something else there, and a NULL pointer  *)
(* ends the program.                                                       *)
HasName(left) == nodes[left].type \in {"VAR", "CALL"}

CloseCall ==
  /\ At("args")
  /\ tok = "RPAREN"
  /\ Top.left # NULL
  /\ ReturnNode(NewNode("CALL", "EOS",
                        IF HasName(Top.left) THEN nodes[Top.left].name ELSE 0,
                        Top.kids, <<>>, Top.first, Len(input)))
  /\ Scan(IF HasName(Top.left) THEN {} ELSE {"cast"})
  /\ UNCHANGED err

CallDies ==
  /\ At("args")
  /\ \/ tok = "RPAREN" /\ Top.left = NULL /\ status' = "killed"
     \/ tok # "RPAREN" /\ ~MoreArgs /\ status' = "died"
  /\ UNCHANGED <<tok, input, stack, ret, nodes, err, ub>>

-----------------------------------------------------------------------------
(* lparen_prefix, if_prefix and funcdef_prefix.                            *)

CloseParen ==
  /\ Consume("paren")
  /\ nodes' = IF ret = NULL
                THEN nodes
                ELSE [nodes EXCEPT ![ret].paren = @ + 1,
                                   ![ret].first = Top.first,
                                   ![ret].last = Len(input)]
  /\ Return(ret)
  /\ UNCHANGED err

IfOpen ==
  /\ Consume("if")
  /\ Call([Top EXCEPT !.pc = "cond"], Expression(0, Len(input) + 1))
  /\ UNCHANGED <<ret, nodes, err>>

IfCond ==
  /\ Consume("cond")
  /\ stack' = Resume([Top EXCEPT !.pc = "then_open", !.kids = <<ret>>])
  /\ UNCHANGED <<ret, nodes, err>>

IfThenOpen ==
  /\ Consume("then_open")
  /\ Call([Top EXCEPT !.pc = "then"], NewFrame("stmts", Len(input) + 1))
  /\ UNCHANGED <<ret, nodes, err>>

IfThen ==
  /\ Consume("then")
  /\ stack' = Resume([Top EXCEPT !.pc = "else?", !.kids = Append(@, ret)])
  /\ UNCHANGED <<ret, nodes, err>>

If(last, else) ==
  NewNode("IF", "EOS", 0, Append(Top.kids, else), <<>>, Top.first, last)

(* Mutants: the then block, or what the second call of block() returned,   *)
(* becomes the else block.                                                 *)
IfNodeShared(last, else) ==
  If(last, IF else = NULL THEN NULL ELSE Top.kids[2])
IfNodeSecond(last, else) == If(last, IF else = NULL THEN NULL ELSE ret)
IfNode(last, else) == If(last, else)

IfElse ==
  /\ At("else?")
  /\ IF tok = "ELSE"
       THEN Goto("else_open") /\ Scan({}) /\ UNCHANGED <<ret, nodes>>
       ELSE ReturnNode(IfNode(Len(input) - 1, NULL)) /\ NoScan
  /\ UNCHANGED err

IfElseOpen ==
  /\ Consume("else_open")
  /\ Call([Top EXCEPT !.pc = "else"], NewFrame("stmts", Len(input) + 1))
  /\ UNCHANGED <<ret, nodes, err>>

(* block() is called a second time; only its result is checked. *)
IfElseAgain ==
  /\ At("else")
  /\ Call([Top EXCEPT !.pc = "else_again", !.left = ret],
          NewFrame("stmts", Len(input)))
  /\ NoScan
  /\ UNCHANGED <<ret, nodes, err>>

IfElseFails ==
  /\ At("else_again")
  /\ ret = NULL
  /\ Fail("else")
  /\ NoScan
  /\ UNCHANGED nodes

IfElseClose ==
  /\ ret # NULL
  /\ Consume("else_again")
  /\ ReturnNode(IfNode(Len(input), Top.left))
  /\ UNCHANGED err

DefOpen ==
  /\ \/ /\ Consume("def")
        /\ stack' = Resume([Top EXCEPT !.pc = "def_open", !.name = Len(input)])
     \/ Consume("def_open") /\ Goto("params")
  /\ UNCHANGED <<ret, nodes, err>>

(* One more parameter: the loop runs while param_count <= MAX_FUNC_PARAMS. *)
MoreParamsUnbounded == tok # "RPAREN"                   \* mutant
MoreParams == tok # "RPAREN" /\ Len(Top.params) <= MAX_FUNC_PARAMS

NextParam ==
  /\ At("params")
  /\ MoreParams
  /\ tok = "ID"
  /\ stack' = Resume([Top EXCEPT !.pc = "more_params",
                                  !.params = Append(@, Len(input))])
  /\ Scan(IF Len(Top.params) >= MAX_FUNC_PARAMS THEN {"params"} ELSE {})
  /\ UNCHANGED <<ret, nodes, err>>

(* Mutant: what is not an identifier is neither skipped nor an error. *)
NotAParamSpins ==
  At("params") /\ MoreParams /\ tok # "ID" /\ UNCHANGED vars

NotAParam ==
  /\ At("params")
  /\ MoreParams
  /\ tok # "ID"
  /\ Fail("param")
  /\ NoScan
  /\ UNCHANGED nodes

ParamsEnd ==
  /\ At("params")
  /\ ~MoreParams
  /\ \/ /\ Len(Top.params) = MAX_FUNC_PARAMS
        /\ Fail("toomany")
        /\ NoScan
     \/ /\ Len(Top.params) # MAX_FUNC_PARAMS
        /\ tok = "RPAREN"
        /\ Goto("body_open")
        /\ Scan({})
        /\ UNCHANGED <<ret, err>>
     \/ /\ Len(Top.params) # MAX_FUNC_PARAMS
        /\ tok # "RPAREN"
        /\ status' = "died"
        /\ UNCHANGED <<tok, input, stack, ret, err, ub>>
  /\ UNCHANGED nodes

DefBody ==
  /\ Consume("body_open")
  /\ Call([Top EXCEPT !.pc = "body"], NewFrame("stmts", Len(input) + 1))
  /\ UNCHANGED <<ret, nodes, err>>

(* The body is not checked against NULL. *)
DefClose ==
  /\ Consume("body")
  /\ ReturnNode(NewNode("FUNCDEF", "EOS", Top.name, <<ret>>, Top.params,
                        Top.first, Len(input)))
  /\ UNCHANGED err

-----------------------------------------------------------------------------
(* block(), with expr_stmt() inlined; program() and parse().               *)

NextStmt ==
  /\ At("stmts")
  /\ IF tok \in {"EOS", "RCURL"}
       THEN ReturnNode(NewNode("BLOCK", "EOS", 0, Top.kids, <<>>, Top.first,
                               Len(input) - 1))
       ELSE /\ Call([Top EXCEPT !.pc = "stmt"], Expression(0, Len(input)))
            /\ UNCHANGED <<ret, nodes>>
  /\ NoScan
  /\ UNCHANGED err

(* Mutant: block() goes on behind a statement that failed. *)
EndStmtSkips ==
  /\ Consume("stmt")
  /\ stack' = Resume([Top EXCEPT !.pc = "stmts",
                       !.kids = IF ret = NULL THEN @ ELSE Append(@, ret)])
  /\ UNCHANGED <<ret, nodes, err>>

EndStmt ==
  /\ Consume("stmt")
  /\ IF ret = NULL
       THEN Return(NULL)
       ELSE /\ stack' = Resume([Top EXCEPT !.pc = "stmts",
                                           !.kids = Append(@, ret)])
            /\ UNCHANGED ret
  /\ UNCHANGED <<nodes, err>>

Program ==
  /\ At("program")
  /\ Call([Top EXCEPT !.pc = "parsed"], NewFrame("stmts", 1))
  /\ Scan({})
  /\ UNCHANGED <<ret, nodes, err>>

(* parse() returns the root, or dies with whatever p->err holds. *)
Parse ==
  /\ At("parsed")
  /\ status' = IF ret = NULL THEN "died" ELSE "accepted"
  /\ UNCHANGED <<tok, input, stack, ret, nodes, err, ub>>

Killed ==
  /\ status = "running"
  /\ ub # {}
  /\ status' = "killed"
  /\ UNCHANGED <<tok, input, stack, ret, nodes, err, ub>>

Step == \/ EnterLeaf \/ EnterPrefix \/ EnterParen \/ NoPrefix
        \/ Infix \/ LoopEnds \/ LoopPastTable \/ BinOp
        \/ NextArg \/ StoreArg \/ OptionalComma \/ CloseCall \/ CallDies
        \/ CloseParen
        \/ IfOpen \/ IfCond \/ IfThenOpen \/ IfThen \/ IfElse
        \/ IfElseOpen \/ IfElseAgain \/ IfElseFails \/ IfElseClose
        \/ DefOpen \/ NextParam \/ NotAParam \/ ParamsEnd \/ DefBody \/ DefClose
        \/ NextStmt \/ EndStmt \/ Program \/ Parse
        \/ ConsumeDies \/ Killed

(* The process has ended, in main() or in exit(). *)
Ended == status # "running" /\ UNCHANGED vars

Next == Step \/ Ended

(* lexer.tok and parser.err are uninitialised memory before their first    *)
(* assignment; neither is read before it (see ErrSetOnNull).               *)
Init ==
  /\ tok = "ERR"
  /\ input = <<>>
  /\ stack = <<NewFrame("program", 0)>>
  /\ ret = NULL
  /\ nodes = <<>>
  /\ err = "unset"
  /\ ub = {}
  /\ status = "running"

Spec == Init /\ [][Next]_vars

(* A single thread that is never blocked: it goes on while it can. *)
FairSpec == Spec /\ WF_vars(Step)

-----------------------------------------------------------------------------
(* Properties.                                                             *)

Ptr == 0..Len(nodes)

(* Every variable has its type: in particular every pointer in the machine *)
(* and in the AST is NULL or points to an allocated node, and the lookahead *)
(* is the last token the lexer delivered.                                  *)
TypeOK ==
  /\ tok \in TokType
  /\ input \in Seq(TokType)
  /\ input # <<>> => tok = input[Len(input)]
  /\ stack \in Seq(Frame)
  /\ stack # <<>>
  /\ ret \in Ptr
  /\ nodes \in Seq(Node)
  /\ \A i \in 1..Len(stack) :
       stack[i].left \in Ptr /\ stack[i].kids \in Seq(Ptr)
  /\ \A n \in 1..Len(nodes) : nodes[n].kids \in Seq(Ptr)
  /\ err \in ErrMsg \cup {"unset"}
  /\ ub \subseteq {"overread", "vtable", "params", "args", "cast"}
  /\ status \in {"running", "accepted", "died", "killed"}

IsOpen(n) == n # NULL /\ nodes[n].type = "BIN" /\ nodes[n].paren = 0

(* Operators group as the grammar in the comment of bin_op_infix says:     *)
(* `*` and `/` bind tighter than `+` and `-`, these tighter than `<`, and  *)
(* operators of one level associate to the left, whatever surrounds them,  *)
(* unless parentheses say otherwise.                                       *)
Precedence ==
  \A n \in 1..Len(nodes) : nodes[n].type = "BIN" =>
    LET op == nodes[n].op
        left == nodes[n].kids[1]
        right == nodes[n].kids[2]
    IN /\ IsOpen(left) => lbp[nodes[left].op] >= lbp[op]
       /\ IsOpen(right) => lbp[nodes[right].op] > lbp[op]

(* As long as no error was reported no NULL pointer gets into the AST, but *)
(* for the else block an `if` may lack: what codegen dereferences without  *)
(* a check is there.                                                       *)
AstComplete ==
  err = "unset" => \A n \in 1..Len(nodes) :
    \A i \in 1..Len(nodes[n].kids) :
      (nodes[n].type = "IF" /\ i = 3) \/ nodes[n].kids[i] # NULL

(* parse() never dies with p->err uninitialised: every NULL that reaches   *)
(* it comes from a call of err(), through any number of returns.           *)
DieHasMessage == Top.pc = "parsed" /\ ret = NULL => err # "unset"

(* args[] and params[] are overrun by one element at most.                 *)
ListsBounded ==
  \A i \in 1..Len(stack) :
    /\ Len(stack[i].params) <= MAX_FUNC_PARAMS + 1
    /\ stack[i].pc \in {"args", "arg", "more_args"} =>
         Len(stack[i].kids) <= MAX_FUNC_PARAMS + 1

(* The lexer is asked for more than the source holds only where an operand *)
(* is missing at its end, and then an error is on record, unless what it   *)
(* found there ended the program at once.                                  *)
OverreadReported == "overread" \in ub => err # "unset" \/ status = "died"

(* Recursion is linear in the text read: no call is made twice without a   *)
(* token consumed in between.                                              *)
DepthBounded == Len(stack) <= 2 * Len(input) + 1

Tok(i) == IF i \in 1..Len(input) THEN input[i] ELSE "ERR"
First(n) == nodes[n].first
Last(n) == nodes[n].last

(* h knows the first and the last token of every item of the list.  The    *)
(* first one starts at token `from'; between one and the next, and between  *)
(* and between the last one and token `to', lies one token `sep', which    *)
(* may be missing if it is optional.                                       *)
Tiled(h, list, from, to, sep, optional) ==
  LET next(i) == IF i = Len(list) THEN to ELSE h[list[i + 1]].first
  IN /\ from = IF list = <<>> THEN to ELSE h[list[1]].first
     /\ \A i \in 1..Len(list) :
          LET end == h[list[i]].last
          IN \/ next(i) = end + 2 /\ Tok(end + 1) = sep
             \/ optional /\ next(i) = end + 1

(* What stands at place i of the source is token i. *)
Place == [i \in Nat |-> [first |-> i, last |-> i]]

(* Of what call n calls nothing is left: it was no name, or it was itself  *)
(* a call, whose name n has taken over.                                    *)
CalleeLost(n) ==
  \/ nodes[n].name = 0
  \/ \E m \in 1..(n - 1) : nodes[m].type = "CALL" /\ nodes[m].name = nodes[n].name

(* Tokens from..to are a name, in as many parentheses as there is room. *)
IsName(name, from, to) ==
  /\ Tok(name) = "ID"
  /\ name - from = to - name
  /\ \A i \in from..(name - 1) : Tok(i) = "LPAREN"
  /\ \A i \in (name + 1)..to : Tok(i) = "RPAREN"

(* Node n stands for the tokens first..last of the source, parentheses     *)
(* included: its names, its kids' tokens and the ones that belong to n     *)
(* itself tile that interval in the order of the source.                   *)
Spans(n) ==
  LET x == nodes[n]
      from == x.first + x.paren
      to == x.last - x.paren
  IN /\ \A i \in 0..(x.paren - 1) :
          Tok(x.first + i) = "LPAREN" /\ Tok(x.last - i) = "RPAREN"
     /\ CASE x.type = "DBL" -> from = to /\ Tok(from) = "DBL"
          [] x.type = "VAR" -> from = to /\ Tok(from) = "ID" /\ x.name = from
          [] x.type = "BIN" ->
               /\ First(x.kids[1]) = from
               /\ Tok(Last(x.kids[1]) + 1) = x.op
               /\ First(x.kids[2]) = Last(x.kids[1]) + 2
               /\ Last(x.kids[2]) = to
          [] x.type = "CALL" -> \E open \in (from + 1)..Len(input) :
               /\ CalleeLost(n) \/ IsName(x.name, from, open - 1)
               /\ Tok(open) = "LPAREN"
               /\ Tok(to) = "RPAREN"
               /\ Tiled(nodes, x.kids, open + 1, to, "COMMA", TRUE)
          [] x.type = "IF" ->
               /\ Tok(from) = "IF"
               /\ First(x.kids[1]) = from + 2
               /\ First(x.kids[2]) = Last(x.kids[1]) + 3
               /\ IF x.kids[3] = NULL
                    THEN to = Last(x.kids[2]) + 1
                    ELSE /\ First(x.kids[3]) = Last(x.kids[2]) + 4
                         /\ to = Last(x.kids[3]) + 1
          [] x.type = "FUNCDEF" ->
               LET close == First(x.kids[1]) - 2
               IN /\ Tok(from) = "DEF"
                  /\ x.name = from + 1 /\ Tok(from + 1) = "ID"
                  /\ Tok(from + 2) = "LPAREN"
                  /\ \A i \in 1..Len(x.params) : Tok(x.params[i]) = "ID"
                  /\ Tiled(Place, x.params, from + 3, close, "COMMA", TRUE)
                  /\ Tok(close) = "RPAREN" /\ Tok(close + 1) = "LCURL"
                  /\ to = Last(x.kids[1]) + 1
          [] x.type = "BLOCK" ->
               Tiled(nodes, x.kids, from, to + 1, "SEMI", FALSE)

(* Without an error the AST says what the source said: no node, no name,   *)
(* no parameter and no argument read is dropped, duplicated or moved, and  *)
(* the accepted program is every token before the one the parser stopped   *)
(* at.  In particular the second call of block() for an else branch finds  *)
(* nothing left to parse.  One thing does get lost: what is called, where  *)
(* it is not a name.  Of the first call in f(a)(b), and of the sum in      *)
(* (a + b)(c), nothing is left in the node of the call built upon it.      *)
SourceOrder ==
  err = "unset" =>
    /\ \A n \in 1..Len(nodes) : Spans(n)
    /\ status = "accepted" => First(ret) = 1 /\ Last(ret) = Len(input) - 1

(* The brackets open after the first i tokens, outermost first. *)
Closer == [t \in {"LPAREN", "LCURL"} |-> IF t = "LPAREN" THEN "RPAREN" ELSE "RCURL"]
Opened ==
  LET open[i \in 0..Len(input)] ==
        IF i = 0 THEN <<>>
        ELSE LET before == open[i - 1]
             IN IF input[i] \in DOMAIN Closer THEN Append(before, input[i])
                ELSE IF before = <<>> \/ input[i] # Closer[before[Len(before)]] THEN before
                ELSE SubSeq(before, 1, Len(before) - 1)
  IN open

(* The only way to drop the rest of a text unnoticed is a brace too many:  *)
(* an accepted program without an error ends at the end of the source or   *)
(* at a brace that closes nothing, and before it every bracket is closed   *)
(* by one of its kind, in the order of their nesting.                      *)
StopsAtBraceOrEnd ==
  status = "accepted" /\ err = "unset" =>
    /\ tok \in {"EOS", "RCURL"}
    /\ Opened[Len(input)] = <<>>
    /\ \A i \in 1..(Len(input) - 1) :
         input[i] \in {"RPAREN", "RCURL", "EOS"} =>
           Opened[i - 1] # <<>> /\ input[i] = Closer[Opened[i - 1][Len(Opened[i - 1])]]

(* Every source text is answered: the parser accepts, dies or is killed.   *)
Terminates == <>(status # "running")

=============================================================================
