--------------------------- MODULE CodegenProofs ---------------------------
(***************************************************************************)
(* Proofs about Codegen, for every value of its constants: that the values *)
(* kept across calls and the builder's position always make sense, that a  *)
(* function that is deleted fails the program that defined it, and that    *)
(* while a function is generated the builder and the symbol table are its  *)
(* own.                                                                    *)
(***************************************************************************)
EXTENDS Codegen, NatLemmas, SequenceTheorems, TLAPS

(* Values of functions that exist; a constant is a double. *)
ValueOf(m) == {v \in [kind: {"null", "const", "param", "instr", "func"},
                      fn: 0..m, blk: Nat, i: Nat] :
                 v.kind = "const" => v.i \in Num}

(* The positions where code can be added to the functions fs. *)
Places(fs) == {p \in Pos : p[1] \in 1..Len(fs) /\ p[2] \in Blocks(fs, p[1])}

Base == {"main", "coded"}

(* What a function needs to go on with when a call returns to it. *)
Fits(f, ns) ==
  /\ f.pc \in {"lhs", "rhs"} => f.node # 0 /\ ns[f.node].op \in Ops
  /\ f.pc \in {"rhs", "else"} => Len(f.vals) = 1
  /\ f.pc \in {"then", "else"} => Len(f.blks) = 3
  /\ f.pc \in {"args", "arg", "body"} => f.fn # 0
  /\ f.pc \in {"block", "stmt"} => f.node # 0
  /\ f.pc = "body" => f.node # 0 /\ ns[f.node].type = "FUNCDEF"

FrameOf(ns, fs) ==
  {f \in [pc: Labels, node: 0..Len(ns), vals: Seq(ValueOf(Len(fs))),
          blks: Seq(Places(fs)), fn: 0..Len(fs)] : Fits(f, ns)}

(* Only the bottom frame, that of lilc_eval or lilc_emit, is never        *)
(* returned from.                                                         *)
IsStack(s, ns, fs) ==
  /\ s \in Seq(FrameOf(ns, fs))
  /\ Len(s) >= 1
  /\ \A i \in 1..Len(s) : i = 1 <=> s[i].pc \in Base

IsPlace(pos, fs) == pos = <<0, 0>> \/ pos \in Places(fs)

Hazard == {"uninit", "dangling", "type", "arity"}

Plain ==
  /\ mode \in Modes
  /\ ub \subseteq Hazard
  /\ status \in {"running", "done", "failed", "killed"}

Typed ==
  /\ ast \in Seq(Node)
  /\ funcs \in Seq(Function)
  /\ ret \in ValueOf(Len(funcs))
  /\ named_vals \in [ParamNames -> ValueOf(Len(funcs))]
  /\ IsPlace(at, funcs)
  /\ at = <<0, 0>> => Len(funcs) = 0

TypeInv == Plain /\ Typed /\ IsStack(stack, ast, funcs)

(* Nodes are only added, and only the list of its children changes. *)
Kept(ns, bs) ==
  /\ Len(ns) <= Len(bs)
  /\ \A n \in 1..Len(ns) : /\ bs[n].type = ns[n].type
                           /\ bs[n].name = ns[n].name
                           /\ bs[n].op = ns[n].op
                           /\ bs[n].params = ns[n].params
                           /\ bs[n].scope = ns[n].scope
                           /\ bs[n].argc = ns[n].argc

(* Functions and their blocks are only added. *)
Grown(fs, gs) ==
  /\ Len(fs) <= Len(gs)
  /\ \A f \in 1..Len(fs) : Len(fs[f].blocks) <= Len(gs[f].blocks)

(* Only code was added to the functions. *)
Coding(fs, gs) ==
  /\ Len(gs) = Len(fs)
  /\ \A f \in 1..Len(fs) : /\ gs[f].state = fs[f].state
                           /\ gs[f].name = fs[f].name
                           /\ gs[f].arity = fs[f].arity
                           /\ Len(gs[f].blocks) = Len(fs[f].blocks)

-----------------------------------------------------------------------------
(* Numbers and sequences.                                                  *)

LEMMA GreatestExists ==
  ASSUME NEW n \in Nat, NEW T, T \subseteq 1..n, T # {}
  PROVE  \E i \in T : \A j \in T : j <= i
<1> DEFINE R == {s \in Nat \X Nat : s[1] < s[2]}
           U == {n - i : i \in T}
<1>1. U \subseteq Nat /\ U # {}
  <2>1. \A i \in T : n - i \in Nat
    OBVIOUS
  <2> QED
    BY <2>1
<1>2. PICK m \in U : \A y \in U : ~ (<<y, m>> \in R)
  <2> HIDE DEF U, R
  <2>1. IsWellFoundedOn(R, Nat)
    BY LessWellFounded DEF R
  <2> QED
    BY <1>1, <2>1, WFMin
<1>3. PICK i \in T : m = n - i
  OBVIOUS
<1>4. ASSUME NEW j \in T PROVE j <= i
  <2>1. n - j \in U /\ n - j \in Nat /\ m \in Nat
    BY <1>1
  <2>2. ~ (<<n - j, m>> \in R)
    BY <1>2, <2>1
  <2>3. ~ (n - j < m)
    BY <2>1, <2>2
  <2> QED
    BY <1>3, <2>1, <2>3
<1> QED
  BY <1>4

LEMMA Ranges ==
  /\ \A j, k \in Nat : j <= k => 0..j \subseteq 0..k
  /\ \A k \in Nat : \A i \in 0..k : i # 0 => i \in 1..k
  OBVIOUS

LEMMA SeqMono == ASSUME NEW S, NEW T, S \subseteq T PROVE Seq(S) \subseteq Seq(T)
  OBVIOUS

LEMMA EmptyType == ASSUME NEW S PROVE <<>> \in Seq(S) /\ Len(<<>>) = 0
  OBVIOUS

LEMMA OneType ==
  ASSUME NEW S, NEW v \in S
  PROVE  <<v>> \in Seq(S) /\ Len(<<v>>) = 1 /\ <<v>>[1] = v
  OBVIOUS

LEMMA AppendType ==
  ASSUME NEW S, NEW s \in Seq(S), NEW f \in S
  PROVE  /\ Append(s, f) \in Seq(S)
         /\ Len(Append(s, f)) = Len(s) + 1
         /\ Append(s, f)[Len(s) + 1] = f
         /\ \A i \in 1..Len(s) : Append(s, f)[i] = s[i]
  OBVIOUS

LEMMA ExceptType ==
  ASSUME NEW S, NEW s \in Seq(S), NEW i \in 1..Len(s), NEW f \in S
  PROVE  /\ [s EXCEPT ![i] = f] \in Seq(S)
         /\ Len([s EXCEPT ![i] = f]) = Len(s)
         /\ [s EXCEPT ![i] = f][i] = f
         /\ \A j \in 1..Len(s) : j # i => [s EXCEPT ![i] = f][j] = s[j]
  OBVIOUS

LEMMA PopType ==
  ASSUME NEW S, NEW s \in Seq(S), Len(s) >= 2
  PROVE  /\ SubSeq(s, 1, Len(s) - 1) \in Seq(S)
         /\ Len(SubSeq(s, 1, Len(s) - 1)) = Len(s) - 1
         /\ \A i \in 1..(Len(s) - 1) : SubSeq(s, 1, Len(s) - 1)[i] = s[i]
  OBVIOUS

-----------------------------------------------------------------------------
(* Values, positions and frames stay what they are while the AST and the   *)
(* module grow.                                                            *)

LEMMA ConstType ==
  /\ NULL \in ValueOf(0)
  /\ \A n \in Num : Const(n) \in ValueOf(0)
  /\ \A m \in Nat : \A f \in 0..m, i \in Nat :
       Param(f, i) \in ValueOf(m) /\ Func(f) \in ValueOf(m)
  BY CodegenAssumption DEF ValueOf, NULL, Const, Param, Func

LEMMA ValueMono ==
  ASSUME NEW j \in Nat, NEW k \in Nat, j <= k
  PROVE  ValueOf(j) \subseteq ValueOf(k) /\ ValueOf(k) \subseteq Value
<1>1. 0..j \subseteq 0..k /\ 0..k \subseteq Nat
  OBVIOUS
<1> QED
  BY <1>1 DEF ValueOf, Value

LEMMA ValueFields ==
  ASSUME NEW m, NEW v \in ValueOf(m)
  PROVE  /\ v.kind \in {"null", "const", "param", "instr", "func"}
         /\ v.fn \in 0..m /\ v.blk \in Nat /\ v.i \in Nat
         /\ v.kind = "const" => v.i \in Num
  BY DEF ValueOf

LEMMA FunctionFields ==
  ASSUME NEW fs \in Seq(Function)
  PROVE  /\ Len(fs) \in Nat
         /\ \A f \in 1..Len(fs) :
              /\ fs[f] \in Function
              /\ fs[f].name \in FuncNames /\ fs[f].arity \in Nat
              /\ fs[f].blocks \in Seq(Seq(Instr))
              /\ fs[f].state \in {"open", "verified", "dropped", "rejected"}
              /\ fs[f].def \in Nat
              /\ Len(fs[f].blocks) \in Nat
<1>1. ASSUME NEW f \in 1..Len(fs)
      PROVE  /\ fs[f] \in Function
             /\ fs[f].name \in FuncNames /\ fs[f].arity \in Nat
             /\ fs[f].blocks \in Seq(Seq(Instr))
             /\ fs[f].state \in {"open", "verified", "dropped", "rejected"}
             /\ fs[f].def \in Nat
  <2>1. fs[f] \in Function
    OBVIOUS
  <2> QED
    BY <2>1 DEF Function
<1> QED
  BY <1>1, LenProperties

LEMMA PlaceMono ==
  ASSUME NEW fs \in Seq(Function), NEW gs \in Seq(Function), Grown(fs, gs)
  PROVE  /\ Places(fs) \subseteq Places(gs)
         /\ \A pos : IsPlace(pos, fs) => IsPlace(pos, gs)
<1>1. Len(fs) \in Nat /\ Len(gs) \in Nat /\ Len(fs) <= Len(gs)
  BY DEF Grown
<1>2. ASSUME NEW pos \in Places(fs) PROVE pos \in Places(gs)
  <2>1. pos \in Pos /\ pos[1] \in 1..Len(fs) /\ pos[2] \in Blocks(fs, pos[1])
    BY DEF Places
  <2>2. Len(fs[pos[1]].blocks) <= Len(gs[pos[1]].blocks)
    BY <2>1 DEF Grown
  <2>3. pos[1] \in 1..Len(gs)
    BY <1>1, <2>1
  <2>4. Len(fs[pos[1]].blocks) \in Nat /\ Len(gs[pos[1]].blocks) \in Nat
    BY <2>1, <2>3, FunctionFields
  <2> QED
    BY <1>1, <2>1, <2>2, <2>3, <2>4 DEF Places, Blocks
<1> QED
  BY <1>2 DEF IsPlace

LEMMA FrameFields ==
  ASSUME NEW ns \in Seq(Node), NEW fs \in Seq(Function), NEW f \in FrameOf(ns, fs)
  PROVE  /\ f \in [pc: Labels, node: 0..Len(ns), vals: Seq(ValueOf(Len(fs))),
                   blks: Seq(Places(fs)), fn: 0..Len(fs)]
         /\ f.pc \in Labels /\ f.node \in 0..Len(ns)
         /\ f.vals \in Seq(ValueOf(Len(fs))) /\ f.blks \in Seq(Places(fs))
         /\ f.fn \in 0..Len(fs)
         /\ Fits(f, ns)
  BY DEF FrameOf

LEMMA FrameMono ==
  ASSUME NEW ns \in Seq(Node), NEW bs \in Seq(Node), Kept(ns, bs),
         NEW fs \in Seq(Function), NEW gs \in Seq(Function), Grown(fs, gs)
  PROVE  FrameOf(ns, fs) \subseteq FrameOf(bs, gs)
<1>1. 0..Len(ns) \subseteq 0..Len(bs) /\ 0..Len(fs) \subseteq 0..Len(gs)
  <2>1. Len(ns) <= Len(bs) /\ Len(fs) <= Len(gs)
    BY DEF Kept, Grown
  <2>2. Len(fs) \in Nat /\ Len(gs) \in Nat /\ Len(ns) \in Nat /\ Len(bs) \in Nat
    BY LenProperties
  <2> QED
    BY <2>1, <2>2, Ranges
<1>2. Seq(Places(fs)) \subseteq Seq(Places(gs))
  BY PlaceMono, SeqMono
<1>3. Seq(ValueOf(Len(fs))) \subseteq Seq(ValueOf(Len(gs)))
  <2>1. ValueOf(Len(fs)) \subseteq ValueOf(Len(gs))
    BY ValueMono DEF Grown
  <2> QED
    BY <2>1, SeqMono
<1>4. ASSUME NEW f \in FrameOf(ns, fs) PROVE f \in FrameOf(bs, gs)
  <2>1. f \in [pc: Labels, node: 0..Len(ns), vals: Seq(ValueOf(Len(fs))),
               blks: Seq(Places(fs)), fn: 0..Len(fs)] /\ Fits(f, ns)
    BY FrameFields
  <2>2. f \in [pc: Labels, node: 0..Len(bs), vals: Seq(ValueOf(Len(gs))),
               blks: Seq(Places(gs)), fn: 0..Len(gs)]
    BY <1>1, <1>2, <1>3, <2>1
  <2>3. f.node # 0 => f.node \in 1..Len(ns)
    <3>1. f.node \in 0..Len(ns) /\ Len(ns) \in Nat
      BY FrameFields, LenProperties
    <3> QED
      BY <3>1, Ranges
  <2>4. Fits(f, bs)
    BY <2>1, <2>3 DEF Fits, Kept
  <2> QED
    BY <2>2, <2>4 DEF FrameOf
<1> QED
  BY <1>4

LEMMA StackMono ==
  ASSUME NEW ns \in Seq(Node), NEW bs \in Seq(Node), Kept(ns, bs),
         NEW fs \in Seq(Function), NEW gs \in Seq(Function), Grown(fs, gs),
         NEW s, IsStack(s, ns, fs)
  PROVE  IsStack(s, bs, gs)
  BY FrameMono, SeqMono DEF IsStack

LEMMA Same ==
  /\ \A ns \in Seq(Node) : Kept(ns, ns)
  /\ \A fs \in Seq(Function) : Grown(fs, fs) /\ Coding(fs, fs)
  BY FunctionFields DEF Kept, Grown, Coding

LEMMA CodingGrows ==
  ASSUME NEW fs \in Seq(Function), NEW gs, Coding(fs, gs)
  PROVE  Grown(fs, gs)
<1>1. \A f \in 1..Len(fs) : Len(fs[f].blocks) \in Nat /\ Len(fs) \in Nat
  BY FunctionFields
<1>2. \A f \in 1..Len(fs) : Len(gs[f].blocks) = Len(fs[f].blocks)
  BY DEF Coding
<1>3. \A f \in 1..Len(fs) : Len(fs[f].blocks) <= Len(gs[f].blocks)
  BY <1>1, <1>2
<1> QED
  BY <1>3, FunctionFields DEF Grown, Coding

-----------------------------------------------------------------------------
(* Instructions and their values.                                          *)

Opcode == Ops \cup Terminators \cup {"ONE", "call", "phi"}

LEMMA PlaceFields ==
  ASSUME NEW fs \in Seq(Function), NEW pos, IsPlace(pos, fs), pos[1] # 0
  PROVE  /\ pos \in Places(fs)
         /\ pos[1] \in 1..Len(fs)
         /\ pos[2] \in Nat
         /\ pos[2] \in 1..Len(fs[pos[1]].blocks)
         /\ fs[pos[1]].blocks \in Seq(Seq(Instr))
         /\ fs[pos[1]].blocks[pos[2]] \in Seq(Instr)
<1>1. pos \in Places(fs)
  BY DEF IsPlace
<1>2. pos[1] \in 1..Len(fs) /\ pos[2] \in Blocks(fs, pos[1]) /\ pos \in Pos
  BY <1>1 DEF Places
<1>3. fs[pos[1]].blocks \in Seq(Seq(Instr))
  BY <1>2, FunctionFields
<1>4. pos[2] \in 1..Len(fs[pos[1]].blocks)
  BY <1>2 DEF Blocks
<1>5. fs[pos[1]].blocks[pos[2]] \in Seq(Instr)
  BY <1>3, <1>4, ElementOfSeq
<1>6. pos[2] \in Nat
  BY <1>2 DEF Pos
<1> QED
  BY <1>1, <1>2, <1>3, <1>4, <1>5, <1>6

LEMMA BlocksType ==
  ASSUME NEW x \in Function, NEW bs \in Seq(Seq(Instr))
  PROVE  /\ [x EXCEPT !.blocks = bs] \in Function
         /\ [x EXCEPT !.blocks = bs].blocks = bs
         /\ [x EXCEPT !.blocks = bs].state = x.state
         /\ [x EXCEPT !.blocks = bs].name = x.name
         /\ [x EXCEPT !.blocks = bs].arity = x.arity
         /\ [x EXCEPT !.blocks = bs].def = x.def
  BY DEF Function

LEMMA InsertType ==
  ASSUME NEW fs \in Seq(Function), NEW pos, IsPlace(pos, fs),
         NEW op \in Opcode, NEW args \in Seq(Value), NEW to \in Seq(Pos),
         NEW callee \in Nat
  PROVE  /\ Insert(fs, pos, op, args, to, callee) \in Seq(Function)
         /\ Coding(fs, Insert(fs, pos, op, args, to, callee))
<1>1. CASE Folds(op, args) \/ pos[1] = 0
  BY <1>1, Same DEF Insert
<1>2. CASE ~ (Folds(op, args) \/ pos[1] = 0)
  <2> DEFINE x == [op |-> op, args |-> args, to |-> to, callee |-> callee]
             f == pos[1]
             b == pos[2]
             code == Append(fs[f].blocks[b], x)
             bs == [fs[f].blocks EXCEPT ![b] = code]
             g == [fs[f] EXCEPT !.blocks = bs]
  <2>1. x \in Instr
    BY DEF Instr, Opcode
  <2>2. /\ f \in 1..Len(fs) /\ b \in 1..Len(fs[f].blocks)
        /\ fs[f].blocks \in Seq(Seq(Instr)) /\ fs[f].blocks[b] \in Seq(Instr)
        /\ fs[f] \in Function
    BY <1>2, PlaceFields, FunctionFields
  <2>3. Insert(fs, pos, op, args, to, callee) = [fs EXCEPT ![f] = g]
    BY <1>2 DEF Insert
  <2> HIDE DEF x, f, b
  <2>4. code \in Seq(Instr)
    BY <2>1, <2>2, AppendType
  <2> HIDE DEF code
  <2>5. bs \in Seq(Seq(Instr)) /\ Len(bs) = Len(fs[f].blocks)
    BY <2>2, <2>4, ExceptType
  <2> HIDE DEF bs
  <2>6. /\ g \in Function /\ g.blocks = bs /\ g.state = fs[f].state
        /\ g.name = fs[f].name /\ g.arity = fs[f].arity
    BY <2>2, <2>5, BlocksType
  <2> HIDE DEF g
  <2>7. /\ [fs EXCEPT ![f] = g] \in Seq(Function)
        /\ Len([fs EXCEPT ![f] = g]) = Len(fs)
        /\ [fs EXCEPT ![f] = g][f] = g
        /\ \A h \in 1..Len(fs) : h # f => [fs EXCEPT ![f] = g][h] = fs[h]
    BY <2>2, <2>6, ExceptType
  <2> DEFINE gs == [fs EXCEPT ![f] = g]
  <2> HIDE DEF gs
  <2>8. Coding(fs, gs)
    <3>1. ASSUME NEW h \in 1..Len(fs)
          PROVE  /\ gs[h].state = fs[h].state /\ gs[h].name = fs[h].name
                 /\ gs[h].arity = fs[h].arity
                 /\ Len(gs[h].blocks) = Len(fs[h].blocks)
      BY <2>5, <2>6, <2>7 DEF gs
    <3> QED
      BY <2>7, <3>1 DEF Coding, gs
  <2> QED
    BY <2>3, <2>7, <2>8 DEF gs
<1> QED
  BY <1>1, <1>2

LEMMA ResultType ==
  ASSUME NEW fs \in Seq(Function), NEW pos, IsPlace(pos, fs),
         NEW op \in Opcode, NEW args \in Seq(ValueOf(Len(fs))),
         op \in Ops => Len(args) = 2, op = "ONE" => Len(args) = 1
  PROVE  Result(fs, pos, op, args) \in ValueOf(Len(fs))
<1>0. Len(fs) \in Nat
  BY LenProperties
<1>1. CASE Folds(op, args)
  <2>1. \A i \in 1..Len(args) : args[i].i \in Num
    <3>1. ASSUME NEW i \in 1..Len(args) PROVE args[i].i \in Num
      <4>1. args[i] \in ValueOf(Len(fs)) /\ args[i].kind = "const"
        BY <1>1, ElementOfSeq DEF Folds
      <4> QED
        BY <4>1, ValueFields
    <3> QED
      BY <3>1
  <2>2. CASE op = "ONE"
    <3>1. Result(fs, pos, op, args) \in {Const(0), Const(1)}
      BY <1>1, <2>2 DEF Result, Fold
    <3> QED
      BY <1>0, <3>1, ConstType, ValueMono, CodegenAssumption
  <2>3. CASE op # "ONE"
    <3>1. op \in Ops /\ Len(args) = 2
      BY <1>1, <2>3 DEF Folds
    <3>2. args[1].i \in Num /\ args[2].i \in Num
      BY <2>1, <3>1
    <3>3. Arith[<<op, args[1].i, args[2].i>>] \in Num
      BY <3>1, <3>2, CodegenAssumption
    <3>4. Result(fs, pos, op, args) = Const(Arith[<<op, args[1].i, args[2].i>>])
      BY <1>1, <2>3 DEF Result, Fold
    <3> QED
      BY <1>0, <3>3, <3>4, ConstType, ValueMono
  <2> QED
    BY <2>2, <2>3
<1>2. CASE ~ Folds(op, args) /\ pos[1] = 0
  <2>1. pos = <<0, 0>>
    BY <1>2 DEF IsPlace, Places
  <2>2. Result(fs, pos, op, args) = [kind |-> "instr", fn |-> 0, blk |-> 0, i |-> 0]
    BY <1>2, <2>1 DEF Result
  <2> QED
    BY <1>0, <2>2 DEF ValueOf
<1>3. CASE ~ Folds(op, args) /\ pos[1] # 0
  <2>1. /\ pos[1] \in 1..Len(fs) /\ pos[2] \in Nat
        /\ fs[pos[1]].blocks[pos[2]] \in Seq(Instr)
    BY <1>3, PlaceFields
  <2>2. Len(fs[pos[1]].blocks[pos[2]]) + 1 \in Nat
    <3>1. \A s \in Seq(Instr) : Len(s) + 1 \in Nat
      OBVIOUS
    <3> QED
      BY <2>1, <3>1
  <2>3. Result(fs, pos, op, args) =
          [kind |-> "instr", fn |-> pos[1], blk |-> pos[2],
           i |-> Len(fs[pos[1]].blocks[pos[2]]) + 1]
    BY <1>3 DEF Result
  <2>4. pos[1] \in 0..Len(fs)
    BY <1>0, <2>1
  <2> QED
    BY <2>1, <2>2, <2>3, <2>4 DEF ValueOf
<1> QED
  BY <1>1, <1>2, <1>3

-----------------------------------------------------------------------------
(* Nodes and frames.                                                       *)

LEMMA NodeFields ==
  ASSUME NEW x \in Node
  PROVE  /\ x.type \in NodeType /\ x.op \in Ops \cup {"-"}
         /\ x.params \in Seq(ParamNames) /\ x.argc \in Nat
         /\ x.kids \in Seq(Nat) /\ x.scope \in Nat
  BY DEF Node

LEMMA NewNodeType ==
  ASSUME NEW type \in NodeType, NEW scope \in Nat
  PROVE  /\ NewNode(type, scope) \in Node
         /\ NewNode(type, scope).type = type
         /\ NewNode(type, scope).scope = scope
<1>1. <<>> \in Seq(ParamNames) /\ <<>> \in Seq(Nat) /\ 0 \in Num
  BY EmptyType, CodegenAssumption
<1> QED
  BY <1>1 DEF NewNode, Node

LEMMA ScopeType ==
  ASSUME ast \in Seq(Node), NEW p \in 0..Len(ast)
  PROVE  ScopeOf(p) \in Nat
<1>1. p # 0 => p \in 1..Len(ast)
  BY Ranges, LenProperties
<1>2. p # 0 => ast[p] \in Node
  BY <1>1, ElementOfSeq
<1>3. p # 0 => ast[p].scope \in Nat
  BY <1>2, NodeFields
<1>4. p \in Nat
  BY LenProperties
<1> QED
  BY <1>3, <1>4 DEF ScopeOf

(* The AST in which node p has a new child. *)
LEMMA AdoptType ==
  ASSUME ast \in Seq(Node), NEW p \in 0..Len(ast), NEW ns,
         ns = IF p = 0 THEN ast ELSE [ast EXCEPT ![p].kids = Append(@, Len(ast) + 1)]
  PROVE  ns \in Seq(Node) /\ Len(ns) = Len(ast) /\ Kept(ast, ns)
<1>1. CASE p = 0
  BY <1>1, Same
<1>2. CASE p # 0
  <2> DEFINE kids == Append(ast[p].kids, Len(ast) + 1)
             x == [ast[p] EXCEPT !.kids = kids]
  <2>1. p \in 1..Len(ast) /\ Len(ast) + 1 \in Nat
    BY <1>2, Ranges, LenProperties
  <2>2. ast[p] \in Node
    BY <2>1, ElementOfSeq
  <2>3. kids \in Seq(Nat)
    BY <2>1, <2>2, NodeFields, AppendType
  <2>4. ns = [ast EXCEPT ![p] = x]
    BY <1>2
  <2> DEFINE ms == [ast EXCEPT ![p] = x]
  <2> HIDE DEF kids
  <2>5. /\ x \in Node /\ x.type = ast[p].type /\ x.scope = ast[p].scope
        /\ x.name = ast[p].name /\ x.op = ast[p].op /\ x.params = ast[p].params
        /\ x.argc = ast[p].argc
    BY <2>2, <2>3 DEF Node
  <2> HIDE DEF x
  <2>6. /\ ms \in Seq(Node) /\ Len(ms) = Len(ast) /\ ms[p] = x
        /\ \A n \in 1..Len(ast) : n # p => ms[n] = ast[n]
    BY <2>1, <2>5, ExceptType
  <2> HIDE DEF ms
  <2>7. Len(ast) \in Nat
    BY LenProperties
  <2>8. ms \in Seq(Node) /\ Len(ms) = Len(ast) /\ Kept(ast, ms)
    BY <2>5, <2>6, <2>7 DEF Kept
  <2> QED
    BY <2>4, <2>8 DEF ms
<1> QED
  BY <1>1, <1>2

LEMMA AddNode ==
  ASSUME NEW ns \in Seq(Node), NEW x \in Node
  PROVE  /\ Append(ns, x) \in Seq(Node)
         /\ Len(Append(ns, x)) = Len(ns) + 1
         /\ Append(ns, x)[Len(ns) + 1] = x
         /\ Kept(ns, Append(ns, x))
<1>1. /\ Append(ns, x) \in Seq(Node) /\ Len(Append(ns, x)) = Len(ns) + 1
      /\ Append(ns, x)[Len(ns) + 1] = x
      /\ \A n \in 1..Len(ns) : Append(ns, x)[n] = ns[n]
  BY AppendType
<1>2. Len(ns) \in Nat
  BY LenProperties
<1> QED
  BY <1>1, <1>2 DEF Kept

LEMMA KeptTwice ==
  ASSUME NEW ns \in Seq(Node), NEW bs \in Seq(Node), NEW cs \in Seq(Node),
         Kept(ns, bs), Kept(bs, cs)
  PROVE  Kept(ns, cs)
<1>1. Len(ns) \in Nat /\ Len(bs) \in Nat /\ Len(cs) \in Nat
  BY LenProperties
<1> QED
  BY <1>1 DEF Kept

LEMMA MeetType ==
  ASSUME ast \in Seq(Node), NEW p \in 0..Len(ast), NEW x \in Node, Meet(p, x)
  PROVE  /\ ast' \in Seq(Node)
         /\ Len(ast') = Len(ast) + 1
         /\ ast'[Len(ast) + 1] = x
         /\ Kept(ast, ast')
<1> DEFINE ns == IF p = 0 THEN ast
                 ELSE [ast EXCEPT ![p].kids = Append(@, Len(ast) + 1)]
<1>1. ns \in Seq(Node) /\ Len(ns) = Len(ast) /\ Kept(ast, ns)
  BY AdoptType
<1>2. ast' = Append(ns, x)
  BY DEF Meet
<1> HIDE DEF ns
<1>3. /\ Append(ns, x) \in Seq(Node) /\ Len(Append(ns, x)) = Len(ns) + 1
      /\ Append(ns, x)[Len(ns) + 1] = x /\ Kept(ns, Append(ns, x))
  BY <1>1, AddNode
<1> QED
  BY <1>1, <1>2, <1>3, KeptTwice

FrameIn(nodes, values, places, fns) ==
  [pc: Labels, node: nodes, vals: Seq(values), blks: Seq(places), fn: fns]

(* g is a frame with these components. *)
Holds(g, pc, node, vals, blks, fn) ==
  g.pc = pc /\ g.node = node /\ g.vals = vals /\ g.blks = blks /\ g.fn = fn

LEMMA NewFrameType ==
  ASSUME NEW ns \in Seq(Node), NEW fs \in Seq(Function), NEW pc \in Labels,
         NEW node \in 0..Len(ns), Fits(NewFrame(pc, node), ns)
  PROVE  NewFrame(pc, node) \in FrameOf(ns, fs)
<1>1. 0 \in 0..Len(fs)
  BY LenProperties
<1> QED
  BY <1>1, EmptyType DEF NewFrame, FrameOf

-----------------------------------------------------------------------------
(* The stack, and what remains of the invariant while others grow.         *)

Growing == /\ ast' \in Seq(Node) /\ funcs' \in Seq(Function)
           /\ Kept(ast, ast') /\ Grown(funcs, funcs')

LEMMA TopType ==
  ASSUME NEW ns, NEW fs, IsStack(stack, ns, fs)
  PROVE  /\ Top \in FrameOf(ns, fs)
         /\ stack \in Seq(FrameOf(ns, fs))
         /\ Len(stack) \in Nat /\ Len(stack) >= 1
         /\ Top.pc \notin Base => Len(stack) >= 2
<1>1. /\ stack \in Seq(FrameOf(ns, fs)) /\ Len(stack) >= 1 /\ Len(stack) \in Nat
      /\ \A i \in 1..Len(stack) : i = 1 <=> stack[i].pc \in Base
  BY LenProperties DEF IsStack
<1>2. Top \in FrameOf(ns, fs)
  BY <1>1, ElementOfSeq DEF Top
<1> QED
  BY <1>1, <1>2 DEF Top

LEMMA Growth ==
  ASSUME TypeInv, Growing
  PROVE  /\ IsStack(stack, ast', funcs')
         /\ Top \in FrameOf(ast', funcs')
         /\ ret \in ValueOf(Len(funcs'))
         /\ named_vals \in [ParamNames -> ValueOf(Len(funcs'))]
         /\ IsPlace(at, funcs')
<1>1. IsStack(stack, ast', funcs')
  BY StackMono DEF TypeInv, Typed, Growing
<1>2. Len(funcs) \in Nat /\ Len(funcs') \in Nat /\ Len(funcs) <= Len(funcs')
  BY LenProperties DEF TypeInv, Typed, Growing, Grown
<1>3. ValueOf(Len(funcs)) \subseteq ValueOf(Len(funcs'))
  BY <1>2, ValueMono
<1>4. IsPlace(at, funcs')
  BY PlaceMono DEF TypeInv, Typed, Growing
<1> QED
  BY <1>1, <1>3, <1>4, TopType DEF TypeInv, Typed

LEMMA StillGrowing ==
  ASSUME TypeInv, UNCHANGED ast, funcs' \in Seq(Function), Coding(funcs, funcs')
  PROVE  Growing
  BY Same, CodingGrows DEF TypeInv, Typed, Growing

LEMMA Unmoved ==
  ASSUME TypeInv, UNCHANGED <<ast, funcs>>
  PROVE  Growing
  BY Same DEF TypeInv, Typed, Growing

LEMMA ReturnInv ==
  ASSUME TypeInv, Growing, Top.pc \notin Base,
         NEW v \in ValueOf(Len(funcs')), Return(v)
  PROVE  IsStack(stack', ast', funcs') /\ ret' \in ValueOf(Len(funcs'))
<1>1. /\ stack \in Seq(FrameOf(ast', funcs')) /\ Len(stack) >= 2
      /\ \A i \in 1..Len(stack) : i = 1 <=> stack[i].pc \in Base
  BY Growth, TopType DEF IsStack
<1>2. /\ stack' \in Seq(FrameOf(ast', funcs')) /\ Len(stack') = Len(stack) - 1
      /\ \A i \in 1..(Len(stack) - 1) : stack'[i] = stack[i]
  BY <1>1, PopType DEF Return
<1> QED
  BY <1>1, <1>2 DEF IsStack, Return

LEMMA ResumeType ==
  ASSUME NEW S, stack \in Seq(S), Len(stack) >= 1, NEW f \in S
  PROVE  /\ Resume(f) \in Seq(S)
         /\ Len(Resume(f)) = Len(stack)
         /\ Resume(f)[Len(stack)] = f
         /\ \A i \in 1..(Len(stack) - 1) : Resume(f)[i] = stack[i]
  BY DEF Resume

LEMMA ResumeInv ==
  ASSUME TypeInv, Growing, NEW f \in FrameOf(ast', funcs'),
         f.pc \in Base <=> Top.pc \in Base
  PROVE  IsStack(Resume(f), ast', funcs')
<1>1. /\ stack \in Seq(FrameOf(ast', funcs')) /\ Len(stack) >= 1
      /\ \A i \in 1..Len(stack) : i = 1 <=> stack[i].pc \in Base
  BY Growth, TopType DEF IsStack
<1>2. /\ Resume(f) \in Seq(FrameOf(ast', funcs'))
      /\ Len(Resume(f)) = Len(stack)
      /\ Resume(f)[Len(stack)] = f
      /\ \A i \in 1..(Len(stack) - 1) : Resume(f)[i] = stack[i]
  BY <1>1, ResumeType
<1>3. ASSUME NEW i \in 1..Len(stack)
      PROVE  i = 1 <=> Resume(f)[i].pc \in Base
  <2>1. CASE i = Len(stack)
    BY <1>1, <1>2, <2>1 DEF Top
  <2>2. CASE i # Len(stack)
    BY <1>1, <1>2, <2>2
  <2> QED
    BY <2>1, <2>2
<1> QED
  BY <1>1, <1>2, <1>3 DEF IsStack

LEMMA PushInv ==
  ASSUME NEW ns, NEW fs, NEW s, IsStack(s, ns, fs),
         NEW g \in FrameOf(ns, fs), g.pc \notin Base
  PROVE  IsStack(Append(s, g), ns, fs)
<1>1. /\ s \in Seq(FrameOf(ns, fs)) /\ Len(s) >= 1
      /\ \A i \in 1..Len(s) : i = 1 <=> s[i].pc \in Base
  BY DEF IsStack
<1>2. /\ Append(s, g) \in Seq(FrameOf(ns, fs))
      /\ Len(Append(s, g)) = Len(s) + 1
      /\ Append(s, g)[Len(s) + 1] = g
      /\ \A i \in 1..Len(s) : Append(s, g)[i] = s[i]
  BY <1>1, AppendType
<1>3. ASSUME NEW i \in 1..(Len(s) + 1)
      PROVE  i = 1 <=> Append(s, g)[i].pc \in Base
  <2>1. CASE i = Len(s) + 1
    BY <1>1, <1>2, <2>1
  <2>2. CASE i # Len(s) + 1
    BY <1>1, <1>2, <2>2
  <2> QED
    BY <2>1, <2>2
<1> QED
  BY <1>1, <1>2, <1>3 DEF IsStack

(* The frame as it is, for the lemma about changed components. *)
LEMMA AsFrameIn ==
  ASSUME NEW ns \in Seq(Node), NEW fs \in Seq(Function)
  PROVE  FrameOf(ns, fs) =
           {f \in FrameIn(0..Len(ns), ValueOf(Len(fs)), Places(fs), 0..Len(fs)) :
              Fits(f, ns)}
  BY DEF FrameOf, FrameIn

(* A call of do_codegen on an expression. *)
LEMMA CallInv ==
  ASSUME TypeInv, Growing, NEW f \in FrameOf(ast', funcs'),
         f.pc \in Base <=> Top.pc \in Base, CallExpr(f)
  PROVE  IsStack(stack', ast', funcs')
<1>1. NewFrame("expr", f.node) \in FrameOf(ast', funcs')
  <2>1. f.node \in 0..Len(ast')
    BY FrameFields DEF Growing
  <2>2. "expr" \in Labels /\ NewFrame("expr", f.node).pc = "expr"
    BY DEF Labels, NewFrame
  <2>3. Fits(NewFrame("expr", f.node), ast')
    BY <2>2 DEF Fits
  <2> QED
    BY <2>1, <2>2, <2>3, NewFrameType DEF Growing
<1>2. NewFrame("expr", f.node).pc \notin Base
  BY DEF NewFrame, Base
<1>3. IsStack(Resume(f), ast', funcs')
  BY ResumeInv
<1> QED
  BY <1>1, <1>2, <1>3, PushInv DEF CallExpr

LEMMA BelowType ==
  ASSUME TypeInv, NEW type \in NodeType
  PROVE  /\ Below(type) \in Node /\ Below(type).type = type
         /\ Below(type).scope = ScopeOf(Top.node)
         /\ Top.node \in 0..Len(ast)
<1>1. Top.node \in 0..Len(ast)
  BY TopType, FrameFields DEF TypeInv, Typed
<1>2. ScopeOf(Top.node) \in Nat
  BY <1>1, ScopeType DEF TypeInv, Typed
<1> QED
  BY <1>1, <1>2, NewNodeType DEF Below

LEMMA MeetInv ==
  ASSUME TypeInv, NEW p \in 0..Len(ast), NEW x \in Node, Meet(p, x)
  PROVE  /\ ast' \in Seq(Node)
         /\ Len(ast') = Len(ast) + 1
         /\ Len(ast') = Fresh
         /\ Fresh \in 0..Len(ast') /\ Fresh # 0
         /\ ast'[Fresh] = x
         /\ Kept(ast, ast')
         /\ UNCHANGED funcs => Growing
<1>1. /\ ast' \in Seq(Node) /\ Len(ast') = Len(ast) + 1
      /\ ast'[Len(ast) + 1] = x /\ Kept(ast, ast')
  BY MeetType DEF TypeInv, Typed
<1>2. Len(ast) \in Nat
  BY LenProperties DEF TypeInv, Typed
<1> QED
  BY <1>1, <1>2, Same DEF Fresh, Growing, TypeInv, Typed

-----------------------------------------------------------------------------
(* Every action keeps the types.                                           *)

LEMMA TopExcept ==
  ASSUME TypeInv, Growing,
         NEW pc \in Labels, NEW node \in 0..Len(ast'),
         NEW vals \in Seq(ValueOf(Len(funcs'))),
         NEW blks \in Seq(Places(funcs')), NEW fn \in 0..Len(funcs')
  PROVE  /\ LET g == [Top EXCEPT !.pc = pc]
            IN /\ Holds(g, pc, Top.node, Top.vals, Top.blks, Top.fn)
               /\ Fits(g, ast') => g \in FrameOf(ast', funcs')
         /\ LET g == [Top EXCEPT !.pc = pc, !.node = node]
            IN /\ Holds(g, pc, node, Top.vals, Top.blks, Top.fn)
               /\ Fits(g, ast') => g \in FrameOf(ast', funcs')
         /\ LET g == [Top EXCEPT !.pc = pc, !.node = node, !.fn = fn]
            IN /\ Holds(g, pc, node, Top.vals, Top.blks, fn)
               /\ Fits(g, ast') => g \in FrameOf(ast', funcs')
         /\ LET g == [Top EXCEPT !.pc = pc, !.vals = vals]
            IN /\ Holds(g, pc, Top.node, vals, Top.blks, Top.fn)
               /\ Fits(g, ast') => g \in FrameOf(ast', funcs')
         /\ LET g == [Top EXCEPT !.pc = pc, !.blks = blks]
            IN /\ Holds(g, pc, Top.node, Top.vals, blks, Top.fn)
               /\ Fits(g, ast') => g \in FrameOf(ast', funcs')
         /\ LET g == [Top EXCEPT !.pc = pc, !.vals = vals, !.blks = blks]
            IN /\ Holds(g, pc, Top.node, vals, blks, Top.fn)
               /\ Fits(g, ast') => g \in FrameOf(ast', funcs')
<1> DEFINE I == FrameIn(0..Len(ast'), ValueOf(Len(funcs')), Places(funcs'), 0..Len(funcs'))
<1>1. FrameOf(ast', funcs') = {f \in I : Fits(f, ast')}
  BY AsFrameIn DEF Growing
<1>2. Top \in I
  BY <1>1, Growth
<1> HIDE DEF I
<1>3. /\ [Top EXCEPT !.pc = pc] \in I
      /\ Holds([Top EXCEPT !.pc = pc], pc, Top.node, Top.vals, Top.blks, Top.fn)
  BY <1>2 DEF FrameIn, Holds, I
<1>4. /\ [Top EXCEPT !.pc = pc, !.node = node] \in I
      /\ Holds([Top EXCEPT !.pc = pc, !.node = node], pc, node, Top.vals, Top.blks, Top.fn)
  BY <1>2 DEF FrameIn, Holds, I
<1>5. /\ [Top EXCEPT !.pc = pc, !.node = node, !.fn = fn] \in I
      /\ Holds([Top EXCEPT !.pc = pc, !.node = node, !.fn = fn], pc, node, Top.vals, Top.blks, fn)
  BY <1>2 DEF FrameIn, Holds, I
<1>6. /\ [Top EXCEPT !.pc = pc, !.vals = vals] \in I
      /\ Holds([Top EXCEPT !.pc = pc, !.vals = vals], pc, Top.node, vals, Top.blks, Top.fn)
  BY <1>2 DEF FrameIn, Holds, I
<1>7. /\ [Top EXCEPT !.pc = pc, !.blks = blks] \in I
      /\ Holds([Top EXCEPT !.pc = pc, !.blks = blks], pc, Top.node, Top.vals, blks, Top.fn)
  BY <1>2 DEF FrameIn, Holds, I
<1>8. /\ [Top EXCEPT !.pc = pc, !.vals = vals, !.blks = blks] \in I
      /\ Holds([Top EXCEPT !.pc = pc, !.vals = vals, !.blks = blks], pc, Top.node, vals, blks, Top.fn)
  BY <1>2 DEF FrameIn, Holds, I
<1> QED
  BY <1>1, <1>3, <1>4, <1>5, <1>6, <1>7, <1>8

LEMMA Assemble ==
  ASSUME TypeInv, Growing, NoCode, IsStack(stack', ast', funcs'),
         ret' \in ValueOf(Len(funcs'))
  PROVE  TypeInv'
<1>1. Plain'
  BY DEF NoCode, TypeInv, Plain
<1>2. /\ named_vals' \in [ParamNames -> ValueOf(Len(funcs'))] /\ IsPlace(at', funcs')
      /\ at' = <<0, 0>> => Len(funcs') = 0
  BY Growth DEF NoCode, TypeInv, Typed
<1> QED
  BY <1>1, <1>2 DEF Growing, TypeInv, Typed

LEMMA EnterDblType == ASSUME TypeInv, EnterDbl PROVE TypeInv'
<1>1. PICK n \in Literals : /\ Meet(Top.node, [Below("DBL") EXCEPT !.val = n])
                            /\ Return(Const(n))
  BY DEF EnterDbl
<1>2. n \in Num /\ "DBL" \in NodeType
  BY CodegenAssumption DEF NodeType
<1>3. [Below("DBL") EXCEPT !.val = n] \in Node /\ Top.node \in 0..Len(ast)
  <2>1. Below("DBL") \in Node /\ Top.node \in 0..Len(ast)
    BY <1>2, BelowType
  <2> QED
    BY <1>2, <2>1 DEF Node
<1>4. Growing
  BY <1>1, <1>3, MeetInv DEF EnterDbl, NoCode
<1>5. Const(n) \in ValueOf(Len(funcs'))
  BY <1>2, <1>4, ConstType, ValueMono, LenProperties DEF Growing
<1>6. Top.pc \notin Base
  BY DEF EnterDbl, At, Base
<1> QED
  BY <1>1, <1>4, <1>5, <1>6, ReturnInv, Assemble DEF EnterDbl

LEMMA EnterVarType == ASSUME TypeInv, EnterVar PROVE TypeInv'
<1>1. PICK x \in ParamNames : /\ Meet(Top.node, [Below("VAR") EXCEPT !.name = x])
                              /\ Return(named_vals[x])
  BY DEF EnterVar
<1>2. "VAR" \in NodeType
  BY DEF NodeType
<1>3. [Below("VAR") EXCEPT !.name = x] \in Node /\ Top.node \in 0..Len(ast)
  <2>1. \A y \in Node : [y EXCEPT !.name = x] \in Node
    BY DEF Node
  <2> QED
    BY <1>2, <2>1, BelowType
<1>4. Growing
  BY <1>1, <1>3, MeetInv DEF EnterVar, NoCode
<1>5. named_vals[x] \in ValueOf(Len(funcs'))
  BY <1>4, Growth
<1>6. Top.pc \notin Base
  BY DEF EnterVar, Enter, At, Base
<1> QED
  BY <1>1, <1>4, <1>5, <1>6, ReturnInv, Assemble DEF EnterVar

LEMMA EnterBinType == ASSUME TypeInv, EnterBin PROVE TypeInv'
<1>1. PICK op \in Ops : Meet(Top.node, [Below("BIN") EXCEPT !.op = op])
  BY DEF EnterBin
<1> DEFINE x == [Below("BIN") EXCEPT !.op = op]
           f == [Top EXCEPT !.pc = "lhs", !.node = Fresh]
<1>2. "BIN" \in NodeType /\ "lhs" \in Labels
  BY DEF NodeType, Labels
<1>3. x \in Node /\ x.op = op /\ Top.node \in 0..Len(ast)
  BY SMTT(40), <1>2, BelowType DEF Node
<1> HIDE DEF x
<1>4. Growing /\ ast'[Fresh] = x /\ Fresh \in 0..Len(ast') /\ Fresh # 0
  BY <1>1, <1>3, MeetInv DEF EnterBin, NoCode, x
<1>5. /\ Holds(f, "lhs", Fresh, Top.vals, Top.blks, Top.fn)
      /\ Fits(f, ast') => f \in FrameOf(ast', funcs')
  BY <1>2, <1>4, TopExcept, Growth, FrameFields DEF Growing
<1>6. CallExpr(f) /\ Top.pc \notin Base
  BY DEF EnterBin, Enter, At, Base
<1> HIDE DEF f
<1>7. f \in FrameOf(ast', funcs') /\ f.pc \notin Base
  BY <1>3, <1>4, <1>5 DEF Holds, Fits, Base
<1>8. IsStack(stack', ast', funcs')
  BY <1>4, <1>6, <1>7, CallInv
<1> QED
  BY <1>4, <1>8, Growth, Assemble DEF EnterBin

LEMMA TopFields ==
  ASSUME TypeInv, Growing
  PROVE  /\ Top.node \in 0..Len(ast') /\ Top.fn \in 0..Len(funcs')
         /\ Top.vals \in Seq(ValueOf(Len(funcs')))
         /\ Top.blks \in Seq(Places(funcs'))
         /\ Fits(Top, ast')
  BY Growth, FrameFields DEF Growing

LEMMA NullType == ASSUME NEW fs \in Seq(Function) PROVE NULL \in ValueOf(Len(fs))
  BY ConstType, ValueMono, LenProperties

LEMMA SomeFunctions == TypeInv => funcs \in Seq(Function) /\ Len(funcs) \in Nat
  BY LenProperties DEF TypeInv, Typed

LEMMA HazardsType == \A args : Hazards(args) \subseteq Hazard
  BY DEF Hazards, Hazard

LEMMA RhsType == ASSUME TypeInv, Rhs PROVE TypeInv'
<1> DEFINE f == [Top EXCEPT !.pc = "rhs", !.vals = <<ret>>]
<1>1. Growing
  BY Unmoved DEF Rhs, NoCode
<1>2. "rhs" \in Labels /\ Top.pc = "lhs" /\ CallExpr(f)
  BY DEF Labels, Rhs, At
<1>3. <<ret>> \in Seq(ValueOf(Len(funcs'))) /\ Len(<<ret>>) = 1
  BY SMTT(40), <1>1, Growth, OneType
<1>4. /\ Holds(f, "rhs", Top.node, <<ret>>, Top.blks, Top.fn)
      /\ Fits(f, ast') => f \in FrameOf(ast', funcs')
  BY <1>1, <1>2, <1>3, TopExcept, TopFields
<1> HIDE DEF f
<1>5. Fits(f, ast')
  BY <1>1, <1>2, <1>3, <1>4, TopFields DEF Holds, Fits
<1>6. f.pc \notin Base /\ Top.pc \notin Base
  BY <1>2, <1>4 DEF Holds, Base
<1>7. IsStack(stack', ast', funcs')
  BY <1>1, <1>2, <1>4, <1>5, <1>6, CallInv
<1> QED
  BY <1>1, <1>7, Growth, Assemble DEF Rhs

LEMMA BinArgs ==
  ASSUME TypeInv, At("rhs")
  PROVE  /\ ast[Top.node].op \in Ops
         /\ Top.vals[1] \in ValueOf(Len(funcs))
         /\ <<Top.vals[1], ret>> \in Seq(ValueOf(Len(funcs)))
         /\ Len(<<Top.vals[1], ret>>) = 2
<1>1. Top \in FrameOf(ast, funcs) /\ Top.pc = "rhs"
  BY TopType DEF TypeInv, At
<1>2. /\ Fits(Top, ast) /\ Top.vals \in Seq(ValueOf(Len(funcs)))
  BY <1>1, FrameFields DEF TypeInv, Typed
<1>3. ast[Top.node].op \in Ops /\ Len(Top.vals) = 1
  BY <1>1, <1>2 DEF Fits
<1>4. Top.vals[1] \in ValueOf(Len(funcs)) /\ ret \in ValueOf(Len(funcs))
  BY <1>2, <1>3, ElementOfSeq DEF TypeInv, Typed
<1> QED
  BY <1>3, <1>4

(* An instruction is built from values that exist. *)
LEMMA BuildType ==
  ASSUME NEW fs \in Seq(Function), NEW pos, IsPlace(pos, fs),
         NEW op \in Opcode, NEW args \in Seq(ValueOf(Len(fs))),
         NEW to \in Seq(Pos), NEW callee \in Nat
  PROVE  /\ Insert(fs, pos, op, args, to, callee) \in Seq(Function)
         /\ Coding(fs, Insert(fs, pos, op, args, to, callee))
<1>1. ValueOf(Len(fs)) \subseteq Value
  BY ValueMono, LenProperties
<1>2. args \in Seq(Value)
  BY <1>1, SeqMono
<1> QED
  BY <1>2, InsertType

LEMMA BinType == ASSUME TypeInv, Bin PROVE TypeInv'
<1> DEFINE op == ast[Top.node].op
           args == <<Top.vals[1], ret>>
<1>1. /\ op \in Ops /\ op \in Opcode /\ args \in Seq(ValueOf(Len(funcs)))
      /\ Len(args) = 2 /\ op # "ONE"
  <2>1. op \in Ops /\ args \in Seq(ValueOf(Len(funcs))) /\ Len(args) = 2
    BY BinArgs DEF Bin
  <2> QED
    BY <2>1, CodegenAssumption DEF Opcode
<1>2. Top.pc \notin Base
  BY DEF Bin, At, Base
<1>3. /\ funcs \in Seq(Function) /\ IsPlace(at, funcs) /\ Len(funcs) \in Nat
      /\ <<>> \in Seq(Pos)
  BY SomeFunctions, EmptyType DEF TypeInv, Typed
<1>4. CASE EitherFails(Top.vals[1], ret)
  <2>1. Return(NULL) /\ UNCHANGED <<mode, ast, at, named_vals, status, funcs, ub>>
    BY <1>4 DEF Bin
  <2>2. Growing
    BY <2>1, Unmoved
  <2>3. IsStack(stack', ast', funcs') /\ ret' \in ValueOf(Len(funcs'))
    BY <1>2, <2>1, <2>2, ReturnInv, NullType DEF Growing
  <2> QED
    BY <2>1, <2>2, <2>3, Assemble DEF NoCode
<1>5. CASE ~ EitherFails(Top.vals[1], ret)
  <2>1. /\ funcs' = Insert(funcs, at, op, args, <<>>, 0)
        /\ Return(Result(funcs, at, op, args))
        /\ ub' = ub \cup Hazards(args)
        /\ UNCHANGED <<mode, ast, at, named_vals, status>>
    BY <1>5 DEF Bin, Operands
  <2> HIDE DEF op, args
  <2>2. funcs' \in Seq(Function) /\ Coding(funcs, funcs')
    BY <1>1, <1>3, <2>1, BuildType
  <2>3. Growing /\ Len(funcs') = Len(funcs)
    BY <2>1, <2>2, StillGrowing DEF Coding
  <2>4. Result(funcs, at, op, args) \in ValueOf(Len(funcs'))
    BY <1>1, <1>3, <2>3, ResultType
  <2>5. IsStack(stack', ast', funcs') /\ ret' \in ValueOf(Len(funcs'))
    BY <1>2, <2>1, <2>3, <2>4, ReturnInv
  <2>6. Plain'
    BY <2>1, HazardsType DEF TypeInv, Plain
  <2> QED
    BY <2>1, <2>3, <2>5, <2>6, Growth DEF TypeInv, Typed, Growing
<1> QED
  BY <1>4, <1>5

LEMMA NamedType ==
  ASSUME NEW name
  PROVE  Named(name) # 0 => /\ Named(name) \in 1..Len(funcs)
                            /\ Live(Named(name))
                            /\ funcs[Named(name)].name = name
<1> DEFINE fs == {f \in 1..Len(funcs) : Live(f) /\ funcs[f].name = name}
<1>1. Named(name) = IF fs = {} THEN 0 ELSE CHOOSE f \in fs : TRUE
  BY DEF Named
<1> QED
  BY <1>1

LEMMA EnterCallType == ASSUME TypeInv, EnterCall PROVE TypeInv'
<1>1. PICK name \in FuncNames, argc \in 0..MaxArgs :
        /\ Meet(Top.node, [Below("CALL") EXCEPT !.name = name, !.argc = argc])
        /\ IF Callable(Named(name), argc)
             THEN /\ stack' = Resume([Top EXCEPT !.pc = "args", !.node = Fresh,
                                                 !.fn = Named(name)])
                  /\ UNCHANGED ret
             ELSE Return(NULL)
  BY DEF EnterCall
<1>2. "CALL" \in NodeType /\ "args" \in Labels /\ argc \in Nat
  BY CodegenAssumption DEF NodeType, Labels
<1>3. /\ [Below("CALL") EXCEPT !.name = name, !.argc = argc] \in Node
      /\ Top.node \in 0..Len(ast)
  <2>1. \A y \in Node : [y EXCEPT !.name = name, !.argc = argc] \in Node
    BY <1>2 DEF Node
  <2> QED
    BY <1>2, <2>1, BelowType
<1>4. Growing /\ Fresh \in 0..Len(ast') /\ Fresh # 0 /\ UNCHANGED funcs
  BY <1>1, <1>3, MeetInv DEF EnterCall, NoCode
<1>5. Top.pc \notin Base
  BY DEF EnterCall, Enter, At, Base
<1>6. CASE Callable(Named(name), argc)
  <2> DEFINE f == [Top EXCEPT !.pc = "args", !.node = Fresh, !.fn = Named(name)]
  <2>1. Named(name) \in 0..Len(funcs') /\ Named(name) # 0
    BY <1>4, <1>6, NamedType, SomeFunctions DEF Callable
  <2>2. /\ Holds(f, "args", Fresh, Top.vals, Top.blks, Named(name))
        /\ Fits(f, ast') => f \in FrameOf(ast', funcs')
    BY <1>2, <1>4, <2>1, TopExcept, TopFields
  <2>3. stack' = Resume(f) /\ UNCHANGED ret
    BY <1>1, <1>6
  <2> HIDE DEF f
  <2>4. f \in FrameOf(ast', funcs') /\ f.pc \notin Base
    BY <2>1, <2>2 DEF Holds, Fits, Base
  <2>5. IsStack(stack', ast', funcs')
    BY <1>4, <1>5, <2>3, <2>4, ResumeInv
  <2> QED
    BY <1>4, <2>3, <2>5, Growth, Assemble DEF EnterCall
<1>7. CASE ~ Callable(Named(name), argc)
  <2>1. Return(NULL)
    BY <1>1, <1>7
  <2>2. IsStack(stack', ast', funcs') /\ ret' \in ValueOf(Len(funcs'))
    BY <1>4, <1>5, <2>1, ReturnInv, NullType DEF Growing
  <2> QED
    BY <1>4, <2>2, Assemble DEF EnterCall
<1> QED
  BY <1>6, <1>7

(* The frame goes on with another pc. *)
LEMMA GoOnType ==
  ASSUME TypeInv, Growing, NEW pc \in Labels, pc \notin Base, Top.pc \notin Base,
         NEW f, f = [Top EXCEPT !.pc = pc], Fits(Top, ast') => Fits(f, ast')
  PROVE  f \in FrameOf(ast', funcs') /\ f.pc = pc
<1> DEFINE g == [Top EXCEPT !.pc = pc]
<1>1. /\ Holds(g, pc, Top.node, Top.vals, Top.blks, Top.fn)
      /\ Fits(g, ast') => g \in FrameOf(ast', funcs')
  BY TopExcept, TopFields
<1> HIDE DEF g
<1>2. f = g
  BY DEF g
<1> QED
  BY SMTT(40), <1>1, <1>2, TopFields DEF Holds

LEMMA FitsOn ==
  ASSUME TypeInv, NEW pc \in Labels, NEW f, f = [Top EXCEPT !.pc = pc]
  PROVE  f.pc = pc /\ f.node = Top.node /\ f.vals = Top.vals /\ f.blks = Top.blks
         /\ f.fn = Top.fn
<1>1. Top \in FrameOf(ast, funcs)
  BY TopType DEF TypeInv
<1>2. Top \in FrameIn(0..Len(ast), ValueOf(Len(funcs)), Places(funcs), 0..Len(funcs))
  BY <1>1, AsFrameIn DEF TypeInv, Typed
<1> QED
  BY <1>2 DEF FrameIn

LEMMA NextArgType == ASSUME TypeInv, NextArg PROVE TypeInv'
<1> DEFINE f == [Top EXCEPT !.pc = "arg"]
<1>1. Growing
  BY Unmoved DEF NextArg, NoCode
<1>2. "arg" \in Labels /\ Top.pc = "args" /\ CallExpr(f)
  BY DEF Labels, NextArg, At
<1>3. /\ f.pc = "arg" /\ f.node = Top.node /\ f.vals = Top.vals
      /\ f.blks = Top.blks /\ f.fn = Top.fn
  BY <1>2, FitsOn
<1>4. Fits(Top, ast') => Fits(f, ast')
  BY <1>2, <1>3 DEF Fits
<1>5. f \in FrameOf(ast', funcs')
  BY <1>1, <1>2, <1>4, GoOnType DEF Base
<1> HIDE DEF f
<1>6. IsStack(stack', ast', funcs')
  BY <1>1, <1>2, <1>3, <1>5, CallInv DEF Base
<1> QED
  BY <1>1, <1>6, Growth, Assemble DEF NextArg

LEMMA StoreArgType == ASSUME TypeInv, StoreArg PROVE TypeInv'
<1>1. Growing
  BY Unmoved DEF StoreArg, NoCode
<1>2. "args" \in Labels /\ Top.pc = "arg" /\ Top.pc \notin Base
  BY DEF Labels, StoreArg, At, Base
<1>3. CASE ret = NULL
  <2>1. IsStack(stack', ast', funcs') /\ ret' \in ValueOf(Len(funcs'))
    BY <1>1, <1>2, <1>3, ReturnInv, NullType DEF Growing, StoreArg
  <2> QED
    BY <1>1, <2>1, Assemble DEF StoreArg
<1>4. CASE ret # NULL
  <2> DEFINE vals == Append(Top.vals, ret)
             f == [Top EXCEPT !.pc = "args", !.vals = vals]
  <2>1. stack' = Resume(f) /\ UNCHANGED ret
    BY <1>4 DEF StoreArg
  <2>2. vals \in Seq(ValueOf(Len(funcs')))
    BY SMTT(40), <1>1, Growth, TopFields, AppendType
  <2> HIDE DEF vals
  <2>3. /\ Holds(f, "args", Top.node, vals, Top.blks, Top.fn)
        /\ Fits(f, ast') => f \in FrameOf(ast', funcs')
    BY <1>1, <1>2, <2>2, TopExcept, TopFields
  <2> HIDE DEF f
  <2>4. f \in FrameOf(ast', funcs') /\ f.pc \notin Base
    BY <1>1, <1>2, <2>3, TopFields DEF Holds, Fits, Base
  <2>5. IsStack(stack', ast', funcs')
    BY <1>1, <1>2, <2>1, <2>4, ResumeInv
  <2> QED
    BY <1>1, <2>1, <2>5, Growth, Assemble DEF StoreArg
<1> QED
  BY <1>3, <1>4

LEMMA BuildCallType == ASSUME TypeInv, BuildCall PROVE TypeInv'
<1>1. /\ Top.pc = "args" /\ Top.pc \notin Base
      /\ funcs' = Insert(funcs, at, "call", Top.vals, <<>>, Top.fn)
      /\ Return(Result(funcs, at, "call", Top.vals))
      /\ ub' = ub \cup Hazards(Top.vals)
                  \cup (IF Live(Top.fn) THEN {} ELSE {"dangling"})
      /\ UNCHANGED <<mode, ast, at, named_vals, status>>
  BY DEF BuildCall, At, Base
<1>2. /\ funcs \in Seq(Function) /\ IsPlace(at, funcs) /\ <<>> \in Seq(Pos)
  BY SomeFunctions, EmptyType DEF TypeInv, Typed
<1>3. Top.vals \in Seq(ValueOf(Len(funcs))) /\ Top.fn \in Nat
  <2>1. Top \in FrameOf(ast, funcs) /\ ast \in Seq(Node)
    BY TopType DEF TypeInv, Typed
  <2>2. Top.vals \in Seq(ValueOf(Len(funcs))) /\ Top.fn \in 0..Len(funcs)
    BY <1>2, <2>1, FrameFields
  <2> QED
    BY <2>2
<1>4. "call" \in Opcode /\ "call" # "ONE" /\ "call" \notin Ops
  BY CodegenAssumption DEF Opcode
<1>5. funcs' \in Seq(Function) /\ Coding(funcs, funcs')
  BY <1>1, <1>2, <1>3, <1>4, BuildType
<1>6. Growing /\ Len(funcs') = Len(funcs)
  BY <1>1, <1>5, StillGrowing DEF Coding
<1>7. Result(funcs, at, "call", Top.vals) \in ValueOf(Len(funcs'))
  BY <1>2, <1>3, <1>4, <1>6, ResultType
<1>8. IsStack(stack', ast', funcs') /\ ret' \in ValueOf(Len(funcs'))
  BY <1>1, <1>6, <1>7, ReturnInv
<1>9. Plain'
  BY <1>1, HazardsType DEF TypeInv, Plain, Hazard
<1> QED
  BY <1>1, <1>6, <1>8, <1>9, Growth DEF TypeInv, Typed, Growing

LEMMA EnterIfType == ASSUME TypeInv, EnterIf PROVE TypeInv'
<1> DEFINE f == [Top EXCEPT !.pc = "cond", !.node = Fresh]
<1>1. Meet(Top.node, Below("IF")) /\ CallExpr(f) /\ Top.pc \notin Base
  BY DEF EnterIf, Enter, At, Base
<1>2. "IF" \in NodeType /\ "cond" \in Labels
  BY DEF NodeType, Labels
<1>3. Growing /\ Fresh \in 0..Len(ast') /\ Fresh # 0
  BY <1>1, <1>2, BelowType, MeetInv DEF EnterIf, NoCode
<1>4. /\ Holds(f, "cond", Fresh, Top.vals, Top.blks, Top.fn)
      /\ Fits(f, ast') => f \in FrameOf(ast', funcs')
  BY <1>2, <1>3, TopExcept, TopFields
<1> HIDE DEF f
<1>5. f \in FrameOf(ast', funcs') /\ f.pc \notin Base
  BY <1>4 DEF Holds, Fits, Base
<1>6. IsStack(stack', ast', funcs')
  BY <1>1, <1>3, <1>5, CallInv
<1> QED
  BY <1>3, <1>6, Growth, Assemble DEF EnterIf

LEMMA BlockCallInv ==
  ASSUME TypeInv, funcs' \in Seq(Function), Grown(funcs, funcs'),
         NEW f, f.node \in 0..Len(ast), CallBlock(f),
         Growing => f \in FrameOf(ast', funcs'),
         f.pc \in Base <=> Top.pc \in Base
  PROVE  Growing /\ IsStack(stack', ast', funcs')
<1> DEFINE x == NewNode("BLOCK", ScopeOf(f.node))
           g == NewFrame("block", Fresh)
<1>1. x \in Node
  <2>1. "BLOCK" \in NodeType /\ ScopeOf(f.node) \in Nat
    BY ScopeType DEF TypeInv, Typed, NodeType
  <2> QED
    BY <2>1, NewNodeType
<1>2. Meet(f.node, x) /\ stack' = Append(Resume(f), g)
  BY DEF CallBlock
<1> HIDE DEF x
<1>3. Growing /\ Fresh \in 0..Len(ast') /\ Fresh # 0
  BY <1>1, <1>2, MeetInv DEF Growing
<1>4. IsStack(Resume(f), ast', funcs')
  BY <1>3, ResumeInv
<1>5. g \in FrameOf(ast', funcs') /\ g.pc \notin Base
  <2>1. "block" \in Labels /\ g.pc = "block" /\ g.node = Fresh
    BY DEF Labels, NewFrame
  <2>2. Fits(g, ast')
    BY <1>3, <2>1 DEF Fits
  <2> QED
    BY <1>3, <2>1, <2>2, NewFrameType DEF Growing, Base
<1> QED
  BY <1>2, <1>3, <1>4, <1>5, PushInv

(* Three more blocks at the end of function f. *)
Branching(fs, f) == [fs EXCEPT ![f].blocks = @ \o <<<<>>, <<>>, <<>>>>]

LEMMA ThreeBlocks ==
  ASSUME NEW fs \in Seq(Function), NEW f \in 1..Len(fs), NEW gs,
         gs = Branching(fs, f)
  PROVE  /\ gs \in Seq(Function) /\ Len(gs) = Len(fs)
         /\ Len(gs[f].blocks) = Len(fs[f].blocks) + 3
         /\ Grown(fs, gs)
         /\ \A g \in 1..Len(fs) : gs[g].state = fs[g].state
<1> DEFINE bs == fs[f].blocks \o <<<<>>, <<>>, <<>>>>
           x == [fs[f] EXCEPT !.blocks = bs]
           hs == [fs EXCEPT ![f] = x]
<1>1. fs[f] \in Function /\ fs[f].blocks \in Seq(Seq(Instr)) /\ Len(fs[f].blocks) \in Nat
  BY FunctionFields
<1>2. bs \in Seq(Seq(Instr)) /\ Len(bs) = Len(fs[f].blocks) + 3
  <2>1. \A s \in Seq(Seq(Instr)), t \in Seq(Seq(Instr)) :
          s \o t \in Seq(Seq(Instr)) /\ Len(s \o t) = Len(s) + Len(t)
    OBVIOUS
  <2>2. <<<<>>, <<>>, <<>>>> \in Seq(Seq(Instr)) /\ Len(<<<<>>, <<>>, <<>>>>) = 3
    <3>1. <<>> \in Seq(Instr)
      BY EmptyType
    <3>2. \A S : \A e \in S : <<e, e, e>> \in Seq(S) /\ Len(<<e, e, e>>) = 3
      OBVIOUS
    <3> QED
      BY <3>1, <3>2
  <2> QED
    BY <1>1, <2>1, <2>2
<1> HIDE DEF bs
<1>3. /\ x \in Function /\ x.blocks = bs /\ x.state = fs[f].state
  BY <1>1, <1>2, BlocksType
<1> HIDE DEF x
<1>4. /\ hs \in Seq(Function) /\ Len(hs) = Len(fs) /\ hs[f] = x
      /\ \A g \in 1..Len(fs) : g # f => hs[g] = fs[g]
  BY <1>3, ExceptType
<1>5. gs = hs
  BY DEF hs, x, bs, Branching
<1> HIDE DEF hs
<1>6. \A g \in 1..Len(fs) : Len(fs[g].blocks) <= Len(hs[g].blocks)
  <2>1. ASSUME NEW g \in 1..Len(fs) PROVE Len(fs[g].blocks) <= Len(hs[g].blocks)
    <3>1. Len(fs[g].blocks) \in Nat
      BY FunctionFields
    <3>2. CASE g = f
      <4>1. Len(hs[f].blocks) = Len(fs[f].blocks) + 3
        BY <1>2, <1>3, <1>4
      <4> QED
        BY <3>1, <3>2, <4>1
    <3>3. CASE g # f
      <4>1. Len(hs[g].blocks) = Len(fs[g].blocks)
        BY <1>4, <3>3
      <4> QED
        BY <3>1, <4>1
    <3> QED
      BY <3>2, <3>3
  <2> QED
    BY <2>1
<1>7. Len(fs) <= Len(hs)
  BY <1>4, FunctionFields
<1> QED
  BY <1>2, <1>3, <1>4, <1>5, <1>6, <1>7 DEF Grown

LEMMA GrownTwice ==
  ASSUME NEW fs \in Seq(Function), NEW gs \in Seq(Function), NEW hs \in Seq(Function),
         Grown(fs, gs), Grown(gs, hs)
  PROVE  Grown(fs, hs)
<1>1. Len(fs) \in Nat /\ Len(gs) \in Nat /\ Len(hs) \in Nat
  BY LenProperties
<1>2. ASSUME NEW f \in 1..Len(fs)
      PROVE  Len(fs[f].blocks) <= Len(hs[f].blocks)
  <2>1. f \in 1..Len(gs) /\ f \in 1..Len(hs)
    BY <1>1 DEF Grown
  <2>2. /\ Len(fs[f].blocks) \in Nat /\ Len(gs[f].blocks) \in Nat
        /\ Len(hs[f].blocks) \in Nat
    BY <2>1, FunctionFields
  <2>3. Len(fs[f].blocks) <= Len(gs[f].blocks) /\ Len(gs[f].blocks) <= Len(hs[f].blocks)
    BY <2>1 DEF Grown
  <2> QED
    BY SMTT(40), <2>2, <2>3
<1> QED
  BY <1>1, <1>2 DEF Grown

(* What Then does to the functions, and where its three blocks are. *)
LEMMA ThenFunctions ==
  ASSUME TypeInv, Then
  PROVE  LET f == at[1]
             n == Len(funcs[f].blocks)
         IN /\ funcs' \in Seq(Function) /\ Grown(funcs, funcs')
            /\ Len(funcs') = Len(funcs)
            /\ \A g \in 1..Len(funcs) : funcs'[g].state = funcs[g].state
            /\ f \in 1..Len(funcs')
            /\ n \in Nat /\ Len(funcs'[f].blocks) = n + 3
            /\ {<<f, n + 1>>, <<f, n + 2>>, <<f, n + 3>>} \subseteq Places(funcs')
<1> DEFINE f == at[1]
           n == Len(funcs[f].blocks)
           compared == Insert(funcs, at, "ONE", <<ret>>, <<>>, 0)
           one == Result(funcs, at, "ONE", <<ret>>)
           to == <<<<f, n + 1>>, <<f, n + 2>>>>
           branched == Insert(compared, at, "condbr", <<one>>, to, 0)
<1>1. funcs' = [branched EXCEPT ![f].blocks = @ \o <<<<>>, <<>>, <<>>>>]
  BY DEF Then
<1>2. /\ funcs \in Seq(Function) /\ IsPlace(at, funcs) /\ <<>> \in Seq(Pos)
      /\ <<ret>> \in Seq(ValueOf(Len(funcs))) /\ Len(<<ret>>) = 1
  BY SMTT(40), SomeFunctions, EmptyType, OneType DEF TypeInv, Typed
<1>3. f \in 1..Len(funcs) /\ n \in Nat /\ Len(funcs) \in Nat
  BY <1>2, PlaceFields, FunctionFields DEF Then
<1>4. "ONE" \in Opcode /\ "condbr" \in Opcode /\ "ONE" \notin Ops
  BY CodegenAssumption DEF Opcode, Terminators
<1>5. compared \in Seq(Function) /\ Coding(funcs, compared)
  BY <1>2, <1>4, BuildType
<1>6. IsPlace(at, compared) /\ Len(compared) = Len(funcs)
  BY <1>2, <1>5, CodingGrows, PlaceMono DEF Coding
<1>7. <<one>> \in Seq(ValueOf(Len(compared)))
  <2>1. one \in ValueOf(Len(funcs))
    BY <1>2, <1>4, ResultType
  <2> QED
    BY <1>6, <2>1, OneType
<1>8. to \in Seq(Pos)
  <2>1. <<f, n + 1>> \in Pos /\ <<f, n + 2>> \in Pos
    BY <1>3 DEF Pos
  <2> QED
    BY <2>1
<1> HIDE DEF one, to, compared
<1>9. branched \in Seq(Function) /\ Coding(compared, branched)
  BY <1>4, <1>5, <1>6, <1>7, <1>8, BuildType
<1> HIDE DEF branched
<1>10. /\ Len(branched) = Len(funcs) /\ Grown(funcs, branched)
       /\ Len(branched[f].blocks) = n
       /\ \A g \in 1..Len(funcs) : branched[g].state = funcs[g].state
  <2>1. Grown(funcs, branched)
    BY <1>2, <1>5, <1>9, CodingGrows, GrownTwice
  <2> QED
    BY <1>3, <1>5, <1>9, <2>1 DEF Coding
<1> HIDE DEF n, f
<1>11. /\ funcs' \in Seq(Function) /\ Len(funcs') = Len(branched)
       /\ Len(funcs'[f].blocks) = Len(branched[f].blocks) + 3
       /\ Grown(branched, funcs')
       /\ \A g \in 1..Len(branched) : funcs'[g].state = branched[g].state
  <2>1. f \in 1..Len(branched)
    BY <1>3, <1>10
  <2>2. PICK gs : gs = funcs'
    OBVIOUS
  <2>3. gs = Branching(branched, f)
    BY <1>1, <2>2 DEF Branching
  <2>4. /\ gs \in Seq(Function) /\ Len(gs) = Len(branched)
        /\ Len(gs[f].blocks) = Len(branched[f].blocks) + 3
        /\ Grown(branched, gs)
        /\ \A g \in 1..Len(branched) : gs[g].state = branched[g].state
    BY <1>9, <2>1, <2>3, ThreeBlocks
  <2> QED
    BY <2>2, <2>4
<1>12. Grown(funcs, funcs')
  BY <1>2, <1>9, <1>10, <1>11, GrownTwice
<1>13. \A k \in {n + 1, n + 2, n + 3} : <<f, k>> \in Places(funcs')
  BY <1>3, <1>10, <1>11 DEF Places, Pos, Blocks
<1> QED
  BY <1>3, <1>10, <1>11, <1>12, <1>13 DEF f, n

LEMMA ThenType == ASSUME TypeInv, Then PROVE TypeInv'
<1> DEFINE n == Len(funcs[at[1]].blocks)
           blks == <<<<at[1], n + 1>>, <<at[1], n + 2>>, <<at[1], n + 3>>>>
           f == [Top EXCEPT !.pc = "then", !.blks = blks]
<1>1. /\ Top.pc = "cond" /\ at' = <<at[1], n + 1>> /\ CallBlock(f)
      /\ ub' = ub \cup Hazards(<<ret>>)
      /\ UNCHANGED <<mode, ret, named_vals, status>>
  BY DEF Then, At
<1>2. /\ funcs' \in Seq(Function) /\ Grown(funcs, funcs')
      /\ {<<at[1], n + 1>>, <<at[1], n + 2>>, <<at[1], n + 3>>} \subseteq Places(funcs')
  BY ThenFunctions
<1>3. blks \in Seq(Places(funcs')) /\ Len(blks) = 3
  <2>1. \A S : \A a, b, c \in S : <<a, b, c>> \in Seq(S) /\ Len(<<a, b, c>>) = 3
    OBVIOUS
  <2> QED
    BY <1>2, <2>1
<1> HIDE DEF blks
<1>4. "then" \in Labels /\ Top.pc \notin Base /\ "then" \notin Base
  BY <1>1 DEF Labels, Base
<1>5. /\ f.pc = "then" /\ f.node = Top.node
      /\ Top.node \in 0..Len(ast)
  <2>1. Top \in FrameOf(ast, funcs) /\ ast \in Seq(Node) /\ funcs \in Seq(Function)
    BY TopType DEF TypeInv, Typed
  <2>2. Top \in FrameIn(0..Len(ast), ValueOf(Len(funcs)), Places(funcs), 0..Len(funcs))
    BY <2>1, AsFrameIn
  <2> QED
    BY <2>2 DEF FrameIn
<1>6. Growing => f \in FrameOf(ast', funcs')
  <2> SUFFICES ASSUME Growing PROVE f \in FrameOf(ast', funcs')
    BY SMTT(40)
  <2>1. /\ Holds(f, "then", Top.node, Top.vals, blks, Top.fn)
        /\ Fits(f, ast') => f \in FrameOf(ast', funcs')
    BY <1>3, <1>4, TopExcept, TopFields
  <2> HIDE DEF f
  <2> QED
    BY <1>3, <2>1 DEF Holds, Fits
<1> HIDE DEF f
<1>7. Growing /\ IsStack(stack', ast', funcs')
  BY <1>1, <1>2, <1>4, <1>5, <1>6, BlockCallInv
<1>8. Plain' /\ IsPlace(at', funcs') /\ at' # <<0, 0>>
  <2>1. at[1] # 0
    BY DEF Then
  <2>2. at' # <<0, 0>>
    BY <1>1, <2>1
  <2> QED
    BY SMTT(40), <1>1, <1>2, <2>2, HazardsType DEF TypeInv, Plain, IsPlace
<1> QED
  BY SMTT(40), <1>1, <1>7, <1>8, Growth DEF TypeInv, Typed, Growing

(* In a conditional the builder is in a function. *)
LEMMA InFunction ==
  ASSUME TypeInv, Top.pc \in {"then", "else"}
  PROVE  /\ Len(Top.blks) = 3
         /\ Top.blks[1] \in Places(funcs) /\ Top.blks[2] \in Places(funcs)
         /\ Top.blks[3] \in Places(funcs)
         /\ at \in Places(funcs) /\ at # <<0, 0>>
         /\ \A p \in Places(funcs) : p \in Pos /\ p # <<0, 0>>
<1>1. Top \in FrameOf(ast, funcs) /\ funcs \in Seq(Function) /\ ast \in Seq(Node)
  BY TopType DEF TypeInv, Typed
<1>2. /\ Fits(Top, ast) /\ Top.blks \in Seq(Places(funcs))
  BY <1>1, FrameFields
<1>3. Len(Top.blks) = 3
  BY <1>2 DEF Fits
<1>4. \A k \in 1..3 : Top.blks[k] \in Places(funcs)
  BY <1>2, <1>3, ElementOfSeq
<1>5. \A p \in Places(funcs) : p \in Pos /\ p # <<0, 0>> /\ p[1] \in 1..Len(funcs)
  BY <1>1 DEF Places
<1>6. Len(funcs) # 0
  BY <1>1, <1>4, <1>5
<1>7. at # <<0, 0>> /\ at \in Places(funcs)
  BY <1>6 DEF TypeInv, Typed, IsPlace
<1> QED
  BY <1>3, <1>4, <1>5, <1>7

LEMMA ElseType == ASSUME TypeInv, Else PROVE TypeInv'
<1> DEFINE blks == [Top.blks EXCEPT ![1] = at]
           f == [Top EXCEPT !.pc = "else", !.vals = <<ret>>, !.blks = blks]
<1>1. /\ Top.pc = "then" /\ at' = Top.blks[2]
      /\ funcs' = Insert(funcs, at, "br", <<>>, <<Top.blks[3]>>, 0)
      /\ ub' = ub \cup Hazards(<<>>)
      /\ UNCHANGED <<mode, ret, named_vals, status>>
  BY DEF Else, At
<1>2. CallBlock(f)
  BY DEF Else, BranchEnd
<1>3. /\ funcs \in Seq(Function) /\ IsPlace(at, funcs)
      /\ <<>> \in Seq(ValueOf(Len(funcs)))
  BY SomeFunctions, EmptyType DEF TypeInv, Typed
<1>4. /\ Len(Top.blks) = 3 /\ Top.blks[2] \in Places(funcs)
      /\ at \in Places(funcs) /\ <<Top.blks[3]>> \in Seq(Pos)
      /\ Top.blks[2] # <<0, 0>>
  BY <1>1, InFunction, OneType
<1>5. "br" \in Opcode
  BY DEF Opcode, Terminators
<1>6. funcs' \in Seq(Function) /\ Coding(funcs, funcs')
  BY <1>1, <1>3, <1>4, <1>5, BuildType
<1>7. Grown(funcs, funcs')
  BY <1>3, <1>6, CodingGrows
<1>8. Places(funcs) \subseteq Places(funcs')
  BY <1>3, <1>6, <1>7, PlaceMono
<1>9. "else" \in Labels /\ Top.pc \notin Base /\ "else" \notin Base
  BY <1>1 DEF Labels, Base
<1>10. blks \in Seq(Places(funcs')) /\ Len(blks) = 3 /\ <<ret>> \in Seq(ValueOf(Len(funcs)))
  <2>1. Top \in FrameOf(ast, funcs) /\ ast \in Seq(Node)
    BY TopType DEF TypeInv, Typed
  <2>2. Top.blks \in Seq(Places(funcs))
    BY <1>3, <2>1, FrameFields
  <2>3. blks \in Seq(Places(funcs)) /\ Len(blks) = 3
    BY <1>4, <2>2, ExceptType
  <2> HIDE DEF blks
  <2> QED
    BY <1>8, <2>3, SeqMono, OneType DEF TypeInv, Typed
<1> HIDE DEF blks
<1>11. f.pc = "else" /\ f.node = Top.node /\ Top.node \in 0..Len(ast)
  <2>1. Top \in FrameOf(ast, funcs) /\ ast \in Seq(Node)
    BY TopType DEF TypeInv, Typed
  <2>2. Top \in FrameIn(0..Len(ast), ValueOf(Len(funcs)), Places(funcs), 0..Len(funcs))
    BY <1>3, <2>1, AsFrameIn
  <2> QED
    BY <2>2 DEF FrameIn
<1>12. Growing => f \in FrameOf(ast', funcs')
  <2> SUFFICES ASSUME Growing PROVE f \in FrameOf(ast', funcs')
    OBVIOUS
  <2>0. <<ret>> \in Seq(ValueOf(Len(funcs'))) /\ Len(<<ret>>) = 1
    BY SMTT(40), <1>6, <1>10 DEF Coding
  <2>1. /\ Holds(f, "else", Top.node, <<ret>>, blks, Top.fn)
        /\ Fits(f, ast') => f \in FrameOf(ast', funcs')
    BY <1>9, <1>10, <2>0, TopExcept, TopFields
  <2> HIDE DEF f
  <2> QED
    BY <1>10, <2>0, <2>1 DEF Holds, Fits
<1> HIDE DEF f
<1>13. Growing /\ IsStack(stack', ast', funcs')
  BY <1>2, <1>6, <1>7, <1>9, <1>11, <1>12, BlockCallInv
<1>14. Plain' /\ IsPlace(at', funcs') /\ at' # <<0, 0>>
  BY <1>1, <1>4, <1>8, HazardsType DEF TypeInv, Plain, IsPlace
<1> QED
  BY <1>1, <1>13, <1>14, Growth DEF TypeInv, Typed, Growing

LEMMA PhiType == ASSUME TypeInv, Phi PROVE TypeInv'
<1> DEFINE merge == Top.blks[3]
           args == <<Top.vals[1], ret>>
           to == <<Top.blks[1], at>>
           closed == Insert(funcs, at, "br", <<>>, <<merge>>, 0)
<1>1. /\ Top.pc = "else" /\ Top.pc \notin Base /\ at' = merge
      /\ funcs' = Insert(closed, merge, "phi", args, to, 0)
      /\ Return(Result(closed, merge, "phi", args))
      /\ ub' = ub \cup Hazards(args)
      /\ UNCHANGED <<mode, ast, named_vals, status>>
  BY DEF Phi, At, Base, Incoming, BranchEnd
<1>2. /\ funcs \in Seq(Function) /\ IsPlace(at, funcs)
      /\ <<>> \in Seq(ValueOf(Len(funcs)))
  BY SomeFunctions, EmptyType DEF TypeInv, Typed
<1>3. args \in Seq(ValueOf(Len(funcs)))
  <2>1. Top \in FrameOf(ast, funcs) /\ ast \in Seq(Node)
    BY TopType DEF TypeInv, Typed
  <2>2. Fits(Top, ast) /\ Top.vals \in Seq(ValueOf(Len(funcs)))
    BY <1>2, <2>1, FrameFields
  <2>3. Len(Top.vals) = 1
    BY <1>1, <2>2 DEF Fits
  <2>4. Top.vals[1] \in ValueOf(Len(funcs)) /\ ret \in ValueOf(Len(funcs))
    BY <2>2, <2>3, ElementOfSeq DEF TypeInv, Typed
  <2> QED
    BY <2>4
<1>4. /\ merge \in Places(funcs) /\ merge # <<0, 0>> /\ <<merge>> \in Seq(Pos)
      /\ to \in Seq(Pos)
  <2>1. /\ merge \in Pos /\ Top.blks[1] \in Pos /\ at \in Pos
        /\ merge \in Places(funcs) /\ merge # <<0, 0>>
    BY <1>1, InFunction
  <2> HIDE DEF merge
  <2> QED
    BY <2>1
<1>5. /\ "br" \in Opcode /\ "phi" \in Opcode /\ "phi" \notin Ops
  BY CodegenAssumption DEF Opcode, Terminators
<1> HIDE DEF merge, args, to
<1>6. closed \in Seq(Function) /\ Coding(funcs, closed)
  BY <1>2, <1>4, <1>5, BuildType
<1> HIDE DEF closed
<1>7. /\ IsPlace(merge, closed) /\ args \in Seq(ValueOf(Len(closed)))
      /\ Len(closed) = Len(funcs) /\ Grown(funcs, closed)
  <2>1. Grown(funcs, closed)
    BY <1>2, <1>6, CodingGrows
  <2>2. Places(funcs) \subseteq Places(closed)
    BY <1>2, <1>6, <2>1, PlaceMono
  <2> QED
    BY <1>3, <1>4, <1>6, <2>1, <2>2 DEF IsPlace, Coding
<1>8. funcs' \in Seq(Function) /\ Coding(closed, funcs')
  BY <1>1, <1>4, <1>5, <1>6, <1>7, BuildType
<1>9. Grown(closed, funcs') /\ Grown(funcs, funcs') /\ Len(funcs') = Len(closed)
  BY <1>2, <1>6, <1>7, <1>8, CodingGrows, GrownTwice DEF Coding
<1>10. Growing
  BY <1>1, <1>8, <1>9, Same DEF Growing, TypeInv, Typed
<1>11. Result(closed, merge, "phi", args) \in ValueOf(Len(funcs'))
  BY <1>5, <1>6, <1>7, <1>9, ResultType
<1>12. IsStack(stack', ast', funcs') /\ ret' \in ValueOf(Len(funcs'))
  BY <1>1, <1>10, <1>11, ReturnInv
<1>13. Plain'
  BY <1>1, HazardsType DEF TypeInv, Plain
<1>14. IsPlace(at', funcs') /\ at' # <<0, 0>>
  BY <1>1, <1>2, <1>4, <1>8, <1>9, PlaceMono DEF IsPlace
<1> QED
  BY <1>1, <1>10, <1>12, <1>13, <1>14, Growth DEF TypeInv, Typed, Growing

LEMMA IfFailsType == ASSUME TypeInv, IfFails PROVE TypeInv'
<1>1. Growing /\ Top.pc \notin Base /\ Return(NULL)
  BY Unmoved DEF IfFails, NoCode, At, Base
<1>2. IsStack(stack', ast', funcs') /\ ret' \in ValueOf(Len(funcs'))
  BY <1>1, ReturnInv, NullType DEF Growing
<1> QED
  BY <1>1, <1>2, Assemble DEF IfFails

-----------------------------------------------------------------------------
(* Function definitions.                                                   *)

LEMMA FunctionSeq ==
  ASSUME NEW S, NEW m \in Nat, NEW h \in [1..m -> S]
  PROVE  h \in Seq(S) /\ Len(h) = m
  OBVIOUS

LEMMA LastOfType ==
  ASSUME NEW params \in Seq(ParamNames), NEW is, is \subseteq 1..Len(params), is # {}
  PROVE  LastOf(is) \in is /\ \A j \in is : j <= LastOf(is)
<1>1. \E i \in is : \A j \in is : j <= i
  BY GreatestExists, LenProperties
<1> QED
  BY <1>1 DEF LastOf

LEMMA NoNamesType == ASSUME NEW m \in Nat PROVE Cleared \in [ParamNames -> ValueOf(m)]
<1>1. NULL \in ValueOf(m)
  BY ConstType, ValueMono
<1> QED
  BY <1>1 DEF Cleared, NoNames

LEMMA ScopeOfParams ==
  ASSUME NEW m \in Nat, NEW f \in 1..m, NEW params \in Seq(ParamNames)
  PROVE  Scope(f, params) \in [ParamNames -> ValueOf(m)]
<1>1. ASSUME NEW x \in ParamNames PROVE Scope(f, params)[x] \in ValueOf(m)
  <2> DEFINE is == {i \in 1..Len(params) : params[i] = x}
  <2>1. Scope(f, params)[x] = IF is = {} THEN Cleared[x] ELSE Param(f, LastOf(is))
    BY DEF Scope
  <2>2. is \subseteq 1..Len(params) /\ Len(params) \in Nat
    BY LenProperties
  <2> HIDE DEF is
  <2>3. CASE is = {}
    BY <2>1, <2>3, NoNamesType
  <2>4. CASE is # {}
    <3>1. LastOf(is) \in Nat
      <4>1. LastOf(is) \in is
        BY <2>2, <2>4, LastOfType
      <4>2. LastOf(is) \in 1..Len(params)
        BY <2>2, <4>1
      <4>3. \A k \in 1..Len(params) : k \in Nat
        BY <2>2
      <4> QED
        BY <4>2, <4>3
    <3>2. f \in 0..m
      OBVIOUS
    <3> QED
      BY <2>1, <2>4, <3>1, <3>2, ConstType
  <2> QED
    BY <2>3, <2>4
<1>2. Scope(f, params) = [x \in ParamNames |-> Scope(f, params)[x]]
  BY DEF Scope
<1> HIDE DEF Scope
<1> QED
  BY <1>1, <1>2

(* The function that gets the body, and the functions afterwards. *)
Defined(name) == IF Named(name) = 0 THEN Len(funcs) + 1 ELSE Named(name)
Unbodied(name, params) ==
  IF Named(name) # 0 THEN funcs[Named(name)]
  ELSE [name |-> name, arity |-> Len(params), blocks |-> <<>>,
        state |-> "open", def |-> Fresh]
WithBody(x) == [x EXCEPT !.blocks = Append(@, <<>>)]
Redefined(f, x) ==
  [g \in 1..Len(funcs) \cup {f} |-> IF g = f THEN x ELSE funcs[g]]

LEMMA UnbodiedType ==
  ASSUME TypeInv, NEW name \in FuncNames, NEW params \in Seq(ParamNames)
  PROVE  LET x == Unbodied(name, params)
         IN /\ x \in Function /\ x.blocks \in Seq(Seq(Instr)) /\ Len(x.blocks) \in Nat
            /\ x.name = name /\ x.state \in {"open", "verified"}
            /\ Named(name) = 0 => x.blocks = <<>> /\ x.state = "open"
            /\ WithBody(x) \in Function
            /\ WithBody(x).blocks = Append(x.blocks, <<>>)
            /\ Len(WithBody(x).blocks) = Len(x.blocks) + 1
            /\ WithBody(x).state = x.state
            /\ WithBody(x).name = x.name /\ WithBody(x).arity = x.arity
<1> DEFINE x == Unbodied(name, params)
<1>1. /\ x \in Function /\ x.name = name /\ x.state \in {"open", "verified"}
      /\ Named(name) = 0 => x.blocks = <<>> /\ x.state = "open"
  <2>1. CASE Named(name) = 0
    <3>1. x = [name |-> name, arity |-> Len(params), blocks |-> <<>>,
               state |-> "open", def |-> Fresh]
      BY <2>1 DEF Unbodied
    <3>2. Len(params) \in Nat /\ Fresh \in Nat /\ <<>> \in Seq(Seq(Instr))
      <4>1. Len(ast) \in Nat
        BY LenProperties DEF TypeInv, Typed
      <4> QED
        BY <4>1, EmptyType, LenProperties DEF Fresh
    <3> QED
      BY <3>1, <3>2 DEF Function
  <2>2. CASE Named(name) # 0
    <3>1. x = funcs[Named(name)] /\ Named(name) \in 1..Len(funcs)
          /\ Live(Named(name)) /\ x.name = name
      BY <2>2, NamedType DEF Unbodied
    <3>2. x \in Function
      BY <3>1, FunctionFields DEF TypeInv, Typed
    <3> QED
      BY <2>2, <3>1, <3>2 DEF Live
  <2> QED
    BY <2>1, <2>2
<1> HIDE DEF x
<1>2. x.blocks \in Seq(Seq(Instr)) /\ Len(x.blocks) \in Nat
  <2>1. x.blocks \in Seq(Seq(Instr))
    BY <1>1 DEF Function
  <2> QED
    BY <2>1, LenProperties
<1> DEFINE bs == Append(x.blocks, <<>>)
<1>3. bs \in Seq(Seq(Instr)) /\ Len(bs) = Len(x.blocks) + 1
  <2>1. <<>> \in Seq(Instr)
    BY EmptyType
  <2> QED
    BY <1>2, <2>1, AppendType
<1>4. WithBody(x) = [x EXCEPT !.blocks = bs]
  BY DEF WithBody
<1> HIDE DEF bs
<1>5. /\ WithBody(x) \in Function /\ WithBody(x).blocks = bs
      /\ WithBody(x).state = x.state /\ WithBody(x).name = x.name
      /\ WithBody(x).arity = x.arity
  BY <1>1, <1>3, <1>4, BlocksType
<1> QED
  BY <1>1, <1>2, <1>3, <1>5 DEF bs, x

(* gs is funcs with the function f being x, which has no fewer blocks. *)
RedefinedAs(f, x, gs) ==
  /\ gs \in Seq(Function) /\ Grown(funcs, gs)
  /\ f \in 1..Len(gs) /\ gs[f] = x
  /\ Len(gs) \in Nat
  /\ \A g \in 1..Len(gs) : g # f => g \in 1..Len(funcs) /\ gs[g] = funcs[g]

LEMMA RedefinedType ==
  ASSUME TypeInv, NEW f, f \in 1..Len(funcs) \/ f = Len(funcs) + 1,
         NEW x \in Function,
         f \in 1..Len(funcs) => Len(funcs[f].blocks) <= Len(x.blocks)
  PROVE  RedefinedAs(f, x, Redefined(f, x))
<1> DEFINE m == IF f = Len(funcs) + 1 THEN f ELSE Len(funcs)
           gs == Redefined(f, x)
<1>1. funcs \in Seq(Function) /\ Len(funcs) \in Nat
  BY SomeFunctions
<1>2. m \in Nat /\ 1..Len(funcs) \cup {f} = 1..m /\ f \in 1..m
      /\ Len(funcs) <= m
      /\ \A g \in 1..m : g # f => g \in 1..Len(funcs)
  BY <1>1
<1> HIDE DEF m
<1>3. gs = [g \in 1..m |-> IF g = f THEN x ELSE funcs[g]]
  BY <1>2 DEF Redefined
<1> HIDE DEF gs
<1>4. \A g \in 1..Len(funcs) : funcs[g] \in Function
  BY <1>1, FunctionFields
<1>5. gs \in [1..m -> Function]
  BY <1>2, <1>3, <1>4
<1>6. gs \in Seq(Function) /\ Len(gs) = m
  BY <1>2, <1>5, FunctionSeq
<1>7. gs[f] = x /\ \A g \in 1..m : g # f => gs[g] = funcs[g]
  BY <1>2, <1>3
<1>8. ASSUME NEW g \in 1..Len(funcs)
      PROVE  Len(funcs[g].blocks) <= Len(gs[g].blocks)
  <2>1. Len(funcs[g].blocks) \in Nat /\ g \in 1..m
    BY <1>1, <1>2, FunctionFields
  <2>2. CASE g = f
    BY <1>7, <2>2
  <2>3. CASE g # f
    <3>1. Len(gs[g].blocks) = Len(funcs[g].blocks)
      BY <1>7, <2>1, <2>3
    <3> QED
      BY <2>1, <3>1
  <2> QED
    BY <2>2, <2>3
<1>9. Grown(funcs, gs)
  BY <1>2, <1>6, <1>8 DEF Grown
<1> QED
  BY <1>2, <1>6, <1>7, <1>9 DEF gs, RedefinedAs

(* The AST after a definition: its node and the one of its body. *)
Adopted(p) == IF p = 0 THEN ast ELSE [ast EXCEPT ![p].kids = Append(@, Fresh)]
DefNode(p, name, params) ==
  [NewNode("FUNCDEF", ScopeOf(p)) EXCEPT !.name = name, !.params = params]
Bodied(x) == [x EXCEPT !.kids = <<Fresh + 1>>]
DefAst(p, name, params) ==
  Append(Append(Adopted(p), Bodied(DefNode(p, name, params))), NewNode("BLOCK", Fresh))
BodyFrame(f) == [NewFrame("body", Fresh) EXCEPT !.fn = f]

LEMMA DefineCases ==
  ASSUME TypeInv, NEW base, IsStack(base, ast, funcs), NEW p \in 0..Len(ast),
         NEW name, NEW params, DefineFunction(base, p, name, params)
  PROVE  \/ /\ Definable(Named(name), Len(params))
            /\ ast' = DefAst(p, name, params)
            /\ funcs' = Redefined(Defined(name), WithBody(Unbodied(name, params)))
            /\ at' = <<Defined(name), Len(Unbodied(name, params).blocks) + 1>>
            /\ named_vals' = Scope(Defined(name), params)
            /\ stack' = Append(Append(base, BodyFrame(Defined(name))),
                               NewFrame("block", Fresh + 1))
            /\ UNCHANGED ret
         \/ /\ ~Definable(Named(name), Len(params))
            /\ ast' = Append(Adopted(p), DefNode(p, name, params))
            /\ named_vals' = Cleared
            /\ stack' = base
            /\ ret' = NULL
            /\ UNCHANGED <<funcs, at>>
<1> DEFINE old == Named(name)
           f == IF old = 0 THEN Len(funcs) + 1 ELSE old
           func == IF old # 0 THEN funcs[old]
                   ELSE [name |-> name, arity |-> Len(params), blocks |-> <<>>,
                         state |-> "open", def |-> Fresh]
<1>1. f = Defined(name) /\ func = Unbodied(name, params)
  BY DEF Defined, Unbodied
<1>2. CASE Definable(old, Len(params))
  <2>1. /\ ast' = Adopted(p) \o <<[DefNode(p, name, params) EXCEPT !.kids = <<Fresh + 1>>],
                                  NewNode("BLOCK", Fresh)>>
        /\ funcs' = [g \in 1..Len(funcs) \cup {f} |->
                      IF g = f THEN [func EXCEPT !.blocks = Append(@, <<>>)]
                      ELSE funcs[g]]
        /\ at' = <<f, Entry(Len(func.blocks))>>
        /\ named_vals' = Scope(f, params)
        /\ stack' = base \o <<BodyFrame(f), NewFrame("block", Fresh + 1)>>
        /\ UNCHANGED ret
    BY <1>2 DEF DefineFunction, Adopted, DefNode, BodyFrame
  <2>2. \A S : \A s \in Seq(S) : \A a, b : s \o <<a, b>> = Append(Append(s, a), b)
    OBVIOUS
  <2>3. base \in Seq(FrameOf(ast, funcs))
    BY DEF IsStack
  <2>4. stack' = Append(Append(base, BodyFrame(f)), NewFrame("block", Fresh + 1))
    BY <2>1, <2>2, <2>3
  <2>5. ast' = DefAst(p, name, params)
    <3>1. Adopted(p) \in Seq(Node)
      BY AdoptType DEF TypeInv, Typed, Adopted, Fresh
    <3> QED
      BY <2>1, <2>2, <3>1 DEF DefAst, Bodied
  <2> HIDE DEF f, func
  <2>6. funcs' = Redefined(f, WithBody(func)) /\ at' = <<f, Len(func.blocks) + 1>>
    BY <2>1 DEF Redefined, WithBody, Entry
  <2> QED
    BY <1>1, <1>2, <2>1, <2>4, <2>5, <2>6
<1>3. CASE ~Definable(old, Len(params))
  BY <1>3 DEF DefineFunction, Adopted, DefNode
<1> QED
  BY <1>2, <1>3

LEMMA DefNodeType ==
  ASSUME TypeInv, NEW p \in 0..Len(ast), NEW name \in FuncNames,
         NEW params \in Seq(ParamNames)
  PROVE  LET x == DefNode(p, name, params)
             y == Bodied(x)
         IN /\ x \in Node /\ x.type = "FUNCDEF" /\ x.scope = ScopeOf(p)
            /\ x.params = params /\ x.name = name
            /\ y \in Node /\ y.type = "FUNCDEF" /\ y.scope = ScopeOf(p)
            /\ y.params = params /\ y.name = name
            /\ Fresh \in Nat
<1> DEFINE n == NewNode("FUNCDEF", ScopeOf(p))
           x == [n EXCEPT !.name = name, !.params = params]
           y == [x EXCEPT !.kids = <<Fresh + 1>>]
<1>1. n \in Node /\ n.type = "FUNCDEF" /\ n.scope = ScopeOf(p)
  <2>1. "FUNCDEF" \in NodeType /\ ScopeOf(p) \in Nat
    BY ScopeType DEF TypeInv, Typed, NodeType
  <2> QED
    BY <2>1, NewNodeType
<1> HIDE DEF n
<1>2. /\ x \in Node /\ x.type = "FUNCDEF" /\ x.scope = ScopeOf(p)
      /\ x.params = params /\ x.name = name
  <2>1. \A z \in Node : /\ [z EXCEPT !.name = name, !.params = params] \in Node
                        /\ [z EXCEPT !.name = name, !.params = params].type = z.type
                        /\ [z EXCEPT !.name = name, !.params = params].scope = z.scope
                        /\ [z EXCEPT !.name = name, !.params = params].params = params
                        /\ [z EXCEPT !.name = name, !.params = params].name = name
    BY DEF Node
  <2> QED
    BY <1>1, <2>1
<1> HIDE DEF x
<1>3. Fresh \in Nat /\ <<Fresh + 1>> \in Seq(Nat)
  <2>1. Len(ast) \in Nat
    BY LenProperties DEF TypeInv, Typed
  <2>2. Fresh \in Nat /\ Fresh + 1 \in Nat
    BY <2>1 DEF Fresh
  <2> QED
    BY <2>2, OneType
<1>4. /\ y \in Node /\ y.type = "FUNCDEF" /\ y.scope = ScopeOf(p)
      /\ y.params = params /\ y.name = name
  <2>1. \A z \in Node, k \in Seq(Nat) :
          /\ [z EXCEPT !.kids = k] \in Node
          /\ [z EXCEPT !.kids = k].type = z.type
          /\ [z EXCEPT !.kids = k].scope = z.scope
          /\ [z EXCEPT !.kids = k].params = z.params
          /\ [z EXCEPT !.kids = k].name = z.name
    BY DEF Node
  <2> QED
    BY <1>2, <1>3, <2>1
<1> QED
  BY <1>2, <1>3, <1>4 DEF x, n, DefNode, Bodied

LEMMA DefAstType ==
  ASSUME TypeInv, NEW p \in 0..Len(ast), NEW name \in FuncNames,
         NEW params \in Seq(ParamNames)
  PROVE  LET x == DefNode(p, name, params)
             new == DefAst(p, name, params)
             failed == Append(Adopted(p), x)
         IN /\ failed \in Seq(Node) /\ Kept(ast, failed)
            /\ Len(failed) = Fresh /\ failed[Fresh] = x
            /\ new \in Seq(Node) /\ Kept(ast, new)
            /\ Len(new) = Fresh + 1
            /\ new[Fresh].type = "FUNCDEF" /\ new[Fresh].scope = ScopeOf(p)
            /\ new[Fresh].params = params /\ new[Fresh].name = name
            /\ new[Fresh + 1].type = "BLOCK" /\ new[Fresh + 1].scope = Fresh
            /\ Fresh \in 1..(Fresh + 1)
<1> DEFINE x == DefNode(p, name, params)
           y == Bodied(x)
           b == NewNode("BLOCK", Fresh)
           one == Append(Adopted(p), y)
           failed == Append(Adopted(p), x)
           new == Append(one, b)
<1>1. /\ x \in Node /\ y \in Node /\ y.type = "FUNCDEF" /\ y.scope = ScopeOf(p)
      /\ y.params = params /\ y.name = name /\ Fresh \in Nat
  BY DefNodeType
<1>2. b \in Node /\ b.type = "BLOCK" /\ b.scope = Fresh
  <2>1. "BLOCK" \in NodeType
    BY DEF NodeType
  <2> QED
    BY <1>1, <2>1, NewNodeType
<1>3. /\ Adopted(p) \in Seq(Node) /\ Len(Adopted(p)) + 1 = Fresh
      /\ Kept(ast, Adopted(p)) /\ ast \in Seq(Node) /\ Fresh >= 1
  <2>1. Len(ast) \in Nat /\ ast \in Seq(Node)
    BY LenProperties DEF TypeInv, Typed
  <2>2. PICK ns : ns = Adopted(p)
    OBVIOUS
  <2>3. ns = IF p = 0 THEN ast ELSE [ast EXCEPT ![p].kids = Append(@, Len(ast) + 1)]
    BY <2>2 DEF Adopted, Fresh
  <2>4. ns \in Seq(Node) /\ Len(ns) = Len(ast) /\ Kept(ast, ns)
    BY <2>1, <2>3, AdoptType
  <2> QED
    BY <2>1, <2>2, <2>4 DEF Fresh
<1> HIDE DEF x, y, b
<1>4. failed \in Seq(Node) /\ Kept(ast, failed) /\ Len(failed) = Fresh /\ failed[Fresh] = x
  <2>1. /\ failed \in Seq(Node) /\ Len(failed) = Fresh /\ failed[Fresh] = x
        /\ Kept(Adopted(p), failed)
    BY <1>1, <1>3, AddNode
  <2> QED
    BY <1>3, <2>1, KeptTwice
<1>5. one \in Seq(Node) /\ Kept(ast, one) /\ Len(one) = Fresh /\ one[Fresh] = y
  <2>1. /\ one \in Seq(Node) /\ Len(one) = Fresh /\ one[Fresh] = y
        /\ Kept(Adopted(p), one)
    BY <1>1, <1>3, AddNode
  <2> QED
    BY <1>3, <2>1, KeptTwice
<1> HIDE DEF one, failed
<1>6. /\ new \in Seq(Node) /\ Len(new) = Fresh + 1 /\ new[Fresh + 1] = b
      /\ Kept(one, new)
  BY <1>2, <1>5, AddNode
<1>7. Kept(ast, new)
  BY <1>3, <1>5, <1>6, KeptTwice
<1>8. Fresh \in 1..Len(one)
  BY <1>1, <1>3, <1>5
<1> HIDE DEF new
<1>9. /\ new[Fresh].type = y.type /\ new[Fresh].scope = y.scope
      /\ new[Fresh].params = y.params /\ new[Fresh].name = y.name
  BY <1>5, <1>6, <1>8 DEF Kept
<1>10. new = DefAst(p, name, params)
  BY DEF new, one, y, b, x, DefAst
<1>11. failed = Append(Adopted(p), DefNode(p, name, params)) /\ x = DefNode(p, name, params)
  BY DEF failed, x
<1>12. Fresh \in 1..(Fresh + 1)
  BY <1>1, <1>3
<1> QED
  BY <1>1, <1>2, <1>4, <1>6, <1>7, <1>9, <1>10, <1>11, <1>12

LEMMA DefineType ==
  ASSUME TypeInv, NEW base, IsStack(base, ast, funcs), NEW p \in 0..Len(ast),
         NEW name \in FuncNames, NEW params \in Seq(ParamNames),
         DefineFunction(base, p, name, params), UNCHANGED <<mode, ub, status>>
  PROVE  TypeInv' /\ Growing
<1>1. funcs \in Seq(Function) /\ ast \in Seq(Node)
  BY DEF TypeInv, Typed
<1>2. Plain'
  BY DEF TypeInv, Plain
<1>3. CASE ~Definable(Named(name), Len(params))
  <2>1. /\ ast' = Append(Adopted(p), DefNode(p, name, params))
        /\ named_vals' = Cleared
        /\ stack' = base
        /\ ret' = NULL
        /\ UNCHANGED <<funcs, at>>
    BY <1>3, DefineCases
  <2>2. ast' \in Seq(Node) /\ Kept(ast, ast')
    BY <2>1, DefAstType
  <2>3. Growing
    BY <1>1, <2>1, <2>2, Same DEF Growing
  <2>4. IsStack(stack', ast', funcs')
    BY <1>1, <2>1, <2>3, StackMono DEF Growing
  <2>5. ret' \in ValueOf(Len(funcs')) /\ named_vals' \in [ParamNames -> ValueOf(Len(funcs'))]
    BY <2>1, <2>3, NullType, NoNamesType, LenProperties DEF Growing
  <2> QED
    BY <1>2, <2>1, <2>3, <2>4, <2>5 DEF Growing, TypeInv, Typed
<1>4. CASE Definable(Named(name), Len(params))
  <2> DEFINE f == Defined(name)
             x == Unbodied(name, params)
             base1 == Append(base, BodyFrame(f))
             g == NewFrame("block", Fresh + 1)
  <2>1. /\ ast' = DefAst(p, name, params)
        /\ funcs' = Redefined(f, WithBody(x))
        /\ at' = <<f, Len(x.blocks) + 1>>
        /\ named_vals' = Scope(f, params)
        /\ stack' = Append(base1, g)
        /\ UNCHANGED ret
    BY <1>4, DefineCases
  <2>2. /\ ast' \in Seq(Node) /\ Kept(ast, ast') /\ Len(ast') = Fresh + 1
        /\ ast'[Fresh].type = "FUNCDEF" /\ Fresh \in 1..(Fresh + 1)
    BY <2>1, DefAstType
  <2>3. f \in 1..Len(funcs) \/ f = Len(funcs) + 1
    BY NamedType DEF Defined
  <2>4. /\ WithBody(x) \in Function /\ Len(x.blocks) \in Nat
        /\ Len(WithBody(x).blocks) = Len(x.blocks) + 1
    BY UnbodiedType
  <2>5. f \in 1..Len(funcs) => Len(funcs[f].blocks) <= Len(WithBody(x).blocks)
    <3>1. f \in 1..Len(funcs) => x = funcs[f]
      <4>1. Named(name) = 0 => f = Len(funcs) + 1
        BY DEF Defined
      <4>2. Len(funcs) \in Nat
        BY <1>1, LenProperties
      <4> QED
        BY <4>1, <4>2 DEF Defined, Unbodied
    <3> QED
      BY <2>4, <3>1
  <2> HIDE DEF f, x
  <2>6. /\ funcs' \in Seq(Function) /\ Grown(funcs, funcs')
        /\ f \in 1..Len(funcs') /\ funcs'[f] = WithBody(x) /\ Len(funcs') \in Nat
    <3>1. RedefinedAs(f, WithBody(x), Redefined(f, WithBody(x)))
      BY <2>3, <2>4, <2>5, RedefinedType
    <3> QED
      BY <2>1, <3>1 DEF RedefinedAs
  <2>7. Growing
    BY <2>2, <2>6 DEF Growing
  <2>8. at' \in Places(funcs') /\ at' # <<0, 0>>
    BY <2>1, <2>4, <2>6 DEF Places, Pos, Blocks
  <2>9. named_vals' \in [ParamNames -> ValueOf(Len(funcs'))]
    BY <2>1, <2>6, ScopeOfParams
  <2>10. BodyFrame(f) \in FrameOf(ast', funcs') /\ BodyFrame(f).pc \notin Base
    <3>1. NewFrame("body", Fresh) \in FrameIn(0..Len(ast'), ValueOf(Len(funcs')),
                                              Places(funcs'), 0..Len(funcs'))
      <4>1. "body" \in Labels /\ 0 \in 0..Len(funcs') /\ Fresh \in 0..Len(ast')
        BY <2>2, <2>6 DEF Labels
      <4> QED
        BY <4>1, EmptyType DEF NewFrame, FrameIn
    <3>2. f \in 0..Len(funcs') /\ f # 0 /\ Fresh # 0
      BY <2>2, <2>6
    <3>3. /\ BodyFrame(f) \in FrameIn(0..Len(ast'), ValueOf(Len(funcs')),
                                      Places(funcs'), 0..Len(funcs'))
          /\ BodyFrame(f).pc = "body" /\ BodyFrame(f).node = Fresh
          /\ BodyFrame(f).fn = f
      <4>1. NewFrame("body", Fresh).pc = "body" /\ NewFrame("body", Fresh).node = Fresh
        BY DEF NewFrame
      <4> QED
        BY <3>1, <3>2, <4>1 DEF BodyFrame, FrameIn
    <3>4. Fits(BodyFrame(f), ast')
      BY <2>2, <3>2, <3>3 DEF Fits
    <3> QED
      BY <2>2, <2>6, <3>3, <3>4, AsFrameIn DEF Base
  <2>11. g \in FrameOf(ast', funcs') /\ g.pc \notin Base
    <3>1. "block" \in Labels /\ g.pc = "block" /\ g.node = Fresh + 1
      BY DEF Labels, NewFrame
    <3>2. Fresh + 1 \in 0..Len(ast') /\ Fresh + 1 # 0
      BY <2>2
    <3>3. Fits(g, ast')
      BY <3>1, <3>2 DEF Fits
    <3> QED
      BY <2>2, <2>6, <3>1, <3>2, <3>3, NewFrameType DEF Base
  <2>12. IsStack(base, ast', funcs')
    BY <1>1, <2>7, StackMono DEF Growing
  <2> HIDE DEF g
  <2>13. IsStack(stack', ast', funcs')
    BY <2>1, <2>10, <2>11, <2>12, PushInv
  <2>14. IsPlace(at', funcs')
    BY <2>8 DEF IsPlace
  <2> QED
    BY <1>2, <2>1, <2>7, <2>8, <2>9, <2>13, <2>14, Growth DEF Growing, TypeInv, Typed
<1> QED
  BY <1>3, <1>4

LEMMA PopStack ==
  ASSUME TypeInv, Top.pc \notin Base
  PROVE  /\ IsStack(SubSeq(stack, 1, Len(stack) - 1), ast, funcs)
         /\ Len(SubSeq(stack, 1, Len(stack) - 1)) = Len(stack) - 1
         /\ \A i \in 1..(Len(stack) - 1) : SubSeq(stack, 1, Len(stack) - 1)[i] = stack[i]
<1> DEFINE s == SubSeq(stack, 1, Len(stack) - 1)
<1>1. /\ stack \in Seq(FrameOf(ast, funcs)) /\ Len(stack) >= 2
      /\ \A i \in 1..Len(stack) : i = 1 <=> stack[i].pc \in Base
  BY TopType DEF IsStack, TypeInv
<1>2. /\ s \in Seq(FrameOf(ast, funcs)) /\ Len(s) = Len(stack) - 1
      /\ \A i \in 1..(Len(stack) - 1) : s[i] = stack[i]
  BY <1>1, PopType
<1> HIDE DEF s
<1>3. IsStack(s, ast, funcs)
  BY <1>1, <1>2 DEF IsStack
<1> QED
  BY <1>2, <1>3 DEF s

LEMMA EnterDefType == ASSUME TypeInv, EnterDef PROVE TypeInv' /\ Growing
<1>1. PICK name \in FuncNames, params \in ParamLists :
        DefineFunction(SubSeq(stack, 1, Len(stack) - 1), Top.node, name, params)
  BY DEF EnterDef
<1>2. params \in Seq(ParamNames) /\ Top.node \in 0..Len(ast)
  <2>1. "FUNCDEF" \in NodeType
    BY DEF NodeType
  <2> QED
    BY <2>1, BelowType, CodegenAssumption
<1>3. Top.pc \notin Base /\ UNCHANGED <<mode, ub, status>>
  BY DEF EnterDef, Enter, At, Base
<1> QED
  BY <1>1, <1>2, <1>3, PopStack, DefineType

LEMMA EmitBase ==
  ASSUME TypeInv
  PROVE  LET base == <<[Top EXCEPT !.pc = "coded"]>>
         IN /\ IsStack(base, ast, funcs) /\ Len(base) = 1
            /\ base[1].pc = "coded"
            /\ base[1].node = Top.node /\ 0 \in 0..Len(ast)
<1> DEFINE f == [Top EXCEPT !.pc = "coded"]
           base == <<f>>
<1>2. f.pc = "coded" /\ f.node = Top.node
  <2>1. "coded" \in Labels
    BY DEF Labels
  <2> QED
    BY <2>1, FitsOn
<1>3. f \in FrameOf(ast, funcs)
  <2>1. Top \in FrameOf(ast, funcs) /\ ast \in Seq(Node) /\ funcs \in Seq(Function)
    BY TopType DEF TypeInv, Typed
  <2>2. Top \in FrameIn(0..Len(ast), ValueOf(Len(funcs)), Places(funcs), 0..Len(funcs))
    BY <2>1, AsFrameIn
  <2>3. f \in FrameIn(0..Len(ast), ValueOf(Len(funcs)), Places(funcs), 0..Len(funcs))
    BY <2>2 DEF FrameIn, Labels
  <2> HIDE DEF f
  <2>4. Fits(f, ast)
    BY <1>2 DEF Fits
  <2> QED
    BY <2>1, <2>3, <2>4, AsFrameIn
<1> HIDE DEF f
<1>4. base \in Seq(FrameOf(ast, funcs)) /\ Len(base) = 1 /\ base[1] = f
  BY <1>3, OneType
<1>5. IsStack(base, ast, funcs)
  BY <1>2, <1>4 DEF IsStack, Base
<1>6. 0 \in 0..Len(ast)
  BY LenProperties DEF TypeInv, Typed
<1> QED
  BY <1>2, <1>4, <1>5, <1>6 DEF f

LEMMA EmitStartsType == ASSUME TypeInv, EmitStarts PROVE TypeInv' /\ Growing
<1>1. /\ DefineFunction(<<[Top EXCEPT !.pc = "coded"]>>, 0, "main", <<>>)
      /\ UNCHANGED <<mode, ub, status>>
  BY DEF EmitStarts
<1>2. <<>> \in Seq(ParamNames) /\ "main" \in FuncNames
  BY CodegenAssumption, EmptyType
<1> QED
  BY <1>1, <1>2, EmitBase, DefineType

(* A verdict on function f. *)
Judged(fs, f, state) == [fs EXCEPT ![f].state = state]

LEMMA JudgedType ==
  ASSUME NEW fs \in Seq(Function), NEW f \in 1..Len(fs),
         NEW state \in {"verified", "dropped", "rejected"}
  PROVE  LET gs == Judged(fs, f, state)
         IN /\ gs \in Seq(Function) /\ Len(gs) = Len(fs) /\ Grown(fs, gs)
            /\ gs[f].state = state
            /\ \A g \in 1..Len(fs) : g # f => gs[g] = fs[g]
<1> DEFINE x == [fs[f] EXCEPT !.state = state]
           gs == [fs EXCEPT ![f] = x]
<1>1. fs[f] \in Function /\ \A g \in 1..Len(fs) : Len(fs[g].blocks) \in Nat
  BY FunctionFields
<1>2. x \in Function /\ x.state = state /\ x.blocks = fs[f].blocks
  BY <1>1 DEF Function
<1>3. gs = Judged(fs, f, state)
  BY DEF Judged
<1> HIDE DEF x
<1>4. /\ gs \in Seq(Function) /\ Len(gs) = Len(fs) /\ gs[f] = x
      /\ \A g \in 1..Len(fs) : g # f => gs[g] = fs[g]
  BY <1>2, ExceptType
<1> HIDE DEF gs
<1>5. Grown(fs, gs)
  <2>1. \A g \in 1..Len(fs) : Len(gs[g].blocks) = Len(fs[g].blocks)
    BY <1>2, <1>4
  <2> QED
    BY <1>1, <1>4, <2>1, LenProperties DEF Grown
<1> QED
  BY <1>2, <1>3, <1>4, <1>5

LEMMA BodyType ==
  ASSUME TypeInv, At("body")
  PROVE  /\ Top.fn \in 1..Len(funcs) /\ Top.node \in 1..Len(ast)
         /\ ast[Top.node].type = "FUNCDEF"
         /\ Top.pc = "body" /\ Top.pc \notin Base
<1>1. /\ Top \in FrameOf(ast, funcs) /\ ast \in Seq(Node) /\ funcs \in Seq(Function)
      /\ Top.pc = "body"
  BY TopType DEF TypeInv, Typed, At
<1>2. Fits(Top, ast) /\ Top.fn \in 0..Len(funcs) /\ Top.node \in 0..Len(ast)
  BY <1>1, FrameFields
<1>3. Top.fn # 0 /\ Top.node # 0 /\ ast[Top.node].type = "FUNCDEF"
  BY <1>1, <1>2 DEF Fits
<1> QED
  BY <1>1, <1>2, <1>3, Ranges, LenProperties DEF Base

(* What DefDone does to the functions. *)
LEMMA DefDoneFunctions ==
  ASSUME TypeInv, DefDone
  PROVE  \E fs \in Seq(Function), state \in {"verified", "dropped", "rejected"} :
           /\ Coding(funcs, fs)
           /\ funcs' = Judged(fs, Top.fn, state)
           /\ Top.fn \in 1..Len(fs)
           /\ Return(IF state = "verified" THEN Func(Top.fn) ELSE NULL)
           /\ ub' \in SUBSET Hazard
           /\ "dangling" \in ub' => "dangling" \in ub \/ "dangling" \in Hazards(<<ret>>)
           /\ state = "verified" => ret # NULL
<1>1. /\ Top.fn \in 1..Len(funcs) /\ funcs \in Seq(Function) /\ IsPlace(at, funcs)
      /\ ub \subseteq Hazard
  BY BodyType DEF DefDone, TypeInv, Typed, Plain
<1>2. CASE ret = NULL
  <2>1. /\ funcs' = Judged(funcs, Top.fn, "dropped") /\ Return(NULL) /\ UNCHANGED ub
    BY <1>2 DEF DefDone, Judged
  <2>2. Coding(funcs, funcs)
    BY <1>1, Same
  <2> QED
    BY <1>1, <2>1, <2>2
<1>3. CASE ret # NULL
  <2> DEFINE built == Insert(funcs, at, "ret", <<ret>>, <<>>, 0)
  <2>1. PICK valid \in BOOLEAN :
          /\ funcs' = Judged(built, Top.fn, IF valid THEN "verified" ELSE "rejected")
          /\ Return(IF valid THEN Func(Top.fn) ELSE NULL)
    BY <1>3 DEF DefDone, Judged
  <2>2. ub' = ub \cup Hazards(<<ret>>)
    BY <1>3 DEF DefDone
  <2>3. built \in Seq(Function) /\ Coding(funcs, built)
    <3>1. "ret" \in Opcode /\ <<>> \in Seq(Pos) /\ <<ret>> \in Seq(ValueOf(Len(funcs)))
      BY EmptyType, OneType DEF Opcode, Terminators, TypeInv, Typed
    <3> QED
      BY <1>1, <3>1, BuildType
  <2> HIDE DEF built
  <2>4. Top.fn \in 1..Len(built)
    BY <1>1, <2>3 DEF Coding
  <2>5. ub' \in SUBSET Hazard
    BY <1>1, <2>2, HazardsType
  <2>6. CASE valid
    BY <1>3, <2>1, <2>2, <2>3, <2>4, <2>5, <2>6
  <2>7. CASE ~valid
    BY <1>3, <2>1, <2>2, <2>3, <2>4, <2>5, <2>7
  <2> QED
    BY <2>6, <2>7
<1> QED
  BY <1>2, <1>3

LEMMA DefDoneType == ASSUME TypeInv, DefDone PROVE TypeInv' /\ Growing
<1>1. PICK fs \in Seq(Function), state \in {"verified", "dropped", "rejected"} :
           /\ Coding(funcs, fs)
           /\ funcs' = Judged(fs, Top.fn, state)
           /\ Top.fn \in 1..Len(fs)
           /\ Return(IF state = "verified" THEN Func(Top.fn) ELSE NULL)
           /\ ub' \in SUBSET Hazard
  BY DefDoneFunctions
<1>2. /\ Top.pc \notin Base /\ UNCHANGED <<mode, ast, at, named_vals, status>>
      /\ funcs \in Seq(Function)
  BY DEF DefDone, At, Base, TypeInv, Typed
<1>3. /\ funcs' \in Seq(Function) /\ Len(funcs') = Len(fs) /\ Grown(fs, funcs')
  BY <1>1, JudgedType
<1>4. Len(funcs') = Len(funcs) /\ Grown(funcs, funcs')
  <2>1. Len(fs) = Len(funcs)
    BY <1>1 DEF Coding
  <2>2. Grown(funcs, fs)
    BY <1>1, <1>2, CodingGrows
  <2> QED
    BY <1>1, <1>2, <1>3, <2>1, <2>2, GrownTwice
<1>5. Growing
  BY <1>2, <1>3, <1>4, Same DEF Growing, TypeInv, Typed
<1>6. (IF state = "verified" THEN Func(Top.fn) ELSE NULL) \in ValueOf(Len(funcs'))
  <2>1. Top.fn \in 0..Len(funcs') /\ Len(funcs') \in Nat
    BY <1>1, <1>3, LenProperties
  <2>2. Func(Top.fn) \in ValueOf(Len(funcs'))
    BY <2>1, ConstType
  <2> QED
    BY <1>3, <2>2, NullType
<1>7. IsStack(stack', ast', funcs') /\ ret' \in ValueOf(Len(funcs'))
  BY <1>1, <1>2, <1>5, <1>6, ReturnInv
<1>8. Plain'
  BY <1>1, <1>2 DEF TypeInv, Plain
<1> QED
  BY <1>2, <1>4, <1>5, <1>7, <1>8, Growth DEF TypeInv, Typed, Growing

-----------------------------------------------------------------------------
(* Blocks, and the program as a whole.                                     *)

LEMMA NextStmtType == ASSUME TypeInv, NextStmt PROVE TypeInv'
<1> DEFINE f == [Top EXCEPT !.pc = "stmt"]
<1>1. Growing
  BY Unmoved DEF NextStmt, NoCode
<1>2. "stmt" \in Labels /\ Top.pc = "block" /\ CallExpr(f)
  BY DEF Labels, NextStmt, At
<1>3. /\ f.pc = "stmt" /\ f.node = Top.node /\ f.vals = Top.vals
      /\ f.blks = Top.blks /\ f.fn = Top.fn
  BY <1>2, FitsOn
<1>4. Fits(Top, ast') => Fits(f, ast')
  BY <1>2, <1>3 DEF Fits
<1>5. f \in FrameOf(ast', funcs')
  BY <1>1, <1>2, <1>4, GoOnType DEF Base
<1> HIDE DEF f
<1>6. IsStack(stack', ast', funcs')
  BY <1>1, <1>2, <1>3, <1>5, CallInv DEF Base
<1> QED
  BY <1>1, <1>6, Growth, Assemble DEF NextStmt

LEMMA StmtDoneType == ASSUME TypeInv, StmtDone PROVE TypeInv'
<1>1. Growing
  BY Unmoved DEF StmtDone, NoCode
<1>2. "block" \in Labels /\ Top.pc = "stmt" /\ Top.pc \notin Base
  BY DEF Labels, StmtDone, At, Base
<1>3. CASE ret = NULL
  <2>1. IsStack(stack', ast', funcs') /\ ret' \in ValueOf(Len(funcs'))
    BY <1>1, <1>2, <1>3, ReturnInv, NullType DEF Growing, StmtDone
  <2> QED
    BY <1>1, <2>1, Assemble DEF StmtDone
<1>4. CASE ret # NULL
  <2> DEFINE f == [Top EXCEPT !.pc = "block", !.vals = <<ret>>]
  <2>1. stack' = Resume(f) /\ UNCHANGED ret
    BY <1>4 DEF StmtDone
  <2>2. <<ret>> \in Seq(ValueOf(Len(funcs'))) /\ Top.node \in 0..Len(ast')
        /\ Top.blks \in Seq(Places(funcs')) /\ Top.fn \in 0..Len(funcs')
    BY SMTT(40), <1>1, Growth, OneType, TopFields
  <2>3. /\ Holds(f, "block", Top.node, <<ret>>, Top.blks, Top.fn)
        /\ Fits(f, ast') => f \in FrameOf(ast', funcs')
    BY <1>1, <1>2, <2>2, TopExcept
  <2> HIDE DEF f
  <2>4. f \in FrameOf(ast', funcs') /\ f.pc \notin Base
    BY <1>1, <1>2, <2>3, TopFields DEF Holds, Fits, Base
  <2>5. IsStack(stack', ast', funcs')
    BY <1>1, <1>2, <2>1, <2>4, ResumeInv
  <2> QED
    BY <1>1, <2>1, <2>5, Growth, Assemble DEF StmtDone
<1> QED
  BY <1>3, <1>4

LEMMA BlockDoneType == ASSUME TypeInv, BlockDone PROVE TypeInv'
<1>1. Growing /\ Top.pc \notin Base
  BY Unmoved DEF BlockDone, NoCode, At, Base
<1>2. Return(Top.vals[1]) /\ Top.vals # <<>>
  BY DEF BlockDone
<1>3. Top.vals[1] \in ValueOf(Len(funcs'))
  <2>1. Top.vals \in Seq(ValueOf(Len(funcs')))
    BY <1>1, TopFields
  <2>2. \A S : \A s \in Seq(S) : s # <<>> => s[1] \in S
    BY EmptySeq, LenProperties, ElementOfSeq
  <2> QED
    BY <1>2, <2>1, <2>2
<1>4. IsStack(stack', ast', funcs') /\ ret' \in ValueOf(Len(funcs'))
  BY <1>1, <1>2, <1>3, ReturnInv
<1> QED
  BY <1>1, <1>4, Assemble DEF BlockDone

LEMMA EmptyBlockType == ASSUME TypeInv, EmptyBlock PROVE TypeInv'
<1>1. Top.pc \notin Base /\ UNCHANGED <<mode, ast, funcs, at, named_vals, status>>
  BY DEF EmptyBlock, At, Base
<1>2. Growing
  BY <1>1, Unmoved
<1>3. PICK v \in {NULL, ret} : Return(v)
  BY DEF EmptyBlock
<1>4. v \in ValueOf(Len(funcs'))
  BY <1>2, <1>3, NullType, Growth DEF Growing
<1>5. IsStack(stack', ast', funcs') /\ ret' \in ValueOf(Len(funcs'))
  BY <1>1, <1>2, <1>3, <1>4, ReturnInv
<1>6. Plain'
  BY <1>1 DEF EmptyBlock, TypeInv, Plain, Hazard
<1> QED
  BY <1>1, <1>2, <1>5, <1>6, Growth DEF TypeInv, Typed, Growing

LEMMA EvalStartsType == ASSUME TypeInv, EvalStarts PROVE TypeInv'
<1> DEFINE f == [Top EXCEPT !.pc = "coded"]
<1>1. /\ Top.pc = "main" /\ CallBlock(f) /\ NoCode /\ UNCHANGED ret
      /\ "coded" \in Labels
  BY DEF EvalStarts, At, Labels
<1>2. f.pc = "coded" /\ f.node = Top.node /\ Top.node \in 0..Len(ast)
  <2>1. "IF" \in NodeType
    BY DEF NodeType
  <2> QED
    BY <1>1, <2>1, FitsOn, BelowType
<1>3. funcs' \in Seq(Function) /\ Grown(funcs, funcs')
  BY <1>1, Same DEF NoCode, TypeInv, Typed
<1>4. Growing => f \in FrameOf(ast', funcs')
  <2> SUFFICES ASSUME Growing PROVE f \in FrameOf(ast', funcs')
    OBVIOUS
  <2>0. /\ Top.node \in 0..Len(ast') /\ Top.fn \in 0..Len(funcs')
        /\ Top.vals \in Seq(ValueOf(Len(funcs')))
        /\ Top.blks \in Seq(Places(funcs'))
    BY SMTT(40), TopFields
  <2>1. /\ Holds(f, "coded", Top.node, Top.vals, Top.blks, Top.fn)
        /\ Fits(f, ast') => f \in FrameOf(ast', funcs')
    BY <1>1, <2>0, TopExcept
  <2> HIDE DEF f
  <2> QED
    BY <2>1 DEF Holds, Fits
<1> HIDE DEF f
<1>5. Growing /\ IsStack(stack', ast', funcs')
  BY <1>1, <1>2, <1>3, <1>4, BlockCallInv DEF Base
<1> QED
  BY <1>1, <1>5, Growth, Assemble

(* Whatever ends the program changes nothing that is typed. *)
LEMMA EndType == ASSUME TypeInv, Coded \/ Killed \/ IfDies PROVE TypeInv'
<1>1. UNCHANGED <<mode, ast, stack, ret, funcs, at, named_vals>>
  BY DEF Coded, Killed, IfDies
<1>2. ub' \subseteq Hazard /\ status' \in {"running", "done", "failed", "killed"}
  BY DEF Coded, Killed, IfDies, TypeInv, Plain, Hazard
<1> QED
  BY <1>1, <1>2 DEF TypeInv, Plain, Typed, IsPlace, IsStack

LEMMA TypeStep == ASSUME TypeInv, [Next]_vars PROVE TypeInv'
<1>1. CASE UNCHANGED vars
  BY <1>1 DEF vars, TypeInv, Plain, Typed, IsPlace, IsStack
<1>2. CASE EnterDbl \/ EnterVar \/ EnterBin \/ EnterCall \/ EnterIf \/ EnterDef
  BY <1>2, EnterDblType, EnterVarType, EnterBinType, EnterCallType, EnterIfType,
     EnterDefType
<1>3. CASE Rhs \/ Bin \/ NextArg \/ StoreArg \/ BuildCall
  BY <1>3, RhsType, BinType, NextArgType, StoreArgType, BuildCallType
<1>4. CASE Then \/ Else \/ Phi \/ IfFails \/ DefDone
  BY <1>4, ThenType, ElseType, PhiType, IfFailsType, DefDoneType
<1>5. CASE NextStmt \/ StmtDone \/ BlockDone \/ EmptyBlock
  BY <1>5, NextStmtType, StmtDoneType, BlockDoneType, EmptyBlockType
<1>6. CASE EvalStarts \/ EmitStarts
  BY <1>6, EvalStartsType, EmitStartsType
<1>7. CASE Coded \/ Killed \/ IfDies
  BY <1>7, EndType
<1> QED
  BY <1>1, <1>2, <1>3, <1>4, <1>5, <1>6, <1>7 DEF Next, Step, Ended

LEMMA InitType == Init => TypeInv
<1> SUFFICES ASSUME Init PROVE TypeInv
  OBVIOUS
<1> DEFINE g == NewFrame("main", 0)
<1>1. ast = <<>> /\ funcs = <<>> /\ stack = <<g>> /\ named_vals = NoNames
  BY DEF Init
<1>2. /\ ast \in Seq(Node) /\ Len(ast) = 0 /\ funcs \in Seq(Function)
      /\ Len(funcs) = 0
  BY <1>1, EmptyType
<1>3. ret \in ValueOf(Len(funcs))
  BY <1>2, NullType DEF Init
<1>4. named_vals \in [ParamNames -> ValueOf(Len(funcs))]
  BY <1>1, <1>2, NoNamesType DEF Cleared
<1>5. g \in FrameOf(ast, funcs) /\ g.pc = "main"
  <2>1. "main" \in Labels /\ 0 \in 0..Len(ast) /\ g.pc = "main"
    BY <1>2 DEF Labels, NewFrame
  <2>2. Fits(g, ast)
    BY <2>1 DEF Fits
  <2> QED
    BY <1>2, <2>1, <2>2, NewFrameType
<1> HIDE DEF g
<1>6. IsStack(stack, ast, funcs)
  <2>1. stack \in Seq(FrameOf(ast, funcs)) /\ Len(stack) = 1 /\ stack[1] = g
    BY <1>1, <1>5, OneType
  <2> QED
    BY <1>5, <2>1 DEF IsStack, Base
<1> QED
  BY <1>2, <1>3, <1>4, <1>6 DEF Init, TypeInv, Plain, Typed, IsPlace

LEMMA TypeInvImpliesTypeOK == TypeInv => TypeOK
<1> SUFFICES ASSUME TypeInv PROVE TypeOK
  OBVIOUS
<1>1. ValueOf(Len(funcs)) \subseteq Value /\ funcs \in Seq(Function)
  BY ValueMono, SomeFunctions
<1>2. stack \in Seq(Frame) /\ stack # <<>>
  <2>1. FrameOf(ast, funcs) \subseteq Frame
    <3>1. Seq(ValueOf(Len(funcs))) \subseteq Seq(Value)
      BY <1>1, SeqMono
    <3>2. Seq(Places(funcs)) \subseteq Seq(Pos)
      <4>1. Places(funcs) \subseteq Pos
        BY DEF Places
      <4> QED
        BY <4>1, SeqMono
    <3>3. 0..Len(ast) \subseteq Nat /\ 0..Len(funcs) \subseteq Nat
      BY LenProperties
    <3> QED
      BY <3>1, <3>2, <3>3 DEF FrameOf, Frame
  <2>2. Seq(FrameOf(ast, funcs)) \subseteq Seq(Frame)
    BY <2>1, SeqMono
  <2>3. stack \in Seq(FrameOf(ast, funcs)) /\ Len(stack) >= 1
    BY DEF TypeInv, IsStack
  <2>4. stack # <<>>
    BY <2>3, EmptyType
  <2> QED
    BY <2>2, <2>3, <2>4
<1>3. ret \in Value /\ named_vals \in [ParamNames -> Value]
  BY <1>1 DEF TypeInv, Typed
<1>4. at # <<0, 0>> => at[1] \in 1..Len(funcs) /\ at[2] \in Blocks(funcs, at[1])
  BY DEF TypeInv, Typed, IsPlace, Places
<1> QED
  BY <1>2, <1>3, <1>4 DEF TypeOK, TypeInv, Typed, Plain, Hazard

(* Every variable of the code generator has its type at all times, and the *)
(* builder is in a block of a function that exists, also in the middle of  *)
(* nested conditionals and after functions have been deleted.              *)
THEOREM CodegenTypeCorrect == Spec => []TypeOK
<1>1. Init => TypeInv
  BY InitType
<1>2. TypeInv /\ [Next]_vars => TypeInv'
  BY TypeStep
<1>3. TypeInv => TypeOK
  BY TypeInvImpliesTypeOK
<1> QED
  BY <1>1, <1>2, <1>3, PTL DEF Spec

-----------------------------------------------------------------------------
(* A failure is on its way to the bottom of the stack: it was just         *)
(* returned to a caller, or it is the left operand of an operator whose    *)
(* right one is generated.                                                 *)

Waiting == {"coded", "stmt", "lhs", "rhs", "arg", "cond", "then", "else", "body"}

Suspended(s) == \A i \in 1..(Len(s) - 1) : s[i].pc \in Waiting

Doomed(s, v) ==
  \/ s[Len(s)].pc \in Waiting /\ v = NULL
  \/ \E i \in 1..Len(s) : s[i].pc = "rhs" /\ s[i].vals[1] = NULL

Stays(fs) == \A f \in 1..Len(fs) : fs[f].state \in {"open", "verified"}

Sound == Stays(funcs) /\ "dangling" \notin ub

DoomInv ==
  /\ Suspended(stack)
  /\ Sound \/ Doomed(stack, ret) \/ status \in {"failed", "killed"}
  /\ status = "done" => Sound

(* A return hands the failure on. *)
LEMMA ReturnDoom ==
  ASSUME NEW S, NEW s \in Seq(S), Len(s) >= 2, Suspended(s), NEW v, NEW w,
         s[Len(s)].pc \in Waiting /\ v = NULL => w = NULL,
         s[Len(s)].pc = "rhs" /\ s[Len(s)].vals[1] = NULL => w = NULL
  PROVE  LET t == SubSeq(s, 1, Len(s) - 1)
         IN Suspended(t) /\ (Doomed(s, v) => Doomed(t, w))
            /\ (w = NULL => Doomed(t, w))
<1> DEFINE t == SubSeq(s, 1, Len(s) - 1)
<1>1. /\ Len(t) = Len(s) - 1 /\ Len(s) \in Nat
      /\ \A i \in 1..(Len(s) - 1) : t[i] = s[i]
  BY PopType, LenProperties
<1> HIDE DEF t
<1>2. Suspended(t) /\ t[Len(t)].pc \in Waiting
  BY <1>1 DEF Suspended
<1>3. ASSUME Doomed(s, v) PROVE Doomed(t, w)
  <2>1. CASE s[Len(s)].pc \in Waiting /\ v = NULL
    BY <1>2, <2>1 DEF Doomed
  <2>2. CASE \E i \in 1..Len(s) : s[i].pc = "rhs" /\ s[i].vals[1] = NULL
    <3>1. PICK i \in 1..Len(s) : s[i].pc = "rhs" /\ s[i].vals[1] = NULL
      BY <2>2
    <3>2. CASE i = Len(s)
      BY <1>2, <3>1, <3>2 DEF Doomed
    <3>3. CASE i # Len(s)
      <4>1. i \in 1..Len(t) /\ t[i] = s[i]
        BY <1>1, <3>3
      <4> QED
        BY <3>1, <4>1 DEF Doomed
    <3> QED
      BY <3>2, <3>3
  <2> QED
    BY <1>3, <2>1, <2>2 DEF Doomed
<1> QED
  BY <1>2, <1>3 DEF Doomed, t

(* A frame that goes on stands for no failure. *)
LEMMA ResumeDoom ==
  ASSUME NEW S, stack \in Seq(S), Len(stack) >= 1, Suspended(stack),
         NEW g \in S, NEW v,
         ~(Top.pc \in Waiting /\ v = NULL), Top.pc # "rhs"
  PROVE  Suspended(Resume(g)) /\ (Doomed(stack, v) => Doomed(Resume(g), v))
<1> DEFINE t == Resume(g)
<1>1. /\ Len(t) = Len(stack) /\ Len(stack) \in Nat /\ t[Len(stack)] = g
      /\ \A i \in 1..(Len(stack) - 1) : t[i] = stack[i]
  BY ResumeType, LenProperties
<1> HIDE DEF t
<1>2. Suspended(t)
  BY <1>1 DEF Suspended
<1>3. ASSUME Doomed(stack, v) PROVE Doomed(t, v)
  <2>1. PICK i \in 1..Len(stack) : stack[i].pc = "rhs" /\ stack[i].vals[1] = NULL
    BY <1>3 DEF Doomed, Top
  <2>2. i # Len(stack)
    BY <2>1 DEF Top
  <2>3. i \in 1..Len(t) /\ t[i] = stack[i]
    BY <1>1, <2>2
  <2> QED
    BY <2>1, <2>3 DEF Doomed
<1> QED
  BY <1>2, <1>3 DEF t

(* A call leaves the failure below it. *)
LEMMA CallDoom ==
  ASSUME NEW S, stack \in Seq(S), Len(stack) >= 1, Suspended(stack),
         NEW g \in S, NEW h \in S, NEW v, g.pc \in Waiting, Top.pc # "rhs",
         Top.pc \in Waiting /\ v = NULL => g.pc = "rhs" /\ g.vals[1] = NULL
  PROVE  /\ Suspended(Append(Resume(g), h))
         /\ Doomed(stack, v) => Doomed(Append(Resume(g), h), v)
<1> DEFINE r == Resume(g)
           t == Append(r, h)
<1>1. /\ r \in Seq(S) /\ Len(r) = Len(stack) /\ Len(stack) \in Nat /\ r[Len(stack)] = g
      /\ \A i \in 1..(Len(stack) - 1) : r[i] = stack[i]
  BY ResumeType, LenProperties
<1> HIDE DEF r
<1>2. /\ Len(t) = Len(stack) + 1 /\ t[Len(stack)] = g
      /\ \A i \in 1..(Len(stack) - 1) : t[i] = stack[i]
  <2>1. Len(t) = Len(r) + 1 /\ \A i \in 1..Len(r) : t[i] = r[i]
    BY <1>1, AppendType
  <2> QED
    BY <1>1, <2>1
<1> HIDE DEF t
<1>3. Suspended(t)
  <2>1. ASSUME NEW i \in 1..(Len(t) - 1) PROVE t[i].pc \in Waiting
    <3>1. CASE i = Len(stack)
      BY <1>2, <3>1
    <3>2. CASE i # Len(stack)
      BY <1>1, <1>2, <3>2 DEF Suspended
    <3> QED
      BY <3>1, <3>2
  <2> QED
    BY <2>1 DEF Suspended
<1>4. ASSUME Doomed(stack, v) PROVE Doomed(t, v)
  <2>1. CASE Top.pc \in Waiting /\ v = NULL
    <3>1. Len(stack) \in 1..Len(t)
      BY <1>1, <1>2
    <3> QED
      BY <1>2, <2>1, <3>1 DEF Doomed
  <2>2. CASE ~ (Top.pc \in Waiting /\ v = NULL)
    <3>1. PICK i \in 1..Len(stack) : stack[i].pc = "rhs" /\ stack[i].vals[1] = NULL
      BY <1>4, <2>2 DEF Doomed, Top
    <3>2. i # Len(stack)
      BY <3>1 DEF Top
    <3>3. i \in 1..Len(t) /\ t[i] = stack[i]
      BY <1>1, <1>2, <3>2
    <3> QED
      BY <3>1, <3>3 DEF Doomed
  <2> QED
    BY <2>1, <2>2
<1> QED
  BY <1>3, <1>4 DEF t, r

-----------------------------------------------------------------------------
(* No action loses a failure.                                              *)

(* While no function is deleted nothing that is used is dangling. *)
LEMMA NothingDangles ==
  ASSUME TypeInv, Stays(funcs), NEW args \in Seq(ValueOf(Len(funcs)))
  PROVE  "dangling" \notin Hazards(args)
<1>1. Len(funcs) \in Nat
  BY SomeFunctions
<1>2. \A f \in 0..Len(funcs) : f = 0 \/ Live(f)
  BY <1>1 DEF Stays, Live
<1>3. at[1] \in 0..Len(funcs)
  BY <1>1 DEF TypeInv, Typed, IsPlace, Places
<1>4. ASSUME NEW i \in 1..Len(args) PROVE args[i].fn \in 0..Len(funcs)
  BY ElementOfSeq, ValueFields
<1> QED
  BY <1>2, <1>3, <1>4 DEF Hazards

LEMMA SoundKept ==
  ASSUME Sound, Len(funcs') = Len(funcs), "dangling" \notin ub',
         \A f \in 1..Len(funcs) : funcs'[f].state = funcs[f].state
  PROVE  Sound'
  BY DEF Sound, Stays

LEMMA DoomKept ==
  ASSUME DoomInv, status = "running", UNCHANGED status, Suspended(stack'),
         Doomed(stack, ret) => Doomed(stack', ret'),
         Sound => Sound' \/ Doomed(stack', ret')
  PROVE  DoomInv'
<1>1. Sound' \/ Doomed(stack', ret')
  BY DEF DoomInv
<1>2. Suspended(stack)' /\ (Sound' \/ Doomed(stack, ret)')
  BY <1>1 DEF Suspended, Doomed
<1> QED
  BY <1>2 DEF DoomInv

LEMMA QuietSound == ASSUME NoCode, Sound PROVE Sound'
  BY DEF NoCode, Sound, Stays

(* A step that returns to the caller. *)
LEMMA ReturnsDoom ==
  ASSUME TypeInv, DoomInv, status = "running", UNCHANGED status, Top.pc \notin Base,
         NEW v, Return(v), Top.pc \in Waiting /\ ret = NULL => v = NULL,
         Top.pc = "rhs" /\ Top.vals[1] = NULL => v = NULL,
         Sound => Sound' \/ v = NULL
  PROVE  DoomInv'
<1>1. stack \in Seq(FrameOf(ast, funcs)) /\ Len(stack) >= 2
  BY TopType DEF TypeInv
<1>2. stack' = SubSeq(stack, 1, Len(stack) - 1) /\ ret' = v /\ Suspended(stack)
  BY DEF Return, DoomInv
<1>3. /\ stack[Len(stack)].pc \in Waiting /\ ret = NULL => v = NULL
      /\ stack[Len(stack)].pc = "rhs" /\ stack[Len(stack)].vals[1] = NULL => v = NULL
  BY DEF Top
<1>4. /\ Suspended(stack') /\ (Doomed(stack, ret) => Doomed(stack', ret'))
      /\ (v = NULL => Doomed(stack', ret'))
  BY <1>1, <1>2, <1>3, ReturnDoom
<1> QED
  BY <1>4, DoomKept

(* A step that calls do_codegen: g waits, h is the callee. *)
LEMMA CallsDoom ==
  ASSUME TypeInv, DoomInv, status = "running", UNCHANGED <<status, ret>>,
         NEW g, NEW h, stack' = Append(Resume(g), h),
         g.pc \in Waiting, Top.pc # "rhs",
         Top.pc \in Waiting /\ ret = NULL => g.pc = "rhs" /\ g.vals[1] = NULL,
         Sound => Sound'
  PROVE  DoomInv'
<1> DEFINE S == FrameOf(ast, funcs) \cup {g, h}
<1>1. stack \in Seq(S) /\ Len(stack) >= 1
  <2>1. stack \in Seq(FrameOf(ast, funcs)) /\ Len(stack) >= 1
    BY TopType DEF TypeInv
  <2>2. FrameOf(ast, funcs) \subseteq S
    OBVIOUS
  <2> QED
    BY <2>1, <2>2, SeqMono
<1>2. g \in S /\ h \in S
  OBVIOUS
<1> HIDE DEF S
<1>3. /\ Suspended(stack')
      /\ Doomed(stack, ret) => Doomed(stack', ret')
  BY <1>1, <1>2, CallDoom DEF DoomInv
<1> QED
  BY <1>3, DoomKept

(* A step after which the same function goes on. *)
LEMMA ResumesDoom ==
  ASSUME TypeInv, DoomInv, status = "running", UNCHANGED <<status, ret>>,
         NEW g, stack' = Resume(g), ~(Top.pc \in Waiting /\ ret = NULL),
         Top.pc # "rhs", Sound => Sound'
  PROVE  DoomInv'
<1> DEFINE S == FrameOf(ast, funcs) \cup {g}
<1>1. stack \in Seq(S) /\ Len(stack) >= 1
  <2>1. stack \in Seq(FrameOf(ast, funcs)) /\ Len(stack) >= 1
    BY TopType DEF TypeInv
  <2>2. FrameOf(ast, funcs) \subseteq S
    OBVIOUS
  <2> QED
    BY <2>1, <2>2, SeqMono
<1>2. g \in S
  OBVIOUS
<1> HIDE DEF S
<1>3. /\ Suspended(stack')
      /\ Doomed(stack, ret) => Doomed(stack', ret')
  BY <1>1, <1>2, ResumeDoom DEF DoomInv
<1> QED
  BY <1>3, DoomKept

(* The leaves of expressions, and the calls that cannot be made. *)
LEMMA EnterDoom ==
  ASSUME TypeInv, DoomInv, EnterDbl \/ EnterVar \/ EnterCall PROVE DoomInv'
<1>1. /\ Top.pc = "expr" /\ status = "running" /\ NoCode
  BY DEF EnterDbl, EnterVar, EnterCall, Enter, At
<1>2. /\ UNCHANGED status /\ (Sound => Sound')
      /\ Top.pc \notin Base /\ Top.pc \notin Waiting /\ Top.pc # "rhs"
  BY <1>1, QuietSound DEF NoCode, Base, Waiting
<1>3. CASE EnterDbl \/ EnterVar
  <2>1. \E v : Return(v)
    BY <1>3 DEF EnterDbl, EnterVar
  <2> QED
    BY <1>1, <1>2, <2>1, ReturnsDoom
<1>4. CASE EnterCall
  <2>1. \/ \E g : stack' = Resume(g) /\ UNCHANGED ret
        \/ Return(NULL)
    BY <1>4 DEF EnterCall
  <2> QED
    BY <1>1, <1>2, <2>1, ReturnsDoom, ResumesDoom
<1> QED
  BY <1>3, <1>4

(* The steps that pass on what a call returned. *)
LEMMA PassDoom ==
  ASSUME TypeInv, DoomInv, StoreArg \/ StmtDone \/ IfFails PROVE DoomInv'
<1>1. /\ Top.pc \in {"arg", "stmt", "cond", "then", "else"} /\ status = "running"
      /\ NoCode
  BY DEF StoreArg, StmtDone, IfFails, At
<1>2. /\ UNCHANGED status /\ (Sound => Sound')
      /\ Top.pc \notin Base /\ Top.pc # "rhs"
  BY <1>1, QuietSound DEF NoCode, Base
<1>3. CASE ret = NULL
  <2>1. Return(NULL)
    BY <1>3 DEF StoreArg, StmtDone, IfFails
  <2> QED
    BY <1>1, <1>2, <2>1, ReturnsDoom
<1>4. CASE ret # NULL
  <2>1. (\E g : stack' = Resume(g)) /\ UNCHANGED ret
    BY <1>4 DEF StoreArg, StmtDone, IfFails
  <2> QED
    BY <1>1, <1>2, <1>4, <2>1, ResumesDoom
<1> QED
  BY <1>3, <1>4

LEMMA BlockDoom ==
  ASSUME TypeInv, DoomInv, BlockDone \/ EmptyBlock PROVE DoomInv'
<1>1. /\ Top.pc = "block" /\ status = "running" /\ UNCHANGED <<funcs, status>>
      /\ "dangling" \in ub' => "dangling" \in ub
  BY DEF BlockDone, EmptyBlock, At, NoCode
<1>2. Sound => Sound'
  BY <1>1 DEF Sound, Stays
<1>3. \E v : Return(v)
  BY DEF BlockDone, EmptyBlock
<1> QED
  BY <1>1, <1>2, <1>3, ReturnsDoom DEF Base, Waiting

(* The frame of a function that waits for a call it makes. *)
LEMMA WaitingFrame ==
  ASSUME TypeInv, NEW pc, NEW node, NEW vals, NEW blks, NEW k
  PROVE  /\ [Top EXCEPT !.pc = pc].pc = pc
         /\ [Top EXCEPT !.pc = pc, !.node = node].pc = pc
         /\ [Top EXCEPT !.pc = pc, !.vals = vals].pc = pc
         /\ [Top EXCEPT !.pc = pc, !.vals = vals].vals = vals
         /\ [Top EXCEPT !.pc = pc, !.blks = blks].pc = pc
         /\ [Top EXCEPT !.pc = pc, !.vals = vals, !.blks[1] = k].pc = pc
<1>1. Top \in FrameOf(ast, funcs) /\ ast \in Seq(Node) /\ funcs \in Seq(Function)
  BY TopType DEF TypeInv, Typed
<1>2. Top \in FrameIn(0..Len(ast), ValueOf(Len(funcs)), Places(funcs), 0..Len(funcs))
  BY <1>1, AsFrameIn
<1> QED
  BY <1>2 DEF FrameIn

LEMMA CallerDoom ==
  ASSUME TypeInv, DoomInv, EnterBin \/ EnterIf \/ NextArg \/ NextStmt \/ EvalStarts
  PROVE  DoomInv'
<1>1. /\ Top.pc \in {"expr", "args", "block", "main"} /\ status = "running"
      /\ NoCode /\ UNCHANGED ret
  BY DEF EnterBin, EnterIf, NextArg, NextStmt, EvalStarts, Enter, At
<1>2. /\ UNCHANGED status /\ (Sound => Sound')
      /\ Top.pc \notin Waiting /\ Top.pc # "rhs"
  BY <1>1, QuietSound DEF NoCode, Waiting
<1>3. \E g, h : g.pc \in Waiting /\ stack' = Append(Resume(g), h)
  <2>1. CASE EnterBin
    <3>1. [Top EXCEPT !.pc = "lhs", !.node = Fresh].pc \in Waiting
      BY WaitingFrame DEF Waiting
    <3> QED
      BY <2>1, <3>1 DEF EnterBin, CallExpr
  <2>2. CASE EnterIf
    <3>1. [Top EXCEPT !.pc = "cond", !.node = Fresh].pc \in Waiting
      BY WaitingFrame DEF Waiting
    <3> QED
      BY <2>2, <3>1 DEF EnterIf, CallExpr
  <2>3. CASE NextArg
    <3>1. [Top EXCEPT !.pc = "arg"].pc \in Waiting
      BY WaitingFrame DEF Waiting
    <3> QED
      BY <2>3, <3>1 DEF NextArg, CallExpr
  <2>4. CASE NextStmt
    <3>1. [Top EXCEPT !.pc = "stmt"].pc \in Waiting
      BY WaitingFrame DEF Waiting
    <3> QED
      BY <2>4, <3>1 DEF NextStmt, CallExpr
  <2>5. CASE EvalStarts
    <3>1. [Top EXCEPT !.pc = "coded"].pc \in Waiting
      BY WaitingFrame DEF Waiting
    <3> QED
      BY <2>5, <3>1 DEF EvalStarts, CallBlock
  <2> QED
    BY <2>1, <2>2, <2>3, <2>4, <2>5
<1> QED
  BY <1>1, <1>2, <1>3, CallsDoom

(* The left operand that failed is kept, and its failure with it. *)
LEMMA RhsDoom == ASSUME TypeInv, DoomInv, Rhs PROVE DoomInv'
<1> DEFINE g == [Top EXCEPT !.pc = "rhs", !.vals = <<ret>>]
<1>1. /\ Top.pc = "lhs" /\ status = "running" /\ NoCode /\ UNCHANGED ret
      /\ stack' = Append(Resume(g), NewFrame("expr", g.node))
  BY DEF Rhs, At, CallExpr
<1>2. g.pc = "rhs" /\ g.vals = <<ret>>
  BY WaitingFrame
<1> HIDE DEF g
<1>3. g.pc \in Waiting /\ (ret = NULL => g.vals[1] = NULL)
  BY <1>2 DEF Waiting
<1>4. UNCHANGED status /\ (Sound => Sound')
  BY <1>1, QuietSound DEF NoCode
<1> QED
  BY <1>1, <1>2, <1>3, <1>4, CallsDoom

(* A conditional goes on only when nothing failed. *)
LEMMA BranchDoom == ASSUME TypeInv, DoomInv, Then \/ Else PROVE DoomInv'
<1>1. /\ Top.pc \in {"cond", "then"} /\ ret # NULL /\ status = "running"
      /\ UNCHANGED <<status, ret>>
  BY DEF Then, Else, At
<1>2. \E g, h : g.pc \in Waiting /\ stack' = Append(Resume(g), h)
  <2>1. CASE Then
    <3> DEFINE f == at[1]
               n == Len(funcs[f].blocks)
               g == [Top EXCEPT !.pc = "then",
                       !.blks = <<<<f, n + 1>>, <<f, n + 2>>, <<f, n + 3>>>>]
    <3>1. g.pc \in Waiting
      BY WaitingFrame DEF Waiting
    <3>2. CallBlock(g)
      BY <2>1 DEF Then
    <3> QED
      BY <3>1, <3>2 DEF CallBlock
  <2>2. CASE Else
    <3> DEFINE g == [Top EXCEPT !.pc = "else", !.vals = <<ret>>, !.blks[1] = at]
    <3>1. g.pc \in Waiting
      BY WaitingFrame DEF Waiting
    <3>2. CallBlock(g)
      BY <2>2 DEF Else, BranchEnd
    <3> QED
      BY <3>1, <3>2 DEF CallBlock
  <2> QED
    BY <2>1, <2>2
<1>3. Sound => Sound'
  <2> SUFFICES ASSUME Sound PROVE Sound'
    OBVIOUS
  <2>1. "dangling" \notin ub'
    <3>1. <<ret>> \in Seq(ValueOf(Len(funcs))) /\ <<>> \in Seq(ValueOf(Len(funcs)))
      BY OneType, EmptyType DEF TypeInv, Typed
    <3>2. "dangling" \notin Hazards(<<ret>>) /\ "dangling" \notin Hazards(<<>>)
      BY <3>1, NothingDangles DEF Sound
    <3>3. ub' = ub \cup Hazards(<<ret>>) \/ ub' = ub \cup Hazards(<<>>)
      BY DEF Then, Else
    <3> QED
      BY <3>2, <3>3 DEF Sound
  <2>2. CASE Then
    BY <2>1, <2>2, ThenFunctions, SoundKept
  <2>3. CASE Else
    <3>1. /\ funcs \in Seq(Function) /\ IsPlace(at, funcs) /\ "br" \in Opcode
          /\ <<>> \in Seq(ValueOf(Len(funcs))) /\ <<Top.blks[3]>> \in Seq(Pos)
          /\ funcs' = Insert(funcs, at, "br", <<>>, <<Top.blks[3]>>, 0)
      <4>1. <<Top.blks[3]>> \in Seq(Pos)
        BY <2>3, InFunction, OneType DEF Else, At
      <4> QED
        BY <2>3, <4>1, EmptyType DEF Else, TypeInv, Typed, Opcode, Terminators
    <3>2. Coding(funcs, funcs')
      BY <3>1, BuildType
    <3> QED
      BY <2>1, <3>2, SoundKept DEF Coding
  <2> QED
    BY <2>2, <2>3
<1> QED
  BY SMTT(40), <1>1, <1>2, <1>3, CallsDoom

(* The operands of the instruction that ends a conditional. *)
LEMMA PhiParts ==
  ASSUME TypeInv, Phi
  PROVE  /\ <<Top.vals[1], ret>> \in Seq(ValueOf(Len(funcs)))
         /\ Top.blks[3] \in Places(funcs) /\ Top.blks[3] # <<0, 0>>
         /\ <<Top.blks[3]>> \in Seq(Pos) /\ <<Top.blks[1], at>> \in Seq(Pos)
<1>1. Top.pc = "else" /\ Top \in FrameOf(ast, funcs) /\ ast \in Seq(Node)
      /\ funcs \in Seq(Function)
  BY TopType DEF Phi, At, TypeInv, Typed
<1>2. Fits(Top, ast) /\ Top.vals \in Seq(ValueOf(Len(funcs)))
  BY <1>1, FrameFields
<1>3. Len(Top.vals) = 1
  BY <1>1, <1>2 DEF Fits
<1>4. Top.vals[1] \in ValueOf(Len(funcs)) /\ ret \in ValueOf(Len(funcs))
  BY <1>2, <1>3, ElementOfSeq DEF TypeInv, Typed
<1>5. /\ Top.blks[3] \in Pos /\ Top.blks[1] \in Pos /\ at \in Pos
      /\ Top.blks[3] \in Places(funcs) /\ Top.blks[3] # <<0, 0>>
  BY <1>1, InFunction
<1>6. \A S : \A a, b \in S : <<a, b>> \in Seq(S) /\ <<a>> \in Seq(S)
  OBVIOUS
<1> QED
  BY <1>4, <1>5, <1>6

LEMMA PhiFunctions ==
  ASSUME TypeInv, Phi
  PROVE  funcs' \in Seq(Function) /\ Coding(funcs, funcs')
<1> DEFINE merge == Top.blks[3]
           args == <<Top.vals[1], ret>>
           to == <<Top.blks[1], at>>
           closed == Insert(funcs, at, "br", <<>>, <<merge>>, 0)
<1>1. funcs' = Insert(closed, merge, "phi", args, to, 0)
  BY DEF Phi, Incoming, BranchEnd
<1>2. /\ funcs \in Seq(Function) /\ IsPlace(at, funcs)
      /\ <<>> \in Seq(ValueOf(Len(funcs)))
  BY SomeFunctions, EmptyType DEF TypeInv, Typed
<1>3. /\ args \in Seq(ValueOf(Len(funcs))) /\ merge \in Places(funcs)
      /\ <<merge>> \in Seq(Pos) /\ to \in Seq(Pos)
  BY PhiParts
<1>4. "br" \in Opcode /\ "phi" \in Opcode
  BY DEF Opcode, Terminators
<1> HIDE DEF merge, args, to
<1>5. closed \in Seq(Function) /\ Coding(funcs, closed)
  BY <1>2, <1>3, <1>4, BuildType
<1> HIDE DEF closed
<1>6. IsPlace(merge, closed) /\ args \in Seq(ValueOf(Len(closed)))
  <2>1. Places(funcs) \subseteq Places(closed)
    BY <1>2, <1>5, CodingGrows, PlaceMono
  <2> QED
    BY <1>3, <1>5, <2>1 DEF IsPlace, Coding
<1>7. funcs' \in Seq(Function) /\ Coding(closed, funcs')
  BY <1>1, <1>3, <1>4, <1>5, <1>6, BuildType
<1> QED
  BY <1>5, <1>7 DEF Coding

(* An operator fails if one of its operands did; the others of these steps *)
(* are taken only when nothing failed.                                     *)
LEMMA BuildDoom ==
  ASSUME TypeInv, DoomInv, Bin \/ BuildCall \/ Phi PROVE DoomInv'
<1>1. /\ Top.pc \in {"rhs", "args", "else"} /\ status = "running"
      /\ UNCHANGED status /\ Top.pc \notin Base
  BY DEF Bin, BuildCall, Phi, At, Base
<1>2. CASE Bin /\ EitherFails(Top.vals[1], ret)
  <2>1. Return(NULL) /\ UNCHANGED <<funcs, ub>>
    BY <1>2 DEF Bin
  <2>2. Sound => Sound'
    BY <2>1 DEF Sound, Stays
  <2> QED
    BY <1>1, <2>1, <2>2, ReturnsDoom
<1>3. CASE Bin /\ ~EitherFails(Top.vals[1], ret)
  <2> DEFINE args == <<Top.vals[1], ret>>
             op == ast[Top.node].op
  <2>1. /\ funcs' = Insert(funcs, at, op, args, <<>>, 0)
        /\ Return(Result(funcs, at, op, args))
        /\ ub' = ub \cup Hazards(args)
        /\ Top.pc = "rhs" /\ Top.vals[1] # NULL /\ ret # NULL
    BY <1>3 DEF Bin, Operands, EitherFails, At
  <2>2. /\ op \in Opcode /\ args \in Seq(ValueOf(Len(funcs)))
        /\ funcs \in Seq(Function) /\ IsPlace(at, funcs) /\ <<>> \in Seq(Pos)
    BY <1>3, BinArgs, EmptyType DEF Bin, Opcode, TypeInv, Typed
  <2> HIDE DEF args, op
  <2>3. Coding(funcs, funcs')
    BY <2>1, <2>2, BuildType
  <2>4. Sound => Sound'
    <3> SUFFICES ASSUME Sound PROVE Sound'
      OBVIOUS
    <3>1. "dangling" \notin ub'
      BY <2>1, <2>2, NothingDangles DEF Sound
    <3> QED
      BY <2>3, <3>1, SoundKept DEF Coding
  <2> QED
    BY <1>1, <2>1, <2>4, ReturnsDoom
<1>4. CASE BuildCall
  <2>1. /\ Top.pc = "args"
        /\ funcs' = Insert(funcs, at, "call", Top.vals, <<>>, Top.fn)
        /\ \E v : Return(v)
        /\ ub' = ub \cup Hazards(Top.vals)
                    \cup (IF Live(Top.fn) THEN {} ELSE {"dangling"})
    BY <1>4 DEF BuildCall, At
  <2>2. /\ Top.vals \in Seq(ValueOf(Len(funcs))) /\ Top.fn \in 0..Len(funcs)
        /\ Top.fn # 0 /\ Len(funcs) \in Nat
        /\ funcs \in Seq(Function) /\ IsPlace(at, funcs) /\ <<>> \in Seq(Pos)
    <3>1. /\ Top \in FrameOf(ast, funcs) /\ ast \in Seq(Node)
          /\ funcs \in Seq(Function) /\ IsPlace(at, funcs)
      BY TopType DEF TypeInv, Typed
    <3> QED
      BY <2>1, <3>1, FrameFields, EmptyType, LenProperties DEF Fits
  <2>3. "call" \in Opcode /\ Top.fn \in 1..Len(funcs) /\ Top.fn \in Nat
    BY <2>2 DEF Opcode
  <2>4. Coding(funcs, funcs')
    BY <2>1, <2>2, <2>3, BuildType
  <2>5. Sound => Sound'
    <3> SUFFICES ASSUME Sound PROVE Sound'
      OBVIOUS
    <3>1. Live(Top.fn) /\ "dangling" \notin Hazards(Top.vals)
      BY <2>2, <2>3, NothingDangles DEF Sound, Stays, Live
    <3>2. "dangling" \notin ub'
      BY <2>1, <3>1 DEF Sound
    <3> QED
      BY <2>4, <3>2, SoundKept DEF Coding
  <2>6. Top.pc \notin Waiting /\ Top.pc # "rhs"
    BY <2>1 DEF Waiting
  <2> QED
    BY <1>1, <2>1, <2>5, <2>6, ReturnsDoom
<1>5. CASE Phi
  <2>1. /\ ret # NULL /\ Top.pc # "rhs" /\ \E v : Return(v)
        /\ ub' = ub \cup Hazards(<<Top.vals[1], ret>>)
    BY <1>5 DEF Phi, At, Incoming
  <2>2. Sound => Sound'
    <3> SUFFICES ASSUME Sound PROVE Sound'
      OBVIOUS
    <3>1. "dangling" \notin ub'
      BY <1>5, <2>1, PhiParts, NothingDangles DEF Sound
    <3> QED
      BY <1>5, <3>1, PhiFunctions, SoundKept DEF Coding
  <2> QED
    BY <1>1, <2>1, <2>2, ReturnsDoom
<1> QED
  BY <1>2, <1>3, <1>4, <1>5

LEMMA RedefinedStays ==
  ASSUME TypeInv, NEW f, f \in 1..Len(funcs) \/ f = Len(funcs) + 1,
         NEW x \in Function, x.state \in {"open", "verified"},
         f \in 1..Len(funcs) => Len(funcs[f].blocks) <= Len(x.blocks)
  PROVE  Stays(funcs) => Stays(Redefined(f, x))
<1> DEFINE gs == Redefined(f, x)
<1>1. /\ gs[f] = x
      /\ \A k \in 1..Len(gs) : k # f => k \in 1..Len(funcs) /\ gs[k] = funcs[k]
  <2>1. RedefinedAs(f, x, gs)
    BY RedefinedType
  <2> QED
    BY <2>1 DEF RedefinedAs
<1> HIDE DEF gs
<1>2. Stays(funcs) => Stays(gs)
  BY <1>1 DEF Stays
<1> QED
  BY <1>2 DEF gs

(* A definition is made above functions that wait, or fails. *)
LEMMA DefinesDoom ==
  ASSUME TypeInv, DoomInv, status = "running", UNCHANGED <<status, ub>>,
         NEW base, IsStack(base, ast, funcs), NEW p \in 0..Len(ast),
         NEW name \in FuncNames, NEW params \in Seq(ParamNames),
         DefineFunction(base, p, name, params),
         \A i \in 1..Len(base) : base[i].pc \in Waiting,
         Doomed(stack, ret) =>
           \E i \in 1..Len(base) : base[i].pc = "rhs" /\ base[i].vals[1] = NULL
  PROVE  DoomInv'
<1> DEFINE S == FrameOf(ast, funcs)
<1>1. base \in Seq(S) /\ Len(base) \in Nat /\ Len(base) >= 1
  BY LenProperties DEF IsStack
<1>2. CASE ~Definable(Named(name), Len(params))
  <2>1. stack' = base /\ ret' = NULL /\ UNCHANGED funcs
    BY <1>2, DefineCases
  <2>2. Suspended(stack') /\ Doomed(stack', ret')
    BY <1>1, <2>1 DEF Suspended, Doomed
  <2> QED
    BY <2>2, DoomKept
<1>3. CASE Definable(Named(name), Len(params))
  <2> DEFINE f == Defined(name)
             x == Unbodied(name, params)
             g == BodyFrame(f)
             h == NewFrame("block", Fresh + 1)
  <2>1. /\ funcs' = Redefined(f, WithBody(x))
        /\ stack' = Append(Append(base, g), h)
        /\ UNCHANGED ret
    BY <1>3, DefineCases
  <2>2. g.pc = "body"
    BY DEF BodyFrame, NewFrame
  <2>3. f \in 1..Len(funcs) \/ f = Len(funcs) + 1
    BY NamedType DEF Defined
  <2>4. /\ WithBody(x) \in Function
        /\ WithBody(x).state \in {"open", "verified"}
        /\ f \in 1..Len(funcs) => Len(funcs[f].blocks) <= Len(WithBody(x).blocks)
    <3>1. f \in 1..Len(funcs) => x = funcs[f]
      <4>1. Named(name) = 0 => f = Len(funcs) + 1
        BY DEF Defined
      <4>2. Len(funcs) \in Nat
        BY SomeFunctions
      <4> QED
        BY <4>1, <4>2 DEF Defined, Unbodied
    <3>2. /\ WithBody(x) \in Function /\ WithBody(x).state \in {"open", "verified"}
          /\ Len(WithBody(x).blocks) = Len(x.blocks) + 1 /\ Len(x.blocks) \in Nat
      BY UnbodiedType
    <3> QED
      BY <3>1, <3>2
  <2> HIDE DEF f, x, g, h
  <2>5. Sound => Sound'
    <3>1. Stays(funcs) => Stays(Redefined(f, WithBody(x)))
      BY <2>3, <2>4, RedefinedStays
    <3>2. Stays(funcs) => Stays(funcs')
      BY <2>1, <3>1
    <3> QED
      BY <3>2 DEF Sound, Stays
  <2>6. /\ Len(stack') = Len(base) + 2
        /\ \A i \in 1..Len(base) : stack'[i] = base[i]
        /\ stack'[Len(base) + 1] = g
    <3>1. \A b \in Seq(S \cup {g, h}) :
            /\ Len(Append(Append(b, g), h)) = Len(b) + 2
            /\ \A i \in 1..Len(b) : Append(Append(b, g), h)[i] = b[i]
            /\ Append(Append(b, g), h)[Len(b) + 1] = g
      OBVIOUS
    <3>2. S \subseteq S \cup {g, h}
      OBVIOUS
    <3>3. base \in Seq(S \cup {g, h})
      BY <1>1, <3>2, SeqMono
    <3> QED
      BY <2>1, <3>1, <3>3
  <2>7. Suspended(stack')
    <3>1. ASSUME NEW i \in 1..(Len(stack') - 1) PROVE stack'[i].pc \in Waiting
      <4>1. i \in 1..Len(base) \/ i = Len(base) + 1
        BY <1>1, <2>6
      <4> QED
        BY <2>2, <2>6, <4>1 DEF Waiting
    <3> QED
      BY <3>1 DEF Suspended
  <2>8. Doomed(stack, ret) => Doomed(stack', ret')
    <3>1. \A i \in 1..Len(base) : i \in 1..Len(stack')
      BY <1>1, <2>6
    <3> QED
      BY <2>6, <3>1 DEF Doomed
  <2> QED
    BY <2>5, <2>7, <2>8, DoomKept
<1> QED
  BY <1>2, <1>3

LEMMA DefDoom == ASSUME TypeInv, DoomInv, EnterDef PROVE DoomInv'
<1> DEFINE base == SubSeq(stack, 1, Len(stack) - 1)
<1>1. PICK name \in FuncNames, params \in ParamLists :
        DefineFunction(base, Top.node, name, params)
  BY DEF EnterDef
<1>2. params \in Seq(ParamNames) /\ Top.node \in 0..Len(ast)
  <2>1. "FUNCDEF" \in NodeType
    BY DEF NodeType
  <2> QED
    BY <2>1, BelowType, CodegenAssumption
<1>3. /\ Top.pc = "expr" /\ Top.pc \notin Base /\ status = "running"
      /\ UNCHANGED <<status, ub>>
  BY DEF EnterDef, Enter, At, Base
<1>4. /\ IsStack(base, ast, funcs) /\ Len(base) = Len(stack) - 1
      /\ \A i \in 1..(Len(stack) - 1) : base[i] = stack[i]
  BY <1>3, PopStack
<1> HIDE DEF base
<1>5. \A i \in 1..Len(base) : base[i].pc \in Waiting
  BY <1>4 DEF DoomInv, Suspended
<1>6. Doomed(stack, ret) =>
        \E i \in 1..Len(base) : base[i].pc = "rhs" /\ base[i].vals[1] = NULL
  <2> SUFFICES ASSUME Doomed(stack, ret)
               PROVE  \E i \in 1..Len(base) : base[i].pc = "rhs" /\ base[i].vals[1] = NULL
    OBVIOUS
  <2>1. PICK i \in 1..Len(stack) : stack[i].pc = "rhs" /\ stack[i].vals[1] = NULL
    BY <1>3 DEF Doomed, Top, Waiting
  <2>2. i # Len(stack) /\ Len(stack) \in Nat
    BY <1>3, <2>1, TopType DEF Top, TypeInv
  <2>3. i \in 1..(Len(stack) - 1)
    BY <2>2
  <2> QED
    BY <1>4, <2>1, <2>3
<1> QED
  BY <1>1, <1>2, <1>3, <1>4, <1>5, <1>6, DefinesDoom

LEMMA BottomFrame ==
  ASSUME TypeInv, Top.pc \in Base
  PROVE  Len(stack) = 1 /\ stack[1] = Top
<1>1. Len(stack) \in Nat /\ Len(stack) >= 1
  BY TopType DEF TypeInv
<1>2. \A i \in 1..Len(stack) : i = 1 <=> stack[i].pc \in Base
  BY DEF TypeInv, IsStack
<1>3. Len(stack) \in 1..Len(stack)
  BY <1>1
<1>4. Len(stack) = 1
  BY <1>2, <1>3 DEF Top
<1> QED
  BY <1>4 DEF Top

LEMMA EmitDoom == ASSUME TypeInv, DoomInv, EmitStarts PROVE DoomInv'
<1> DEFINE base == <<[Top EXCEPT !.pc = "coded"]>>
<1>1. /\ DefineFunction(base, 0, "main", <<>>)
      /\ Top.pc = "main" /\ status = "running" /\ UNCHANGED <<status, ub>>
  BY DEF EmitStarts, At
<1>2. <<>> \in Seq(ParamNames) /\ "main" \in FuncNames
  BY CodegenAssumption, EmptyType
<1>3. /\ IsStack(base, ast, funcs) /\ Len(base) = 1 /\ base[1].pc = "coded"
      /\ 0 \in 0..Len(ast)
  BY EmitBase
<1> HIDE DEF base
<1>4. \A i \in 1..Len(base) : base[i].pc \in Waiting
  BY <1>3 DEF Waiting
<1>5. ~Doomed(stack, ret)
  <2>1. Len(stack) = 1 /\ stack[1] = Top
    BY <1>1, BottomFrame DEF Base
  <2> QED
    BY <1>1, <2>1 DEF Doomed, Waiting
<1> QED
  BY <1>1, <1>2, <1>3, <1>4, <1>5, DefinesDoom

(* The only step that deletes a function returns NULL. *)
LEMMA DefDoneDoom == ASSUME TypeInv, DoomInv, DefDone PROVE DoomInv'
<1>1. PICK fs \in Seq(Function), state \in {"verified", "dropped", "rejected"} :
           /\ Coding(funcs, fs)
           /\ funcs' = Judged(fs, Top.fn, state)
           /\ Top.fn \in 1..Len(fs)
           /\ Return(IF state = "verified" THEN Func(Top.fn) ELSE NULL)
           /\ "dangling" \in ub' => "dangling" \in ub \/ "dangling" \in Hazards(<<ret>>)
           /\ state = "verified" => ret # NULL
  BY DefDoneFunctions
<1>2. /\ Top.pc = "body" /\ Top.pc \notin Base /\ Top.pc # "rhs"
      /\ status = "running" /\ UNCHANGED status
  BY DEF DefDone, At, Base
<1>3. ASSUME Sound, state = "verified" PROVE Sound'
  <2>1. <<ret>> \in Seq(ValueOf(Len(funcs)))
    BY OneType DEF TypeInv, Typed
  <2>2. "dangling" \notin ub'
    BY <1>1, <1>3, <2>1, NothingDangles DEF Sound
  <2>3. PICK gs : gs = funcs'
    OBVIOUS
  <2>4. /\ Len(gs) = Len(fs) /\ gs[Top.fn].state = state
        /\ \A g \in 1..Len(fs) : g # Top.fn => gs[g] = fs[g]
    BY <1>1, <2>3, JudgedType
  <2>5. Stays(gs)
    BY <1>1, <1>3, <2>4 DEF Sound, Stays, Coding
  <2> QED
    BY <2>2, <2>3, <2>5 DEF Sound
<1>4. state # "verified" => Return(NULL)
  BY <1>1
<1>5. CASE state = "verified"
  BY <1>1, <1>2, <1>3, <1>5, ReturnsDoom
<1>6. CASE state # "verified"
  BY <1>2, <1>4, <1>6, ReturnsDoom
<1> QED
  BY <1>5, <1>6

(* lilc_eval and lilc_emit go on only if nothing failed. *)
LEMMA EndDoom == ASSUME TypeInv, DoomInv, Coded \/ Killed \/ IfDies PROVE DoomInv'
<1>1. UNCHANGED <<stack, ret, funcs>>
  BY DEF Coded, Killed, IfDies
<1>2. CASE Killed \/ IfDies \/ (Coded /\ status' = "failed")
  <2>1. status' \in {"failed", "killed"}
    BY <1>2 DEF Killed, IfDies
  <2> QED
    BY <1>1, <2>1 DEF DoomInv, Suspended
<1>3. CASE Coded /\ status' # "failed"
  <2>1. /\ ret # NULL /\ Top.pc = "coded" /\ status = "running"
        /\ "dangling" \in ub' => "dangling" \in ub
    BY <1>3 DEF Coded, At
  <2>2. Len(stack) = 1 /\ stack[1] = Top
    BY <2>1, BottomFrame DEF Base
  <2>3. ~Doomed(stack, ret)
    BY <2>1, <2>2 DEF Doomed
  <2>4. Sound
    BY <2>1, <2>3 DEF DoomInv
  <2>5. Sound'
    BY <1>1, <2>1, <2>4 DEF Sound, Stays
  <2> QED
    BY <1>1, <2>5 DEF DoomInv, Suspended
<1> QED
  BY <1>2, <1>3

LEMMA DoomStep == ASSUME TypeInv, DoomInv, [Next]_vars PROVE DoomInv'
<1>1. CASE UNCHANGED vars
  BY <1>1 DEF vars, DoomInv, Suspended, Doomed, Sound, Stays
<1>2. CASE EnterDbl \/ EnterVar \/ EnterCall \/ StoreArg \/ StmtDone \/ IfFails
           \/ BlockDone \/ EmptyBlock
  BY <1>2, EnterDoom, PassDoom, BlockDoom
<1>3. CASE EnterBin \/ EnterIf \/ NextArg \/ NextStmt \/ EvalStarts \/ Rhs
           \/ Then \/ Else
  BY <1>3, CallerDoom, RhsDoom, BranchDoom
<1>4. CASE Bin \/ BuildCall \/ Phi
  BY <1>4, BuildDoom
<1>5. CASE EnterDef \/ EmitStarts \/ DefDone
  BY <1>5, DefDoom, EmitDoom, DefDoneDoom
<1>6. CASE Coded \/ Killed \/ IfDies
  BY <1>6, EndDoom
<1> QED
  BY <1>1, <1>2, <1>3, <1>4, <1>5, <1>6 DEF Next, Step, Ended

LEMMA InitDoom == Init => DoomInv
<1> SUFFICES ASSUME Init PROVE DoomInv
  OBVIOUS
<1>1. Len(funcs) = 0 /\ ub = {} /\ status = "running"
  BY EmptyType DEF Init
<1>2. Len(stack) = 1
  BY DEF Init
<1> QED
  BY <1>1, <1>2 DEF DoomInv, Suspended, Sound, Stays

(* A function whose body or verification failed fails the program: none    *)
(* that lilc_eval runs or lilc_emit prints was ever deleted, or had code   *)
(* added after it was.                                                     *)
Undeleted == status = "done" => Stays(funcs)

THEOREM NothingDeletedIsAccepted == Spec => [](DanglingFails /\ Undeleted)
<1>1. Init => TypeInv /\ DoomInv
  BY InitType, InitDoom
<1>2. TypeInv /\ DoomInv /\ [Next]_vars => TypeInv' /\ DoomInv'
  BY TypeStep, DoomStep
<1>3. DoomInv => DanglingFails /\ Undeleted
  BY DEF DoomInv, Sound, DanglingFails, Undeleted
<1> QED
  BY <1>1, <1>2, <1>3, PTL DEF Spec

-----------------------------------------------------------------------------
(* The innermost body that is generated.                                   *)

(* The definition around the nodes below p. *)
Around(ns, p) ==
  IF p = 0 THEN 0 ELSE IF ns[p].type = "FUNCDEF" THEN p ELSE ns[p].scope

(* Frame i is the innermost frame of codegen_funcdef up to frame k. *)
Inner(s, i, k) ==
  i \in 1..k /\ s[i].pc = "body" /\ \A j \in (i + 1)..k : s[j].pc # "body"

(* The nodes of the frames are where the stack says they are. *)
Scoped(s, ns) ==
  \A k \in 1..Len(s) : \A i \in 1..k : Inner(s, i, k) =>
    /\ Around(ns, s[k].node) = s[i].node
    /\ k < Len(s) /\ s[k + 1].pc = "body" => ns[s[k + 1].node].scope = s[i].node

Nests(ns, d) == \E n \in 1..Len(ns) : ns[n].type = "FUNCDEF" /\ ns[n].scope = d

(* Frame f knows only blocks of function fn. *)
Within(f, fn) ==
  f.pc \in {"then", "else"} => \A m \in 1..3 : f.blks[m][1] = fn

(* Frame i is that of the function the builder is in, whose parameters the *)
(* symbol table holds.                                                     *)
Owner(s, ns, pos, names, i) ==
  /\ pos[1] = s[i].fn
  /\ names = Scope(s[i].fn, ns[s[i].node].params)
  /\ \A k \in i..Len(s) : Within(s[k], s[i].fn)

Building(s, ns, pos, names) ==
  \A i \in 1..Len(s) :
    Inner(s, i, Len(s)) => Nests(ns, s[i].node) \/ Owner(s, ns, pos, names, i)

ScopeInv == Scoped(stack, ast) /\ Building(stack, ast, at, named_vals)

LEMMA AroundKept ==
  ASSUME NEW ns \in Seq(Node), NEW bs \in Seq(Node), Kept(ns, bs),
         NEW p \in 0..Len(ns)
  PROVE  Around(bs, p) = Around(ns, p)
<1>1. p # 0 => p \in 1..Len(ns)
  BY Ranges, LenProperties
<1> QED
  BY <1>1 DEF Around, Kept

LEMMA NestsKept ==
  ASSUME NEW ns \in Seq(Node), NEW bs \in Seq(Node), Kept(ns, bs), NEW d,
         Nests(ns, d)
  PROVE  Nests(bs, d)
<1>1. Len(ns) \in Nat /\ Len(bs) \in Nat /\ Len(ns) <= Len(bs)
  BY LenProperties DEF Kept
<1>2. PICK n \in 1..Len(ns) : ns[n].type = "FUNCDEF" /\ ns[n].scope = d
  BY DEF Nests
<1>3. n \in 1..Len(bs) /\ bs[n].type = "FUNCDEF" /\ bs[n].scope = d
  BY <1>1, <1>2 DEF Kept
<1> QED
  BY <1>3 DEF Nests

LEMMA FrameNode ==
  ASSUME NEW ns \in Seq(Node), NEW fs \in Seq(Function), NEW s, IsStack(s, ns, fs),
         NEW i \in 1..Len(s)
  PROVE  /\ s[i].node \in 0..Len(ns)
         /\ s[i].pc = "body" => s[i].node \in 1..Len(ns) /\ ns[s[i].node].type = "FUNCDEF"
<1>1. s[i] \in FrameOf(ns, fs)
  BY ElementOfSeq DEF IsStack
<1>2. s[i].node \in 0..Len(ns) /\ Fits(s[i], ns)
  BY <1>1, FrameFields
<1> QED
  BY <1>2, Ranges, LenProperties DEF Fits

LEMMA ScopedKept ==
  ASSUME NEW ns \in Seq(Node), NEW bs \in Seq(Node), Kept(ns, bs),
         NEW fs \in Seq(Function), NEW s, IsStack(s, ns, fs), Scoped(s, ns)
  PROVE  Scoped(s, bs)
<1>0. Len(s) \in Nat
  BY LenProperties DEF IsStack
<1>1. ASSUME NEW k \in 1..Len(s), NEW i \in 1..k, Inner(s, i, k)
      PROVE  /\ Around(bs, s[k].node) = s[i].node
             /\ k < Len(s) /\ s[k + 1].pc = "body" =>
                  bs[s[k + 1].node].scope = s[i].node
  <2>1. /\ Around(ns, s[k].node) = s[i].node
        /\ k < Len(s) /\ s[k + 1].pc = "body" => ns[s[k + 1].node].scope = s[i].node
    BY <1>1 DEF Scoped
  <2>2. Around(bs, s[k].node) = Around(ns, s[k].node)
    BY FrameNode, AroundKept
  <2>3. ASSUME k < Len(s), s[k + 1].pc = "body"
        PROVE  bs[s[k + 1].node].scope = ns[s[k + 1].node].scope
    <3>1. k + 1 \in 1..Len(s)
      BY <1>0, <2>3
    <3>2. s[k + 1].node \in 1..Len(ns)
      BY <2>3, <3>1, FrameNode
    <3> QED
      BY <3>2 DEF Kept
  <2> QED
    BY <2>1, <2>2, <2>3
<1> QED
  BY <1>1 DEF Scoped

LEMMA BuildingKept ==
  ASSUME NEW ns \in Seq(Node), NEW bs \in Seq(Node), Kept(ns, bs),
         NEW fs \in Seq(Function), NEW s, IsStack(s, ns, fs), NEW pos, NEW names,
         Building(s, ns, pos, names)
  PROVE  Building(s, bs, pos, names)
<1>1. ASSUME NEW i \in 1..Len(s), Inner(s, i, Len(s))
      PROVE  Nests(bs, s[i].node) \/ Owner(s, bs, pos, names, i)
  <2>1. Nests(ns, s[i].node) \/ Owner(s, ns, pos, names, i)
    BY <1>1 DEF Building
  <2>2. s[i].node \in 1..Len(ns)
    BY <1>1, FrameNode DEF Inner
  <2>3. bs[s[i].node].params = ns[s[i].node].params
    BY <2>2 DEF Kept
  <2> QED
    BY <2>1, <2>3, NestsKept DEF Owner
<1> QED
  BY <1>1 DEF Building

-----------------------------------------------------------------------------
(* What a return, a call and a resumption do to it.                        *)

LEMMA PopScoped ==
  ASSUME NEW S, NEW s \in Seq(S), Len(s) >= 2, NEW ns, Scoped(s, ns), NEW t,
         Len(t) = Len(s) - 1, \A i \in 1..(Len(s) - 1) : t[i] = s[i]
  PROVE  Scoped(t, ns)
<1>1. Len(s) \in Nat
  BY LenProperties
<1>2. ASSUME NEW k \in 1..Len(t), NEW i \in 1..k, Inner(t, i, k)
      PROVE  /\ Around(ns, t[k].node) = t[i].node
             /\ k < Len(t) /\ t[k + 1].pc = "body" => ns[t[k + 1].node].scope = t[i].node
  <2>1. k \in 1..Len(s) /\ \A j \in 1..k : t[j] = s[j]
    BY <1>1
  <2>2. Inner(s, i, k)
    BY <1>1, <1>2, <2>1 DEF Inner
  <2>3. /\ Around(ns, s[k].node) = s[i].node
        /\ k < Len(s) /\ s[k + 1].pc = "body" => ns[s[k + 1].node].scope = s[i].node
    BY <2>1, <2>2 DEF Scoped
  <2> QED
    BY <1>1, <2>1, <2>3
<1> QED
  BY <1>2 DEF Scoped

LEMMA PopBuilding ==
  ASSUME NEW S, NEW s \in Seq(S), Len(s) >= 2, NEW ns, NEW t,
         Len(t) = Len(s) - 1, \A i \in 1..(Len(s) - 1) : t[i] = s[i],
         s[Len(s)].pc # "body",
         NEW pos, NEW names, Building(s, ns, pos, names)
  PROVE  Building(t, ns, pos, names)
<1>1. Len(s) \in Nat
  BY LenProperties
<1>2. ASSUME NEW i \in 1..Len(t), Inner(t, i, Len(t))
      PROVE  Nests(ns, t[i].node) \/ Owner(t, ns, pos, names, i)
  <2>1. i \in 1..Len(s) /\ t[i] = s[i]
    BY <1>1
  <2>2. Inner(s, i, Len(s))
    <3>1. ASSUME NEW j \in (i + 1)..Len(s) PROVE s[j].pc # "body"
      <4>1. CASE j = Len(s)
        BY <4>1
      <4>2. CASE j # Len(s)
        <5>1. j \in (i + 1)..Len(t) /\ t[j] = s[j]
          BY <1>1, <4>2
        <5> QED
          BY <1>2, <5>1 DEF Inner
      <4> QED
        BY <4>1, <4>2
    <3> QED
      BY <1>2, <2>1, <3>1 DEF Inner
  <2>3. Nests(ns, s[i].node) \/ Owner(s, ns, pos, names, i)
    BY <2>1, <2>2 DEF Building
  <2>4. Owner(s, ns, pos, names, i) => Owner(t, ns, pos, names, i)
    <3>1. \A k \in i..Len(t) : k \in i..Len(s) /\ t[k] = s[k]
      BY <1>1
    <3> QED
      BY <2>1, <3>1 DEF Owner
  <2> QED
    BY <2>1, <2>3, <2>4
<1> QED
  BY <1>2 DEF Building

(* After a definition the one around it has another nested in it. *)
LEMMA PopBody ==
  ASSUME NEW ns \in Seq(Node), NEW fs \in Seq(Function), NEW s, IsStack(s, ns, fs),
         Len(s) >= 2, Scoped(s, ns), NEW t,
         Len(t) = Len(s) - 1, \A i \in 1..(Len(s) - 1) : t[i] = s[i],
         s[Len(s)].pc = "body", NEW pos, NEW names
  PROVE  Building(t, ns, pos, names)
<1>1. Len(s) \in Nat
  BY LenProperties DEF IsStack
<1>2. ASSUME NEW i \in 1..Len(t), Inner(t, i, Len(t))
      PROVE  Nests(ns, t[i].node)
  <2>1. i \in 1..(Len(s) - 1) /\ t[i] = s[i] /\ Len(s) - 1 \in 1..Len(s)
    BY <1>1
  <2>2. Inner(s, i, Len(s) - 1)
    <3>1. t[i].pc = "body" /\ \A j \in (i + 1)..Len(t) : t[j].pc # "body"
      BY <1>2 DEF Inner
    <3>2. \A j \in (i + 1)..(Len(s) - 1) : j \in (i + 1)..Len(t) /\ t[j] = s[j]
      BY <1>1, <2>1
    <3> QED
      BY <2>1, <3>1, <3>2 DEF Inner
  <2>3. ns[s[Len(s)].node].scope = s[i].node
    <3>1. Len(s) - 1 < Len(s) /\ (Len(s) - 1) + 1 = Len(s)
      BY <1>1
    <3> QED
      BY <2>1, <2>2, <3>1 DEF Scoped
  <2>4. s[Len(s)].node \in 1..Len(ns) /\ ns[s[Len(s)].node].type = "FUNCDEF"
    <3>1. Len(s) \in 1..Len(s)
      BY <1>1
    <3> QED
      BY <3>1, FrameNode
  <2> QED
    BY <2>1, <2>3, <2>4 DEF Nests
<1> QED
  BY <1>2 DEF Building

(* The top frame f goes on as g. *)
LEMMA SetScoped ==
  ASSUME NEW S, NEW s \in Seq(S), Len(s) >= 1, NEW ns, Scoped(s, ns), NEW t, NEW g,
         Len(t) = Len(s), \A i \in 1..(Len(s) - 1) : t[i] = s[i], t[Len(s)] = g,
         s[Len(s)].pc # "body", g.pc # "body",
         Around(ns, g.node) = Around(ns, s[Len(s)].node)
  PROVE  /\ Scoped(t, ns)
         /\ \A i \in 1..Len(t) : Inner(t, i, Len(t)) =>
              i # Len(s) /\ t[i] = s[i] /\ Inner(s, i, Len(s))
<1>1. Len(s) \in Nat
  BY LenProperties
<1>2. ASSUME NEW k \in 1..Len(s), NEW i \in 1..k, Inner(t, i, k)
      PROVE  Inner(s, i, k) /\ i # Len(s) /\ t[i] = s[i]
  <2>1. i # Len(s)
    BY <1>2 DEF Inner
  <2>2. t[i] = s[i]
    BY <1>1, <2>1
  <2>3. \A j \in (i + 1)..k : s[j].pc # "body"
    <3>1. ASSUME NEW j \in (i + 1)..k PROVE s[j].pc # "body"
      <4>1. CASE j = Len(s)
        BY <4>1
      <4>2. CASE j # Len(s)
        <5>1. t[j] = s[j]
          BY <1>1, <4>2
        <5> QED
          BY <1>2, <5>1 DEF Inner
      <4> QED
        BY <4>1, <4>2
    <3> QED
      BY <3>1
  <2> QED
    BY <1>2, <2>1, <2>2, <2>3 DEF Inner
<1>3. ASSUME NEW k \in 1..Len(t), NEW i \in 1..k, Inner(t, i, k)
      PROVE  /\ Around(ns, t[k].node) = t[i].node
             /\ k < Len(t) /\ t[k + 1].pc = "body" => ns[t[k + 1].node].scope = t[i].node
  <2>1. Inner(s, i, k) /\ t[i] = s[i] /\ k \in 1..Len(s)
    BY <1>2, <1>3
  <2>2. /\ Around(ns, s[k].node) = s[i].node
        /\ k < Len(s) /\ s[k + 1].pc = "body" => ns[s[k + 1].node].scope = s[i].node
    BY <2>1 DEF Scoped
  <2>3. CASE k = Len(s)
    BY <1>1, <2>1, <2>2, <2>3
  <2>4. CASE k # Len(s)
    <3>1. t[k] = s[k]
      BY <1>1, <2>4
    <3>2. CASE k + 1 = Len(s)
      BY <2>1, <2>2, <3>1, <3>2
    <3>3. CASE k + 1 # Len(s)
      <4>1. t[k + 1] = s[k + 1]
        BY <1>1, <2>4, <3>3
      <4> QED
        BY <2>1, <2>2, <3>1, <4>1
    <3> QED
      BY <3>2, <3>3
  <2> QED
    BY <2>3, <2>4
<1>4. ASSUME NEW i \in 1..Len(t), Inner(t, i, Len(t))
      PROVE  i # Len(s) /\ t[i] = s[i] /\ Inner(s, i, Len(s))
  <2>1. Len(s) \in 1..Len(s)
    BY <1>1
  <2> QED
    BY <1>2, <1>4, <2>1
<1> QED
  BY <1>3, <1>4 DEF Scoped

LEMMA SetBuilding ==
  ASSUME NEW S, NEW s \in Seq(S), Len(s) >= 1, NEW ns, NEW t, NEW g,
         Len(t) = Len(s), \A i \in 1..(Len(s) - 1) : t[i] = s[i], t[Len(s)] = g,
         \A i \in 1..Len(t) : Inner(t, i, Len(t)) =>
            i # Len(s) /\ t[i] = s[i] /\ Inner(s, i, Len(s)),
         NEW pos, NEW names, Building(s, ns, pos, names), NEW new,
         \A i \in 1..Len(s) : Owner(s, ns, pos, names, i) =>
            new[1] = s[i].fn /\ Within(g, s[i].fn)
  PROVE  Building(t, ns, new, names)
<1>1. Len(s) \in Nat
  BY LenProperties
<1>2. ASSUME NEW i \in 1..Len(t), Inner(t, i, Len(t))
      PROVE  Nests(ns, t[i].node) \/ Owner(t, ns, new, names, i)
  <2>1. i # Len(s) /\ t[i] = s[i] /\ Inner(s, i, Len(s)) /\ i \in 1..Len(s)
    BY <1>2
  <2>2. Nests(ns, s[i].node) \/ Owner(s, ns, pos, names, i)
    BY <2>1 DEF Building
  <2>3. ASSUME Owner(s, ns, pos, names, i) PROVE Owner(t, ns, new, names, i)
    <3>1. new[1] = s[i].fn /\ Within(g, s[i].fn)
      BY <2>1, <2>3
    <3>2. ASSUME NEW k \in i..Len(t) PROVE Within(t[k], t[i].fn)
      <4>1. CASE k = Len(s)
        BY <2>1, <3>1, <4>1
      <4>2. CASE k # Len(s)
        <5>1. t[k] = s[k] /\ k \in i..Len(s)
          BY <1>1, <2>1, <4>2
        <5> QED
          BY <2>1, <2>3, <5>1 DEF Owner
      <4> QED
        BY <4>1, <4>2
    <3> QED
      BY <2>1, <2>3, <3>1, <3>2 DEF Owner
  <2> QED
    BY <2>1, <2>2, <2>3
<1> QED
  BY <1>2 DEF Building

LEMMA PushScoped ==
  ASSUME NEW S, NEW s \in Seq(S), Len(s) >= 1, NEW ns, Scoped(s, ns), NEW t, NEW h,
         Len(t) = Len(s) + 1, \A i \in 1..Len(s) : t[i] = s[i], t[Len(s) + 1] = h,
         h.pc \notin {"body", "then", "else"},
         Around(ns, h.node) = Around(ns, s[Len(s)].node),
         NEW pos, NEW names, Building(s, ns, pos, names)
  PROVE  Scoped(t, ns) /\ Building(t, ns, pos, names)
<1>1. Len(s) \in Nat
  BY LenProperties
<1>2. ASSUME NEW k \in 1..Len(t), NEW i \in 1..k, Inner(t, i, k)
      PROVE  /\ i \in 1..Len(s) /\ t[i] = s[i]
             /\ k \in 1..Len(s) => Inner(s, i, k)
             /\ k \notin 1..Len(s) => k = Len(s) + 1 /\ Inner(s, i, Len(s))
  <2>1. i # Len(s) + 1
    BY <1>2 DEF Inner
  <2>2. i \in 1..Len(s) /\ t[i] = s[i]
    BY <1>1, <2>1
  <2>3. \A j \in (i + 1)..k : j \in 1..Len(s) => s[j].pc # "body"
    BY <1>2 DEF Inner
  <2>4. k \in 1..Len(s) => Inner(s, i, k)
    BY <1>1, <1>2, <2>2, <2>3 DEF Inner
  <2>5. k \notin 1..Len(s) => k = Len(s) + 1 /\ Inner(s, i, Len(s))
    BY <1>1, <1>2, <2>2, <2>3 DEF Inner
  <2> QED
    BY <2>2, <2>4, <2>5
<1>3. ASSUME NEW k \in 1..Len(t), NEW i \in 1..k, Inner(t, i, k)
      PROVE  /\ Around(ns, t[k].node) = t[i].node
             /\ k < Len(t) /\ t[k + 1].pc = "body" => ns[t[k + 1].node].scope = t[i].node
  <2>1. CASE k \in 1..Len(s)
    <3>1. Inner(s, i, k) /\ t[i] = s[i] /\ t[k] = s[k]
      BY <1>2, <1>3, <2>1
    <3>2. /\ Around(ns, s[k].node) = s[i].node
          /\ k < Len(s) /\ s[k + 1].pc = "body" => ns[s[k + 1].node].scope = s[i].node
      BY <2>1, <3>1 DEF Scoped
    <3>3. CASE k = Len(s)
      BY <3>1, <3>2, <3>3
    <3>4. CASE k # Len(s)
      <4>1. k + 1 \in 1..Len(s) /\ k < Len(s)
        BY <1>1, <2>1, <3>4
      <4>2. t[k + 1] = s[k + 1]
        BY <4>1
      <4> QED
        BY <3>1, <3>2, <4>1, <4>2
    <3> QED
      BY <3>3, <3>4
  <2>2. CASE k \notin 1..Len(s)
    <3>1. k = Len(s) + 1 /\ Inner(s, i, Len(s)) /\ t[i] = s[i] /\ i \in 1..Len(s)
      BY <1>2, <1>3, <2>2
    <3>2. Len(s) \in 1..Len(s)
      BY <1>1
    <3>3. Around(ns, s[Len(s)].node) = s[i].node
      BY <3>1, <3>2 DEF Scoped
    <3> QED
      BY <1>1, <3>1, <3>3
  <2> QED
    BY <2>1, <2>2
<1>4. ASSUME NEW i \in 1..Len(t), Inner(t, i, Len(t))
      PROVE  Nests(ns, t[i].node) \/ Owner(t, ns, pos, names, i)
  <2>1. i \in 1..Len(s) /\ t[i] = s[i] /\ Inner(s, i, Len(s))
    <3>1. Len(t) \in 1..Len(t) /\ Len(t) \notin 1..Len(s)
      BY <1>1
    <3> QED
      BY <1>2, <1>4, <3>1
  <2>2. Nests(ns, s[i].node) \/ Owner(s, ns, pos, names, i)
    BY <2>1 DEF Building
  <2>3. ASSUME Owner(s, ns, pos, names, i) PROVE Owner(t, ns, pos, names, i)
    <3>1. ASSUME NEW k \in i..Len(t) PROVE Within(t[k], t[i].fn)
      <4>1. CASE k = Len(s) + 1
        BY <4>1 DEF Within
      <4>2. CASE k # Len(s) + 1
        <5>1. t[k] = s[k] /\ k \in i..Len(s)
          BY <1>1, <2>1, <4>2
        <5> QED
          BY <2>1, <2>3, <5>1 DEF Owner
      <4> QED
        BY <4>1, <4>2
    <3> QED
      BY <2>1, <2>3, <3>1 DEF Owner
  <2> QED
    BY <2>1, <2>2, <2>3
<1> QED
  BY <1>3, <1>4 DEF Scoped, Building

(* A definition begins: g is its frame. *)
LEMMA PushBody ==
  ASSUME NEW S, NEW s \in Seq(S), Len(s) >= 1, NEW ns, Scoped(s, ns), NEW t, NEW g,
         Len(t) = Len(s) + 1, \A i \in 1..Len(s) : t[i] = s[i], t[Len(s) + 1] = g,
         g.pc = "body", g.node # 0, ns[g.node].type = "FUNCDEF",
         \A i \in 1..Len(s) : Inner(s, i, Len(s)) => ns[g.node].scope = s[i].node,
         NEW pos, NEW names, pos[1] = g.fn, names = Scope(g.fn, ns[g.node].params)
  PROVE  Scoped(t, ns) /\ Building(t, ns, pos, names)
<1>1. Len(s) \in Nat
  BY LenProperties
<1>2. ASSUME NEW k \in 1..Len(t), NEW i \in 1..k, Inner(t, i, k)
      PROVE  /\ Around(ns, t[k].node) = t[i].node
             /\ k < Len(t) /\ t[k + 1].pc = "body" => ns[t[k + 1].node].scope = t[i].node
  <2>1. CASE k \in 1..Len(s)
    <3>1. /\ \A j \in 1..k : t[j] = s[j]
          /\ i \in 1..Len(s)
      BY <1>1, <2>1
    <3>2. Inner(s, i, k) /\ t[i] = s[i] /\ t[k] = s[k]
      BY <1>1, <1>2, <2>1, <3>1 DEF Inner
    <3>3. /\ Around(ns, s[k].node) = s[i].node
          /\ k < Len(s) /\ s[k + 1].pc = "body" => ns[s[k + 1].node].scope = s[i].node
      BY <2>1, <3>2 DEF Scoped
    <3>4. CASE k = Len(s)
      BY <3>1, <3>2, <3>3, <3>4
    <3>5. CASE k # Len(s)
      <4>1. k + 1 \in 1..Len(s) /\ k < Len(s)
        BY <1>1, <2>1, <3>5
      <4>2. t[k + 1] = s[k + 1]
        BY <4>1
      <4> QED
        BY <3>2, <3>3, <4>1, <4>2
    <3> QED
      BY <3>4, <3>5
  <2>2. CASE k \notin 1..Len(s)
    <3>1. k = Len(s) + 1
      BY <1>1, <2>2
    <3>2. i = k
      <4>1. CASE i # k
        <5>1. Len(s) + 1 \in (i + 1)..k
          BY <1>1, <3>1, <4>1
        <5> QED
          BY <1>2, <5>1 DEF Inner
      <4> QED
        BY <4>1
    <3> QED
      BY <1>1, <3>1, <3>2 DEF Around
  <2> QED
    BY <2>1, <2>2
<1>3. ASSUME NEW i \in 1..Len(t), Inner(t, i, Len(t))
      PROVE  Owner(t, ns, pos, names, i)
  <2>1. i = Len(s) + 1
    <3>1. CASE i # Len(s) + 1
      <4>1. Len(s) + 1 \in (i + 1)..Len(t)
        BY <1>1, <3>1
      <4> QED
        BY <1>3, <4>1 DEF Inner
    <3> QED
      BY <3>1
  <2>2. \A k \in i..Len(t) : k = i
    BY <1>1, <2>1
  <2> QED
    BY <2>1, <2>2 DEF Owner, Within
<1> QED
  BY <1>2, <1>3 DEF Scoped, Building

-----------------------------------------------------------------------------
(* Every action keeps it.                                                  *)

(* The AST and the functions grow first, then the stack changes. *)
LEMMA ScopeGrows ==
  ASSUME TypeInv, ScopeInv, Growing
  PROVE  Scoped(stack, ast') /\ Building(stack, ast', at, named_vals)
<1>1. IsStack(stack, ast, funcs) /\ ast \in Seq(Node) /\ funcs \in Seq(Function)
  BY DEF TypeInv, Typed
<1>2. PICK bs : bs = ast'
  OBVIOUS
<1>3. bs \in Seq(Node) /\ Kept(ast, bs)
  BY <1>2 DEF Growing
<1>4. Scoped(stack, bs) /\ Building(stack, bs, at, named_vals)
  BY <1>1, <1>3, ScopedKept, BuildingKept DEF ScopeInv
<1> QED
  BY <1>2, <1>4

LEMMA ScopeBy ==
  ASSUME Scoped(stack', ast'), Building(stack', ast', at', named_vals')
  PROVE  ScopeInv'
  BY DEF ScopeInv, Scoped, Building, Inner, Owner, Within, Around, Nests, Scope

(* The builder moves within the function. *)
LEMMA MovedBuilding ==
  ASSUME NEW s, NEW ns, NEW pos, NEW names, Building(s, ns, pos, names), NEW new,
         \A i \in 1..Len(s) : Owner(s, ns, pos, names, i) => new[1] = s[i].fn
  PROVE  Building(s, ns, new, names)
  BY DEF Building, Owner

LEMMA ReturnScope ==
  ASSUME TypeInv, ScopeInv, Growing, Top.pc \notin Base, Top.pc # "body",
         NEW v, Return(v), UNCHANGED named_vals,
         \A i \in 1..Len(stack) :
            Owner(stack, ast', at, named_vals, i) => at'[1] = stack[i].fn
  PROVE  ScopeInv'
<1>1. stack \in Seq(FrameOf(ast, funcs)) /\ Len(stack) >= 2
  BY TopType DEF TypeInv
<1>2. Scoped(stack, ast') /\ Building(stack, ast', at', named_vals)
  BY ScopeGrows, MovedBuilding
<1>3. Len(stack') = Len(stack) - 1 /\ \A i \in 1..(Len(stack) - 1) : stack'[i] = stack[i]
  BY <1>1, PopType DEF Return
<1>4. stack[Len(stack)].pc # "body"
  BY DEF Top
<1>5. Scoped(stack', ast') /\ Building(stack', ast', at', named_vals)
  BY <1>1, <1>2, <1>3, <1>4, PopScoped, PopBuilding
<1> QED
  BY <1>5, ScopeBy

LEMMA ResumeScope ==
  ASSUME TypeInv, ScopeInv, Growing, Top.pc # "body", NEW g, g.pc # "body",
         UNCHANGED named_vals,
         Around(ast', g.node) = Around(ast', Top.node),
         \A i \in 1..Len(stack) :
            Owner(stack, ast', at, named_vals, i) =>
              at'[1] = stack[i].fn /\ Within(g, stack[i].fn)
  PROVE  /\ Scoped(Resume(g), ast') /\ Building(Resume(g), ast', at', named_vals)
         /\ stack' = Resume(g) => ScopeInv'
<1> DEFINE S == FrameOf(ast, funcs) \cup {g}
           t == Resume(g)
<1>1. stack \in Seq(S) /\ Len(stack) >= 1 /\ g \in S
  <2>1. stack \in Seq(FrameOf(ast, funcs)) /\ Len(stack) >= 1
    BY TopType DEF TypeInv
  <2>2. FrameOf(ast, funcs) \subseteq S
    OBVIOUS
  <2> QED
    BY <2>1, <2>2, SeqMono
<1> HIDE DEF S
<1>2. /\ Len(t) = Len(stack) /\ t[Len(stack)] = g
      /\ \A i \in 1..(Len(stack) - 1) : t[i] = stack[i]
  BY <1>1, ResumeType
<1> HIDE DEF t
<1>3. Scoped(stack, ast') /\ Building(stack, ast', at, named_vals)
  BY ScopeGrows
<1>4. stack[Len(stack)].pc # "body" /\ Around(ast', g.node) = Around(ast', stack[Len(stack)].node)
  BY DEF Top
<1>5. /\ Scoped(t, ast')
      /\ \A i \in 1..Len(t) : Inner(t, i, Len(t)) =>
           i # Len(stack) /\ t[i] = stack[i] /\ Inner(stack, i, Len(stack))
  BY <1>1, <1>2, <1>3, <1>4, SetScoped
<1>6. Building(t, ast', at', named_vals)
  BY <1>1, <1>2, <1>3, <1>5, SetBuilding
<1>7. stack' = t => ScopeInv'
  BY <1>5, <1>6, ScopeBy
<1> QED
  BY <1>5, <1>6, <1>7 DEF t

LEMMA CallScope ==
  ASSUME TypeInv, ScopeInv, Growing, Top.pc # "body", NEW g, g.pc # "body", NEW h,
         UNCHANGED named_vals, stack' = Append(Resume(g), h),
         h.pc \notin {"body", "then", "else"},
         Around(ast', g.node) = Around(ast', Top.node),
         Around(ast', h.node) = Around(ast', g.node),
         \A i \in 1..Len(stack) :
            Owner(stack, ast', at, named_vals, i) =>
              at'[1] = stack[i].fn /\ Within(g, stack[i].fn)
  PROVE  ScopeInv'
<1> DEFINE S == FrameOf(ast, funcs) \cup {g, h}
           t == Resume(g)
<1>1. stack \in Seq(S) /\ Len(stack) >= 1 /\ g \in S /\ h \in S
  <2>1. stack \in Seq(FrameOf(ast, funcs)) /\ Len(stack) >= 1
    BY TopType DEF TypeInv
  <2>2. FrameOf(ast, funcs) \subseteq S
    OBVIOUS
  <2> QED
    BY <2>1, <2>2, SeqMono
<1> HIDE DEF S
<1>2. /\ t \in Seq(S) /\ Len(t) = Len(stack) /\ t[Len(stack)] = g
  BY <1>1, ResumeType
<1>3. Scoped(t, ast') /\ Building(t, ast', at', named_vals)
  BY ResumeScope
<1> HIDE DEF t
<1>4. /\ Len(stack') = Len(t) + 1 /\ stack'[Len(t) + 1] = h
      /\ \A i \in 1..Len(t) : stack'[i] = t[i]
  BY <1>1, <1>2, AppendType DEF t
<1>5. Len(t) >= 1 /\ Around(ast', h.node) = Around(ast', t[Len(t)].node)
  BY <1>1, <1>2
<1>6. Scoped(stack', ast') /\ Building(stack', ast', at', named_vals)
  BY <1>2, <1>3, <1>4, <1>5, PushScoped
<1> QED
  BY <1>6, ScopeBy

LEMMA MeetAround ==
  ASSUME TypeInv, NEW p \in 0..Len(ast), NEW x \in Node, x.type # "FUNCDEF",
         x.scope = ScopeOf(p), Meet(p, x)
  PROVE  Around(ast', Fresh) = Around(ast', p)
<1>1. PICK bs : bs = ast'
  OBVIOUS
<1>2. bs \in Seq(Node) /\ bs[Fresh] = x /\ Kept(ast, bs) /\ Fresh # 0
  BY <1>1, MeetInv
<1>3. Around(bs, p) = Around(ast, p)
  BY <1>2, AroundKept DEF TypeInv, Typed
<1> QED
  BY <1>1, <1>2, <1>3 DEF Around, ScopeOf

(* The expressions do_codegen meets. *)
LEMMA EnterNodes ==
  ASSUME TypeInv, EnterDbl \/ EnterVar \/ EnterBin \/ EnterCall \/ EnterIf
  PROVE  /\ Top.node \in 0..Len(ast)
         /\ \E x \in Node : /\ Meet(Top.node, x) /\ x.type # "FUNCDEF"
                           /\ x.scope = ScopeOf(Top.node)
<1>2. \A type \in NodeType :
        /\ Below(type) \in Node /\ Below(type).type = type
        /\ Below(type).scope = ScopeOf(Top.node)
  BY BelowType
<1>3. Top.node \in 0..Len(ast)
  <2>1. "IF" \in NodeType
    BY DEF NodeType
  <2> QED
    BY <2>1, BelowType
<1>4. \E x \in Node : /\ Meet(Top.node, x) /\ x.type # "FUNCDEF"
                      /\ x.scope = ScopeOf(Top.node)
  <2>1. CASE EnterDbl
    <3>1. "DBL" \in NodeType
      BY DEF NodeType
    <3>2. PICK n \in Literals : Meet(Top.node, [Below("DBL") EXCEPT !.val = n])
      BY <2>1 DEF EnterDbl
    <3>3. \A y \in Node : /\ [y EXCEPT !.val = n] \in Node
                          /\ [y EXCEPT !.val = n].type = y.type
                          /\ [y EXCEPT !.val = n].scope = y.scope
      <4>1. n \in Num
        BY CodegenAssumption
      <4> QED
        BY <4>1 DEF Node
    <3>4. /\ [Below("DBL") EXCEPT !.val = n] \in Node
          /\ [Below("DBL") EXCEPT !.val = n].type = "DBL"
          /\ [Below("DBL") EXCEPT !.val = n].scope = ScopeOf(Top.node)
      BY <1>2, <3>1, <3>3
    <3> QED
      BY <3>2, <3>4
  <2>2. CASE EnterVar
    <3>1. "VAR" \in NodeType
      BY DEF NodeType
    <3>2. PICK n \in ParamNames : Meet(Top.node, [Below("VAR") EXCEPT !.name = n])
      BY <2>2 DEF EnterVar
    <3>3. \A y \in Node : /\ [y EXCEPT !.name = n] \in Node
                          /\ [y EXCEPT !.name = n].type = y.type
                          /\ [y EXCEPT !.name = n].scope = y.scope
      BY DEF Node
    <3>4. /\ [Below("VAR") EXCEPT !.name = n] \in Node
          /\ [Below("VAR") EXCEPT !.name = n].type = "VAR"
          /\ [Below("VAR") EXCEPT !.name = n].scope = ScopeOf(Top.node)
      BY <1>2, <3>1, <3>3
    <3> QED
      BY <3>2, <3>4
  <2>3. CASE EnterBin
    <3>1. "BIN" \in NodeType
      BY DEF NodeType
    <3>2. PICK n \in Ops : Meet(Top.node, [Below("BIN") EXCEPT !.op = n])
      BY <2>3 DEF EnterBin
    <3>3. \A y \in Node : /\ [y EXCEPT !.op = n] \in Node
                          /\ [y EXCEPT !.op = n].type = y.type
                          /\ [y EXCEPT !.op = n].scope = y.scope
      BY DEF Node
    <3>4. /\ [Below("BIN") EXCEPT !.op = n] \in Node
          /\ [Below("BIN") EXCEPT !.op = n].type = "BIN"
          /\ [Below("BIN") EXCEPT !.op = n].scope = ScopeOf(Top.node)
      BY <1>2, <3>1, <3>3
    <3> QED
      BY <3>2, <3>4
  <2>4. CASE EnterCall
    <3>1. "CALL" \in NodeType
      BY DEF NodeType
    <3>2. PICK n \in FuncNames, c \in 0..MaxArgs :
            Meet(Top.node, [Below("CALL") EXCEPT !.name = n, !.argc = c])
      BY <2>4 DEF EnterCall
    <3>3. \A y \in Node : /\ [y EXCEPT !.name = n, !.argc = c] \in Node
                          /\ [y EXCEPT !.name = n, !.argc = c].type = y.type
                          /\ [y EXCEPT !.name = n, !.argc = c].scope = y.scope
      <4>1. c \in Nat
        BY CodegenAssumption
      <4> QED
        BY <4>1 DEF Node
    <3>4. /\ [Below("CALL") EXCEPT !.name = n, !.argc = c] \in Node
          /\ [Below("CALL") EXCEPT !.name = n, !.argc = c].type = "CALL"
          /\ [Below("CALL") EXCEPT !.name = n, !.argc = c].scope = ScopeOf(Top.node)
      BY <1>2, <3>1, <3>3
    <3> QED
      BY <3>2, <3>4
  <2>5. CASE EnterIf
    <3>1. "IF" \in NodeType
      BY DEF NodeType
    <3> QED
      BY <1>2, <2>5, <3>1 DEF EnterIf
  <2> QED
    BY <2>1, <2>2, <2>3, <2>4, <2>5
<1> QED
  BY <1>3, <1>4

LEMMA EnterMeets ==
  ASSUME TypeInv, EnterDbl \/ EnterVar \/ EnterBin \/ EnterCall \/ EnterIf
  PROVE  /\ Growing /\ Around(ast', Fresh) = Around(ast', Top.node)
         /\ Top.pc = "expr" /\ UNCHANGED <<at, named_vals>>
<1>1. Top.pc = "expr" /\ UNCHANGED <<at, named_vals, funcs>>
  BY DEF EnterDbl, EnterVar, EnterBin, EnterCall, EnterIf, Enter, At, NoCode
<1>2. /\ Top.node \in 0..Len(ast)
      /\ \E x \in Node : /\ Meet(Top.node, x) /\ x.type # "FUNCDEF"
                        /\ x.scope = ScopeOf(Top.node)
  BY EnterNodes
<1> QED
  BY <1>1, <1>2, MeetInv, MeetAround

(* The frame of a function that goes on, compared with what it was. *)
LEMMA NextFrame ==
  ASSUME TypeInv, NEW pc, NEW node, NEW fn, NEW vals, NEW blks
  PROVE  /\ [Top EXCEPT !.pc = pc].pc = pc /\ [Top EXCEPT !.pc = pc].node = Top.node
         /\ [Top EXCEPT !.pc = pc, !.node = node].pc = pc
         /\ [Top EXCEPT !.pc = pc, !.node = node].node = node
         /\ [Top EXCEPT !.pc = pc, !.node = node, !.fn = fn].pc = pc
         /\ [Top EXCEPT !.pc = pc, !.node = node, !.fn = fn].node = node
         /\ [Top EXCEPT !.pc = pc, !.vals = vals].pc = pc
         /\ [Top EXCEPT !.pc = pc, !.vals = vals].node = Top.node
         /\ [Top EXCEPT !.pc = pc, !.blks = blks].pc = pc
         /\ [Top EXCEPT !.pc = pc, !.blks = blks].node = Top.node
         /\ [Top EXCEPT !.pc = pc, !.blks = blks].blks = blks
         /\ [Top EXCEPT !.pc = pc, !.vals = vals, !.blks = blks].pc = pc
         /\ [Top EXCEPT !.pc = pc, !.vals = vals, !.blks = blks].node = Top.node
         /\ [Top EXCEPT !.pc = pc, !.vals = vals, !.blks = blks].blks = blks
<1>1. Top \in FrameOf(ast, funcs) /\ ast \in Seq(Node) /\ funcs \in Seq(Function)
  BY TopType DEF TypeInv, Typed
<1>2. Top \in FrameIn(0..Len(ast), ValueOf(Len(funcs)), Places(funcs), 0..Len(funcs))
  BY <1>1, AsFrameIn
<1> QED
  BY <1>2 DEF FrameIn

LEMMA OwnerStays ==
  ASSUME NEW s, NEW ns, NEW pos, NEW names, NEW i, NEW g,
         g.pc \notin {"then", "else"}, Owner(s, ns, pos, names, i)
  PROVE  pos[1] = s[i].fn /\ Within(g, s[i].fn)
  BY DEF Owner, Within

LEMMA EnterScope ==
  ASSUME TypeInv, ScopeInv, EnterDbl \/ EnterVar \/ EnterBin \/ EnterCall \/ EnterIf
  PROVE  ScopeInv'
<1>1. /\ Growing /\ Around(ast', Fresh) = Around(ast', Top.node)
      /\ UNCHANGED <<at, named_vals>>
      /\ Top.pc \notin Base /\ Top.pc # "body"
  BY EnterMeets DEF Base
<1>2. \A i : Owner(stack, ast', at, named_vals, i) => at'[1] = stack[i].fn
  BY <1>1 DEF Owner
<1>3. \/ \E v : Return(v)
      \/ \E g : /\ g.pc \notin {"body", "then", "else"} /\ g.node = Fresh
                /\ stack' = Resume(g) \/ CallExpr(g)
  <2>1. CASE EnterDbl \/ EnterVar
    BY <2>1 DEF EnterDbl, EnterVar
  <2>2. CASE EnterBin
    <3> DEFINE g == [Top EXCEPT !.pc = "lhs", !.node = Fresh]
    <3>1. g.pc = "lhs" /\ g.node = Fresh
      BY NextFrame
    <3>2. CallExpr(g)
      BY <2>2 DEF EnterBin
    <3> HIDE DEF g
    <3> QED
      BY <3>1, <3>2
  <2>3. CASE EnterIf
    <3> DEFINE g == [Top EXCEPT !.pc = "cond", !.node = Fresh]
    <3>1. g.pc = "cond" /\ g.node = Fresh
      BY NextFrame
    <3>2. CallExpr(g)
      BY <2>3 DEF EnterIf
    <3> HIDE DEF g
    <3> QED
      BY <3>1, <3>2
  <2>4. CASE EnterCall
    <3>1. PICK name \in FuncNames :
            \/ stack' = Resume([Top EXCEPT !.pc = "args", !.node = Fresh,
                                           !.fn = Named(name)])
            \/ Return(NULL)
      BY <2>4 DEF EnterCall
    <3> DEFINE g == [Top EXCEPT !.pc = "args", !.node = Fresh, !.fn = Named(name)]
    <3>2. g.pc = "args" /\ g.node = Fresh
      BY NextFrame
    <3>3. stack' = Resume(g) \/ Return(NULL)
      BY <3>1
    <3> HIDE DEF g
    <3> QED
      BY <3>2, <3>3
  <2> QED
    BY <2>1, <2>2, <2>3, <2>4
<1>4. CASE \E v : Return(v)
  BY <1>1, <1>2, <1>4, ReturnScope
<1>5. ASSUME NEW g, g.pc \notin {"body", "then", "else"}, g.node = Fresh,
             stack' = Resume(g) \/ CallExpr(g)
      PROVE  ScopeInv'
  <2>1. \A i \in 1..Len(stack) : Owner(stack, ast', at, named_vals, i) =>
           at'[1] = stack[i].fn /\ Within(g, stack[i].fn)
    BY <1>1, <1>5, OwnerStays
  <2>2. CASE stack' = Resume(g)
    BY <1>1, <1>5, <2>1, <2>2, ResumeScope
  <2>3. CASE CallExpr(g)
    <3> DEFINE h == NewFrame("expr", g.node)
    <3>1. h.pc = "expr" /\ h.node = g.node /\ stack' = Append(Resume(g), h)
      BY <2>3 DEF NewFrame, CallExpr
    <3> HIDE DEF h
    <3> QED
      BY <1>1, <1>5, <2>1, <3>1, CallScope
  <2> QED
    BY <1>5, <2>2, <2>3
<1> QED
  BY <1>3, <1>4, <1>5

(* The steps that only return. *)
LEMMA QuietScope ==
  ASSUME TypeInv, ScopeInv,
         \/ Bin \/ BuildCall \/ IfFails \/ BlockDone \/ EmptyBlock
         \/ (StoreArg /\ ret = NULL) \/ (StmtDone /\ ret = NULL)
  PROVE  ScopeInv'
<1>1. /\ Top.pc \in {"rhs", "args", "cond", "then", "else", "block", "arg", "stmt"}
      /\ UNCHANGED <<ast, at, named_vals>>
      /\ \E v : Return(v)
  BY DEF Bin, BuildCall, IfFails, BlockDone, EmptyBlock, StoreArg, StmtDone, At, NoCode
<1>2. Top.pc \notin Base /\ Top.pc # "body"
  BY <1>1 DEF Base
<1>3. Growing
  <2>1. CASE UNCHANGED funcs
    BY <1>1, <2>1, Unmoved
  <2>2. CASE Bin /\ ~EitherFails(Top.vals[1], ret)
    <3> DEFINE args == <<Top.vals[1], ret>>
               op == ast[Top.node].op
    <3>1. funcs' = Insert(funcs, at, op, args, <<>>, 0)
      BY <2>2 DEF Bin, Operands
    <3>2. /\ op \in Opcode /\ args \in Seq(ValueOf(Len(funcs)))
          /\ funcs \in Seq(Function) /\ IsPlace(at, funcs) /\ <<>> \in Seq(Pos)
      BY <2>2, BinArgs, EmptyType DEF Bin, Opcode, TypeInv, Typed
    <3> HIDE DEF args, op
    <3>3. funcs' \in Seq(Function) /\ Coding(funcs, funcs')
      BY <3>1, <3>2, BuildType
    <3> QED
      BY <1>1, <3>3, StillGrowing
  <2>3. CASE BuildCall
    <3>1. funcs' = Insert(funcs, at, "call", Top.vals, <<>>, Top.fn)
      BY <2>3 DEF BuildCall
    <3>2. /\ Top.vals \in Seq(ValueOf(Len(funcs))) /\ Top.fn \in Nat
          /\ funcs \in Seq(Function) /\ IsPlace(at, funcs) /\ <<>> \in Seq(Pos)
      <4>1. /\ Top \in FrameOf(ast, funcs) /\ ast \in Seq(Node)
            /\ funcs \in Seq(Function) /\ IsPlace(at, funcs)
        BY TopType DEF TypeInv, Typed
      <4>2. Top.vals \in Seq(ValueOf(Len(funcs))) /\ Top.fn \in 0..Len(funcs)
        BY <4>1, FrameFields
      <4> QED
        BY <4>1, <4>2, EmptyType
    <3>3. "call" \in Opcode
      BY DEF Opcode
    <3>4. funcs' \in Seq(Function) /\ Coding(funcs, funcs')
      BY <3>1, <3>2, <3>3, BuildType
    <3> QED
      BY <1>1, <3>4, StillGrowing
  <2> QED
    BY <2>1, <2>2, <2>3 DEF Bin, IfFails, BlockDone, EmptyBlock, StoreArg, StmtDone, NoCode
<1>4. \A i : Owner(stack, ast', at, named_vals, i) => at'[1] = stack[i].fn
  BY <1>1 DEF Owner
<1> QED
  BY <1>1, <1>2, <1>3, <1>4, ReturnScope

(* The steps after which the frame goes on below the same node. *)
LEMMA GoesOnScope ==
  ASSUME TypeInv, ScopeInv, UNCHANGED <<ast, funcs, at, named_vals>>,
         Top.pc # "body", NEW g, g.pc \notin {"body", "then", "else"},
         g.node = Top.node, stack' = Resume(g) \/ CallExpr(g)
  PROVE  ScopeInv'
<1>1. Growing
  BY Unmoved
<1>2. \A i \in 1..Len(stack) : Owner(stack, ast', at, named_vals, i) =>
         at'[1] = stack[i].fn /\ Within(g, stack[i].fn)
  BY OwnerStays
<1>3. CASE stack' = Resume(g)
  BY <1>1, <1>2, <1>3, ResumeScope
<1>4. CASE CallExpr(g)
  <2> DEFINE h == NewFrame("expr", g.node)
  <2>1. h.pc = "expr" /\ h.node = g.node /\ stack' = Append(Resume(g), h)
    BY <1>4 DEF NewFrame, CallExpr
  <2> HIDE DEF h
  <2> QED
    BY <1>1, <1>2, <2>1, CallScope
<1> QED
  BY <1>3, <1>4

LEMMA PassScope ==
  ASSUME TypeInv, ScopeInv,
         \/ Rhs \/ NextArg \/ NextStmt
         \/ (StoreArg /\ ret # NULL) \/ (StmtDone /\ ret # NULL)
  PROVE  ScopeInv'
<1>1. /\ Top.pc \in {"lhs", "args", "block", "arg", "stmt"}
      /\ UNCHANGED <<ast, funcs, at, named_vals>>
  BY DEF Rhs, NextArg, NextStmt, StoreArg, StmtDone, At, NoCode
<1>2. CASE Rhs
  <2> DEFINE g == [Top EXCEPT !.pc = "rhs", !.vals = <<ret>>]
  <2>1. g.pc = "rhs" /\ g.node = Top.node /\ CallExpr(g)
    BY <1>2, NextFrame DEF Rhs
  <2> HIDE DEF g
  <2> QED
    BY <1>1, <2>1, GoesOnScope
<1>3. CASE NextArg
  <2> DEFINE g == [Top EXCEPT !.pc = "arg"]
  <2>1. g.pc = "arg" /\ g.node = Top.node /\ CallExpr(g)
    BY <1>3, NextFrame DEF NextArg
  <2> HIDE DEF g
  <2> QED
    BY <1>1, <2>1, GoesOnScope
<1>4. CASE NextStmt
  <2> DEFINE g == [Top EXCEPT !.pc = "stmt"]
  <2>1. g.pc = "stmt" /\ g.node = Top.node /\ CallExpr(g)
    BY <1>4, NextFrame DEF NextStmt
  <2> HIDE DEF g
  <2> QED
    BY <1>1, <2>1, GoesOnScope
<1>5. CASE StoreArg /\ ret # NULL
  <2> DEFINE g == [Top EXCEPT !.pc = "args", !.vals = Append(Top.vals, ret)]
  <2>1. g.pc = "args" /\ g.node = Top.node /\ stack' = Resume(g)
    BY <1>5, NextFrame DEF StoreArg
  <2> HIDE DEF g
  <2> QED
    BY <1>1, <2>1, GoesOnScope
<1>6. CASE StmtDone /\ ret # NULL
  <2> DEFINE g == [Top EXCEPT !.pc = "block", !.vals = <<ret>>]
  <2>1. g.pc = "block" /\ g.node = Top.node /\ stack' = Resume(g)
    BY <1>6, NextFrame DEF StmtDone
  <2> HIDE DEF g
  <2> QED
    BY <1>1, <2>1, GoesOnScope
<1> QED
  BY <1>2, <1>3, <1>4, <1>5, <1>6

(* The call of do_codegen on a block. *)
LEMMA BlockScope ==
  ASSUME TypeInv, ScopeInv, Top.pc # "body", NEW g, g.pc # "body",
         g.node = Top.node, CallBlock(g), UNCHANGED named_vals,
         funcs' \in Seq(Function), Grown(funcs, funcs'),
         \A i \in 1..Len(stack) : Owner(stack, ast', at, named_vals, i) =>
            at'[1] = stack[i].fn /\ Within(g, stack[i].fn)
  PROVE  ScopeInv'
<1> DEFINE x == NewNode("BLOCK", ScopeOf(Top.node))
           h == NewFrame("block", Fresh)
<1>1. Top.node \in 0..Len(ast)
  <2>1. "IF" \in NodeType
    BY DEF NodeType
  <2> QED
    BY <2>1, BelowType
<1>2. x \in Node /\ x.type = "BLOCK" /\ x.scope = ScopeOf(Top.node)
  <2>1. "BLOCK" \in NodeType /\ ScopeOf(Top.node) \in Nat
    BY <1>1, ScopeType DEF TypeInv, Typed, NodeType
  <2> QED
    BY <2>1, NewNodeType
<1>3. Meet(Top.node, x) /\ stack' = Append(Resume(g), h)
  BY DEF CallBlock
<1>4. h.pc = "block" /\ h.node = Fresh
  BY DEF NewFrame
<1> HIDE DEF x, h
<1>5. Growing /\ Around(ast', Fresh) = Around(ast', Top.node)
  BY <1>1, <1>2, <1>3, MeetInv, MeetAround DEF Growing
<1> QED
  BY <1>3, <1>4, <1>5, CallScope

LEMMA EvalScope == ASSUME TypeInv, ScopeInv, EvalStarts PROVE ScopeInv'
<1> DEFINE g == [Top EXCEPT !.pc = "coded"]
<1>1. g.pc = "coded" /\ g.node = Top.node
  BY NextFrame
<1>2. CallBlock(g) /\ Top.pc = "main" /\ UNCHANGED <<funcs, at, named_vals>>
  BY DEF EvalStarts, At, NoCode
<1> HIDE DEF g
<1>3. funcs' \in Seq(Function) /\ Grown(funcs, funcs')
  BY <1>2, Same DEF TypeInv, Typed
<1>4. \A i \in 1..Len(stack) : Owner(stack, ast', at, named_vals, i) =>
         at'[1] = stack[i].fn /\ Within(g, stack[i].fn)
  BY <1>1, <1>2, OwnerStays
<1> QED
  BY <1>1, <1>2, <1>3, <1>4, BlockScope

LEMMA ThenScope == ASSUME TypeInv, ScopeInv, Then PROVE ScopeInv'
<1> DEFINE f == at[1]
           n == Len(funcs[f].blocks)
           blks == <<<<f, n + 1>>, <<f, n + 2>>, <<f, n + 3>>>>
           g == [Top EXCEPT !.pc = "then", !.blks = blks]
<1>1. g.pc = "then" /\ g.node = Top.node /\ g.blks = blks
  BY SMTT(40), NextFrame
<1>2. CallBlock(g) /\ Top.pc = "cond" /\ at' = <<f, n + 1>> /\ UNCHANGED named_vals
  BY DEF Then, At
<1>3. funcs' \in Seq(Function) /\ Grown(funcs, funcs')
  BY ThenFunctions
<1>4. \A m \in 1..3 : blks[m][1] = f
  OBVIOUS
<1> HIDE DEF g, blks
<1>5. \A i \in 1..Len(stack) : Owner(stack, ast', at, named_vals, i) =>
         at'[1] = stack[i].fn /\ Within(g, stack[i].fn)
  BY <1>1, <1>2, <1>4 DEF Owner, Within
<1> QED
  BY <1>1, <1>2, <1>3, <1>5, BlockScope

(* The blocks of a conditional are those of the owner. *)
LEMMA OwnBlocks ==
  ASSUME TypeInv, Top.pc \in {"then", "else"}, NEW ns, NEW i \in 1..Len(stack),
         Owner(stack, ns, at, named_vals, i)
  PROVE  at[1] = stack[i].fn /\ \A m \in 1..3 : Top.blks[m][1] = stack[i].fn
<1>1. Len(stack) \in i..Len(stack)
  BY TopType DEF TypeInv
<1>2. Within(stack[Len(stack)], stack[i].fn)
  BY <1>1 DEF Owner
<1> QED
  BY <1>2 DEF Owner, Within, Top

LEMMA ElseScope == ASSUME TypeInv, ScopeInv, Else PROVE ScopeInv'
<1> DEFINE blks == [Top.blks EXCEPT ![1] = at]
           g == [Top EXCEPT !.pc = "else", !.vals = <<ret>>, !.blks = blks]
<1>1. g.pc = "else" /\ g.node = Top.node /\ g.blks = blks
  BY NextFrame
<1>2. /\ CallBlock(g) /\ Top.pc = "then" /\ at' = Top.blks[2] /\ UNCHANGED named_vals
      /\ funcs' = Insert(funcs, at, "br", <<>>, <<Top.blks[3]>>, 0)
  BY DEF Else, At, BranchEnd
<1>3. funcs' \in Seq(Function) /\ Grown(funcs, funcs')
  <2>1. /\ funcs \in Seq(Function) /\ IsPlace(at, funcs) /\ "br" \in Opcode
        /\ <<>> \in Seq(ValueOf(Len(funcs))) /\ <<Top.blks[3]>> \in Seq(Pos)
    <3>1. <<Top.blks[3]>> \in Seq(Pos)
      BY <1>2, InFunction, OneType
    <3> QED
      BY <3>1, EmptyType DEF TypeInv, Typed, Opcode, Terminators
  <2>2. funcs' \in Seq(Function) /\ Coding(funcs, funcs')
    BY <1>2, <2>1, BuildType
  <2> QED
    BY <2>1, <2>2, CodingGrows
<1>4. /\ blks[1] = at
      /\ \A m \in 2..3 : blks[m] = Top.blks[m]
  <2>1. Len(Top.blks) = 3 /\ Top.blks \in Seq(Places(funcs))
    <3>1. Top \in FrameOf(ast, funcs) /\ ast \in Seq(Node) /\ funcs \in Seq(Function)
      BY TopType DEF TypeInv, Typed
    <3> QED
      BY <1>2, <3>1, FrameFields, InFunction
  <2> QED
    BY <2>1
<1> HIDE DEF g, blks
<1>5. ASSUME NEW i \in 1..Len(stack), Owner(stack, ast', at, named_vals, i)
      PROVE  at'[1] = stack[i].fn /\ Within(g, stack[i].fn)
  <2>1. at[1] = stack[i].fn /\ \A m \in 1..3 : Top.blks[m][1] = stack[i].fn
    BY <1>2, <1>5, OwnBlocks
  <2>2. ASSUME NEW m \in 1..3 PROVE blks[m][1] = stack[i].fn
    <3>1. m = 1 \/ m \in 2..3
      OBVIOUS
    <3> QED
      BY <1>4, <2>1, <3>1
  <2> QED
    BY <1>1, <1>2, <2>1, <2>2 DEF Within
<1> QED
  BY <1>1, <1>2, <1>3, <1>5, BlockScope

LEMMA PhiScope == ASSUME TypeInv, ScopeInv, Phi PROVE ScopeInv'
<1>1. /\ Top.pc = "else" /\ Top.pc \notin Base /\ UNCHANGED <<ast, named_vals>>
      /\ at' = Top.blks[3] /\ \E v : Return(v)
  BY DEF Phi, At, Base
<1>2. Growing
  BY <1>1, PhiFunctions, StillGrowing
<1>3. \A i \in 1..Len(stack) :
         Owner(stack, ast', at, named_vals, i) => at'[1] = stack[i].fn
  BY <1>1, OwnBlocks
<1> QED
  BY <1>1, <1>2, <1>3, ReturnScope

(* A definition below node p, on top of the frames base, which are those   *)
(* around it.                                                              *)
LEMMA DefinesScope ==
  ASSUME TypeInv, ScopeInv,
         NEW base, IsStack(base, ast, funcs), NEW p \in 0..Len(ast),
         NEW name \in FuncNames, NEW params \in Seq(ParamNames),
         DefineFunction(base, p, name, params), UNCHANGED <<mode, ub, status>>,
         Scoped(base, ast),
         \A i \in 1..Len(base) : Inner(base, i, Len(base)) => ScopeOf(p) = base[i].node
  PROVE  ScopeInv'
<1> DEFINE S == FrameOf(ast, funcs)
<1>1. base \in Seq(S) /\ Len(base) \in Nat /\ Len(base) >= 1
  BY LenProperties DEF IsStack
<1>2. PICK bs : bs = ast'
  OBVIOUS
<1>3. /\ bs \in Seq(Node) /\ Kept(ast, bs) /\ ast \in Seq(Node) /\ funcs \in Seq(Function)
  BY <1>2, DefineType DEF Growing, TypeInv, Typed
<1>4. Scoped(base, bs)
  BY <1>3, ScopedKept
<1>5. CASE ~Definable(Named(name), Len(params))
  <2> DEFINE x == DefNode(p, name, params)
  <2>1. stack' = base /\ ast' = Append(Adopted(p), x)
    BY <1>5, DefineCases
  <2>2. /\ bs[Fresh] = x /\ Len(bs) = Fresh
        /\ x.type = "FUNCDEF" /\ x.scope = ScopeOf(p) /\ Fresh \in 1..(Fresh + 1)
    BY <1>2, <2>1, DefAstType, DefNodeType
  <2> HIDE DEF x
  <2>3. Fresh \in 1..Len(bs)
    BY <2>2
  <2>4. \A i \in 1..Len(base) : Inner(base, i, Len(base)) => Nests(bs, base[i].node)
    BY <2>2, <2>3 DEF Nests
  <2>5. Building(base, bs, at', named_vals')
    BY <2>4 DEF Building
  <2> QED
    BY <1>2, <1>4, <2>1, <2>5, ScopeBy
<1>6. CASE Definable(Named(name), Len(params))
  <2> DEFINE f == Defined(name)
             x == Unbodied(name, params)
             g == BodyFrame(f)
             h == NewFrame("block", Fresh + 1)
  <2>1. /\ ast' = DefAst(p, name, params)
        /\ at' = <<f, Len(x.blocks) + 1>>
        /\ named_vals' = Scope(f, params)
        /\ stack' = Append(Append(base, g), h)
    BY <1>6, DefineCases
  <2>2. g.pc = "body" /\ g.node = Fresh /\ g.fn = f
    BY DEF BodyFrame, NewFrame
  <2>3. h.pc = "block" /\ h.node = Fresh + 1
    BY DEF NewFrame
  <2>4. /\ bs[Fresh].type = "FUNCDEF" /\ bs[Fresh].scope = ScopeOf(p)
        /\ bs[Fresh].params = params /\ Fresh \in 1..(Fresh + 1)
        /\ bs[Fresh + 1].type = "BLOCK" /\ bs[Fresh + 1].scope = Fresh
    BY <1>2, <2>1, DefAstType
  <2> HIDE DEF f, x, g, h
  <2>5. Fresh # 0 /\ Fresh + 1 # 0
    BY <2>4, DefNodeType
  <2> DEFINE t == Append(base, g)
             T == S \cup {g, h}
  <2>6. /\ t \in Seq(T) /\ Len(t) = Len(base) + 1 /\ t[Len(base) + 1] = g
        /\ \A i \in 1..Len(base) : t[i] = base[i]
        /\ base \in Seq(T)
        /\ Len(Append(t, h)) = Len(t) + 1 /\ Append(t, h)[Len(t) + 1] = h
        /\ \A i \in 1..Len(t) : Append(t, h)[i] = t[i]
    <3>1. S \subseteq T /\ g \in T /\ h \in T
      OBVIOUS
    <3> HIDE DEF T
    <3>2. base \in Seq(T)
      BY <1>1, <3>1, SeqMono
    <3>3. /\ t \in Seq(T) /\ Len(t) = Len(base) + 1 /\ t[Len(base) + 1] = g
          /\ \A i \in 1..Len(base) : t[i] = base[i]
      BY <3>1, <3>2, AppendType
    <3> HIDE DEF t
    <3> QED
      BY <3>1, <3>2, <3>3, AppendType
  <2> HIDE DEF t, T
  <2>7. Scoped(t, bs) /\ Building(t, bs, at', named_vals')
    <3>1. at'[1] = g.fn /\ named_vals' = Scope(g.fn, bs[g.node].params)
      BY <2>1, <2>2, <2>4
    <3>2. /\ g.node # 0 /\ bs[g.node].type = "FUNCDEF"
          /\ \A i \in 1..Len(base) : Inner(base, i, Len(base)) =>
               bs[g.node].scope = base[i].node
      BY <2>2, <2>4, <2>5
    <3> QED
      BY <1>1, <1>4, <2>2, <2>6, <3>1, <3>2, PushBody
  <2>8. Around(bs, h.node) = Around(bs, t[Len(t)].node)
    BY <2>2, <2>3, <2>4, <2>5, <2>6 DEF Around
  <2>9. Len(t) >= 1 /\ h.pc \notin {"body", "then", "else"} /\ stack' = Append(t, h)
    BY <1>1, <2>1, <2>3, <2>6 DEF t
  <2>10. Scoped(stack', bs) /\ Building(stack', bs, at', named_vals')
    BY <2>6, <2>7, <2>8, <2>9, PushScoped
  <2> QED
    BY <1>2, <2>10, ScopeBy
<1> QED
  BY <1>5, <1>6

LEMMA DefScope == ASSUME TypeInv, ScopeInv, EnterDef PROVE ScopeInv'
<1> DEFINE base == SubSeq(stack, 1, Len(stack) - 1)
<1>1. PICK name \in FuncNames, params \in ParamLists :
        DefineFunction(base, Top.node, name, params)
  BY DEF EnterDef
<1>2. params \in Seq(ParamNames) /\ Top.node \in 0..Len(ast)
  <2>1. "FUNCDEF" \in NodeType
    BY DEF NodeType
  <2> QED
    BY <2>1, BelowType, CodegenAssumption
<1>3. /\ Top.pc = "expr" /\ Top.pc \notin Base /\ UNCHANGED <<mode, ub, status>>
  BY DEF EnterDef, Enter, At, Base
<1>4. /\ IsStack(base, ast, funcs) /\ Len(base) = Len(stack) - 1
      /\ \A i \in 1..(Len(stack) - 1) : base[i] = stack[i]
  BY <1>3, PopStack
<1> HIDE DEF base
<1>5. stack \in Seq(FrameOf(ast, funcs)) /\ Len(stack) >= 2 /\ Len(stack) \in Nat
  BY <1>3, TopType DEF TypeInv
<1>6. Scoped(base, ast)
  BY <1>4, <1>5, PopScoped DEF ScopeInv
<1>7. ASSUME NEW i \in 1..Len(base), Inner(base, i, Len(base))
      PROVE  ScopeOf(Top.node) = base[i].node
  <2>1. i \in 1..Len(stack) /\ base[i] = stack[i] /\ Len(stack) \in 1..Len(stack)
    BY <1>4, <1>5
  <2>2. Inner(stack, i, Len(stack))
    <3>1. ASSUME NEW j \in (i + 1)..Len(stack) PROVE stack[j].pc # "body"
      <4>1. CASE j = Len(stack)
        BY <1>3, <4>1 DEF Top
      <4>2. CASE j # Len(stack)
        <5>1. j \in (i + 1)..Len(base) /\ base[j] = stack[j]
          BY <1>4, <1>5, <4>2
        <5> QED
          BY <1>7, <5>1 DEF Inner
      <4> QED
        BY <4>1, <4>2
    <3> QED
      BY <1>7, <2>1, <3>1 DEF Inner
  <2>3. Around(ast, stack[Len(stack)].node) = stack[i].node
    BY <2>1, <2>2 DEF ScopeInv, Scoped
  <2> QED
    BY <2>1, <2>3 DEF Top, Around, ScopeOf
<1> QED
  BY <1>1, <1>2, <1>3, <1>4, <1>6, <1>7, DefinesScope

LEMMA EmitScope == ASSUME TypeInv, ScopeInv, EmitStarts PROVE ScopeInv'
<1> DEFINE base == <<[Top EXCEPT !.pc = "coded"]>>
<1>1. DefineFunction(base, 0, "main", <<>>) /\ UNCHANGED <<mode, ub, status>>
  BY DEF EmitStarts
<1>2. <<>> \in Seq(ParamNames) /\ "main" \in FuncNames
  BY CodegenAssumption, EmptyType
<1>3. /\ IsStack(base, ast, funcs) /\ Len(base) = 1 /\ base[1].pc = "coded"
      /\ 0 \in 0..Len(ast)
  BY EmitBase
<1> HIDE DEF base
<1>4. \A i, k : k \in 1..Len(base) => ~Inner(base, i, k)
  BY <1>3 DEF Inner
<1>5. Scoped(base, ast)
  BY <1>4 DEF Scoped
<1>6. \A i \in 1..Len(base) : ~Inner(base, i, Len(base))
  BY <1>3, <1>4
<1> QED
  BY <1>1, <1>2, <1>3, <1>5, <1>6, DefinesScope

LEMMA DefDoneScope == ASSUME TypeInv, ScopeInv, DefDone PROVE ScopeInv'
<1>1. /\ Top.pc = "body" /\ Top.pc \notin Base /\ \E v : Return(v)
      /\ UNCHANGED <<at, named_vals>>
  BY DEF DefDone, At, Base
<1>2. Growing
  BY DefDoneType
<1>3. PICK bs, fs : bs = ast' /\ fs = funcs'
  OBVIOUS
<1>4. /\ bs \in Seq(Node) /\ fs \in Seq(Function) /\ IsStack(stack, bs, fs)
      /\ Scoped(stack, bs) /\ Building(stack, bs, at, named_vals)
  BY <1>2, <1>3, Growth, ScopeGrows DEF Growing
<1>5. stack \in Seq(FrameOf(ast, funcs)) /\ Len(stack) >= 2
  BY <1>1, TopType DEF TypeInv
<1>6. /\ Len(stack') = Len(stack) - 1
      /\ \A i \in 1..(Len(stack) - 1) : stack'[i] = stack[i]
  BY <1>1, <1>5, PopType DEF Return
<1>7. stack[Len(stack)].pc = "body"
  BY <1>1 DEF Top
<1>8. Scoped(stack', bs)
  BY <1>4, <1>5, <1>6, PopScoped
<1>9. Building(stack', bs, at', named_vals')
  BY <1>4, <1>5, <1>6, <1>7, PopBody
<1> QED
  BY <1>3, <1>8, <1>9, ScopeBy

LEMMA ScopeStep == ASSUME TypeInv, ScopeInv, [Next]_vars PROVE ScopeInv'
<1>1. CASE UNCHANGED <<ast, stack, at, named_vals>>
  <2>1. /\ Scoped(stack', ast')
        /\ Building(stack', ast', at', named_vals')
    BY <1>1 DEF ScopeInv
  <2> QED
    BY <2>1, ScopeBy
<1>2. CASE EnterDbl \/ EnterVar \/ EnterBin \/ EnterCall \/ EnterIf
  BY <1>2, EnterScope
<1>3. CASE Bin \/ BuildCall \/ IfFails \/ BlockDone \/ EmptyBlock
  BY <1>3, QuietScope
<1>4. CASE Rhs \/ NextArg \/ NextStmt \/ StoreArg \/ StmtDone
  BY <1>4, QuietScope, PassScope
<1>5. CASE Then \/ Else \/ Phi \/ EvalStarts
  BY <1>5, ThenScope, ElseScope, PhiScope, EvalScope
<1>6. CASE EnterDef \/ EmitStarts \/ DefDone
  BY <1>6, DefScope, EmitScope, DefDoneScope
<1>7. CASE Coded \/ Killed \/ IfDies \/ UNCHANGED vars
  <2>1. UNCHANGED <<ast, stack, at, named_vals>>
    BY <1>7 DEF Coded, Killed, IfDies, vars
  <2> QED
    BY <1>1, <2>1
<1> QED
  BY <1>2, <1>3, <1>4, <1>5, <1>6, <1>7 DEF Next, Step, Ended

LEMMA InitScope == Init => ScopeInv
<1> SUFFICES ASSUME Init PROVE ScopeInv
  OBVIOUS
<1>1. Len(stack) = 1 /\ stack[1].pc = "main"
  BY DEF Init, NewFrame
<1>2. \A i, k : k \in 1..Len(stack) => ~Inner(stack, i, k)
  BY <1>1 DEF Inner
<1>3. \A i \in 1..Len(stack) : ~Inner(stack, i, Len(stack))
  BY <1>1, <1>2
<1> QED
  BY <1>2, <1>3 DEF ScopeInv, Scoped, Building

(* A parameter that occurs twice stands for its last occurrence. *)
LEMMA ScopeNames ==
  ASSUME NEW f, NEW params \in Seq(ParamNames), NEW x \in ParamNames
  PROVE  LET v == Scope(f, params)[x]
         IN IF v = NULL
              THEN \A i \in 1..Len(params) : params[i] # x
              ELSE /\ v = Param(f, v.i) /\ params[v.i] = x
                   /\ \A i \in 1..Len(params) : i > v.i => params[i] # x
<1> DEFINE is == {i \in 1..Len(params) : params[i] = x}
           v == Scope(f, params)[x]
<1>1. v = IF is = {} THEN NULL ELSE Param(f, LastOf(is))
  BY DEF Scope, Cleared, NoNames
<1>2. Len(params) \in Nat
  BY LenProperties
<1>3. CASE is = {}
  BY <1>1, <1>3
<1>4. CASE is # {}
  <2>1. LastOf(is) \in is /\ \A j \in is : j <= LastOf(is)
    <3>1. is \subseteq 1..Len(params)
      OBVIOUS
    <3> HIDE DEF is
    <3> QED
      BY <1>4, <3>1, LastOfType
  <2>2. v = Param(f, LastOf(is)) /\ v.i = LastOf(is) /\ v # NULL
    BY <1>1, <1>4 DEF Param, NULL
  <2>3. \A i \in 1..Len(params) : i > LastOf(is) => params[i] # x
    <3>1. ASSUME NEW i \in 1..Len(params), i > LastOf(is), params[i] = x PROVE FALSE
      <4>1. i \in is /\ LastOf(is) \in 1..Len(params)
        BY <2>1, <3>1
      <4> QED
        BY <1>2, <2>1, <3>1, <4>1
    <3> QED
      BY <3>1
  <2>4. params[LastOf(is)] = x
    BY <2>1
  <2> HIDE DEF is, v
  <2>5. params[v.i] = x /\ v = Param(f, v.i) /\ v # NULL
        /\ \A i \in 1..Len(params) : i > v.i => params[i] # x
    BY <2>2, <2>3, <2>4
  <2> QED
    BY <2>5 DEF v
<1> QED
  BY <1>3, <1>4

LEMMA ScopeInvImplies ==
  ASSUME TypeInv, ScopeInv PROVE ScopeIsBuilder
<1> DEFINE open == {i \in 1..Len(stack) : stack[i].pc = "body"}
           k == CHOOSE i \in open : \A j \in open : j <= i
           body == stack[k]
           params == ast[body.node].params
<1> SUFFICES ASSUME open # {}, ~HasNested(body.node)
             PROVE  /\ at[1] = body.fn
                    /\ \A x \in ParamNames :
                         LET v == named_vals[x]
                         IN IF v = NULL
                              THEN \A i \in 1..Len(params) : params[i] # x
                              ELSE /\ v = Param(body.fn, v.i)
                                   /\ params[v.i] = x
                                   /\ \A i \in 1..Len(params) : i > v.i => params[i] # x
  BY DEF ScopeIsBuilder
<1>1. Len(stack) \in Nat
  BY TopType DEF TypeInv
<1>2. k \in open /\ \A j \in open : j <= k
  <2>1. open \subseteq 1..Len(stack)
    OBVIOUS
  <2>2. \E i \in open : \A j \in open : j <= i
    <3> HIDE DEF open
    <3> QED
      BY <1>1, <2>1, GreatestExists
  <2> QED
    BY <2>2
<1>3. k \in 1..Len(stack) /\ Inner(stack, k, Len(stack))
  <2>1. k \in 1..Len(stack) /\ stack[k].pc = "body"
    BY <1>2
  <2>2. ASSUME NEW j \in (k + 1)..Len(stack), stack[j].pc = "body" PROVE FALSE
    <3>1. j \in open /\ j > k
      BY <1>1, <2>1, <2>2
    <3>2. j <= k
      BY <1>2, <3>1
    <3> QED
      BY <1>1, <2>1, <3>1, <3>2
  <2> QED
    BY <2>1, <2>2 DEF Inner
<1> HIDE DEF k
<1>4. Owner(stack, ast, at, named_vals, k)
  <2>1. ~Nests(ast, stack[k].node)
    BY DEF HasNested, IsDef, Nests
  <2> QED
    BY <1>3, <2>1 DEF ScopeInv, Building
<1>5. at[1] = body.fn /\ named_vals = Scope(body.fn, params)
  BY <1>4 DEF Owner
<1>6. params \in Seq(ParamNames)
  <2>1. body.node \in 1..Len(ast)
    BY <1>3, FrameNode DEF Inner, TypeInv, Typed
  <2>2. ast[body.node] \in Node
    BY <2>1, ElementOfSeq DEF TypeInv, Typed
  <2> QED
    BY <2>2, NodeFields
<1> HIDE DEF body, params
<1> QED
  BY SMTT(40), <1>5, <1>6, ScopeNames

(* While the body of a function is generated, with whatever nested in it,  *)
(* the builder is in that function and the symbol table holds its          *)
(* parameters and nothing else, a later one of the same name hiding an     *)
(* earlier one, unless another definition is nested in it.                 *)
THEOREM ScopeBelongsToBuilder == Spec => []ScopeIsBuilder
<1>1. Init => TypeInv /\ ScopeInv
  BY InitType, InitScope
<1>2. TypeInv /\ ScopeInv /\ [Next]_vars => TypeInv' /\ ScopeInv'
  BY TypeStep, ScopeStep
<1>3. TypeInv /\ ScopeInv => ScopeIsBuilder
  BY ScopeInvImplies
<1> QED
  BY <1>1, <1>2, <1>3, PTL DEF Spec
=============================================================================
