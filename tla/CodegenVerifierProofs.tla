----------------------- MODULE CodegenVerifierProofs -----------------------
(***************************************************************************)
(* Proofs about Codegen: LLVMVerifyFunction accepts the code generated for *)
(* a function if and only if no other definition is nested in it.          *)
(*                                                                         *)
(* A certificate, dom, says which blocks control has passed whenever it is *)
(* in a block.  Each step that adds code extends it, and the places where  *)
(* the frames of codegen_if will go on are the only blocks, apart from the *)
(* builder's, that are not closed yet.  A definition nested in a function  *)
(* takes the builder away for good, so that a block is never closed.       *)
(***************************************************************************)
EXTENDS CodegenProofs, FiniteSetTheorems

(* From the entry, around one block, control stays within a set that it    *)
(* cannot leave.                                                           *)
LEMMA ReachableWithin ==
  ASSUME NEW fs, NEW f, Len(fs[f].blocks) \in Nat, NEW avoid, NEW X,
         1 # avoid => 1 \in X,
         \A b \in Blocks(fs, f) : \A c \in Preds(fs, f, b) :
           c \in X /\ b # avoid => b \in X
  PROVE  Reachable(fs, f, avoid) \subseteq X
<1> DEFINE n == Len(fs[f].blocks)
           v == {1} \ {avoid}
           V == SUBSET (Blocks(fs, f) \cup {1})
           Wider(near) == near \cup {b \in Blocks(fs, f) \ {avoid} :
                                      Preds(fs, f, b) \cap near # {}}
           step == [i \in Nat |-> [near \in V |-> Wider(near)]]
           Body(R) == [k \in 0..n |-> IF k = 0 THEN v ELSE Wider(R[k - 1])]
           R == CHOOSE R : R = Body(R)
<1>1. Reachable(fs, f, avoid) = R[n]
  BY DEF Reachable
<1>2. R = Body(R)
  <2>1. v \in V /\ Keeps(step, V)
    BY DEF Keeps
  <2>2. Runs(v, step, V, n) # {}
    <3> HIDE DEF v, step, V, n
    <3> QED
      BY <2>1, Recursion DEF n
  <2>3. PICK g : g \in Runs(v, step, V, n)
    BY <2>2
  <2>4. /\ g \in [0..n -> V] /\ g[0] = v
        /\ \A i \in 1..n : g[i] = step[i][g[i - 1]]
    BY <2>3 DEF Runs
  <2>5. ASSUME NEW k \in 0..n PROVE g[k] = Body(g)[k]
    <3>1. CASE k = 0
      BY <2>4, <3>1
    <3>2. CASE k # 0
      <4>1. k \in 1..n /\ k - 1 \in 0..n /\ k \in Nat
        BY <3>2
      <4>2. g[k - 1] \in V
        BY <2>4, <4>1
      <4>3. g[k] = Wider(g[k - 1])
        BY <2>4, <4>1, <4>2
      <4> HIDE DEF Wider
      <4> QED
        BY <3>2, <4>3
    <3> QED
      BY <3>1, <3>2
  <2>6. g = Body(g)
    BY <2>4, <2>5
  <2> HIDE DEF Body
  <2> QED
    BY <2>6
<1>3. R[0] = v /\ \A k \in 1..n : R[k] = Wider(R[k - 1])
  <2>1. \A k \in 0..n : R[k] = IF k = 0 THEN v ELSE Wider(R[k - 1])
    BY <1>2
  <2> HIDE DEF R, Wider, v
  <2> QED
    BY <2>1
<1>4. PICK r : r = R
  OBVIOUS
<1> HIDE DEF R
<1> DEFINE G == {k \in Nat : k <= n => r[k] \subseteq X}
<1>5. 0 \in G
  BY <1>3, <1>4
<1>6. ASSUME NEW k \in Nat, k \in G PROVE k + 1 \in G
  <2>1. ASSUME k + 1 <= n PROVE r[k + 1] \subseteq X
    <3>1. k + 1 \in 1..n /\ (k + 1) - 1 = k /\ k <= n
      BY <2>1
    <3>2. r[k] \subseteq X
      BY <1>6, <3>1
    <3>3. r[k + 1] = Wider(r[k])
      <4> HIDE DEF Wider
      <4> QED
        BY <1>3, <1>4, <3>1
    <3> QED
      BY <3>2, <3>3
  <2> QED
    BY <2>1
<1>7. n \in G
  <2> HIDE DEF G
  <2> QED
    BY <1>5, <1>6, Induction
<1> QED
  BY <1>1, <1>4, <1>7

(* dom[b] are blocks that control has passed whenever it is in b, which is *)
(* seen edge by edge.                                                      *)
Certified(fs, f, dom) ==
  /\ dom \in [Blocks(fs, f) -> SUBSET Blocks(fs, f)]
  /\ dom[1] = {1}
  /\ \A b \in Blocks(fs, f) : b \in dom[b]
  /\ \A b \in Blocks(fs, f) : \A c \in Preds(fs, f, b) : dom[b] \subseteq dom[c] \cup {b}

LEMMA CertifiedDominates ==
  ASSUME NEW fs, NEW f, Len(fs[f].blocks) \in Nat, NEW dom, Certified(fs, f, dom),
         NEW b \in Blocks(fs, f), NEW a \in dom[b]
  PROVE  Dominates(fs, f, a, b)
<1> DEFINE X == {c \in Blocks(fs, f) : a \notin dom[c]} \cup ({1} \ {a})
<1>1. 1 # a => 1 \in X
  OBVIOUS
<1>2. ASSUME NEW d \in Blocks(fs, f), NEW c \in Preds(fs, f, d), c \in X, d # a
      PROVE  d \in X
  <2>1. dom[d] \subseteq dom[c] \cup {d} /\ dom[1] = {1} /\ c \in Blocks(fs, f)
    BY DEF Certified, Preds
  <2>2. a \notin dom[c]
    BY <1>2, <2>1
  <2> QED
    BY <1>2, <2>1, <2>2
<1>3. Reachable(fs, f, a) \subseteq X
  <2> HIDE DEF X
  <2> QED
    BY <1>1, <1>2, ReachableWithin
<1>4. a # b => b \notin X
  BY DEF Certified
<1> QED
  BY <1>3, <1>4 DEF Dominates

-----------------------------------------------------------------------------
(* Adding an instruction.                                                  *)

SameHead(x, y) ==
  y.name = x.name /\ y.arity = x.arity /\ y.state = x.state /\ y.def = x.def

(* gs is fs with instruction x behind those of block b of function f. *)
Adds(fs, gs, f, b, x) ==
  /\ gs \in Seq(Function) /\ Len(gs) = Len(fs)
  /\ \A g \in 1..Len(fs) :
       /\ SameHead(fs[g], gs[g])
       /\ Len(gs[g].blocks) = Len(fs[g].blocks)
       /\ \A c \in Blocks(fs, g) :
            g # f \/ c # b => gs[g].blocks[c] = fs[g].blocks[c]
  /\ gs[f].blocks[b] = Append(fs[f].blocks[b], x)

LEMMA SetAdds ==
  ASSUME NEW fs \in Seq(Function), NEW f \in 1..Len(fs), NEW b \in Blocks(fs, f),
         NEW x \in Instr
  PROVE  Adds(fs, [fs EXCEPT ![f].blocks[b] = Append(@, x)], f, b, x)
<1> DEFINE code == Append(fs[f].blocks[b], x)
           bs == [fs[f].blocks EXCEPT ![b] = code]
           y == [fs[f] EXCEPT !.blocks = bs]
           gs == [fs EXCEPT ![f] = y]
<1>1. /\ fs[f] \in Function /\ fs[f].blocks \in Seq(Seq(Instr))
      /\ b \in 1..Len(fs[f].blocks) /\ fs[f].blocks[b] \in Seq(Instr)
  BY FunctionFields, ElementOfSeq DEF Blocks
<1>2. [fs EXCEPT ![f].blocks[b] = Append(@, x)] = gs
  OBVIOUS
<1>3. code \in Seq(Instr)
  BY <1>1, AppendType
<1> HIDE DEF code
<1>4. /\ bs \in Seq(Seq(Instr)) /\ Len(bs) = Len(fs[f].blocks) /\ bs[b] = code
      /\ \A c \in 1..Len(fs[f].blocks) : c # b => bs[c] = fs[f].blocks[c]
  BY <1>1, <1>3, ExceptType
<1> HIDE DEF bs
<1>5. y \in Function /\ y.blocks = bs /\ SameHead(fs[f], y)
  BY <1>1, <1>4, BlocksType DEF SameHead
<1> HIDE DEF y
<1>6. /\ gs \in Seq(Function) /\ Len(gs) = Len(fs) /\ gs[f] = y
      /\ \A g \in 1..Len(fs) : g # f => gs[g] = fs[g]
  BY <1>5, ExceptType
<1> HIDE DEF gs
<1>7. ASSUME NEW g \in 1..Len(fs)
      PROVE  /\ SameHead(fs[g], gs[g])
             /\ Len(gs[g].blocks) = Len(fs[g].blocks)
             /\ \A c \in Blocks(fs, g) :
                  g # f \/ c # b => gs[g].blocks[c] = fs[g].blocks[c]
  <2>1. CASE g = f
    BY <1>4, <1>5, <1>6, <2>1 DEF Blocks
  <2>2. CASE g # f
    BY <1>6, <2>2 DEF SameHead
  <2> QED
    BY <2>1, <2>2
<1>8. gs[f].blocks[b] = Append(fs[f].blocks[b], x)
  BY <1>4, <1>5, <1>6 DEF code
<1> QED
  BY <1>2, <1>6, <1>7, <1>8 DEF Adds

LEMMA InsertAdds ==
  ASSUME NEW fs \in Seq(Function), NEW pos \in Places(fs), NEW op \in Opcode,
         NEW args \in Seq(Value), NEW to \in Seq(Pos), NEW callee \in Nat
  PROVE  LET gs == Insert(fs, pos, op, args, to, callee)
             x == [op |-> op, args |-> args, to |-> to, callee |-> callee]
         IN /\ Folds(op, args) => gs = fs
            /\ ~Folds(op, args) => x \in Instr /\ Adds(fs, gs, pos[1], pos[2], x)
<1>1. pos[1] \in 1..Len(fs) /\ pos[2] \in Blocks(fs, pos[1])
  BY DEF Places
<1>2. pos[1] # 0
  BY <1>1, LenProperties
<1> DEFINE x == [op |-> op, args |-> args, to |-> to, callee |-> callee]
<1>3. x \in Instr
  BY DEF Instr, Opcode
<1>4. ~Folds(op, args) => Insert(fs, pos, op, args, to, callee) =
         [fs EXCEPT ![pos[1]].blocks[pos[2]] = Append(@, x)]
  BY <1>2 DEF Insert
<1>5. Folds(op, args) => Insert(fs, pos, op, args, to, callee) = fs
  BY DEF Insert
<1> HIDE DEF x
<1>6. Adds(fs, [fs EXCEPT ![pos[1]].blocks[pos[2]] = Append(@, x)], pos[1], pos[2], x)
  BY <1>1, <1>3, SetAdds
<1> QED
  BY <1>3, <1>4, <1>5, <1>6 DEF x

(* Code that ends in a terminator, and code that has none. *)
Closed(code) == Len(code) >= 1 /\ code[Len(code)].op \in Terminators
Unclosed(code) == \A k \in 1..Len(code) : code[k].op \notin Terminators

Targets(x) == {x.to[j] : j \in 1..Len(x.to)}

LEMMA CodeFields ==
  ASSUME NEW fs \in Seq(Function), NEW f \in 1..Len(fs)
  PROVE  /\ Len(fs[f].blocks) \in Nat
         /\ \A b \in Blocks(fs, f) :
              /\ fs[f].blocks[b] \in Seq(Instr) /\ Len(fs[f].blocks[b]) \in Nat
              /\ \A k \in 1..Len(fs[f].blocks[b]) : fs[f].blocks[b][k] \in Instr
              /\ Unclosed(fs[f].blocks[b]) => Succ(fs, f, b) = {}
<1>1. fs[f].blocks \in Seq(Seq(Instr)) /\ Len(fs[f].blocks) \in Nat
  BY FunctionFields
<1>2. ASSUME NEW b \in Blocks(fs, f)
      PROVE  /\ fs[f].blocks[b] \in Seq(Instr) /\ Len(fs[f].blocks[b]) \in Nat
             /\ \A k \in 1..Len(fs[f].blocks[b]) : fs[f].blocks[b][k] \in Instr
             /\ Unclosed(fs[f].blocks[b]) => Succ(fs, f, b) = {}
  <2> DEFINE code == fs[f].blocks[b]
  <2>1. code \in Seq(Instr)
    BY <1>1, ElementOfSeq DEF Blocks
  <2>2. Len(code) \in Nat /\ \A k \in 1..Len(code) : code[k] \in Instr
    BY <2>1, ElementOfSeq, LenProperties
  <2>3. code # <<>> => Len(code) \in 1..Len(code)
    BY <2>1, <2>2, EmptySeq
  <2>4. Unclosed(code) => Succ(fs, f, b) = {}
    BY <2>3 DEF Unclosed, Succ
  <2> QED
    BY <2>1, <2>2, <2>4
<1> QED
  BY <1>1, <1>2

(* The ways between the blocks afterwards. *)
LEMMA AddsPreds ==
  ASSUME NEW fs \in Seq(Function), NEW f \in 1..Len(fs), NEW b \in Blocks(fs, f),
         NEW x \in Instr, NEW gs, Adds(fs, gs, f, b, x), Unclosed(fs[f].blocks[b]),
         NEW c
  PROVE  /\ Blocks(gs, f) = Blocks(fs, f)
         /\ b \notin Preds(fs, f, c)
         /\ Preds(gs, f, c) =
              IF x.op \in Terminators /\ <<f, c>> \in Targets(x)
                THEN Preds(fs, f, c) \cup {b} ELSE Preds(fs, f, c)
<1>1. Blocks(gs, f) = Blocks(fs, f)
  BY DEF Adds, Blocks
<1>2. Succ(fs, f, b) = {}
  BY CodeFields
<1>3. \A d \in Blocks(fs, f) : d # b => Succ(gs, f, d) = Succ(fs, f, d)
  <2>1. ASSUME NEW d \in Blocks(fs, f), d # b PROVE Succ(gs, f, d) = Succ(fs, f, d)
    <3>1. gs[f].blocks[d] = fs[f].blocks[d]
      BY <2>1 DEF Adds
    <3> QED
      BY <3>1 DEF Succ
  <2> QED
    BY <2>1
<1>4. Succ(gs, f, b) = IF x.op \in Terminators THEN Targets(x) ELSE {}
  <2> DEFINE code == gs[f].blocks[b]
  <2>1. fs[f].blocks[b] \in Seq(Instr) /\ Len(fs[f].blocks[b]) \in Nat
    BY CodeFields
  <2>2. Len(code) = Len(fs[f].blocks[b]) + 1 /\ code[Len(code)] = x
        /\ code \in Seq(Instr)
    BY <2>1, AppendType DEF Adds
  <2>3. code # <<>>
    <3>1. Len(code) # 0 /\ Len(<<>>) = 0
      BY <2>1, <2>2
    <3> QED
      BY <3>1
  <2> QED
    BY <2>2, <2>3 DEF Succ, Targets
<1> QED
  BY <1>1, <1>2, <1>3, <1>4 DEF Preds

-----------------------------------------------------------------------------
(* Code that the verifier will accept.                                     *)

(* v can be used wherever control has passed the blocks X. *)
Held(fs, f, X, v) ==
  \/ v.kind = "const"
  \/ v.kind = "param" /\ v.fn = f
  \/ /\ v.kind = "instr" /\ v.fn = f /\ v.blk \in X
     /\ v.i \in 1..Len(fs[f].blocks[v.blk])

(* v can be used by the i-th instruction of block b. *)
UsedIn(f, dom, b, i, v) ==
  \/ v.kind = "const"
  \/ v.kind = "param" /\ v.fn = f
  \/ /\ v.kind = "instr" /\ v.fn = f
     /\ IF v.blk = b THEN v.i < i ELSE v.blk \in dom[b]

Joins(fs, f, dom, b, x) ==
  /\ Len(x.to) = 2 /\ Len(x.args) = 2
  /\ \E c, d \in Blocks(fs, f) :
       /\ c # d /\ x.to[1] = <<f, c>> /\ x.to[2] = <<f, d>>
       /\ Preds(fs, f, b) = {c, d}
       /\ Held(fs, f, dom[c], x.args[1])
       /\ Held(fs, f, dom[d], x.args[2])

Reaches(fs, f, x) ==
  \A s \in Targets(x) : s[1] = f /\ s[2] # 1 /\ s[2] \in Blocks(fs, f)

(* x is right as the i-th instruction of block b, which has n. *)
InstrFine(fs, f, dom, b, i, n, x) ==
  /\ x.op \in Terminators => i = n /\ Reaches(fs, f, x)
  /\ x.op = "phi" => i = 1 /\ Joins(fs, f, dom, b, x)
  /\ x.op # "phi" => \A j \in 1..Len(x.args) : UsedIn(f, dom, b, i, x.args[j])
  /\ x.op = "call" => /\ x.callee \in 1..Len(fs)
                      /\ fs[x.callee].state \in {"open", "verified"}
                      /\ fs[x.callee].arity = Len(x.args)

BlockFine(fs, f, dom, b) ==
  LET code == fs[f].blocks[b]
  IN \A i \in 1..Len(code) : InstrFine(fs, f, dom, b, i, Len(code), code[i])

CodeFine(fs, f, dom) ==
  Certified(fs, f, dom) /\ \A b \in Blocks(fs, f) : BlockFine(fs, f, dom, b)

LEMMA HeldUsable ==
  ASSUME NEW fs \in Seq(Function), NEW f \in 1..Len(fs), NEW dom,
         Certified(fs, f, dom), NEW b \in Blocks(fs, f), NEW v
  PROVE  /\ Held(fs, f, dom[b], v) => Usable(fs, f, b, Len(fs[f].blocks[b]) + 1, v)
         /\ \A i : UsedIn(f, dom, b, i, v) => Usable(fs, f, b, i, v)
<1>1. Len(fs[f].blocks) \in Nat /\ Len(fs[f].blocks[b]) \in Nat
  BY CodeFields
<1>2. \A a \in dom[b] : Dominates(fs, f, a, b)
  BY <1>1, CertifiedDominates
<1>3. ASSUME Held(fs, f, dom[b], v)
      PROVE  Usable(fs, f, b, Len(fs[f].blocks[b]) + 1, v)
  <2>1. v.blk = b /\ v.i \in 1..Len(fs[f].blocks[b]) => v.i < Len(fs[f].blocks[b]) + 1
    BY <1>1
  <2> QED
    BY <1>2, <1>3, <2>1 DEF Held, Usable
<1>4. \A i : UsedIn(f, dom, b, i, v) => Usable(fs, f, b, i, v)
  BY <1>2 DEF UsedIn, Usable
<1> QED
  BY <1>3, <1>4

LEMMA TwoElements == ASSUME NEW p, NEW q, p # q PROVE Cardinality({p, q}) = 2
<1>1. PICK P : P = {p}
  OBVIOUS
<1>2. IsFiniteSet(P) /\ Cardinality(P) = 1
  BY <1>1, FS_Singleton
<1>3. q \notin P
  BY <1>1
<1>4. Cardinality(P \cup {q}) = Cardinality(P) + 1
  BY <1>2, <1>3, FS_AddElement
<1>5. P \cup {q} = {p, q}
  BY Zenon, <1>1
<1> QED
  BY <1>2, <1>4, <1>5

(* The operands of a conditional's phi are there at the ends of its        *)
(* branches.                                                               *)
LEMMA JoinsOK ==
  ASSUME NEW fs \in Seq(Function), NEW f \in 1..Len(fs), NEW dom,
         Certified(fs, f, dom), NEW b \in Blocks(fs, f), NEW x,
         Joins(fs, f, dom, b, x)
  PROVE  PhiOK(fs, f, b, x)
<1>1. PICK c, d \in Blocks(fs, f) :
       /\ c # d /\ x.to[1] = <<f, c>> /\ x.to[2] = <<f, d>>
       /\ Preds(fs, f, b) = {c, d}
       /\ Held(fs, f, dom[c], x.args[1])
       /\ Held(fs, f, dom[d], x.args[2])
       /\ Len(x.to) = 2
  BY DEF Joins
<1> DEFINE preds == {<<f, e>> : e \in Preds(fs, f, b)}
<1>2. preds = {<<f, c>>, <<f, d>>}
  BY <1>1
<1>3. {x.to[j] : j \in 1..Len(x.to)} = preds
  <2>1. 1..Len(x.to) = {1, 2}
    BY <1>1
  <2> QED
    BY <1>1, <1>2, <2>1
<1>4. Cardinality(preds) = 2
  <2>1. <<f, c>> # <<f, d>>
    BY <1>1
  <2> QED
    BY <1>2, <2>1, TwoElements
<1>5. ASSUME NEW j \in 1..Len(x.to)
      PROVE  LET e == x.to[j][2]
             IN Usable(fs, f, e, Len(fs[f].blocks[e]) + 1, x.args[j])
  <2>1. CASE j = 1
    BY <1>1, <2>1, HeldUsable
  <2>2. CASE j = 2
    BY <1>1, <2>2, HeldUsable
  <2> QED
    BY <1>1, <2>1, <2>2
<1> QED
  BY <1>1, <1>3, <1>4, <1>5 DEF PhiOK

(* Such code passes the verifier once all its blocks are closed. *)
LEMMA FineIsWellFormed ==
  ASSUME NEW fs \in Seq(Function), NEW f \in 1..Len(fs), NEW dom, CodeFine(fs, f, dom),
         \A b \in Blocks(fs, f) : Closed(fs[f].blocks[b])
  PROVE  WellFormed(fs, f)
<1> SUFFICES ASSUME NEW b \in Blocks(fs, f)
             PROVE  LET code == fs[f].blocks[b]
                    IN /\ code # <<>>
                       /\ \A s \in Succ(fs, f, b) : s[1] = f /\ s[2] # 1
                       /\ \A i \in 1..Len(code) :
                            /\ i = Len(code) <=> code[i].op \in Terminators
                            /\ IF code[i].op = "phi"
                                 THEN i = 1 /\ PhiOK(fs, f, b, code[i])
                                 ELSE \A j \in 1..Len(code[i].args) :
                                        Usable(fs, f, b, i, code[i].args[j])
                            /\ code[i].op = "call" =>
                                 /\ fs[code[i].callee].state \in {"open", "verified"}
                                 /\ fs[code[i].callee].arity = Len(code[i].args)
  BY DEF WellFormed
<1>1. PICK code : code = fs[f].blocks[b]
  OBVIOUS
<1>2. /\ Len(code) \in Nat /\ Len(code) >= 1 /\ code[Len(code)].op \in Terminators
      /\ code \in Seq(Instr) /\ Certified(fs, f, dom)
      /\ \A i \in 1..Len(code) : InstrFine(fs, f, dom, b, i, Len(code), code[i])
  BY <1>1, CodeFields DEF CodeFine, BlockFine, Closed
<1>3. code # <<>> /\ Len(code) \in 1..Len(code)
  <2>1. Len(code) # 0 /\ Len(<<>>) = 0
    BY <1>2
  <2> QED
    BY <1>2, <2>1
<1>4. ASSUME NEW s \in Succ(fs, f, b) PROVE s[1] = f /\ s[2] # 1
  <2>1. s \in Targets(code[Len(code)])
    BY <1>1, <1>2, <1>3 DEF Succ, Targets
  <2> QED
    BY <1>2, <1>3, <2>1 DEF InstrFine, Reaches
<1>5. ASSUME NEW i \in 1..Len(code)
      PROVE  /\ i = Len(code) <=> code[i].op \in Terminators
             /\ IF code[i].op = "phi"
                  THEN i = 1 /\ PhiOK(fs, f, b, code[i])
                  ELSE \A j \in 1..Len(code[i].args) :
                         Usable(fs, f, b, i, code[i].args[j])
             /\ code[i].op = "call" =>
                  /\ fs[code[i].callee].state \in {"open", "verified"}
                  /\ fs[code[i].callee].arity = Len(code[i].args)
  <2>1. InstrFine(fs, f, dom, b, i, Len(code), code[i])
    BY <1>2
  <2>2. i = Len(code) <=> code[i].op \in Terminators
    BY <1>2, <2>1 DEF InstrFine
  <2>3. code[i].op = "phi" => i = 1 /\ PhiOK(fs, f, b, code[i])
    BY <1>2, <2>1, JoinsOK DEF InstrFine
  <2>4. code[i].op # "phi" => \A j \in 1..Len(code[i].args) :
                                Usable(fs, f, b, i, code[i].args[j])
    BY <1>2, <2>1, HeldUsable DEF InstrFine
  <2> QED
    BY <2>1, <2>2, <2>3, <2>4 DEF InstrFine
<1> QED
  BY <1>1, <1>3, <1>4, <1>5

-----------------------------------------------------------------------------
(* Fine code stays fine.                                                   *)

(* gs has at least the functions of fs and as much code of function f. *)
Richer(fs, gs, f) ==
  /\ Len(fs) <= Len(gs)
  /\ \A g \in 1..Len(fs) : SameHead(fs[g], gs[g])
  /\ Len(fs[f].blocks) <= Len(gs[f].blocks)
  /\ \A b \in Blocks(fs, f) : Len(fs[f].blocks[b]) <= Len(gs[f].blocks[b])

LEMMA HeldKept ==
  ASSUME NEW fs \in Seq(Function), NEW f \in 1..Len(fs), NEW gs \in Seq(Function),
         Richer(fs, gs, f), f \in 1..Len(gs),
         NEW X, X \subseteq Blocks(fs, f), NEW Y, X \subseteq Y, NEW v, Held(fs, f, X, v)
  PROVE  Held(gs, f, Y, v)
<1>1. CASE v.kind = "instr" /\ v.fn = f /\ v.blk \in X
           /\ v.i \in 1..Len(fs[f].blocks[v.blk])
  <2>1. v.blk \in Blocks(fs, f) /\ v.blk \in Y
    BY <1>1
  <2>2. Len(fs[f].blocks[v.blk]) <= Len(gs[f].blocks[v.blk])
    BY <2>1 DEF Richer
  <2>3. v.blk \in Blocks(gs, f)
    <3>1. Len(fs[f].blocks) \in Nat /\ Len(gs[f].blocks) \in Nat
      BY CodeFields
    <3> QED
      BY <2>1, <3>1 DEF Richer, Blocks
  <2>4. Len(fs[f].blocks[v.blk]) \in Nat /\ Len(gs[f].blocks[v.blk]) \in Nat
    BY <2>1, <2>3, CodeFields
  <2> QED
    BY <1>1, <2>1, <2>2, <2>4 DEF Held
<1> QED
  BY <1>1 DEF Held

(* dom is the same for the blocks that were there. *)
Prolongs(fs, f, dom, new) == \A b \in Blocks(fs, f) : new[b] = dom[b]

LEMMA InstrKept ==
  ASSUME NEW fs \in Seq(Function), NEW f \in 1..Len(fs), NEW gs \in Seq(Function),
         Richer(fs, gs, f), f \in 1..Len(gs),
         NEW dom, Certified(fs, f, dom), NEW new, Prolongs(fs, f, dom, new),
         NEW b \in Blocks(fs, f), Preds(gs, f, b) = Preds(fs, f, b),
         NEW i, NEW n, NEW m, NEW x \in Instr, InstrFine(fs, f, dom, b, i, n, x),
         x.op \in Terminators => m = n
  PROVE  InstrFine(gs, f, new, b, i, m, x)
<1>1. Blocks(fs, f) \subseteq Blocks(gs, f)
  <2>1. Len(fs[f].blocks) \in Nat /\ Len(gs[f].blocks) \in Nat
    BY CodeFields
  <2> QED
    BY <2>1 DEF Richer, Blocks
<1>2. x.op \in Terminators => i = m /\ Reaches(gs, f, x)
  BY <1>1 DEF InstrFine, Reaches
<1>3. ASSUME x.op = "phi" PROVE i = 1 /\ Joins(gs, f, new, b, x)
  <2>1. PICK c, d \in Blocks(fs, f) :
          /\ c # d /\ x.to[1] = <<f, c>> /\ x.to[2] = <<f, d>>
          /\ Preds(fs, f, b) = {c, d}
          /\ Held(fs, f, dom[c], x.args[1])
          /\ Held(fs, f, dom[d], x.args[2])
    BY <1>3 DEF InstrFine, Joins
  <2>2. /\ dom[c] \subseteq Blocks(fs, f) /\ dom[d] \subseteq Blocks(fs, f)
        /\ new[c] = dom[c] /\ new[d] = dom[d]
    BY DEF Certified, Prolongs
  <2>3. Held(gs, f, new[c], x.args[1]) /\ Held(gs, f, new[d], x.args[2])
    BY <2>1, <2>2, HeldKept
  <2>4. i = 1 /\ Len(x.to) = 2 /\ Len(x.args) = 2
    BY <1>3 DEF InstrFine, Joins
  <2>5. c \in Blocks(gs, f) /\ d \in Blocks(gs, f)
    BY <1>1
  <2> QED
    BY <2>1, <2>3, <2>4, <2>5 DEF Joins
<1>4. x.op # "phi" => \A j \in 1..Len(x.args) : UsedIn(f, new, b, i, x.args[j])
  BY DEF InstrFine, UsedIn, Prolongs
<1>5. x.op = "call" => /\ x.callee \in 1..Len(gs)
                       /\ gs[x.callee].state \in {"open", "verified"}
                       /\ gs[x.callee].arity = Len(x.args)
  <2>1. Len(fs) \in Nat /\ Len(gs) \in Nat
    BY FunctionFields
  <2> QED
    BY <2>1 DEF InstrFine, Richer, SameHead
<1> QED
  BY <1>2, <1>3, <1>4, <1>5 DEF InstrFine

AddsMore(fs, gs, f, b, x) ==
  /\ Richer(fs, gs, f) /\ gs \in Seq(Function) /\ f \in 1..Len(gs)
  /\ Blocks(gs, f) = Blocks(fs, f)
  /\ Len(gs[f].blocks[b]) = Len(fs[f].blocks[b]) + 1
  /\ gs[f].blocks[b][Len(fs[f].blocks[b]) + 1] = x
  /\ \A i \in 1..Len(fs[f].blocks[b]) : gs[f].blocks[b][i] = fs[f].blocks[b][i]

LEMMA AddsRicher ==
  ASSUME NEW fs \in Seq(Function), NEW f \in 1..Len(fs), NEW b \in Blocks(fs, f),
         NEW x \in Instr, NEW gs, Adds(fs, gs, f, b, x)
  PROVE  AddsMore(fs, gs, f, b, x)
<1>1. fs[f].blocks[b] \in Seq(Instr) /\ Len(fs[f].blocks[b]) \in Nat
      /\ Len(fs[f].blocks) \in Nat /\ Len(fs) \in Nat
  BY CodeFields, FunctionFields
<1>2. /\ Len(gs[f].blocks[b]) = Len(fs[f].blocks[b]) + 1
      /\ gs[f].blocks[b][Len(fs[f].blocks[b]) + 1] = x
      /\ \A i \in 1..Len(fs[f].blocks[b]) : gs[f].blocks[b][i] = fs[f].blocks[b][i]
  BY <1>1, AppendType DEF Adds
<1>3. ASSUME NEW c \in Blocks(fs, f)
      PROVE  Len(fs[f].blocks[c]) <= Len(gs[f].blocks[c])
  <2>1. CASE c = b
    BY <1>1, <1>2, <2>1
  <2>2. CASE c # b
    <3>1. gs[f].blocks[c] = fs[f].blocks[c] /\ Len(fs[f].blocks[c]) \in Nat
      BY <2>2, CodeFields DEF Adds
    <3> QED
      BY <3>1
  <2> QED
    BY <2>1, <2>2
<1> QED
  BY <1>1, <1>2, <1>3 DEF Adds, AddsMore, Richer, Blocks

(* An instruction is added; if it branches, it does so to empty blocks. *)
LEMMA AddFine ==
  ASSUME NEW fs \in Seq(Function), NEW f \in 1..Len(fs), NEW b \in Blocks(fs, f),
         NEW x \in Instr, NEW gs, Adds(fs, gs, f, b, x),
         NEW dom, CodeFine(fs, f, dom), Unclosed(fs[f].blocks[b]),
         LET n == Len(fs[f].blocks[b]) IN InstrFine(gs, f, dom, b, n + 1, n + 1, x),
         \A c \in Blocks(fs, f) : x.op \in Terminators /\ <<f, c>> \in Targets(x) =>
           Len(fs[f].blocks[c]) = 0 /\ dom[c] \subseteq dom[b] \cup {c}
  PROVE  CodeFine(gs, f, dom)
<1>1. /\ Richer(fs, gs, f) /\ gs \in Seq(Function) /\ f \in 1..Len(gs)
      /\ Blocks(gs, f) = Blocks(fs, f)
      /\ Len(gs[f].blocks[b]) = Len(fs[f].blocks[b]) + 1
      /\ gs[f].blocks[b][Len(fs[f].blocks[b]) + 1] = x
      /\ \A i \in 1..Len(fs[f].blocks[b]) : gs[f].blocks[b][i] = fs[f].blocks[b][i]
  <2>1. AddsMore(fs, gs, f, b, x)
    BY AddsRicher
  <2> QED
    BY <2>1 DEF AddsMore
<1>2. \A c : Preds(gs, f, c) =
               IF x.op \in Terminators /\ <<f, c>> \in Targets(x)
                 THEN Preds(fs, f, c) \cup {b} ELSE Preds(fs, f, c)
  BY AddsPreds
<1>3. Certified(fs, f, dom) /\ \A c \in Blocks(fs, f) : BlockFine(fs, f, dom, c)
  BY DEF CodeFine
<1>4. Certified(gs, f, dom)
  <2>1. ASSUME NEW c \in Blocks(fs, f), NEW d \in Preds(gs, f, c)
        PROVE  dom[c] \subseteq dom[d] \cup {c}
    <3>1. CASE d \in Preds(fs, f, c)
      BY <1>3, <3>1 DEF Certified
    <3>2. CASE d \notin Preds(fs, f, c)
      <4>1. d = b /\ x.op \in Terminators /\ <<f, c>> \in Targets(x)
        BY <1>2, <2>1, <3>2
      <4> QED
        BY <4>1
    <3> QED
      BY <3>1, <3>2
  <2> QED
    BY <1>1, <1>3, <2>1 DEF Certified
<1>5. Prolongs(fs, f, dom, dom)
  BY DEF Prolongs
<1>6. ASSUME NEW c \in Blocks(fs, f) PROVE BlockFine(gs, f, dom, c)
  <2>1. Len(fs[f].blocks[c]) \in Nat
        /\ \A k \in 1..Len(fs[f].blocks[c]) : fs[f].blocks[c][k] \in Instr
    BY CodeFields
  <2>2. ASSUME NEW i \in 1..Len(fs[f].blocks[c])
        PROVE  /\ InstrFine(fs, f, dom, c, i, Len(fs[f].blocks[c]), fs[f].blocks[c][i])
               /\ Preds(gs, f, c) = Preds(fs, f, c)
    <3>1. Len(fs[f].blocks[c]) # 0
      BY <2>1
    <3> QED
      BY <1>2, <1>3, <3>1 DEF BlockFine
  <2>3. CASE c # b
    <3>1. gs[f].blocks[c] = fs[f].blocks[c]
      BY <2>3 DEF Adds
    <3>2. ASSUME NEW i \in 1..Len(fs[f].blocks[c])
          PROVE  InstrFine(gs, f, dom, c, i, Len(fs[f].blocks[c]), fs[f].blocks[c][i])
      BY <1>1, <1>3, <1>5, <2>1, <2>2, InstrKept
    <3> QED
      BY <3>1, <3>2 DEF BlockFine
  <2>4. CASE c = b
    <3>1. PICK n : n = Len(fs[f].blocks[b])
      OBVIOUS
    <3>2. ASSUME NEW i \in 1..n
          PROVE  InstrFine(gs, f, dom, b, i, n + 1, gs[f].blocks[b][i])
      <4>1. PICK y : y = fs[f].blocks[b][i]
        OBVIOUS
      <4>2. y \in Instr /\ InstrFine(fs, f, dom, b, i, n, y)
            /\ Preds(gs, f, b) = Preds(fs, f, b) /\ y.op \notin Terminators
        BY <2>1, <2>2, <2>4, <3>1, <4>1 DEF Unclosed
      <4>3. InstrFine(gs, f, dom, b, i, n + 1, y)
        BY <1>1, <1>3, <1>5, <4>2, InstrKept
      <4> QED
        BY <1>1, <3>1, <4>1, <4>3
    <3>3. InstrFine(gs, f, dom, b, n + 1, n + 1, gs[f].blocks[b][n + 1])
      BY <1>1, <3>1
    <3>4. n \in Nat /\ Len(gs[f].blocks[b]) = n + 1
      BY <1>1, <2>1, <2>4, <3>1
    <3>5. ASSUME NEW i \in 1..(n + 1)
          PROVE  InstrFine(gs, f, dom, b, i, n + 1, gs[f].blocks[b][i])
      <4>1. i \in 1..n \/ i = n + 1
        BY <3>4
      <4> QED
        BY <3>2, <3>3, <4>1
    <3> QED
      BY <2>4, <3>4, <3>5 DEF BlockFine
  <2> QED
    BY <2>3, <2>4
<1> QED
  BY <1>1, <1>4, <1>6 DEF CodeFine

-----------------------------------------------------------------------------
(* Three empty blocks behind those of f.                                   *)

(* gs is fs with three empty blocks more in f. *)
Branches(fs, gs, f) ==
  /\ gs \in Seq(Function) /\ Len(gs) = Len(fs) /\ f \in 1..Len(gs)
  /\ \A g \in 1..Len(fs) : /\ SameHead(fs[g], gs[g])
                           /\ g # f => gs[g] = fs[g]
  /\ LET n == Len(fs[f].blocks)
     IN /\ n \in Nat /\ Len(gs[f].blocks) = n + 3
        /\ \A b \in 1..n : gs[f].blocks[b] = fs[f].blocks[b]
        /\ \A b \in (n + 1)..(n + 3) : Len(gs[f].blocks[b]) = 0

LEMMA BranchingType ==
  ASSUME NEW fs \in Seq(Function), NEW f \in 1..Len(fs)
  PROVE  Branches(fs, Branching(fs, f), f)
<1> DEFINE bs == fs[f].blocks \o <<<<>>, <<>>, <<>>>>
           x == [fs[f] EXCEPT !.blocks = bs]
           hs == [fs EXCEPT ![f] = x]
<1>1. fs[f] \in Function /\ fs[f].blocks \in Seq(Seq(Instr)) /\ Len(fs[f].blocks) \in Nat
  BY FunctionFields
<1>2. /\ bs \in Seq(Seq(Instr)) /\ Len(bs) = Len(fs[f].blocks) + 3
      /\ \A b \in 1..Len(fs[f].blocks) : bs[b] = fs[f].blocks[b]
      /\ \A b \in (Len(fs[f].blocks) + 1)..(Len(fs[f].blocks) + 3) : Len(bs[b]) = 0
  <2>1. ASSUME NEW S, NEW s \in Seq(S), NEW e \in S, NEW n \in Nat, n = Len(s)
        PROVE  /\ s \o <<e, e, e>> \in Seq(S) /\ Len(s \o <<e, e, e>>) = n + 3
               /\ \A b \in 1..n : (s \o <<e, e, e>>)[b] = s[b]
               /\ \A b \in (n + 1)..(n + 3) : (s \o <<e, e, e>>)[b] = e
    <3>1. PICK t : t = <<e, e, e>>
      OBVIOUS
    <3>2. t \in Seq(S) /\ Len(t) = 3 /\ \A k \in 1..3 : t[k] = e
      BY <3>1
    <3>3. /\ s \o t \in Seq(S) /\ Len(s \o t) = n + 3
          /\ \A b \in 1..(n + 3) : (s \o t)[b] = IF b <= n THEN s[b] ELSE t[b - n]
      <4>1. /\ s \o t \in Seq(S) /\ Len(s \o t) = Len(s) + Len(t)
            /\ \A b \in 1..(Len(s) + Len(t)) :
                 (s \o t)[b] = IF b <= Len(s) THEN s[b] ELSE t[b - Len(s)]
        BY <3>2, ConcatProperties
      <4> QED
        BY <2>1, <3>2, <4>1
    <3>4. \A b \in (n + 1)..(n + 3) : b \in 1..(n + 3) /\ ~(b <= n) /\ b - n \in 1..3
      OBVIOUS
    <3>5. \A b \in 1..n : b \in 1..(n + 3) /\ b <= n
      OBVIOUS
    <3> QED
      BY <3>1, <3>2, <3>3, <3>4, <3>5
  <2>2. PICK e : e = <<>>
    OBVIOUS
  <2>3. e \in Seq(Instr) /\ Len(e) = 0
    BY <2>2, EmptyType
  <2>4. PICK s : s = fs[f].blocks
    OBVIOUS
  <2>5. bs = s \o <<e, e, e>>
    BY <2>2, <2>4
  <2>6. PICK S : S = Seq(Instr)
    OBVIOUS
  <2>7. s \in Seq(S) /\ e \in S /\ Len(s) \in Nat
    BY <1>1, <2>3, <2>4, <2>6
  <2>8. /\ s \o <<e, e, e>> \in Seq(S) /\ Len(s \o <<e, e, e>>) = Len(s) + 3
        /\ \A b \in 1..Len(s) : (s \o <<e, e, e>>)[b] = s[b]
        /\ \A b \in (Len(s) + 1)..(Len(s) + 3) : (s \o <<e, e, e>>)[b] = e
    BY <2>1, <2>7
  <2> HIDE DEF bs
  <2> QED
    BY <2>3, <2>4, <2>5, <2>6, <2>8
<1> HIDE DEF bs
<1>3. x \in Function /\ x.blocks = bs /\ SameHead(fs[f], x)
  BY <1>1, <1>2, BlocksType DEF SameHead
<1> HIDE DEF x
<1>4. /\ hs \in Seq(Function) /\ Len(hs) = Len(fs) /\ hs[f] = x
      /\ \A g \in 1..Len(fs) : g # f => hs[g] = fs[g]
  BY <1>3, ExceptType
<1>5. Branching(fs, f) = hs
  BY DEF hs, x, bs, Branching
<1> HIDE DEF hs
<1>6. \A g \in 1..Len(fs) : SameHead(fs[g], hs[g]) /\ (g # f => hs[g] = fs[g])
  BY <1>3, <1>4 DEF SameHead
<1>7. f \in 1..Len(hs)
  BY <1>4
<1> QED
  BY <1>1, <1>2, <1>3, <1>4, <1>5, <1>6, <1>7 DEF Branches

(* It makes no difference whether an instruction was added before. *)
LEMMA BranchAdds ==
  ASSUME NEW fs \in Seq(Function), NEW f \in 1..Len(fs), NEW b \in Blocks(fs, f),
         NEW x \in Instr, NEW gs, Adds(fs, gs, f, b, x),
         NEW fs3, Branches(fs, fs3, f), NEW gs3, Branches(gs, gs3, f)
  PROVE  Adds(fs3, gs3, f, b, x) /\ b \in Blocks(fs3, f)
<1>1. gs \in Seq(Function) /\ Len(gs) = Len(fs) /\ Len(fs) \in Nat
  BY FunctionFields DEF Adds
<1>2. gs3 \in Seq(Function) /\ Len(gs3) = Len(fs3) /\ Len(fs3) = Len(fs)
  BY <1>1 DEF Branches
<1>3. PICK n : n = Len(fs[f].blocks)
  OBVIOUS
<1>4. n \in Nat /\ Len(gs[f].blocks) = n /\ b \in 1..n
  BY <1>3, CodeFields DEF Adds, Blocks
<1>5. ASSUME NEW g \in 1..Len(fs3)
      PROVE  /\ SameHead(fs3[g], gs3[g])
             /\ Len(gs3[g].blocks) = Len(fs3[g].blocks)
             /\ \A c \in Blocks(fs3, g) :
                  g # f \/ c # b => gs3[g].blocks[c] = fs3[g].blocks[c]
  <2>0. g \in 1..Len(fs) /\ g \in 1..Len(gs)
    BY <1>1, <1>2
  <2>1. SameHead(fs3[g], gs3[g])
    BY <2>0 DEF Branches, Adds, SameHead
  <2>2. CASE g # f
    <3>1. fs3[g] = fs[g] /\ gs3[g] = gs[g]
      BY <2>0, <2>2 DEF Branches
    <3> QED
      BY <2>0, <2>1, <2>2, <3>1 DEF Adds, Blocks
  <2>3. CASE g = f
    <3>1. Len(gs3[f].blocks) = n + 3 /\ Len(fs3[f].blocks) = n + 3
      BY <1>3, <1>4 DEF Branches
    <3>2. ASSUME NEW c \in 1..(n + 3), c # b
          PROVE  gs3[f].blocks[c] = fs3[f].blocks[c]
      <4>1. CASE c \in 1..n
        <5>1. gs3[f].blocks[c] = gs[f].blocks[c] /\ fs3[f].blocks[c] = fs[f].blocks[c]
          BY <1>3, <1>4, <4>1 DEF Branches
        <5> QED
          BY <1>3, <3>2, <4>1, <5>1 DEF Adds, Blocks
      <4>2. CASE c \in (n + 1)..(n + 3)
        <5>1. Len(gs3[f].blocks[c]) = 0 /\ Len(fs3[f].blocks[c]) = 0
          BY <1>3, <1>4, <4>2 DEF Branches
        <5>2. gs3[f].blocks[c] \in Seq(Instr) /\ fs3[f].blocks[c] \in Seq(Instr)
          <6>1. c \in Blocks(gs3, f) /\ c \in Blocks(fs3, f)
            BY <3>1 DEF Blocks
          <6> QED
            BY <1>2, <6>1, CodeFields DEF Branches
        <5> QED
          BY <5>1, <5>2, EmptySeq
      <4> QED
        BY <1>4, <4>1, <4>2
    <3> QED
      BY <2>1, <2>3, <3>1, <3>2 DEF Blocks
  <2> QED
    BY <2>2, <2>3
<1>6. gs3[f].blocks[b] = gs[f].blocks[b] /\ fs3[f].blocks[b] = fs[f].blocks[b]
  BY <1>3, <1>4 DEF Branches
<1>7. b \in Blocks(fs3, f)
  <2>1. Len(fs3[f].blocks) = n + 3
    BY <1>3, <1>4 DEF Branches
  <2> QED
    BY <1>4, <2>1 DEF Blocks
<1> QED
  BY <1>2, <1>5, <1>6, <1>7 DEF Adds

(* The blocks passed on the way to the new ones are those of X. *)
Widened(fs, gs, f, dom, X) ==
  [b \in Blocks(gs, f) |-> IF b \in Blocks(fs, f) THEN dom[b] ELSE X \cup {b}]

LEMMA Widen ==
  ASSUME NEW fs \in Seq(Function), NEW f \in 1..Len(fs), NEW gs, Branches(fs, gs, f),
         NEW dom, CodeFine(fs, f, dom), NEW X, X \subseteq Blocks(fs, f),
         Len(fs[f].blocks) >= 1
  PROVE  LET new == Widened(fs, gs, f, dom, X)
         IN /\ CodeFine(gs, f, new) /\ Prolongs(fs, f, dom, new)
            /\ Richer(fs, gs, f)
            /\ Blocks(fs, f) \subseteq Blocks(gs, f)
            /\ \A b \in Blocks(gs, f) \ Blocks(fs, f) :
                 new[b] = X \cup {b} /\ Preds(gs, f, b) = {}
            /\ \A b \in Blocks(fs, f) : Preds(gs, f, b) = Preds(fs, f, b)
<1>1. PICK n : n = Len(fs[f].blocks)
  OBVIOUS
<1>2. n \in Nat /\ n >= 1 /\ Blocks(fs, f) = 1..n /\ Blocks(gs, f) = 1..(n + 3)
  BY <1>1, CodeFields DEF Branches, Blocks
<1>3. gs \in Seq(Function) /\ f \in 1..Len(gs)
  BY DEF Branches
<1>4. \A b \in 1..n : gs[f].blocks[b] = fs[f].blocks[b]
  BY <1>1 DEF Branches
<1>5. \A b \in 1..n : Succ(gs, f, b) = Succ(fs, f, b)
  <2>1. ASSUME NEW b \in 1..n PROVE Succ(gs, f, b) = Succ(fs, f, b)
    <3>1. gs[f].blocks[b] = fs[f].blocks[b]
      BY <1>4
    <3> QED
      BY <3>1 DEF Succ
  <2> QED
    BY <2>1
<1>6. ASSUME NEW b \in (1..(n + 3)) \ (1..n) PROVE Succ(gs, f, b) = {}
  <2>1. b \in (n + 1)..(n + 3) /\ b \in Blocks(gs, f)
    BY <1>2
  <2>2. Len(gs[f].blocks[b]) = 0
    BY <1>1, <2>1 DEF Branches
  <2>3. Unclosed(gs[f].blocks[b])
    BY <2>2 DEF Unclosed
  <2> QED
    BY <1>3, <2>1, <2>3, CodeFields
<1>7. ASSUME NEW b \in 1..n, NEW s \in Succ(fs, f, b) PROVE s[2] \in 1..n
  <2>1. PICK code : code = fs[f].blocks[b]
    OBVIOUS
  <2>2. /\ code # <<>> /\ s \in Targets(code[Len(code)])
        /\ code[Len(code)].op \in Terminators
    BY <1>7, <2>1 DEF Succ, Targets
  <2>3. code \in Seq(Instr) /\ Len(code) \in Nat
    BY <1>2, <2>1, CodeFields
  <2>4. Len(code) \in 1..Len(code)
    BY <2>2, <2>3, EmptySeq
  <2>5. InstrFine(fs, f, dom, b, Len(code), Len(code), code[Len(code)])
    BY <1>2, <2>1, <2>4 DEF CodeFine, BlockFine
  <2> QED
    BY <1>2, <2>2, <2>5 DEF InstrFine, Reaches
<1>8. ASSUME NEW b \in 1..(n + 3)
      PROVE  Preds(gs, f, b) = IF b \in 1..n THEN Preds(fs, f, b) ELSE {}
  <2>1. \A c \in 1..(n + 3) : <<f, b>> \in Succ(gs, f, c) =>
          c \in 1..n /\ <<f, b>> \in Succ(fs, f, c) /\ b \in 1..n
    <3>1. ASSUME NEW c \in 1..(n + 3), <<f, b>> \in Succ(gs, f, c)
          PROVE  c \in 1..n /\ <<f, b>> \in Succ(fs, f, c) /\ b \in 1..n
      <4>1. c \in 1..n
        BY <1>6, <3>1
      <4>2. <<f, b>> \in Succ(fs, f, c)
        BY <1>5, <3>1, <4>1
      <4>3. PICK s : s = <<f, b>>
        OBVIOUS
      <4>4. s[2] \in 1..n /\ s[2] = b
        BY <1>7, <4>1, <4>2, <4>3
      <4> QED
        BY <4>1, <4>2, <4>4
    <3> QED
      BY <3>1
  <2>2. 1..n \subseteq 1..(n + 3)
    BY <1>2
  <2> QED
    BY <1>2, <1>5, <2>1, <2>2 DEF Preds
<1>9. PICK new : new = Widened(fs, gs, f, dom, X)
  OBVIOUS
<1>10. /\ \A b \in 1..n : new[b] = dom[b]
       /\ \A b \in (1..(n + 3)) \ (1..n) : new[b] = X \cup {b}
       /\ DOMAIN new = 1..(n + 3)
       /\ new = [b \in 1..(n + 3) |-> new[b]]
  <2>1. 1..n \subseteq 1..(n + 3)
    BY <1>2
  <2> QED
    BY <1>2, <1>9, <2>1 DEF Widened
<1>11. Certified(fs, f, dom) /\ \A b \in 1..n : BlockFine(fs, f, dom, b)
  BY <1>2 DEF CodeFine
<1>12. Certified(gs, f, new)
  <2>1. 1..n \subseteq 1..(n + 3)
    BY <1>2
  <2>2. /\ dom \in [1..n -> SUBSET (1..n)] /\ dom[1] = {1}
        /\ \A b \in 1..n : b \in dom[b]
        /\ \A b \in 1..n : \A c \in Preds(fs, f, b) : dom[b] \subseteq dom[c] \cup {b}
    BY <1>2, <1>11 DEF Certified
  <2>3. ASSUME NEW b \in 1..(n + 3)
        PROVE  new[b] \in SUBSET (1..(n + 3)) /\ b \in new[b]
    <3>1. CASE b \in 1..n
      BY <1>10, <2>1, <2>2, <3>1
    <3>2. CASE b \notin 1..n
      BY <1>2, <1>10, <2>1, <3>2
    <3> QED
      BY <3>1, <3>2
  <2>4. new[1] = {1}
    <3>1. 1 \in 1..n
      BY <1>2
    <3>2. new[1] = dom[1]
      BY <1>10, <3>1
    <3> QED
      BY <2>2, <3>2
  <2>5. ASSUME NEW b \in 1..(n + 3), NEW c \in Preds(gs, f, b)
        PROVE  new[b] \subseteq new[c] \cup {b}
    <3>1. b \in 1..n /\ c \in Preds(fs, f, b)
      BY <1>8, <2>5
    <3>2. c \in 1..n
      BY <1>2, <3>1 DEF Preds
    <3> QED
      BY <1>10, <2>2, <3>1, <3>2
  <2>6. new \in [1..(n + 3) -> SUBSET (1..(n + 3))]
    BY <1>10, <2>3
  <2> QED
    BY <1>2, <2>3, <2>4, <2>5, <2>6 DEF Certified
<1>13. Prolongs(fs, f, dom, new)
  BY <1>2, <1>10 DEF Prolongs
<1>14. Richer(fs, gs, f)
  <2>1. Len(fs) <= Len(gs) /\ \A g \in 1..Len(fs) : SameHead(fs[g], gs[g])
    <3>1. Len(fs) \in Nat
      BY FunctionFields
    <3> QED
      BY <3>1 DEF Branches
  <2>2. Len(fs[f].blocks) <= Len(gs[f].blocks)
    BY <1>1, <1>2 DEF Branches
  <2>3. \A b \in 1..n : Len(fs[f].blocks[b]) <= Len(gs[f].blocks[b])
    BY <1>2, <1>4, CodeFields
  <2> QED
    BY <1>2, <2>1, <2>2, <2>3 DEF Richer
<1>15. ASSUME NEW b \in 1..(n + 3) PROVE BlockFine(gs, f, new, b)
  <2>1. CASE b \in 1..n
    <3>1. gs[f].blocks[b] = fs[f].blocks[b]
      BY <1>4, <2>1
    <3>2. Preds(gs, f, b) = Preds(fs, f, b) /\ b \in Blocks(fs, f)
      BY <1>2, <1>8, <2>1
    <3>3. ASSUME NEW i \in 1..Len(fs[f].blocks[b])
          PROVE  InstrFine(gs, f, new, b, i, Len(fs[f].blocks[b]), fs[f].blocks[b][i])
      <4>1. fs[f].blocks[b][i] \in Instr
        BY <3>2, CodeFields
      <4>2. InstrFine(fs, f, dom, b, i, Len(fs[f].blocks[b]), fs[f].blocks[b][i])
        BY <1>11, <2>1 DEF BlockFine
      <4> QED
        BY <1>3, <1>11, <1>13, <1>14, <3>2, <4>1, <4>2, InstrKept
    <3> QED
      BY <3>1, <3>3 DEF BlockFine
  <2>2. CASE b \notin 1..n
    <3>1. b \in (n + 1)..(n + 3)
      BY <1>2, <2>2
    <3>2. Len(gs[f].blocks[b]) = 0
      BY <1>1, <3>1 DEF Branches
    <3> QED
      BY <3>2 DEF BlockFine
  <2> QED
    BY <2>1, <2>2
<1>16. CodeFine(gs, f, new)
  BY <1>2, <1>12, <1>15 DEF CodeFine
<1>17. 1..n \subseteq 1..(n + 3)
  BY <1>2
<1> QED
  BY <1>2, <1>8, <1>9, <1>10, <1>13, <1>14, <1>16, <1>17

-----------------------------------------------------------------------------
(* The blocks a frame will go on in, and what it needs there.              *)

Ahead(g) ==
  IF g.pc = "then" THEN {g.blks[2], g.blks[3]}
  ELSE IF g.pc = "else" THEN {g.blks[3]} ELSE {}

(* Where the builder is, and will be for the frames from n on. *)
Over(s, n, pos) == {pos} \cup UNION {Ahead(s[k]) : k \in n..Len(s)}

(* The frames that use the values they keep. *)
Keeping == {"expr", "rhs", "args", "arg", "block"}

CallFine(fs, ns, g) ==
  /\ fs[g.fn].state \in {"open", "verified"}
  /\ g.node \in 1..Len(ns) /\ fs[g.fn].arity = ns[g.node].argc

(* q is an empty block of f, apart from the places of L; the blocks passed *)
(* on the way there are passed on the way to these.                        *)
Awaits(fs, f, dom, q, L) ==
  /\ q \in Places(fs) /\ q[1] = f /\ q[2] # 1 /\ q \notin L
  /\ Len(fs[f].blocks[q[2]]) = 0
  /\ \A p \in L : dom[q[2]] \ {q[2]} \subseteq dom[p[2]]

(* A frame of function f, while those above it work in the places of L. *)
FrameFine(fs, ns, f, dom, g, L) ==
  /\ g.pc \in Keeping =>
       \A m \in 1..Len(g.vals) : \A p \in L : Held(fs, f, dom[p[2]], g.vals[m])
  /\ g.pc \in {"args", "arg"} => CallFine(fs, ns, g)
  /\ \A q \in Ahead(g) : Awaits(fs, f, dom, q, L)
  /\ g.pc = "then" =>
       LET else == g.blks[2]
           merge == g.blks[3]
       IN /\ else # merge /\ Preds(fs, f, merge[2]) = {}
          /\ dom[merge[2]] \ {merge[2]} \subseteq dom[else[2]]
  /\ g.pc = "else" =>
       LET c == g.blks[1]
       IN /\ c \in Places(fs) /\ c[1] = f
          /\ Preds(fs, f, g.blks[3][2]) = {c[2]}
          /\ Held(fs, f, dom[c[2]], g.vals[1])

(* The function of body frame i, so far: the frames above it will close    *)
(* the blocks that are not, but for the last one, and v is its value.      *)
ValidBy(s, i, ns, fs, pos, v, dom) ==
  LET f == s[i].fn
  IN /\ CodeFine(fs, f, dom)
     /\ pos \in Places(fs) /\ pos[1] = f /\ Unclosed(fs[f].blocks[pos[2]])
     /\ \A b \in Blocks(fs, f) :
          Closed(fs[f].blocks[b]) \/ <<f, b>> \in Over(s, i + 1, pos)
     /\ \A j \in (i + 1)..Len(s) :
          FrameFine(fs, ns, f, dom, s[j], Over(s, j + 1, pos))
     /\ s[Len(s)].pc \in Waiting => Held(fs, f, dom[pos[2]], v)

Valid(s, i, ns, fs, pos, v) == \E dom : ValidBy(s, i, ns, fs, pos, v, dom)

LEMMA PlacePair ==
  ASSUME NEW fs, NEW p \in Places(fs)
  PROVE  p = <<p[1], p[2]>> /\ p[1] \in 1..Len(fs) /\ p[2] \in Blocks(fs, p[1])
BY DEF Places, Pos

(* What the builder will meet at q, while it is at pos. *)
Awaited(fs, f, dom, q, pos) ==
  /\ q \in Places(fs) /\ q = <<f, q[2]>> /\ q[1] = f /\ q[2] \in Blocks(fs, f)
  /\ q[2] # 1 /\ q # pos /\ Len(fs[f].blocks[q[2]]) = 0
  /\ dom[q[2]] \ {q[2]} \subseteq dom[pos[2]]

LEMMA AwaitsPlace ==
  ASSUME NEW fs, NEW f, NEW dom, NEW q, NEW pos, Awaits(fs, f, dom, q, {pos})
  PROVE  Awaited(fs, f, dom, q, pos)
<1>1. /\ q \in Places(fs) /\ q[1] = f /\ q[2] # 1 /\ q # pos
      /\ Len(fs[f].blocks[q[2]]) = 0 /\ dom[q[2]] \ {q[2]} \subseteq dom[pos[2]]
  BY DEF Awaits
<1>2. q = <<q[1], q[2]>> /\ q[2] \in Blocks(fs, q[1])
  BY <1>1, PlacePair
<1> QED
  BY <1>1, <1>2 DEF Awaited

LEMMA PlaceOfPair ==
  ASSUME NEW fs, NEW gs, NEW f, f \in 1..Len(gs), NEW p \in Places(fs), NEW b,
         p = <<f, b>>, b \in Blocks(gs, f)
  PROVE  p \in Places(gs) /\ p[1] = f /\ p[2] = b
<1>1. p[1] = f /\ p[2] = b
  OBVIOUS
<1>2. p \in Pos
  BY DEF Places
<1> QED
  BY <1>1, <1>2 DEF Places

LEMMA NoneBefore ==
  ASSUME NEW n, n = 0
  PROVE  1..n = {}
OBVIOUS

(* The places of L are in f. *)
PlacesOf(fs, f, L) == \A p \in L : p \in Places(fs) /\ p[1] = f

(* Those of M are among them, or new and reached by way of one of them. *)
Beyond(fs, L, M, dom, new) ==
  \A p \in M : /\ p \in L \/ p \notin Places(fs)
              /\ \E q \in L : dom[q[2]] \subseteq new[p[2]]

(* The blocks in which g will go on are as they were. *)
AheadKept(fs, gs, f, g) ==
  \A q \in Ahead(g) : /\ gs[f].blocks[q[2]] = fs[f].blocks[q[2]]
                      /\ Preds(gs, f, q[2]) = Preds(fs, f, q[2])

(* A frame below the one that goes on: L and M are the places of those     *)
(* above it, before and after.                                             *)
LEMMA FrameKept ==
  ASSUME NEW fs \in Seq(Function), NEW f \in 1..Len(fs), NEW gs \in Seq(Function),
         Richer(fs, gs, f), f \in 1..Len(gs),
         NEW ns \in Seq(Node), NEW bs \in Seq(Node), Kept(ns, bs),
         NEW dom, Certified(fs, f, dom), NEW new, Prolongs(fs, f, dom, new),
         NEW g \in FrameOf(ns, fs), NEW L, NEW M, FrameFine(fs, ns, f, dom, g, L),
         PlacesOf(fs, f, L), Beyond(fs, L, M, dom, new), AheadKept(fs, gs, f, g)
  PROVE  FrameFine(gs, bs, f, new, g, M)
<1>0. /\ \A p \in L : p \in Places(fs) /\ p[1] = f
      /\ \A p \in M : p \in L \/ p \notin Places(fs)
      /\ \A p \in M : \E q \in L : dom[q[2]] \subseteq new[p[2]]
      /\ \A q \in Ahead(g) : /\ gs[f].blocks[q[2]] = fs[f].blocks[q[2]]
                             /\ Preds(gs, f, q[2]) = Preds(fs, f, q[2])
  BY DEF PlacesOf, Beyond, AheadKept
<1>1. Blocks(fs, f) \subseteq Blocks(gs, f)
  <2>1. Len(fs[f].blocks) \in Nat /\ Len(gs[f].blocks) \in Nat
    BY CodeFields
  <2> QED
    BY <2>1 DEF Richer, Blocks
<1>2. \A p \in Places(fs) : p[1] = f => p \in Places(gs) /\ p[2] \in Blocks(fs, f)
  BY <1>1 DEF Places
<1>3. \A b \in Blocks(fs, f) : dom[b] \subseteq Blocks(fs, f) /\ new[b] = dom[b]
  BY DEF Certified, Prolongs
<1>4. ASSUME NEW v, NEW X, X \subseteq Blocks(fs, f), Held(fs, f, X, v), NEW Y, X \subseteq Y
      PROVE  Held(gs, f, Y, v)
  BY <1>4, HeldKept
<1>5. ASSUME g.pc \in Keeping, NEW m \in 1..Len(g.vals), NEW p \in M
      PROVE  Held(gs, f, new[p[2]], g.vals[m])
  <2>1. PICK q \in L : dom[q[2]] \subseteq new[p[2]]
    BY <1>0
  <2>2. Held(fs, f, dom[q[2]], g.vals[m])
    BY <1>5 DEF FrameFine
  <2>3. dom[q[2]] \subseteq Blocks(fs, f)
    BY <1>0, <1>2, <1>3
  <2> QED
    BY <1>4, <2>1, <2>2, <2>3
<1>6. ASSUME g.pc \in {"args", "arg"} PROVE CallFine(gs, bs, g)
  <2>1. g.fn \in 1..Len(fs)
    <3>1. g.fn \in 0..Len(fs) /\ g.fn # 0
      BY <1>6, FrameFields DEF Fits
    <3> QED
      BY <3>1
  <2>2. CallFine(fs, ns, g)
    BY <1>6 DEF FrameFine
  <2>3. SameHead(fs[g.fn], gs[g.fn])
    BY <2>1 DEF Richer
  <2>4. Len(ns) \in Nat /\ Len(bs) \in Nat
    BY LenProperties
  <2> QED
    BY <2>2, <2>3, <2>4 DEF CallFine, SameHead, Kept
<1>7. ASSUME NEW q \in Ahead(g) PROVE Awaits(gs, f, new, q, M)
  <2>1. Awaits(fs, f, dom, q, L)
    BY DEF FrameFine
  <2>2. q \in Places(fs) /\ q[1] = f /\ q[2] # 1 /\ q \in Places(gs)
        /\ q[2] \in Blocks(fs, f)
    BY <1>2, <2>1 DEF Awaits
  <2>3. Len(gs[f].blocks[q[2]]) = 0
    BY <1>0, <2>1 DEF Awaits
  <2>4. q \notin M
    BY <1>0, <2>1 DEF Awaits
  <2>5. ASSUME NEW p \in M PROVE new[q[2]] \ {q[2]} \subseteq new[p[2]]
    <3>1. PICK r \in L : dom[r[2]] \subseteq new[p[2]]
      BY <1>0
    <3>2. dom[q[2]] \ {q[2]} \subseteq dom[r[2]]
      BY <2>1 DEF Awaits
    <3>3. new[q[2]] = dom[q[2]]
      BY <1>3, <2>2
    <3> QED
      BY <3>1, <3>2, <3>3
  <2> QED
    BY <2>2, <2>3, <2>4, <2>5 DEF Awaits
<1>8. ASSUME g.pc = "then"
      PROVE  LET else == g.blks[2]
                 merge == g.blks[3]
             IN /\ else # merge /\ Preds(gs, f, merge[2]) = {}
                /\ new[merge[2]] \ {merge[2]} \subseteq new[else[2]]
  <2>1. g.blks[2] \in Ahead(g) /\ g.blks[3] \in Ahead(g)
    BY <1>8 DEF Ahead
  <2>2. g.blks[2][2] \in Blocks(fs, f) /\ g.blks[3][2] \in Blocks(fs, f)
    <3>1. Awaits(fs, f, dom, g.blks[2], L) /\ Awaits(fs, f, dom, g.blks[3], L)
      BY <2>1 DEF FrameFine
    <3> QED
      BY <1>2, <3>1 DEF Awaits
  <2> QED
    BY <1>0, <1>3, <1>8, <2>1, <2>2 DEF FrameFine
<1>9. ASSUME g.pc = "else"
      PROVE  LET c == g.blks[1]
             IN /\ c \in Places(gs) /\ c[1] = f
                /\ Preds(gs, f, g.blks[3][2]) = {c[2]}
                /\ Held(gs, f, new[c[2]], g.vals[1])
  <2>1. g.blks[3] \in Ahead(g)
    BY <1>9 DEF Ahead
  <2>2. PICK c : c = g.blks[1]
    OBVIOUS
  <2>3. /\ c \in Places(fs) /\ c[1] = f
        /\ Preds(fs, f, g.blks[3][2]) = {c[2]}
        /\ Held(fs, f, dom[c[2]], g.vals[1])
    BY <1>9, <2>2 DEF FrameFine
  <2>4. c \in Places(gs) /\ c[2] \in Blocks(fs, f)
    BY <1>2, <2>3
  <2>5. Held(gs, f, new[c[2]], g.vals[1])
    BY <1>3, <1>4, <2>3, <2>4
  <2> QED
    BY <1>0, <2>1, <2>2, <2>3, <2>4, <2>5
<1> QED
  BY <1>5, <1>6, <1>7, <1>8, <1>9 DEF FrameFine

LEMMA OverFrames ==
  ASSUME NEW s, NEW n, NEW pos
  PROVE  /\ pos \in Over(s, n, pos)
         /\ \A k \in n..Len(s) : \A p \in Ahead(s[k]) : p \in Over(s, n, pos)
         /\ \A p \in Over(s, n, pos) :
              p = pos \/ \E k \in n..Len(s) : p \in Ahead(s[k])
BY DEF Over

LEMMA OverShrinks ==
  ASSUME NEW s, Len(s) \in Nat, NEW n \in Nat, NEW m \in Nat, n <= m, NEW pos
  PROVE  Over(s, m, pos) \subseteq Over(s, n, pos)
<1>1. m..Len(s) \subseteq n..Len(s)
  OBVIOUS
<1> QED
  BY <1>1 DEF Over

(* The places of a valid function. *)
LEMMA ValidPlaces ==
  ASSUME NEW fs, NEW ns, NEW s, Len(s) \in Nat, NEW i \in 1..Len(s), NEW pos, NEW v,
         NEW dom, ValidBy(s, i, ns, fs, pos, v, dom)
  PROVE  s[i].fn \in 1..Len(fs) /\ PlacesOf(fs, s[i].fn, Over(s, i + 1, pos))
<1>1. pos \in Places(fs) /\ pos[1] = s[i].fn
  BY DEF ValidBy
<1>2. ASSUME NEW k \in (i + 1)..Len(s), NEW p \in Ahead(s[k])
      PROVE  p \in Places(fs) /\ p[1] = s[i].fn
  <2>1. FrameFine(fs, ns, s[i].fn, dom, s[k], Over(s, k + 1, pos))
    BY DEF ValidBy
  <2> QED
    BY <2>1 DEF FrameFine, Awaits
<1>3. s[i].fn \in 1..Len(fs)
  BY <1>1 DEF Places
<1> QED
  BY <1>1, <1>2, <1>3 DEF Over, PlacesOf

(* The code of f outside of U is what it was. *)
Untouched(fs, gs, f, U) ==
  \A b \in Blocks(fs, f) : <<f, b>> \notin U =>
    gs[f].blocks[b] = fs[f].blocks[b] /\ Preds(gs, f, b) = Preds(fs, f, b)

(* The top frame of s goes on, returns or calls. *)
Follows(s, t) ==
  /\ Len(s) \in Nat /\ Len(t) \in (Len(s) - 1)..(Len(s) + 1)
  /\ \A j \in 1..(Len(s) - 1) : t[j] = s[j]

(* The code that comes with a step of the top frame, from s to t. *)
CodeGoesOn(fs, gs, f, dom, new, s, t, pos, to) ==
  LET N == Len(s)
      U == Over(s, N, pos)
      V == Over(t, N, to)
  IN /\ CodeFine(gs, f, new) /\ Prolongs(fs, f, dom, new) /\ Richer(fs, gs, f)
     /\ gs \in Seq(Function)
     /\ to \in Places(gs) /\ to[1] = f /\ Unclosed(gs[f].blocks[to[2]])
     /\ \A p \in V : p \in U \/ (p \notin Places(fs) /\ dom[pos[2]] \subseteq new[p[2]])
     /\ Untouched(fs, gs, f, U)
     /\ \A b \in Blocks(gs, f) :
          \/ Closed(gs[f].blocks[b])
          \/ <<f, b>> \in V
          \/ b \in Blocks(fs, f) /\ <<f, b>> \notin U

LEMMA ValidStep ==
  ASSUME NEW fs \in Seq(Function), NEW gs, NEW ns \in Seq(Node), NEW bs \in Seq(Node),
         Kept(ns, bs), NEW s, IsStack(s, ns, fs), NEW t, Follows(s, t),
         NEW i \in 1..(Len(s) - 1), NEW pos, NEW v, NEW dom,
         ValidBy(s, i, ns, fs, pos, v, dom),
         NEW to, NEW w, NEW new,
         CodeGoesOn(fs, gs, s[i].fn, dom, new, s, t, pos, to),
         \A k \in Len(s)..Len(t) :
           FrameFine(gs, bs, s[i].fn, new, t[k], Over(t, k + 1, to)),
         t[Len(t)].pc \in Waiting => Held(gs, s[i].fn, new[to[2]], w)
  PROVE  Valid(t, i, bs, gs, to, w)
<1>1. PICK f, N : f = s[i].fn /\ N = Len(s)
  OBVIOUS
<1>2. /\ N \in Nat /\ Len(t) \in Nat /\ i \in 1..N /\ i \in Nat /\ i <= N - 1
      /\ N - 1 <= Len(t) /\ f = t[i].fn
      /\ \A k \in 1..N : s[k] \in FrameOf(ns, fs)
  <2>1. \A k \in 1..Len(s) : s[k] \in FrameOf(ns, fs)
    BY ElementOfSeq DEF IsStack
  <2> QED
    BY <1>1, <2>1 DEF Follows
<1>3. /\ f \in 1..Len(fs)
      /\ \A p \in Over(s, i + 1, pos) : p \in Places(fs) /\ p[1] = f
  <2>1. i \in 1..Len(s) /\ Len(s) \in Nat
    BY <1>1, <1>2
  <2>2. s[i].fn \in 1..Len(fs) /\ PlacesOf(fs, s[i].fn, Over(s, i + 1, pos))
    BY <2>1, ValidPlaces
  <2> QED
    BY <1>1, <2>2 DEF PlacesOf
<1>4. PICK U, V : U = Over(s, N, pos) /\ V = Over(t, N, to)
  OBVIOUS
<1>5. /\ CodeFine(gs, f, new) /\ Prolongs(fs, f, dom, new) /\ Richer(fs, gs, f)
      /\ gs \in Seq(Function)
      /\ to \in Places(gs) /\ to[1] = f /\ Unclosed(gs[f].blocks[to[2]])
      /\ \A p \in V : p \in U \/ (p \notin Places(fs) /\ dom[pos[2]] \subseteq new[p[2]])
      /\ Untouched(fs, gs, f, U)
      /\ \A b \in Blocks(gs, f) :
           \/ Closed(gs[f].blocks[b])
           \/ <<f, b>> \in V
           \/ b \in Blocks(fs, f) /\ <<f, b>> \notin U
  BY <1>1, <1>4 DEF CodeGoesOn
<1>6. f \in 1..Len(gs)
  BY <1>5 DEF Places
<1>7. CodeFine(fs, f, dom) /\ Certified(fs, f, dom)
  BY <1>1 DEF ValidBy, CodeFine
<1>8. \A j \in Nat : j <= N => U \subseteq Over(s, j, pos)
  BY <1>1, <1>2, <1>4, OverShrinks
<1>9. ASSUME NEW j \in i..(N - 1)
      PROVE  \A p \in Over(t, j + 1, to) : p \in V \/ p \in Over(s, j + 1, pos)
  <2>1. ASSUME NEW k \in (j + 1)..Len(t), NEW p \in Ahead(t[k])
        PROVE  p \in V \/ p \in Over(s, j + 1, pos)
    <3>1. CASE k >= N
      <4>1. k \in N..Len(t)
        BY <1>2, <3>1
      <4> QED
        BY <1>4, <2>1, <4>1, OverFrames
    <3>2. CASE k < N
      <4>1. k \in 1..(Len(s) - 1) /\ k \in (j + 1)..Len(s)
        BY <1>1, <1>2, <3>2
      <4>2. t[k] = s[k]
        BY <4>1 DEF Follows
      <4> QED
        BY <2>1, <4>1, <4>2, OverFrames
    <3> QED
      BY <1>2, <3>1, <3>2
  <2>2. to \in V
    BY <1>4, OverFrames
  <2> QED
    BY <2>1, <2>2, OverFrames
<1>10. ASSUME NEW j \in (i + 1)..(N - 1)
       PROVE  FrameFine(gs, bs, f, new, s[j], Over(t, j + 1, to))
  <2>1. j \in 1..N /\ j \in Nat /\ j + 1 \in Nat /\ j + 1 <= N /\ j \in (i + 1)..Len(s)
        /\ j \in i..(N - 1) /\ i + 1 \in Nat /\ i + 1 <= j + 1
    BY <1>1, <1>2
  <2>2. FrameFine(fs, ns, f, dom, s[j], Over(s, j + 1, pos))
    BY <1>1, <2>1 DEF ValidBy
  <2>3. PICK L, M : L = Over(s, j + 1, pos) /\ M = Over(t, j + 1, to)
    OBVIOUS
  <2>4. U \subseteq L /\ pos \in L
    BY <1>8, <2>1, <2>3, OverFrames
  <2>5. \A p \in L : p \in Places(fs) /\ p[1] = f
    BY <1>1, <1>2, <1>3, <2>1, <2>3, OverShrinks
  <2>6. \A p \in M : p \in L \/ (p \notin Places(fs) /\ dom[pos[2]] \subseteq new[p[2]])
    BY <1>5, <1>9, <2>1, <2>3, <2>4
  <2>7. \A p \in L : new[p[2]] = dom[p[2]]
    <3>1. \A p \in L : p[2] \in Blocks(fs, f)
      BY <2>5 DEF Places
    <3> QED
      BY <1>5, <3>1 DEF Prolongs
  <2>8. \A p \in M : \E q \in L : dom[q[2]] \subseteq new[p[2]]
    BY <2>4, <2>6, <2>7
  <2>9. ASSUME NEW q \in Ahead(s[j])
        PROVE  gs[f].blocks[q[2]] = fs[f].blocks[q[2]] /\ Preds(gs, f, q[2]) = Preds(fs, f, q[2])
    <3>1. q \in Places(fs) /\ q[1] = f /\ q \notin L
      BY <2>2, <2>3 DEF FrameFine, Awaits
    <3>2. q = <<f, q[2]>> /\ q[2] \in Blocks(fs, f)
      BY <3>1, PlacePair
    <3>3. <<f, q[2]>> \notin U
      BY <2>4, <3>1, <3>2
    <3> QED
      BY <1>5, <3>2, <3>3 DEF Untouched
  <2>10. s[j] \in FrameOf(ns, fs) /\ FrameFine(fs, ns, f, dom, s[j], L)
    BY <1>2, <2>1, <2>2, <2>3
  <2>11. \A p \in M : p \in L \/ p \notin Places(fs)
    BY <2>6
  <2>12. FrameFine(gs, bs, f, new, s[j], M)
    <3>1. PICK g : g = s[j]
      OBVIOUS
    <3>2. AheadKept(fs, gs, f, g)
      BY <2>9, <3>1 DEF AheadKept
    <3>3. g \in FrameOf(ns, fs) /\ FrameFine(fs, ns, f, dom, g, L)
      BY <2>10, <3>1
    <3>4. gs \in Seq(Function) /\ Richer(fs, gs, f) /\ Prolongs(fs, f, dom, new)
      BY <1>5
    <3>5. PlacesOf(fs, f, L) /\ Beyond(fs, L, M, dom, new)
      BY <2>5, <2>8, <2>11 DEF PlacesOf, Beyond
    <3>6. FrameFine(gs, bs, f, new, g, M)
      BY <1>3, <1>6, <1>7, <3>2, <3>3, <3>4, <3>5, FrameKept
    <3> QED
      BY <3>1, <3>6
  <2> QED
    BY <2>3, <2>12
<1>11. ASSUME NEW j \in (i + 1)..Len(t)
       PROVE  FrameFine(gs, bs, f, new, t[j], Over(t, j + 1, to))
  <2>1. CASE j < N
    <3>1. j \in (i + 1)..(N - 1) /\ j \in 1..(Len(s) - 1)
      BY <1>1, <1>2, <2>1
    <3>2. t[j] = s[j]
      BY <3>1 DEF Follows
    <3> QED
      BY <1>10, <3>1, <3>2
  <2>2. CASE j >= N
    <3>1. j \in Len(s)..Len(t)
      BY <1>1, <1>2, <2>2
    <3> QED
      BY <1>1, <3>1
  <2> QED
    BY <1>2, <2>1, <2>2
<1>12. ASSUME NEW b \in Blocks(gs, f)
       PROVE  Closed(gs[f].blocks[b]) \/ <<f, b>> \in Over(t, i + 1, to)
  <2>1. i + 1 \in Nat /\ i + 1 <= N /\ i \in i..(N - 1)
    BY <1>2
  <2>2. V \subseteq Over(t, i + 1, to)
    BY <1>2, <1>4, <2>1, OverShrinks
  <2>3. ASSUME b \in Blocks(fs, f), <<f, b>> \notin U
        PROVE  Closed(gs[f].blocks[b]) \/ <<f, b>> \in Over(t, i + 1, to)
    <3>1. gs[f].blocks[b] = fs[f].blocks[b]
      BY <1>5, <2>3 DEF Untouched
    <3>2. Closed(fs[f].blocks[b]) \/ <<f, b>> \in Over(s, i + 1, pos)
      BY <1>1, <2>3 DEF ValidBy
    <3>3. ASSUME <<f, b>> \in Over(s, i + 1, pos)
          PROVE  <<f, b>> \in Over(t, i + 1, to)
      <4>1. <<f, b>> # pos
        BY <1>4, <2>3, OverFrames
      <4>2. PICK k \in (i + 1)..Len(s) : <<f, b>> \in Ahead(s[k])
        BY <3>3, <4>1, OverFrames
      <4>3. k # N
        <5>1. N \in N..Len(s)
          BY <1>1, <1>2
        <5> QED
          BY <1>4, <2>3, <4>2, <5>1, OverFrames
      <4>4. k \in 1..(Len(s) - 1) /\ k \in (i + 1)..Len(t)
        BY <1>1, <1>2, <4>3
      <4>5. t[k] = s[k]
        BY <4>4 DEF Follows
      <4> QED
        BY <4>2, <4>4, <4>5, OverFrames
    <3> QED
      BY <3>1, <3>2, <3>3
  <2> QED
    BY <1>5, <2>2, <2>3
<1>13. ValidBy(t, i, bs, gs, to, w, new)
  BY <1>1, <1>2, <1>5, <1>11, <1>12 DEF ValidBy
<1> QED
  BY <1>13 DEF Valid

-----------------------------------------------------------------------------
(* The code of each step.                                                  *)

LEMMA IdleFine ==
  ASSUME NEW fs, NEW ns, NEW f, NEW dom, NEW g, NEW L,
         \/ g.pc \in Labels \ (Keeping \cup {"arg", "then", "else"})
         \/ g.pc \in {"expr", "block"} /\ Len(g.vals) = 0
  PROVE  FrameFine(fs, ns, f, dom, g, L) /\ Ahead(g) = {}
<1>1. g.pc \notin {"then", "else", "args", "arg"}
  BY DEF Labels, Keeping
<1>2. g.pc \in Keeping => \A m \in 1..Len(g.vals) : FALSE
  BY DEF Keeping, Labels
<1> QED
  BY <1>1, <1>2 DEF FrameFine, Ahead

(* A value that is held at the end of a block can be used there. *)
LEMMA UsedThere ==
  ASSUME NEW fs \in Seq(Function), NEW f \in 1..Len(fs), NEW dom, NEW b \in Blocks(fs, f),
         NEW v, Held(fs, f, dom[b], v)
  PROVE  UsedIn(f, dom, b, Len(fs[f].blocks[b]) + 1, v)
<1>1. Len(fs[f].blocks[b]) \in Nat
  BY CodeFields
<1>2. v.blk = b /\ v.i \in 1..Len(fs[f].blocks[b]) => v.i < Len(fs[f].blocks[b]) + 1
  BY <1>1
<1> QED
  BY <1>2 DEF Held, UsedIn

Plainly(x) == x.op \notin Terminators /\ x.op # "phi"

(* The operands of x are there at the end of block b, and the function it  *)
(* calls is.                                                               *)
Operable(fs, f, dom, b, x) ==
  /\ \A j \in 1..Len(x.args) : Held(fs, f, dom[b], x.args[j])
  /\ x.op = "call" => /\ x.callee \in 1..Len(fs)
                      /\ fs[x.callee].state \in {"open", "verified"}
                      /\ fs[x.callee].arity = Len(x.args)

Instruction(f, b, i) == [kind |-> "instr", fn |-> f, blk |-> b, i |-> i]

(* An instruction that does not end its block. *)
Continued(fs, gs, f, dom, b) ==
  /\ CodeFine(gs, f, dom) /\ Unclosed(gs[f].blocks[b])
  /\ Held(gs, f, dom[b], Instruction(f, b, Len(fs[f].blocks[b]) + 1))
  /\ \A c : Preds(gs, f, c) = Preds(fs, f, c)

LEMMA PlainFine ==
  ASSUME NEW fs \in Seq(Function), NEW f \in 1..Len(fs), NEW b \in Blocks(fs, f),
         NEW x \in Instr, NEW gs, Adds(fs, gs, f, b, x),
         NEW dom, CodeFine(fs, f, dom), Unclosed(fs[f].blocks[b]),
         Plainly(x), Operable(fs, f, dom, b, x)
  PROVE  Continued(fs, gs, f, dom, b)
<1>1. AddsMore(fs, gs, f, b, x)
  BY AddsRicher
<1>2. PICK n : n = Len(fs[f].blocks[b])
  OBVIOUS
<1>3. /\ n \in Nat /\ Len(gs[f].blocks[b]) = n + 1 /\ gs[f].blocks[b][n + 1] = x
      /\ \A i \in 1..n : gs[f].blocks[b][i] = fs[f].blocks[b][i]
  BY <1>1, <1>2, CodeFields DEF AddsMore
<1>4. \A j \in 1..Len(x.args) : UsedIn(f, dom, b, n + 1, x.args[j])
  BY <1>2, UsedThere DEF Operable
<1>5. x.op = "call" => /\ x.callee \in 1..Len(gs)
                       /\ gs[x.callee].state \in {"open", "verified"}
                       /\ gs[x.callee].arity = Len(x.args)
  BY DEF Operable, Adds, SameHead
<1>6. InstrFine(gs, f, dom, b, n + 1, n + 1, x)
  BY <1>4, <1>5 DEF InstrFine, Plainly
<1>7. CodeFine(gs, f, dom)
  <2>1. \A c \in Blocks(fs, f) : x.op \in Terminators /\ <<f, c>> \in Targets(x) =>
          Len(fs[f].blocks[c]) = 0 /\ dom[c] \subseteq dom[b] \cup {c}
    BY DEF Plainly
  <2> QED
    BY <1>2, <1>6, <2>1, AddFine
<1>8. Unclosed(gs[f].blocks[b])
  <2>1. ASSUME NEW k \in 1..(n + 1) PROVE gs[f].blocks[b][k].op \notin Terminators
    <3>1. CASE k \in 1..n
      BY <1>2, <1>3, <3>1 DEF Unclosed
    <3>2. CASE k = n + 1
      BY <1>3, <3>2 DEF Plainly
    <3> QED
      BY <1>3, <3>1, <3>2
  <2> QED
    BY <1>3, <2>1 DEF Unclosed
<1>9. Held(gs, f, dom[b], Instruction(f, b, n + 1))
  <2>1. b \in dom[b]
    BY DEF CodeFine, Certified
  <2>2. n + 1 \in 1..Len(gs[f].blocks[b])
    BY <1>3
  <2>3. PICK v : v = Instruction(f, b, n + 1)
    OBVIOUS
  <2>4. v.kind = "instr" /\ v.fn = f /\ v.blk = b /\ v.i = n + 1
    BY <2>3 DEF Instruction
  <2> QED
    BY <2>1, <2>2, <2>3, <2>4 DEF Held
<1>10. \A c : Preds(gs, f, c) = Preds(fs, f, c)
  <2>1. \A c : Preds(gs, f, c) =
                 IF x.op \in Terminators /\ <<f, c>> \in Targets(x)
                   THEN Preds(fs, f, c) \cup {b} ELSE Preds(fs, f, c)
    BY AddsPreds
  <2> QED
    BY <2>1 DEF Plainly
<1> QED
  BY <1>2, <1>7, <1>8, <1>9, <1>10 DEF Continued

(* A branch to empty blocks. *)
Branching2(fs, f, dom, b, x) ==
  /\ x.op \in {"br", "condbr", "ret"}
  /\ \A j \in 1..Len(x.args) : Held(fs, f, dom[b], x.args[j])
  /\ Reaches(fs, f, x)
  /\ \A s \in Targets(x) : /\ Len(fs[f].blocks[s[2]]) = 0
                           /\ dom[s[2]] \subseteq dom[b] \cup {s[2]}

Branched(fs, gs, f, dom, b, x) ==
  /\ CodeFine(gs, f, dom) /\ Closed(gs[f].blocks[b])
  /\ \A c : Preds(gs, f, c) = IF <<f, c>> \in Targets(x)
                                THEN Preds(fs, f, c) \cup {b} ELSE Preds(fs, f, c)
  /\ \A c : b \notin Preds(fs, f, c)

LEMMA BranchFine ==
  ASSUME NEW fs \in Seq(Function), NEW f \in 1..Len(fs), NEW b \in Blocks(fs, f),
         NEW x \in Instr, NEW gs, Adds(fs, gs, f, b, x),
         NEW dom, CodeFine(fs, f, dom), Unclosed(fs[f].blocks[b]),
         Branching2(fs, f, dom, b, x)
  PROVE  Branched(fs, gs, f, dom, b, x)
<1>1. AddsMore(fs, gs, f, b, x)
  BY AddsRicher
<1>2. PICK n : n = Len(fs[f].blocks[b])
  OBVIOUS
<1>3. /\ n \in Nat /\ Len(gs[f].blocks[b]) = n + 1 /\ gs[f].blocks[b][n + 1] = x
      /\ Blocks(gs, f) = Blocks(fs, f)
  BY <1>1, <1>2, CodeFields DEF AddsMore
<1>4. x.op \in Terminators /\ x.op # "phi" /\ x.op # "call"
  BY DEF Branching2, Terminators
<1>5. \A j \in 1..Len(x.args) : UsedIn(f, dom, b, n + 1, x.args[j])
  BY <1>2, UsedThere DEF Branching2
<1>6. InstrFine(gs, f, dom, b, n + 1, n + 1, x)
  BY <1>3, <1>4, <1>5 DEF InstrFine, Branching2, Reaches
<1>7. CodeFine(gs, f, dom)
  <2>1. ASSUME NEW c \in Blocks(fs, f), <<f, c>> \in Targets(x)
        PROVE  Len(fs[f].blocks[c]) = 0 /\ dom[c] \subseteq dom[b] \cup {c}
    <3>1. PICK s : s = <<f, c>>
      OBVIOUS
    <3>2. s \in Targets(x) /\ s[2] = c
      BY <2>1, <3>1
    <3> QED
      BY <3>2 DEF Branching2
  <2> QED
    BY <1>2, <1>6, <2>1, AddFine
<1>8. Closed(gs[f].blocks[b])
  BY <1>3, <1>4 DEF Closed
<1>9. /\ \A c : Preds(gs, f, c) = IF <<f, c>> \in Targets(x)
                                    THEN Preds(fs, f, c) \cup {b} ELSE Preds(fs, f, c)
      /\ \A c : b \notin Preds(fs, f, c)
  <2>1. \A c : /\ b \notin Preds(fs, f, c)
              /\ Preds(gs, f, c) =
                   IF x.op \in Terminators /\ <<f, c>> \in Targets(x)
                     THEN Preds(fs, f, c) \cup {b} ELSE Preds(fs, f, c)
    BY AddsPreds
  <2> QED
    BY <1>4, <2>1
<1> QED
  BY <1>7, <1>8, <1>9 DEF Branched

LEMMA OverTop ==
  ASSUME NEW s, Len(s) \in Nat, NEW pos
  PROVE  Over(s, Len(s), pos) = {pos} \cup Ahead(s[Len(s)])
<1>1. Len(s)..Len(s) = {Len(s)}
  OBVIOUS
<1> QED
  BY <1>1 DEF Over

LEMMA OverNothing ==
  ASSUME NEW s, NEW n, NEW pos, \A k \in n..Len(s) : Ahead(s[k]) = {}
  PROVE  Over(s, n, pos) = {pos}
BY DEF Over

ValidTop(fs, ns, f, g, pos, v, dom) ==
  /\ f \in 1..Len(fs) /\ CodeFine(fs, f, dom) /\ Certified(fs, f, dom)
  /\ pos \in Places(fs) /\ pos = <<f, pos[2]>> /\ pos[2] \in Blocks(fs, f)
  /\ Unclosed(fs[f].blocks[pos[2]])
  /\ dom[pos[2]] \subseteq Blocks(fs, f)
  /\ FrameFine(fs, ns, f, dom, g, {pos})
  /\ g.pc \in Waiting => Held(fs, f, dom[pos[2]], v)

(* What is known of the function of body frame i before a step of the top. *)
LEMMA ValidParts ==
  ASSUME NEW fs \in Seq(Function), NEW ns, NEW s, Len(s) \in Nat,
         NEW i \in 1..(Len(s) - 1), NEW pos, NEW v, NEW dom,
         ValidBy(s, i, ns, fs, pos, v, dom)
  PROVE  ValidTop(fs, ns, s[i].fn, s[Len(s)], pos, v, dom)
<1>0. PICK f : f = s[i].fn
  OBVIOUS
<1>1. /\ CodeFine(fs, f, dom) /\ pos \in Places(fs) /\ pos[1] = f
      /\ Unclosed(fs[f].blocks[pos[2]])
      /\ s[Len(s)].pc \in Waiting => Held(fs, f, dom[pos[2]], v)
  BY <1>0 DEF ValidBy
<1>2. /\ f \in 1..Len(fs) /\ pos = <<f, pos[2]>> /\ pos[2] \in Blocks(fs, f)
      /\ Certified(fs, f, dom)
  BY <1>1, PlacePair DEF CodeFine
<1>3. dom[pos[2]] \subseteq Blocks(fs, f)
  BY <1>2 DEF Certified
<1>4. FrameFine(fs, ns, f, dom, s[Len(s)], {pos})
  <2>1. Len(s) \in (i + 1)..Len(s)
    OBVIOUS
  <2>2. FrameFine(fs, ns, f, dom, s[Len(s)], Over(s, Len(s) + 1, pos))
    BY <1>0, <2>1 DEF ValidBy
  <2>3. \A k \in (Len(s) + 1)..Len(s) : Ahead(s[k]) = {}
    OBVIOUS
  <2>4. Over(s, Len(s) + 1, pos) = {pos}
    BY <2>3, OverNothing
  <2> QED
    BY <2>2, <2>4
<1> QED
  BY <1>0, <1>1, <1>2, <1>3, <1>4 DEF ValidTop

LEMMA RicherSame ==
  ASSUME NEW fs \in Seq(Function), NEW f \in 1..Len(fs)
  PROVE  Richer(fs, fs, f)
<1>1. Len(fs) \in Nat /\ Len(fs[f].blocks) \in Nat
  BY FunctionFields
<1>2. \A b \in Blocks(fs, f) : Len(fs[f].blocks[b]) \in Nat
  BY CodeFields
<1> QED
  BY <1>1, <1>2 DEF Richer, SameHead

(* A step that adds no code. *)
LEMMA QuietGoesOn ==
  ASSUME NEW fs \in Seq(Function), NEW ns, NEW s, Len(s) \in Nat,
         NEW i \in 1..(Len(s) - 1), NEW pos, NEW v, NEW dom,
         ValidBy(s, i, ns, fs, pos, v, dom), Ahead(s[Len(s)]) = {},
         NEW t, \A k \in Len(s)..Len(t) : Ahead(t[k]) = {}
  PROVE  CodeGoesOn(fs, fs, s[i].fn, dom, dom, s, t, pos, pos)
<1>1. PICK f : f = s[i].fn
  OBVIOUS
<1>2. /\ f \in 1..Len(fs) /\ CodeFine(fs, f, dom)
      /\ pos \in Places(fs) /\ pos = <<f, pos[2]>> /\ pos[2] \in Blocks(fs, f)
      /\ Unclosed(fs[f].blocks[pos[2]])
  <2>1. ValidTop(fs, ns, s[i].fn, s[Len(s)], pos, v, dom)
    BY ValidParts
  <2> QED
    BY <1>1, <2>1 DEF ValidTop
<1>3. Over(s, Len(s), pos) = {pos} /\ Over(t, Len(s), pos) = {pos}
  <2>1. Over(s, Len(s), pos) = {pos} \cup Ahead(s[Len(s)])
    BY OverTop
  <2>2. Over(t, Len(s), pos) = {pos}
    BY OverNothing
  <2> QED
    BY <2>1, <2>2
<1>4. Prolongs(fs, f, dom, dom) /\ Richer(fs, fs, f) /\ Untouched(fs, fs, f, {pos})
  BY <1>2, RicherSame DEF Prolongs, Untouched
<1>5. pos[1] = f
  BY <1>2
<1> QED
  BY <1>1, <1>2, <1>3, <1>4, <1>5 DEF CodeGoesOn

(* A step that adds an instruction where the builder is. *)
LEMMA BuildGoesOn ==
  ASSUME NEW fs \in Seq(Function), NEW ns, NEW s, Len(s) \in Nat,
         NEW i \in 1..(Len(s) - 1), NEW pos, NEW v, NEW dom,
         ValidBy(s, i, ns, fs, pos, v, dom), Ahead(s[Len(s)]) = {},
         NEW t, \A k \in Len(s)..Len(t) : Ahead(t[k]) = {},
         NEW f, f = s[i].fn, NEW x \in Instr, NEW gs, Adds(fs, gs, f, pos[2], x),
         Plainly(x), Operable(fs, f, dom, pos[2], x)
  PROVE  /\ CodeGoesOn(fs, gs, f, dom, dom, s, t, pos, pos)
         /\ Held(gs, f, dom[pos[2]],
                 Instruction(f, pos[2], Len(fs[f].blocks[pos[2]]) + 1))
<1>2. /\ f \in 1..Len(fs) /\ CodeFine(fs, f, dom)
      /\ pos \in Places(fs) /\ pos = <<f, pos[2]>> /\ pos[2] \in Blocks(fs, f)
      /\ Unclosed(fs[f].blocks[pos[2]])
  <2>1. ValidTop(fs, ns, s[i].fn, s[Len(s)], pos, v, dom)
    BY ValidParts
  <2> QED
    BY <2>1 DEF ValidTop
<1>3. Over(s, Len(s), pos) = {pos} /\ Over(t, Len(s), pos) = {pos}
  <2>1. Over(s, Len(s), pos) = {pos} \cup Ahead(s[Len(s)])
    BY OverTop
  <2>2. Over(t, Len(s), pos) = {pos}
    BY OverNothing
  <2> QED
    BY <2>1, <2>2
<1>4. /\ CodeFine(gs, f, dom) /\ Unclosed(gs[f].blocks[pos[2]])
      /\ Held(gs, f, dom[pos[2]],
              Instruction(f, pos[2], Len(fs[f].blocks[pos[2]]) + 1))
      /\ \A c : Preds(gs, f, c) = Preds(fs, f, c)
  <2>1. Continued(fs, gs, f, dom, pos[2])
    BY <1>2, PlainFine
  <2> QED
    BY <2>1 DEF Continued
<1>5. AddsMore(fs, gs, f, pos[2], x)
  BY Zenon, <1>2, AddsRicher
<1>6. Richer(fs, gs, f) /\ gs \in Seq(Function) /\ Blocks(gs, f) = Blocks(fs, f)
      /\ f \in 1..Len(gs)
  BY Zenon, <1>5 DEF AddsMore
<1>7. ASSUME NEW b \in Blocks(fs, f), <<f, b>> # pos
      PROVE  gs[f].blocks[b] = fs[f].blocks[b]
  BY Zenon, <1>2, <1>7 DEF Adds
<1>8. Untouched(fs, gs, f, {pos})
  BY <1>4, <1>7 DEF Untouched
<1>9. Prolongs(fs, f, dom, dom) /\ pos \in Places(gs) /\ pos[1] = f
  <2>1. pos[1] = f /\ pos[2] \in Blocks(gs, f) /\ pos \in Pos
    BY <1>2, <1>6 DEF Places
  <2> QED
    BY <1>6, <2>1 DEF Prolongs, Places
<1> QED
  BY <1>2, <1>3, <1>4, <1>6, <1>8, <1>9 DEF CodeGoesOn

(* gs is fs with a branch to merge behind block b of f. *)
Links(fs, gs, f, b, x, merge) ==
  /\ x \in Instr /\ x.op = "br" /\ Len(x.args) = 0 /\ Targets(x) = {merge}
  /\ Adds(fs, gs, f, b, x)

(* The value v of the first branch is kept for the second one. *)
ToElse(s, t, pos, v) ==
  LET g == t[Len(s)]
      h == t[Len(s) + 1]
  IN /\ s[Len(s)].pc = "then" /\ Len(t) = Len(s) + 1
     /\ g.pc = "else" /\ g.blks[1] = pos /\ g.blks[3] = s[Len(s)].blks[3]
     /\ g.vals[1] = v /\ h.pc = "block" /\ Len(h.vals) = 0

(* The code goes on at the place to, from which g will. *)
GoesTo(fs, gs, bs, f, dom, new, s, t, pos, to) ==
  /\ CodeGoesOn(fs, gs, f, dom, new, s, t, pos, to)
  /\ FrameFine(gs, bs, f, new, t[Len(s)], Over(t, Len(s) + 1, to))

(* The first branch of a conditional ends with a branch to the block where *)
(* the second one will end, too.                                           *)
LEMMA ElseGoesOn ==
  ASSUME NEW fs \in Seq(Function), NEW ns, NEW s, Len(s) \in Nat,
         NEW i \in 1..(Len(s) - 1), NEW pos, NEW v, NEW dom,
         ValidBy(s, i, ns, fs, pos, v, dom), NEW t, ToElse(s, t, pos, v),
         NEW x, NEW gs, Links(fs, gs, s[i].fn, pos[2], x, s[Len(s)].blks[3]), NEW bs
  PROVE  GoesTo(fs, gs, bs, s[i].fn, dom, dom, s, t, pos, s[Len(s)].blks[2])
<1> SUFFICES
      ASSUME s[Len(s)].pc = "then",
             NEW f, f = s[i].fn, NEW else, NEW merge,
             else = s[Len(s)].blks[2], merge = s[Len(s)].blks[3],
             x \in Instr, x.op = "br", Len(x.args) = 0, Targets(x) = {merge},
             Adds(fs, gs, f, pos[2], x), Held(fs, f, dom[pos[2]], v),
             Len(t) = Len(s) + 1, NEW g, g = t[Len(s)], NEW h, h = t[Len(s) + 1],
             g.pc = "else", g.blks[1] = pos, g.blks[3] = merge, g.vals[1] = v,
             h.pc = "block", Len(h.vals) = 0
      PROVE  /\ CodeGoesOn(fs, gs, f, dom, dom, s, t, pos, else)
             /\ FrameFine(gs, bs, f, dom, g, Over(t, Len(s) + 1, else))
  <2>1. s[Len(s)].pc = "then"
    BY DEF ToElse
  <2>2. Held(fs, s[i].fn, dom[pos[2]], v)
    BY <2>1, ValidParts DEF ValidTop, Waiting
  <2> QED
    BY <2>1, <2>2 DEF ToElse, Links, GoesTo
<1>1. /\ f \in 1..Len(fs) /\ CodeFine(fs, f, dom) /\ Certified(fs, f, dom)
      /\ pos \in Places(fs) /\ pos = <<f, pos[2]>> /\ pos[2] \in Blocks(fs, f)
      /\ Unclosed(fs[f].blocks[pos[2]]) /\ dom[pos[2]] \subseteq Blocks(fs, f)
      /\ FrameFine(fs, ns, f, dom, s[Len(s)], {pos})
  <2>1. ValidTop(fs, ns, s[i].fn, s[Len(s)], pos, v, dom)
    BY Zenon, ValidParts
  <2> QED
    BY <2>1 DEF ValidTop
<1>2. Ahead(s[Len(s)]) = {else, merge} /\ Ahead(g) = {merge} /\ Ahead(h) = {}
  BY DEF Ahead
<1>3. Awaits(fs, f, dom, else, {pos}) /\ Awaits(fs, f, dom, merge, {pos})
  BY Zenon, <1>1, <1>2 DEF FrameFine
<1>4. /\ else # merge /\ Preds(fs, f, merge[2]) = {}
      /\ dom[merge[2]] \ {merge[2]} \subseteq dom[else[2]]
  BY <1>1 DEF FrameFine
<1>5. /\ else \in Places(fs) /\ else = <<f, else[2]>> /\ else[2] \in Blocks(fs, f)
      /\ merge \in Places(fs) /\ merge = <<f, merge[2]>> /\ merge[2] \in Blocks(fs, f)
      /\ else[2] # 1 /\ merge[2] # 1 /\ else # pos /\ merge # pos
      /\ else[1] = f /\ merge[1] = f
      /\ Len(fs[f].blocks[else[2]]) = 0 /\ Len(fs[f].blocks[merge[2]]) = 0
      /\ dom[merge[2]] \ {merge[2]} \subseteq dom[pos[2]]
  <2>1. Awaited(fs, f, dom, else, pos) /\ Awaited(fs, f, dom, merge, pos)
    BY ONLY Zenon, <1>3, AwaitsPlace
  <2> QED
    BY ONLY <2>1 DEF Awaited
<1>6. Branching2(fs, f, dom, pos[2], x)
  <2>1. \A y \in Targets(x) : y = merge
    OBVIOUS
  <2>2. Reaches(fs, f, x)
    <3>1. merge[1] = f /\ merge[2] # 1 /\ merge[2] \in Blocks(fs, f)
      BY ONLY <1>5
    <3> QED
      BY ONLY <2>1, <3>1 DEF Reaches
  <2>3. \A j \in 1..Len(x.args) : FALSE
    OBVIOUS
  <2> QED
    BY <1>5, <2>1, <2>2, <2>3 DEF Branching2
<1>7. /\ CodeFine(gs, f, dom) /\ Closed(gs[f].blocks[pos[2]])
      /\ \A c : Preds(gs, f, c) = IF <<f, c>> \in Targets(x)
                                    THEN Preds(fs, f, c) \cup {pos[2]}
                                    ELSE Preds(fs, f, c)
  <2>1. Branched(fs, gs, f, dom, pos[2], x)
    BY <1>1, <1>6, BranchFine
  <2> QED
    BY <2>1 DEF Branched
<1>8. Over(s, Len(s), pos) = {pos, else, merge}
  BY <1>2, OverTop
<1>9. Over(t, Len(s) + 1, else) = {else} /\ Over(t, Len(s), else) = {else, merge}
  <2>1. Len(s)..Len(t) = {Len(s), Len(s) + 1} /\ (Len(s) + 1)..Len(t) = {Len(s) + 1}
    BY ONLY Len(s) \in Nat, Len(t) = Len(s) + 1
  <2>2. {else} \cup UNION {Ahead(t[k]) : k \in {Len(s), Len(s) + 1}} = {else, merge}
    BY <1>2
  <2>3. {else} \cup UNION {Ahead(t[k]) : k \in {Len(s) + 1}} = {else}
    BY <1>2
  <2> QED
    BY <2>1, <2>2, <2>3 DEF Over
<1>10. AddsMore(fs, gs, f, pos[2], x)
  BY Zenon, <1>1, AddsRicher
<1>11. Richer(fs, gs, f) /\ gs \in Seq(Function) /\ Blocks(gs, f) = Blocks(fs, f)
       /\ f \in 1..Len(gs)
  BY Zenon, <1>10 DEF AddsMore
<1>12. ASSUME NEW b \in Blocks(fs, f), <<f, b>> # pos
       PROVE  gs[f].blocks[b] = fs[f].blocks[b]
  BY Zenon, <1>1, <1>12 DEF Adds
<1>13. Untouched(fs, gs, f, {pos, else, merge})
  <2>1. ASSUME NEW b \in Blocks(fs, f), <<f, b>> \notin {pos, else, merge}
        PROVE  gs[f].blocks[b] = fs[f].blocks[b] /\ Preds(gs, f, b) = Preds(fs, f, b)
    BY <1>7, <1>12, <2>1
  <2> QED
    BY <2>1 DEF Untouched
<1>14. Len(gs[f].blocks[else[2]]) = 0 /\ Len(gs[f].blocks[merge[2]]) = 0
  <2>1. <<f, else[2]>> # pos /\ <<f, merge[2]>> # pos
    BY <1>5
  <2> QED
    BY Zenon, <1>5, <1>12, <2>1
<1>15. /\ else \in Places(gs) /\ merge \in Places(gs) /\ pos \in Places(gs)
       /\ else[1] = f /\ merge[1] = f /\ pos[1] = f
  <2>1. else[2] \in Blocks(gs, f) /\ merge[2] \in Blocks(gs, f) /\ pos[2] \in Blocks(gs, f)
    BY ONLY <1>1, <1>5, <1>11
  <2> QED
    BY ONLY <1>1, <1>5, <1>11, <2>1, PlaceOfPair
<1>16. CodeGoesOn(fs, gs, f, dom, dom, s, t, pos, else)
  <2>1. Unclosed(gs[f].blocks[else[2]])
    <3>1. 1..Len(gs[f].blocks[else[2]]) = {}
      BY ONLY <1>14, NoneBefore
    <3> QED
      BY Zenon, <3>1 DEF Unclosed
  <2>2. ASSUME NEW b \in Blocks(gs, f)
        PROVE  \/ Closed(gs[f].blocks[b])
               \/ <<f, b>> \in {else, merge}
               \/ b \in Blocks(fs, f) /\ <<f, b>> \notin {pos, else, merge}
    <3>1. CASE <<f, b>> = pos
      <4>1. b = pos[2]
        BY <1>1, <3>1
      <4> QED
        BY <1>7, <4>1
    <3> QED
      BY <1>11, <3>1
  <2>3. Prolongs(fs, f, dom, dom)
    BY DEF Prolongs
  <2> QED
    BY Zenon, <1>7, <1>8, <1>9, <1>11, <1>13, <1>15, <2>1, <2>2, <2>3 DEF CodeGoesOn
<1>17. FrameFine(gs, bs, f, dom, g, {else})
  <2>1. Awaits(gs, f, dom, merge, {else})
    BY <1>4, <1>5, <1>14, <1>15 DEF Awaits
  <2>2. Preds(gs, f, merge[2]) = {pos[2]}
    <3>1. <<f, merge[2]>> \in Targets(x)
      BY ONLY <1>5, Targets(x) = {merge}
    <3>2. Preds(gs, f, merge[2]) = Preds(fs, f, merge[2]) \cup {pos[2]}
      BY ONLY <1>7, <3>1
    <3> QED
      BY ONLY <1>4, <3>2
  <2>3. Held(gs, f, dom[pos[2]], v)
    <3>1. \A X \in SUBSET Blocks(fs, f) : \A u : Held(fs, f, X, u) => Held(gs, f, X, u)
      BY ONLY fs \in Seq(Function), <1>1, <1>11, HeldKept
    <3> QED
      BY ONLY <1>1, <3>1, Held(fs, f, dom[pos[2]], v)
  <2> QED
    BY Zenon, <1>2, <1>15, <2>1, <2>2, <2>3 DEF FrameFine, Keeping
<1> QED
  BY <1>9, <1>16, <1>17

LEMMA RicherTwice ==
  ASSUME NEW fs \in Seq(Function), NEW f, f \in 1..Len(fs), NEW gs \in Seq(Function),
         f \in 1..Len(gs), NEW hs \in Seq(Function), f \in 1..Len(hs),
         Richer(fs, gs, f), Richer(gs, hs, f)
  PROVE  Richer(fs, hs, f)
<1>1. Len(fs) \in Nat /\ Len(gs) \in Nat /\ Len(hs) \in Nat
  BY FunctionFields
<1>2. /\ Len(fs[f].blocks) \in Nat /\ Len(gs[f].blocks) \in Nat /\ Len(hs[f].blocks) \in Nat
      /\ \A b \in Blocks(fs, f) : Len(fs[f].blocks[b]) \in Nat
      /\ \A b \in Blocks(gs, f) : Len(gs[f].blocks[b]) \in Nat
      /\ \A b \in Blocks(hs, f) : Len(hs[f].blocks[b]) \in Nat
  BY CodeFields
<1>3. Len(fs) <= Len(hs) /\ \A g \in 1..Len(fs) : SameHead(fs[g], hs[g])
  BY <1>1 DEF Richer, SameHead
<1>4. Len(fs[f].blocks) <= Len(hs[f].blocks)
  BY <1>2 DEF Richer
<1>5. ASSUME NEW b \in Blocks(fs, f)
      PROVE  Len(fs[f].blocks[b]) <= Len(hs[f].blocks[b])
  <2>1. b \in Blocks(gs, f) /\ b \in Blocks(hs, f)
    BY <1>2, <1>4 DEF Richer, Blocks
  <2>2. Len(fs[f].blocks[b]) <= Len(gs[f].blocks[b])
    BY DEF Richer
  <2>3. Len(gs[f].blocks[b]) <= Len(hs[f].blocks[b])
    BY <2>1 DEF Richer
  <2>4. PICK j, k, l : j = Len(fs[f].blocks[b]) /\ k = Len(gs[f].blocks[b])
                       /\ l = Len(hs[f].blocks[b])
    OBVIOUS
  <2>5. j \in Nat /\ k \in Nat /\ l \in Nat
    BY <1>2, <2>1, <2>4
  <2>6. j <= k /\ k <= l
    BY <2>2, <2>3, <2>4
  <2>7. j <= l
    BY ONLY <2>5, <2>6
  <2> QED
    BY <2>4, <2>7
<1> QED
  BY <1>3, <1>4, <1>5 DEF Richer

(* The first instruction of a block. *)
Begins(fs, gs, f, b, x) ==
  /\ AddsMore(fs, gs, f, b, x)
  /\ Len(gs[f].blocks[b]) = 1 /\ gs[f].blocks[b][1] = x

LEMMA AddsFirst ==
  ASSUME NEW fs \in Seq(Function), NEW f \in 1..Len(fs), NEW b \in Blocks(fs, f),
         NEW x \in Instr, NEW gs, Adds(fs, gs, f, b, x), Len(fs[f].blocks[b]) = 0
  PROVE  Begins(fs, gs, f, b, x)
<1>1. AddsMore(fs, gs, f, b, x)
  BY AddsRicher
<1>2. PICK n : n = Len(fs[f].blocks[b])
  OBVIOUS
<1>3. Len(gs[f].blocks[b]) = n + 1 /\ gs[f].blocks[b][n + 1] = x
  BY <1>1, <1>2 DEF AddsMore
<1>4. n + 1 = 1
  BY <1>2
<1>5. Len(gs[f].blocks[b]) = 1 /\ gs[f].blocks[b][1] = x
  BY ONLY <1>3, <1>4
<1> QED
  BY <1>1, <1>5 DEF Begins

Joined(fs, gs, f, dom, b) ==
  /\ CodeFine(gs, f, dom) /\ Unclosed(gs[f].blocks[b])
  /\ Held(gs, f, dom[b], Instruction(f, b, 1))
  /\ \A e : Preds(gs, f, e) = Preds(fs, f, e)

(* The values of two branches meet in an empty block. *)
LEMMA PhiFine ==
  ASSUME NEW fs \in Seq(Function), NEW f \in 1..Len(fs), NEW b \in Blocks(fs, f),
         NEW y \in Instr, NEW gs, Adds(fs, gs, f, b, y), Len(fs[f].blocks[b]) = 0,
         NEW dom, CodeFine(fs, f, dom),
         NEW c \in Blocks(fs, f), NEW d \in Blocks(fs, f), c # d,
         Preds(fs, f, b) = {c, d},
         y.op = "phi", Len(y.to) = 2, Len(y.args) = 2,
         y.to[1] = <<f, c>>, y.to[2] = <<f, d>>,
         Held(fs, f, dom[c], y.args[1]), Held(fs, f, dom[d], y.args[2])
  PROVE  Joined(fs, gs, f, dom, b)
<1>1. Certified(fs, f, dom)
  BY DEF CodeFine
<1>2. Begins(fs, gs, f, b, y)
  BY AddsFirst
<1>3. /\ Richer(fs, gs, f) /\ gs \in Seq(Function) /\ f \in 1..Len(gs)
      /\ Blocks(gs, f) = Blocks(fs, f)
      /\ Len(gs[f].blocks[b]) = 1 /\ gs[f].blocks[b][1] = y
  BY <1>2 DEF Begins, AddsMore
<1>4. y.op \notin Terminators
  BY DEF Terminators
<1>5. Unclosed(fs[f].blocks[b])
  <2>1. 1..Len(fs[f].blocks[b]) = {}
    OBVIOUS
  <2> QED
    BY <2>1 DEF Unclosed
<1>6. \A e : Preds(gs, f, e) = Preds(fs, f, e)
  <2>1. \A e : Preds(gs, f, e) =
                 IF y.op \in Terminators /\ <<f, e>> \in Targets(y)
                   THEN Preds(fs, f, e) \cup {b} ELSE Preds(fs, f, e)
    BY <1>5, AddsPreds
  <2> QED
    BY <1>4, <2>1
<1>7. dom[c] \subseteq Blocks(fs, f) /\ dom[d] \subseteq Blocks(fs, f)
  BY <1>1 DEF Certified
<1>8. Held(gs, f, dom[c], y.args[1]) /\ Held(gs, f, dom[d], y.args[2])
  BY <1>3, <1>7, HeldKept
<1>9. Joins(gs, f, dom, b, y)
  BY <1>3, <1>6, <1>8 DEF Joins
<1>10. InstrFine(gs, f, dom, b, 1, 1, y)
  BY <1>4, <1>9 DEF InstrFine
<1>11. CodeFine(gs, f, dom)
  <2>1. PICK n : n = Len(fs[f].blocks[b])
    OBVIOUS
  <2>2. n + 1 = 1
    BY <2>1
  <2>3. InstrFine(gs, f, dom, b, n + 1, n + 1, y)
    BY ONLY <1>10, <2>2
  <2>4. \A e \in Blocks(fs, f) : y.op \in Terminators /\ <<f, e>> \in Targets(y) =>
          Len(fs[f].blocks[e]) = 0 /\ dom[e] \subseteq dom[b] \cup {e}
    BY <1>4
  <2>5. LET k == Len(fs[f].blocks[b]) IN InstrFine(gs, f, dom, b, k + 1, k + 1, y)
    BY <2>1, <2>3
  <2> QED
    BY <1>5, <2>4, <2>5, AddFine
<1>12. Unclosed(gs[f].blocks[b])
  <2>1. \A k \in 1..1 : k = 1
    OBVIOUS
  <2> QED
    BY <1>3, <1>4, <2>1 DEF Unclosed
<1>13. Held(gs, f, dom[b], Instruction(f, b, 1))
  <2>1. b \in dom[b]
    BY <1>1 DEF Certified
  <2>2. 1 \in 1..Len(gs[f].blocks[b])
    BY <1>3
  <2>3. PICK w : w = Instruction(f, b, 1)
    OBVIOUS
  <2>4. w.kind = "instr" /\ w.fn = f /\ w.blk = b /\ w.i = 1
    BY <2>3 DEF Instruction
  <2>5. Held(gs, f, dom[b], w)
    BY Zenon, <2>1, <2>2, <2>4 DEF Held
  <2> QED
    BY <2>3, <2>5
<1> QED
  BY <1>6, <1>11, <1>12, <1>13 DEF Joined

(* hs is gs with a phi of both values where the branches of s meet. *)
Meets(gs, hs, f, s, pos, v, y) ==
  LET g == s[Len(s)]
  IN /\ y \in Instr /\ y.op = "phi" /\ Len(y.to) = 2 /\ Len(y.args) = 2
     /\ y.to[1] = g.blks[1] /\ y.to[2] = pos /\ y.args[1] = g.vals[1] /\ y.args[2] = v
     /\ Adds(gs, hs, f, g.blks[3][2], y)

PhiGoes(fs, hs, f, dom, s, t, pos) ==
  LET merge == s[Len(s)].blks[3]
  IN /\ CodeGoesOn(fs, hs, f, dom, dom, s, t, pos, merge)
     /\ Held(hs, f, dom[merge[2]], Instruction(f, merge[2], 1))

(* The second branch ends, and the values of both meet. *)
LEMMA PhiGoesOn ==
  ASSUME NEW fs \in Seq(Function), NEW ns, NEW s, Len(s) \in Nat,
         NEW i \in 1..(Len(s) - 1), NEW pos, NEW v, NEW dom,
         ValidBy(s, i, ns, fs, pos, v, dom), s[Len(s)].pc = "else",
         NEW x, NEW gs, Links(fs, gs, s[i].fn, pos[2], x, s[Len(s)].blks[3]),
         NEW y, NEW hs, Meets(gs, hs, s[i].fn, s, pos, v, y),
         NEW t, Len(t) = Len(s) - 1
  PROVE  PhiGoes(fs, hs, s[i].fn, dom, s, t, pos)
<1> SUFFICES
      ASSUME NEW f, f = s[i].fn, NEW from, NEW merge, NEW left,
             from = s[Len(s)].blks[1], merge = s[Len(s)].blks[3], left = s[Len(s)].vals[1],
             x \in Instr, x.op = "br", Len(x.args) = 0, Targets(x) = {merge},
             Adds(fs, gs, f, pos[2], x), Held(fs, f, dom[pos[2]], v),
             y \in Instr, y.op = "phi", Len(y.to) = 2, Len(y.args) = 2,
             y.to[1] = from, y.to[2] = pos, y.args[1] = left, y.args[2] = v,
             Adds(gs, hs, f, merge[2], y)
      PROVE  /\ CodeGoesOn(fs, hs, f, dom, dom, s, t, pos, merge)
             /\ Held(hs, f, dom[merge[2]], Instruction(f, merge[2], 1))
  <2>1. Held(fs, s[i].fn, dom[pos[2]], v)
    BY ValidParts DEF ValidTop, Waiting
  <2> QED
    BY <2>1 DEF Links, Meets, PhiGoes
<1>1. /\ f \in 1..Len(fs) /\ CodeFine(fs, f, dom) /\ Certified(fs, f, dom)
      /\ pos \in Places(fs) /\ pos = <<f, pos[2]>> /\ pos[2] \in Blocks(fs, f)
      /\ Unclosed(fs[f].blocks[pos[2]]) /\ dom[pos[2]] \subseteq Blocks(fs, f)
      /\ FrameFine(fs, ns, f, dom, s[Len(s)], {pos})
  <2>1. ValidTop(fs, ns, s[i].fn, s[Len(s)], pos, v, dom)
    BY ValidParts
  <2> QED
    BY <2>1 DEF ValidTop
<1>2. Ahead(s[Len(s)]) = {merge}
  BY Zenon DEF Ahead
<1>3. Awaits(fs, f, dom, merge, {pos})
  BY Zenon, <1>1, <1>2 DEF FrameFine
<1>4. /\ from \in Places(fs) /\ from[1] = f
      /\ Preds(fs, f, merge[2]) = {from[2]}
      /\ Held(fs, f, dom[from[2]], left)
  BY <1>1 DEF FrameFine
<1>5. /\ merge \in Places(fs) /\ merge = <<f, merge[2]>> /\ merge[2] \in Blocks(fs, f)
      /\ merge[1] = f /\ merge[2] # 1 /\ merge # pos
      /\ Len(fs[f].blocks[merge[2]]) = 0
      /\ dom[merge[2]] \ {merge[2]} \subseteq dom[pos[2]]
      /\ from = <<f, from[2]>> /\ from[2] \in Blocks(fs, f)
  <2>1. Awaited(fs, f, dom, merge, pos)
    BY ONLY <1>3, AwaitsPlace
  <2>2. from = <<f, from[2]>> /\ from[2] \in Blocks(fs, f)
    BY ONLY Zenon, <1>4, PlacePair
  <2> QED
    BY ONLY <2>1, <2>2 DEF Awaited
<1>6. Branching2(fs, f, dom, pos[2], x)
  <2>1. \A z \in Targets(x) : z = merge
    OBVIOUS
  <2>2. Reaches(fs, f, x)
    <3>1. merge[1] = f /\ merge[2] # 1 /\ merge[2] \in Blocks(fs, f)
      BY ONLY <1>5
    <3> QED
      BY ONLY <2>1, <3>1 DEF Reaches
  <2>3. \A j \in 1..Len(x.args) : FALSE
    OBVIOUS
  <2> QED
    BY <1>5, <2>1, <2>2, <2>3 DEF Branching2
<1>7. /\ CodeFine(gs, f, dom) /\ Closed(gs[f].blocks[pos[2]])
      /\ \A c : Preds(gs, f, c) = IF <<f, c>> \in Targets(x)
                                    THEN Preds(fs, f, c) \cup {pos[2]}
                                    ELSE Preds(fs, f, c)
      /\ \A c : pos[2] \notin Preds(fs, f, c)
  <2>1. Branched(fs, gs, f, dom, pos[2], x)
    BY <1>1, <1>6, BranchFine
  <2> QED
    BY <2>1 DEF Branched
<1>8. Over(s, Len(s), pos) = {pos, merge}
  <2>1. Over(s, Len(s), pos) = {pos} \cup Ahead(s[Len(s)])
    BY OverTop
  <2> QED
    BY ONLY <1>2, <2>1
<1>9. Over(t, Len(s), merge) = {merge}
  <2>1. Len(s)..Len(t) = {}
    OBVIOUS
  <2> QED
    BY <2>1 DEF Over
<1>10. AddsMore(fs, gs, f, pos[2], x)
  BY Zenon, <1>1, AddsRicher
<1>11. Richer(fs, gs, f) /\ gs \in Seq(Function) /\ Blocks(gs, f) = Blocks(fs, f)
       /\ f \in 1..Len(gs)
  BY Zenon, <1>10 DEF AddsMore
<1>12. ASSUME NEW b \in Blocks(fs, f), <<f, b>> # pos
       PROVE  gs[f].blocks[b] = fs[f].blocks[b]
  BY Zenon, <1>1, <1>12 DEF Adds
<1>13. Len(gs[f].blocks[merge[2]]) = 0 /\ merge[2] \in Blocks(gs, f)
  <2>1. <<f, merge[2]>> # pos
    BY Zenon, <1>5
  <2> QED
    BY <1>5, <1>11, <1>12, <2>1
<1>14. Unclosed(gs[f].blocks[merge[2]])
  <2>1. 1..Len(gs[f].blocks[merge[2]]) = {}
    BY ONLY Zenon, <1>13, NoneBefore
  <2> QED
    BY Zenon, <2>1 DEF Unclosed
<1>15. Begins(gs, hs, f, merge[2], y)
  BY Zenon, <1>11, <1>13, AddsFirst
<1>16. Richer(gs, hs, f) /\ hs \in Seq(Function) /\ Blocks(hs, f) = Blocks(fs, f)
       /\ f \in 1..Len(hs)
  BY Zenon, <1>11, <1>15 DEF Begins, AddsMore
<1>18. Preds(gs, f, merge[2]) = {from[2], pos[2]} /\ from[2] # pos[2]
  <2>1. <<f, merge[2]>> \in Targets(x)
    BY <1>5
  <2>2. Preds(gs, f, merge[2]) = Preds(fs, f, merge[2]) \cup {pos[2]}
    BY <1>7, <2>1
  <2>3. pos[2] \notin Preds(fs, f, merge[2])
    BY <1>7
  <2> QED
    BY Zenon, <1>4, <2>2, <2>3
<1>19. Richer(fs, hs, f)
  BY Zenon, <1>1, <1>11, <1>16, RicherTwice
<1>20. /\ CodeFine(hs, f, dom) /\ Unclosed(hs[f].blocks[merge[2]])
       /\ Held(hs, f, dom[merge[2]], Instruction(f, merge[2], 1))
       /\ \A c : Preds(hs, f, c) = Preds(gs, f, c)
  <2>1. dom[from[2]] \subseteq Blocks(fs, f) /\ dom[pos[2]] \subseteq Blocks(fs, f)
    BY <1>1, <1>5 DEF Certified
  <2>2. Held(gs, f, dom[from[2]], left) /\ Held(gs, f, dom[pos[2]], v)
    <3>1. \A X \in SUBSET Blocks(fs, f) : \A u : Held(fs, f, X, u) => Held(gs, f, X, u)
      BY ONLY fs \in Seq(Function), <1>1, <1>11, HeldKept
    <3> QED
      BY ONLY <1>4, <2>1, <3>1, Held(fs, f, dom[pos[2]], v)
  <2>3. PICK c, d : c = from[2] /\ d = pos[2]
    BY Zenon
  <2>4. /\ c \in Blocks(gs, f) /\ d \in Blocks(gs, f) /\ c # d
        /\ Preds(gs, f, merge[2]) = {c, d}
        /\ y.to[1] = <<f, c>> /\ y.to[2] = <<f, d>>
        /\ Held(gs, f, dom[c], y.args[1]) /\ Held(gs, f, dom[d], y.args[2])
    BY Zenon, <1>1, <1>5, <1>11, <1>18, <2>2, <2>3
  <2>5. Joined(gs, hs, f, dom, merge[2])
    BY <1>7, <1>11, <1>13, <2>4, PhiFine
  <2> QED
    BY Zenon, <2>5 DEF Joined
<1>21. ASSUME NEW b \in Blocks(fs, f), <<f, b>> # pos, <<f, b>> # merge
       PROVE  hs[f].blocks[b] = fs[f].blocks[b] /\ Preds(hs, f, b) = Preds(fs, f, b)
  <2>1. b # merge[2]
    BY Zenon, <1>5, <1>21
  <2>2. hs[f].blocks[b] = gs[f].blocks[b]
    BY Zenon, <1>11, <2>1 DEF Adds
  <2>3. Preds(hs, f, b) = Preds(fs, f, b)
    BY Zenon, <1>7, <1>20, <1>21
  <2> QED
    BY <1>12, <1>21, <2>2, <2>3
<1>22. Untouched(fs, hs, f, {pos, merge})
  BY <1>21 DEF Untouched
<1>23. Closed(hs[f].blocks[pos[2]])
  <2>1. pos[2] # merge[2]
    BY ONLY <1>1, <1>5
  <2>2. hs[f].blocks[pos[2]] = gs[f].blocks[pos[2]]
    <3>1. pos[2] \in Blocks(gs, f)
      BY ONLY <1>1, <1>11
    <3> QED
      BY ONLY <1>11, <2>1, <3>1, Adds(gs, hs, f, merge[2], y) DEF Adds
  <2> QED
    BY <1>7, <2>2
<1>24. merge \in Places(hs) /\ merge[1] = f
  <2>1. merge[2] \in Blocks(hs, f)
    BY ONLY Zenon, <1>5, <1>16
  <2> QED
    BY ONLY <1>5, <1>16, <2>1, PlaceOfPair
<1>25. CodeGoesOn(fs, hs, f, dom, dom, s, t, pos, merge)
  <2>1. ASSUME NEW b \in Blocks(hs, f)
        PROVE  \/ Closed(hs[f].blocks[b])
               \/ <<f, b>> \in {merge}
               \/ b \in Blocks(fs, f) /\ <<f, b>> \notin {pos, merge}
    <3>1. CASE <<f, b>> = pos
      <4>1. b = pos[2]
        BY <1>1, <3>1
      <4> QED
        BY <1>23, <4>1
    <3> QED
      BY <1>16, <3>1
  <2>2. Prolongs(fs, f, dom, dom)
    BY DEF Prolongs
  <2>3. \A p \in {merge} : p \in {pos, merge} \/
           (p \notin Places(fs) /\ dom[pos[2]] \subseteq dom[p[2]])
    OBVIOUS
  <2> QED
    BY Zenon, <1>8, <1>9, <1>16, <1>19, <1>20, <1>22, <1>23, <1>24, <2>1, <2>2, <2>3
    DEF CodeGoesOn
<1> QED
  BY Zenon, <1>20, <1>25

LEMMA ThreeMore ==
  ASSUME NEW n \in Nat, n >= 1
  PROVE  /\ n + 1 \in (n + 1)..(n + 3) /\ n + 2 \in (n + 1)..(n + 3)
         /\ n + 3 \in (n + 1)..(n + 3)
         /\ n + 1 \in 1..(n + 3) /\ n + 2 \in 1..(n + 3) /\ n + 3 \in 1..(n + 3)
         /\ n + 1 \notin 1..n /\ n + 2 \notin 1..n /\ n + 3 \notin 1..n
         /\ n + 1 # 1 /\ n + 2 # 1 /\ n + 3 # 1
         /\ n + 2 # n + 1 /\ n + 3 # n + 1 /\ n + 3 # n + 2
         /\ n + 1 \in Nat /\ n + 2 \in Nat /\ n + 3 \in Nat
         /\ \A e \in 1..(n + 3) : e \in 1..n \/ e = n + 1 \/ e = n + 2 \/ e = n + 3
         /\ \A e \in (n + 1)..(n + 3) : e \in 1..(n + 3) /\ e \notin 1..n
OBVIOUS

(* Block b of f ends with a branch to two of three new blocks behind its n. *)
ForkedBy(fs, hs, f, dom, new, b, n) ==
  /\ CodeFine(hs, f, new) /\ Prolongs(fs, f, dom, new) /\ Richer(fs, hs, f)
  /\ hs \in Seq(Function) /\ f \in 1..Len(hs) /\ Blocks(hs, f) = 1..(n + 3)
  /\ Closed(hs[f].blocks[b])
  /\ \A e \in Blocks(fs, f) : e # b => hs[f].blocks[e] = fs[f].blocks[e]
  /\ \A e \in Blocks(fs, f) : Preds(hs, f, e) = Preds(fs, f, e)
  /\ \A e \in (n + 1)..(n + 3) :
       new[e] = dom[b] \cup {e} /\ Len(hs[f].blocks[e]) = 0
  /\ Preds(hs, f, n + 3) = {}

LEMMA ForkFine ==
  ASSUME NEW fs \in Seq(Function), NEW f \in 1..Len(fs), NEW b \in Blocks(fs, f),
         NEW dom, CodeFine(fs, f, dom), Unclosed(fs[f].blocks[b]),
         NEW n, n = Len(fs[f].blocks),
         NEW x \in Instr, x.op = "condbr", Len(x.args) = 1,
         Held(fs, f, dom[b], x.args[1]),
         Targets(x) = {<<f, n + 1>>, <<f, n + 2>>},
         NEW gs, Adds(fs, gs, f, b, x), NEW hs, Branches(gs, hs, f)
  PROVE  \E new : ForkedBy(fs, hs, f, dom, new, b, n)
<1>1. n \in Nat /\ n >= 1 /\ b \in 1..n /\ Blocks(fs, f) = 1..n
  BY FunctionFields DEF Blocks
<1>2. PICK fs3 : fs3 = Branching(fs, f)
  OBVIOUS
<1>3. Branches(fs, fs3, f)
  BY <1>2, BranchingType
<1>4. Adds(fs3, hs, f, b, x) /\ b \in Blocks(fs3, f)
  BY <1>3, BranchAdds
<1>5. PICK X : X = dom[b]
  OBVIOUS
<1>6. PICK new : new = Widened(fs, fs3, f, dom, X)
  OBVIOUS
<1>7. X \subseteq Blocks(fs, f) /\ Certified(fs, f, dom)
  BY <1>5 DEF CodeFine, Certified
<1>8. /\ CodeFine(fs3, f, new) /\ Prolongs(fs, f, dom, new) /\ Richer(fs, fs3, f)
      /\ \A e \in Blocks(fs3, f) \ Blocks(fs, f) :
           new[e] = X \cup {e} /\ Preds(fs3, f, e) = {}
      /\ \A e \in Blocks(fs, f) : Preds(fs3, f, e) = Preds(fs, f, e)
  <2>1. LET w == Widened(fs, fs3, f, dom, X)
        IN /\ CodeFine(fs3, f, w) /\ Prolongs(fs, f, dom, w)
           /\ Richer(fs, fs3, f)
           /\ Blocks(fs, f) \subseteq Blocks(fs3, f)
           /\ \A e \in Blocks(fs3, f) \ Blocks(fs, f) :
                w[e] = X \cup {e} /\ Preds(fs3, f, e) = {}
           /\ \A e \in Blocks(fs, f) : Preds(fs3, f, e) = Preds(fs, f, e)
    <3>1. Len(fs[f].blocks) >= 1
      BY <1>1
    <3> QED
      BY <1>3, <1>7, <3>1, Widen
  <2> QED
    BY <1>6, <2>1
<1>9. /\ fs3 \in Seq(Function) /\ f \in 1..Len(fs3) /\ Blocks(fs3, f) = 1..(n + 3)
      /\ \A e \in 1..n : fs3[f].blocks[e] = fs[f].blocks[e]
      /\ \A e \in (n + 1)..(n + 3) : Len(fs3[f].blocks[e]) = 0
  BY <1>3 DEF Branches, Blocks
<1>10. \A e \in (n + 1)..(n + 3) : new[e] = X \cup {e} /\ Preds(fs3, f, e) = {}
  <2>1. ASSUME NEW e \in (n + 1)..(n + 3)
        PROVE  e \in 1..(n + 3) /\ e \notin 1..n
    BY <1>1
  <2> QED
    BY <1>1, <1>8, <1>9, <2>1
<1>11. Unclosed(fs3[f].blocks[b]) /\ new[b] = X
  BY <1>1, <1>5, <1>8, <1>9 DEF Prolongs
<1>12. Branching2(fs3, f, new, b, x)
  <2>1. \A z \in Targets(x) : z = <<f, n + 1>> \/ z = <<f, n + 2>>
    OBVIOUS
  <2>2. n + 1 \in (n + 1)..(n + 3) /\ n + 2 \in (n + 1)..(n + 3)
        /\ n + 1 # 1 /\ n + 2 # 1 /\ n + 1 \in 1..(n + 3) /\ n + 2 \in 1..(n + 3)
    BY <1>1
  <2>3. \A z \in Targets(x) : /\ z[1] = f /\ z[2] # 1 /\ z[2] \in (n + 1)..(n + 3)
                              /\ z[2] \in 1..(n + 3)
    BY <2>1, <2>2
  <2>4. Reaches(fs3, f, x)
    BY <1>9, <2>3 DEF Reaches
  <2>5. Held(fs3, f, new[b], x.args[1])
    <3>1. Held(fs, f, X, x.args[1])
      BY <1>5
    <3> QED
      BY <1>7, <1>8, <1>9, <1>11, <3>1, HeldKept
  <2>6. \A j \in 1..Len(x.args) : Held(fs3, f, new[b], x.args[j])
    <3>1. \A j \in 1..Len(x.args) : j = 1
      OBVIOUS
    <3> QED
      BY <2>5, <3>1
  <2>7. \A z \in Targets(x) : /\ Len(fs3[f].blocks[z[2]]) = 0
                              /\ new[z[2]] \subseteq new[b] \cup {z[2]}
    <3>1. ASSUME NEW z \in Targets(x), NEW e, e = z[2]
          PROVE  Len(fs3[f].blocks[e]) = 0 /\ new[e] \subseteq new[b] \cup {e}
      <4>1. e \in (n + 1)..(n + 3)
        BY <2>3, <3>1
      <4> QED
        BY <1>9, <1>10, <1>11, <4>1
    <3> QED
      BY <3>1
  <2> QED
    BY <2>4, <2>6, <2>7 DEF Branching2
<1>13. /\ CodeFine(hs, f, new) /\ Closed(hs[f].blocks[b])
       /\ \A c : Preds(hs, f, c) = IF <<f, c>> \in Targets(x)
                                     THEN Preds(fs3, f, c) \cup {b} ELSE Preds(fs3, f, c)
  <2>1. Branched(fs3, hs, f, new, b, x)
    BY <1>4, <1>8, <1>9, <1>11, <1>12, BranchFine
  <2> QED
    BY <2>1 DEF Branched
<1>14. Richer(fs3, hs, f) /\ hs \in Seq(Function) /\ f \in 1..Len(hs)
       /\ Blocks(hs, f) = 1..(n + 3)
  <2>1. AddsMore(fs3, hs, f, b, x)
    BY <1>4, <1>9, AddsRicher
  <2> QED
    BY <1>9, <2>1 DEF AddsMore
<1>15. Richer(fs, hs, f)
  BY <1>8, <1>9, <1>14, RicherTwice
<1>16. ASSUME NEW e \in 1..(n + 3), e # b
       PROVE  hs[f].blocks[e] = fs3[f].blocks[e]
  BY <1>4, <1>9, <1>16 DEF Adds
<1>17. \A e \in Blocks(fs, f) : e # b => hs[f].blocks[e] = fs[f].blocks[e]
  <2>1. ASSUME NEW e \in 1..n, e # b
        PROVE  hs[f].blocks[e] = fs[f].blocks[e]
    <3>1. e \in 1..(n + 3)
      BY <1>1
    <3> QED
      BY <1>9, <1>16, <2>1, <3>1
  <2> QED
    BY <1>1, <2>1
<1>18. \A e \in Blocks(fs, f) : Preds(hs, f, e) = Preds(fs, f, e)
  <2>1. ASSUME NEW e \in 1..n
        PROVE  <<f, e>> \notin Targets(x)
    <3>1. e # n + 1 /\ e # n + 2
      BY <1>1
    <3> QED
      BY <3>1
  <2> QED
    BY <1>1, <1>8, <1>13, <2>1
<1>19. ASSUME NEW e \in (n + 1)..(n + 3)
       PROVE  new[e] = dom[b] \cup {e} /\ Len(hs[f].blocks[e]) = 0
  <2>1. e \in 1..(n + 3) /\ e # b
    BY <1>1
  <2> QED
    BY <1>5, <1>9, <1>10, <1>16, <2>1
<1>20. Preds(hs, f, n + 3) = {}
  <2>1. n + 3 # n + 1 /\ n + 3 # n + 2 /\ n + 3 \in (n + 1)..(n + 3)
    BY <1>1
  <2>2. <<f, n + 3>> \notin Targets(x)
    BY <2>1
  <2> QED
    BY <1>10, <1>13, <2>1, <2>2
<1> QED
  BY <1>8, <1>13, <1>14, <1>15, <1>17, <1>18, <1>19, <1>20 DEF ForkedBy

(* Code was added to block b of f or not. *)
Built(fs, gs, f, dom, b) ==
  /\ CodeFine(gs, f, dom) /\ Unclosed(gs[f].blocks[b]) /\ Richer(fs, gs, f)
  /\ gs \in Seq(Function) /\ f \in 1..Len(gs) /\ Len(gs[f].blocks) = Len(fs[f].blocks)
  /\ \A e \in Blocks(fs, f) : e # b => gs[f].blocks[e] = fs[f].blocks[e]
  /\ \A e : Preds(gs, f, e) = Preds(fs, f, e)

LEMMA NothingBuilt ==
  ASSUME NEW fs \in Seq(Function), NEW f \in 1..Len(fs), NEW b \in Blocks(fs, f),
         NEW dom, CodeFine(fs, f, dom), Unclosed(fs[f].blocks[b])
  PROVE  Built(fs, fs, f, dom, b)
BY RicherSame DEF Built

LEMMA PlainBuilt ==
  ASSUME NEW fs \in Seq(Function), NEW f \in 1..Len(fs), NEW b \in Blocks(fs, f),
         NEW x \in Instr, NEW gs, Adds(fs, gs, f, b, x),
         NEW dom, CodeFine(fs, f, dom), Unclosed(fs[f].blocks[b]),
         Plainly(x), Operable(fs, f, dom, b, x)
  PROVE  Built(fs, gs, f, dom, b)
<1>1. Continued(fs, gs, f, dom, b)
  BY PlainFine
<1>2. AddsMore(fs, gs, f, b, x)
  BY AddsRicher
<1>3. Len(gs[f].blocks) = Len(fs[f].blocks)
      /\ \A e \in Blocks(fs, f) : e # b => gs[f].blocks[e] = fs[f].blocks[e]
  BY DEF Adds
<1>4. /\ CodeFine(gs, f, dom) /\ Unclosed(gs[f].blocks[b])
      /\ \A e : Preds(gs, f, e) = Preds(fs, f, e)
  BY <1>1 DEF Continued
<1>5. Richer(fs, gs, f) /\ gs \in Seq(Function) /\ f \in 1..Len(gs)
  BY Zenon, <1>2 DEF AddsMore
<1> QED
  BY <1>3, <1>4, <1>5 DEF Built

(* hs is fs with a branch, after other code in cs, to new blocks of f. *)
Forks(fs, cs, gs, hs, f, dom, b, n, x) ==
  /\ n = Len(fs[f].blocks) /\ Built(fs, cs, f, dom, b)
  /\ x \in Instr /\ x.op = "condbr" /\ Len(x.args) = 1
  /\ Held(cs, f, dom[b], x.args[1])
  /\ Targets(x) = {<<f, n + 1>>, <<f, n + 2>>}
  /\ Adds(cs, gs, f, b, x) /\ Branches(gs, hs, f)

ToThen(s, t, f, n) ==
  LET g == t[Len(s)]
      h == t[Len(s) + 1]
  IN /\ Ahead(s[Len(s)]) = {} /\ Len(t) = Len(s) + 1
     /\ g.pc = "then" /\ g.blks[2] = <<f, n + 2>> /\ g.blks[3] = <<f, n + 3>>
     /\ h.pc = "block" /\ Len(h.vals) = 0

(* The condition has its value: the builder goes on in the first of three  *)
(* new blocks.                                                             *)
LEMMA ThenGoesOn ==
  ASSUME NEW fs \in Seq(Function), NEW ns, NEW s, Len(s) \in Nat,
         NEW i \in 1..(Len(s) - 1), NEW pos, NEW v, NEW dom,
         ValidBy(s, i, ns, fs, pos, v, dom), NEW n, NEW x, NEW cs, NEW gs, NEW hs,
         Forks(fs, cs, gs, hs, s[i].fn, dom, pos[2], n, x),
         NEW t, ToThen(s, t, s[i].fn, n), NEW bs
  PROVE  \E new : GoesTo(fs, hs, bs, s[i].fn, dom, new, s, t, pos, <<s[i].fn, n + 1>>)
<1> SUFFICES
      ASSUME Ahead(s[Len(s)]) = {},
             NEW f, f = s[i].fn, n = Len(fs[f].blocks), Built(fs, cs, f, dom, pos[2]),
             x \in Instr, x.op = "condbr", Len(x.args) = 1,
             Held(cs, f, dom[pos[2]], x.args[1]),
             Targets(x) = {<<f, n + 1>>, <<f, n + 2>>},
             Adds(cs, gs, f, pos[2], x), Branches(gs, hs, f),
             Len(t) = Len(s) + 1, NEW g, g = t[Len(s)], NEW h, h = t[Len(s) + 1],
             g.pc = "then", g.blks[2] = <<f, n + 2>>, g.blks[3] = <<f, n + 3>>,
             h.pc = "block", Len(h.vals) = 0, NEW to, to = <<f, n + 1>>
      PROVE  \E new : /\ CodeGoesOn(fs, hs, f, dom, new, s, t, pos, to)
                      /\ FrameFine(hs, bs, f, new, g, Over(t, Len(s) + 1, to))
  BY DEF Forks, ToThen, GoesTo
<1>1. /\ f \in 1..Len(fs) /\ CodeFine(fs, f, dom) /\ Certified(fs, f, dom)
      /\ pos \in Places(fs) /\ pos = <<f, pos[2]>> /\ pos[2] \in Blocks(fs, f)
      /\ dom[pos[2]] \subseteq Blocks(fs, f)
  <2>1. ValidTop(fs, ns, s[i].fn, s[Len(s)], pos, v, dom)
    BY Zenon, ValidParts
  <2> QED
    BY <2>1 DEF ValidTop
<1>2. /\ CodeFine(cs, f, dom) /\ Unclosed(cs[f].blocks[pos[2]]) /\ Richer(fs, cs, f)
      /\ cs \in Seq(Function) /\ f \in 1..Len(cs) /\ n = Len(cs[f].blocks)
      /\ Blocks(cs, f) = Blocks(fs, f)
      /\ \A e \in Blocks(fs, f) : e # pos[2] => cs[f].blocks[e] = fs[f].blocks[e]
      /\ \A e : Preds(cs, f, e) = Preds(fs, f, e)
  BY DEF Built, Blocks
<1>3. n \in Nat /\ Blocks(fs, f) = 1..n /\ pos[2] \in 1..n /\ n >= 1
  <2>1. n \in Nat
    BY ONLY fs \in Seq(Function), <1>1, n = Len(fs[f].blocks), FunctionFields
  <2>2. Blocks(fs, f) = 1..n
    BY ONLY n = Len(fs[f].blocks) DEF Blocks
  <2>3. PICK b : b = pos[2]
    OBVIOUS
  <2>4. b \in 1..n
    BY ONLY <1>1, <2>2, <2>3
  <2>5. n >= 1
    BY ONLY <2>1, <2>4
  <2> QED
    BY ONLY <2>1, <2>2, <2>3, <2>4, <2>5
<1>4. PICK b : b = pos[2]
  BY Zenon
<1>5. PICK new : ForkedBy(cs, hs, f, dom, new, b, n)
  <2>1. /\ b \in Blocks(cs, f) /\ Unclosed(cs[f].blocks[b])
        /\ Held(cs, f, dom[b], x.args[1]) /\ Adds(cs, gs, f, b, x)
    BY <1>1, <1>2, <1>4
  <2> QED
    BY <1>2, <2>1, ForkFine
<1>6. /\ CodeFine(hs, f, new) /\ Prolongs(cs, f, dom, new) /\ Richer(cs, hs, f)
      /\ hs \in Seq(Function) /\ f \in 1..Len(hs) /\ Blocks(hs, f) = 1..(n + 3)
      /\ Closed(hs[f].blocks[b])
      /\ \A e \in 1..n : e # b => hs[f].blocks[e] = cs[f].blocks[e]
      /\ \A e \in 1..n : Preds(hs, f, e) = Preds(cs, f, e)
      /\ \A e \in (n + 1)..(n + 3) :
           new[e] = dom[b] \cup {e} /\ Len(hs[f].blocks[e]) = 0
      /\ Preds(hs, f, n + 3) = {}
  BY Zenon, <1>2, <1>3, <1>5 DEF ForkedBy
<1>7. Prolongs(fs, f, dom, new) /\ Richer(fs, hs, f)
  <2>1. Richer(fs, hs, f)
    BY <1>1, <1>2, <1>6, RicherTwice
  <2> QED
    BY Zenon, <1>2, <1>6, <2>1 DEF Prolongs
<1>8. PICK else, merge : else = <<f, n + 2>> /\ merge = <<f, n + 3>>
  OBVIOUS
<1>9. Ahead(g) = {else, merge} /\ Ahead(h) = {}
  BY <1>8 DEF Ahead
<1>10. Over(s, Len(s), pos) = {pos}
  BY Zenon, OverTop
<1>11. Over(t, Len(s) + 1, to) = {to} /\ Over(t, Len(s), to) = {to, else, merge}
  <2>1. Len(s)..Len(t) = {Len(s), Len(s) + 1} /\ (Len(s) + 1)..Len(t) = {Len(s) + 1}
    <3>1. PICK k \in Nat : k = Len(s)
      OBVIOUS
    <3>2. k..(k + 1) = {k, k + 1} /\ (k + 1)..(k + 1) = {k + 1}
      BY ONLY k \in Nat
    <3>3. Len(t) = k + 1
      BY <3>1
    <3> QED
      BY ONLY <3>1, <3>2, <3>3
  <2>2. {to} \cup UNION {Ahead(t[k]) : k \in {Len(s), Len(s) + 1}} = {to, else, merge}
    BY ONLY <1>9, g = t[Len(s)], h = t[Len(s) + 1]
  <2>3. {to} \cup UNION {Ahead(t[k]) : k \in {Len(s) + 1}} = {to}
    BY ONLY <1>9, h = t[Len(s) + 1]
  <2> QED
    BY <2>1, <2>2, <2>3 DEF Over
<1>12. /\ to[1] = f /\ to[2] = n + 1 /\ else[1] = f /\ else[2] = n + 2
       /\ merge[1] = f /\ merge[2] = n + 3
  BY Zenon, <1>8
<1>13. to \in Places(hs) /\ else \in Places(hs) /\ merge \in Places(hs)
  <2>1. /\ n + 1 \in 1..(n + 3) /\ n + 2 \in 1..(n + 3) /\ n + 3 \in 1..(n + 3)
        /\ n + 1 \in Nat /\ n + 2 \in Nat /\ n + 3 \in Nat
    BY <1>3, ThreeMore
  <2>3. f \in Nat
    BY ONLY <1>1, fs \in Seq(Function), FunctionFields
  <2>2. to \in Pos /\ else \in Pos /\ merge \in Pos
    BY <1>8, <2>1, <2>3 DEF Pos
  <2> QED
    BY <1>6, <1>12, <2>1, <2>2 DEF Places
<1>14. \A p \in {to, else, merge} : p \notin Places(fs) /\ dom[pos[2]] \subseteq new[p[2]]
  <2>1. /\ n + 1 \notin 1..n /\ n + 2 \notin 1..n /\ n + 3 \notin 1..n
        /\ n + 1 \in (n + 1)..(n + 3) /\ n + 2 \in (n + 1)..(n + 3)
        /\ n + 3 \in (n + 1)..(n + 3)
    BY ONLY <1>3, ThreeMore
  <2>2. ASSUME NEW p \in {to, else, merge}
        PROVE  p[1] = f /\ p[2] \notin 1..n /\ p[2] \in (n + 1)..(n + 3)
    BY <1>12, <2>1
  <2>3. ASSUME NEW p \in {to, else, merge}
        PROVE  p \notin Places(fs)
    BY <1>3, <2>2 DEF Places
  <2>4. ASSUME NEW p \in {to, else, merge}
        PROVE  dom[pos[2]] \subseteq new[p[2]]
    <3>1. new[p[2]] = dom[b] \cup {p[2]}
      BY Zenon, <1>6, <2>2
    <3> QED
      BY <1>4, <3>1
  <2> QED
    BY <2>3, <2>4
<1>15. Unclosed(hs[f].blocks[to[2]])
  <2>1. n + 1 \in (n + 1)..(n + 3)
    BY ONLY <1>3, ThreeMore
  <2>2. Len(hs[f].blocks[n + 1]) = 0
    BY ONLY <1>6, <2>1
  <2>3. 1..Len(hs[f].blocks[n + 1]) = {}
    BY ONLY <2>2, NoneBefore
  <2> QED
    BY Zenon, <1>12, <2>3 DEF Unclosed
<1>16. Untouched(fs, hs, f, {pos})
  <2>1. ASSUME NEW e \in Blocks(fs, f), <<f, e>> # pos
        PROVE  hs[f].blocks[e] = fs[f].blocks[e] /\ Preds(hs, f, e) = Preds(fs, f, e)
    <3>1. e # b /\ e \in 1..n /\ e # pos[2]
      BY Zenon, <1>1, <1>3, <1>4, <2>1
    <3>2. hs[f].blocks[e] = cs[f].blocks[e] /\ Preds(hs, f, e) = Preds(cs, f, e)
      BY Zenon, <1>6, <3>1
    <3> QED
      BY <1>2, <3>1, <3>2
  <2> QED
    BY Zenon, <2>1 DEF Untouched
<1>17. ASSUME NEW e \in Blocks(hs, f)
       PROVE  \/ Closed(hs[f].blocks[e])
              \/ <<f, e>> \in {to, else, merge}
              \/ e \in Blocks(fs, f) /\ <<f, e>> \notin {pos}
  <2>1. CASE e = b
    BY <1>6, <2>1
  <2>2. CASE e \in 1..n /\ e # b
    <3>1. pos = <<f, b>>
      BY ONLY <1>1, <1>4
    <3>2. <<f, e>> # pos
      BY ONLY <2>2, <3>1
    <3> QED
      BY ONLY <1>3, <2>2, <3>2
  <2>3. CASE e = n + 1 \/ e = n + 2 \/ e = n + 3
    BY <1>8, <2>3
  <2>4. e \in 1..n \/ e = n + 1 \/ e = n + 2 \/ e = n + 3
    <3>1. e \in 1..(n + 3)
      BY <1>6
    <3> QED
      BY <1>3, <3>1, ThreeMore
  <2> QED
    BY Zenon, <2>1, <2>2, <2>3, <2>4
<1>18. CodeGoesOn(fs, hs, f, dom, new, s, t, pos, to)
  BY Zenon, <1>6, <1>7, <1>10, <1>11, <1>12, <1>13, <1>14, <1>15, <1>16, <1>17 DEF CodeGoesOn
<1>19. FrameFine(hs, bs, f, new, g, {to})
  <2>1. /\ n + 2 \in (n + 1)..(n + 3) /\ n + 3 \in (n + 1)..(n + 3)
        /\ n + 1 \in (n + 1)..(n + 3)
        /\ n + 2 # 1 /\ n + 3 # 1 /\ n + 2 # n + 1 /\ n + 3 # n + 1 /\ n + 2 # n + 3
    BY Zenon, <1>3, ThreeMore
  <2>2. /\ new[n + 1] = dom[b] \cup {n + 1} /\ new[n + 2] = dom[b] \cup {n + 2}
        /\ new[n + 3] = dom[b] \cup {n + 3}
        /\ Len(hs[f].blocks[n + 2]) = 0 /\ Len(hs[f].blocks[n + 3]) = 0
    BY Zenon, <1>6, <2>1
  <2>3. else # to /\ merge # to /\ else # merge
    BY Zenon, <1>12, <2>1
  <2>4. Awaits(hs, f, new, else, {to})
    BY <1>12, <1>13, <2>1, <2>2, <2>3 DEF Awaits
  <2>5. Awaits(hs, f, new, merge, {to})
    BY Zenon, <1>12, <1>13, <2>1, <2>2, <2>3 DEF Awaits
  <2>6. Preds(hs, f, merge[2]) = {} /\ new[merge[2]] \ {merge[2]} \subseteq new[else[2]]
    BY Zenon, <1>6, <1>12, <2>2
  <2> QED
    BY <1>8, <1>9, <2>3, <2>4, <2>5, <2>6 DEF FrameFine, Keeping
<1> QED
  BY <1>11, <1>18, <1>19

-----------------------------------------------------------------------------
(* Every function that is generated, or was.                               *)

(* The failure of something in body frame i is on its way there. *)
DoomedIn(s, i, v) ==
  \/ s[Len(s)].pc \in Waiting /\ v = NULL
  \/ \E j \in (i + 1)..Len(s) : s[j].pc = "rhs" /\ s[j].vals[1] = NULL

(* A block of the function of body frame i was left and stays open. *)
Abandoned(s, i, fs, pos) ==
  \E b \in Blocks(fs, s[i].fn) : /\ Unclosed(fs[s[i].fn].blocks[b])
                                 /\ <<s[i].fn, b>> \notin Over(s, i + 1, pos)

(* The functions have definitions of their own, and those of the body      *)
(* frames are open; a frame below another has a definition nested in its.  *)
Making(s, ns, fs) ==
  /\ \A f \in 1..Len(fs) : Len(fs[f].blocks) >= 1 /\ fs[f].def \in 1..Len(ns)
  /\ \A f, g \in 1..Len(fs) : fs[f].def = fs[g].def => f = g
  /\ \A i \in 1..Len(s) : s[i].pc = "body" =>
       /\ fs[s[i].fn].state = "open" /\ fs[s[i].fn].def = s[i].node
       /\ s[i].fn \in 1..Len(fs)
  /\ \A i, k \in 1..Len(s) : i < k /\ s[i].pc = "body" /\ s[k].pc = "body" =>
       s[i].fn # s[k].fn /\ Nests(ns, s[i].node)

ScopesOK(ns) == \A n \in 1..Len(ns) : ns[n].scope \in 0..Len(ns)

(* The frames that are in no body are at the top level. *)
Outside(s, ns) ==
  \A k \in 1..Len(s) :
    (\A j \in 1..k : s[j].pc # "body") => Around(ns, s[k].node) = 0

Sane(s, i, ns, fs, pos, v) ==
  \/ DoomedIn(s, i, v)
  \/ Nests(ns, s[i].node) /\ Abandoned(s, i, fs, pos)
  \/ ~Nests(ns, s[i].node) /\ Valid(s, i, ns, fs, pos, v)

Verdicts(ns, fs) ==
  \A f \in 1..Len(fs) : /\ fs[f].state = "rejected" => Nests(ns, fs[f].def)
                        /\ fs[f].state = "verified" => ~Nests(ns, fs[f].def)

AllSane(s, ns, fs, pos, v) ==
  /\ \A i \in 1..Len(s) : s[i].pc = "body" => Sane(s, i, ns, fs, pos, v)
  /\ Verdicts(ns, fs)

Framed(s, ns, fs) == Making(s, ns, fs) /\ ScopesOK(ns) /\ Outside(s, ns)

VInv ==
  /\ Framed(stack, ast, funcs)
  /\ ub = {} => AllSane(stack, ast, funcs, at, ret)

-----------------------------------------------------------------------------
(* A step that neither begins nor ends a definition.                       *)

Elsewhere(fs, gs, U) ==
  /\ Len(gs) = Len(fs)
  /\ \A f \in 1..Len(fs) :
       /\ SameHead(fs[f], gs[f]) /\ Len(fs[f].blocks) <= Len(gs[f].blocks)
       /\ \A b \in Blocks(fs, f) : <<f, b>> \notin U => gs[f].blocks[b] = fs[f].blocks[b]

NoDefs(ns, bs) ==
  \A n \in 1..Len(bs) : /\ bs[n].scope \in 0..Len(bs)
                        /\ bs[n].type = "FUNCDEF" => n \in 1..Len(ns)

DoomPassed(s, v, t, w) ==
  \/ s[Len(s)].pc \in Waiting /\ v = NULL
  \/ s[Len(s)].pc = "rhs" /\ s[Len(s)].vals[1] = NULL
  =>
  \/ Len(t) = Len(s) - 1 /\ w = NULL
  \/ Len(t) >= Len(s) /\ t[Len(s)].pc = "rhs" /\ t[Len(s)].vals[1] = NULL

(* The stack s becomes t. *)
Moves(s, t, bs) ==
  /\ Follows(s, t) /\ s[Len(s)].pc # "body"
  /\ \A k \in Len(s)..Len(t) : /\ t[k].pc # "body"
                               /\ Around(bs, t[k].node) = Around(bs, s[Len(s)].node)

NearPlaces(s, t, fs, pos, to) ==
  \A p \in Over(t, Len(s), to) : p \in Over(s, Len(s), pos) \/ p \notin Places(fs)

(* The nodes that were there nest what they did. *)
LEMMA NestsSame ==
  ASSUME NEW ns \in Seq(Node), NEW bs \in Seq(Node), Kept(ns, bs), NoDefs(ns, bs), NEW d
  PROVE  Nests(bs, d) <=> Nests(ns, d)
<1>1. Nests(ns, d) => Nests(bs, d)
  BY NestsKept
<1>2. ASSUME Nests(bs, d) PROVE Nests(ns, d)
  <2>1. PICK n \in 1..Len(bs) : bs[n].type = "FUNCDEF" /\ bs[n].scope = d
    BY <1>2 DEF Nests
  <2>2. n \in 1..Len(ns)
    BY <2>1 DEF NoDefs
  <2>3. ns[n].type = "FUNCDEF" /\ ns[n].scope = d
    BY <2>1, <2>2 DEF Kept
  <2> QED
    BY <2>2, <2>3 DEF Nests
<1> QED
  BY <1>1, <1>2

(* The body frames are those that were there. *)
LEMMA MovesBody ==
  ASSUME NEW s, NEW t, NEW bs, Moves(s, t, bs), NEW k \in 1..Len(t), t[k].pc = "body"
  PROVE  k \in 1..(Len(s) - 1) /\ k \in 1..Len(s) /\ t[k] = s[k]
<1>1. Len(s) \in Nat /\ Len(t) \in Nat /\ Len(t) <= Len(s) + 1
  BY DEF Moves, Follows
<1>2. k \notin Len(s)..Len(t)
  BY DEF Moves
<1>3. k \in 1..(Len(s) - 1)
  BY <1>1, <1>2
<1> QED
  BY <1>1, <1>3 DEF Moves, Follows

LEMMA MakingGoes ==
  ASSUME NEW ns \in Seq(Node), NEW bs \in Seq(Node), Kept(ns, bs), NoDefs(ns, bs),
         NEW fs \in Seq(Function), NEW gs, NEW U, Elsewhere(fs, gs, U),
         gs \in Seq(Function),
         NEW s, NEW t, Moves(s, t, bs), Making(s, ns, fs)
  PROVE  Making(t, bs, gs)
<1>1. Len(ns) \in Nat /\ Len(bs) \in Nat /\ Len(ns) <= Len(bs) /\ Len(gs) = Len(fs)
  BY DEF Kept, Elsewhere
<1>2. ASSUME NEW f \in 1..Len(gs)
      PROVE  /\ f \in 1..Len(fs) /\ gs[f].def = fs[f].def /\ gs[f].state = fs[f].state
             /\ Len(gs[f].blocks) >= 1 /\ gs[f].def \in 1..Len(bs)
  <2>1. f \in 1..Len(fs)
    BY <1>1
  <2>2. gs[f].def = fs[f].def /\ gs[f].state = fs[f].state
        /\ Len(fs[f].blocks) <= Len(gs[f].blocks)
    BY <2>1 DEF Elsewhere, SameHead
  <2>3. Len(fs[f].blocks) >= 1 /\ fs[f].def \in 1..Len(ns)
    BY <2>1 DEF Making
  <2>4. Len(fs[f].blocks) \in Nat /\ Len(gs[f].blocks) \in Nat
    BY <2>1, FunctionFields
  <2>5. Len(gs[f].blocks) >= 1
    BY <2>2, <2>3, <2>4
  <2>6. fs[f].def \in 1..Len(bs)
    BY <1>1, <2>3
  <2> QED
    BY <2>1, <2>2, <2>5, <2>6
<1>3. ASSUME NEW f \in 1..Len(gs), NEW g \in 1..Len(gs), gs[f].def = gs[g].def
      PROVE  f = g
  <2>1. /\ f \in 1..Len(fs) /\ g \in 1..Len(fs)
        /\ gs[f].def = fs[f].def /\ gs[g].def = fs[g].def
    BY <1>2
  <2> QED
    BY <1>3, <2>1 DEF Making
<1>4. ASSUME NEW i \in 1..Len(t), t[i].pc = "body"
      PROVE  /\ gs[t[i].fn].state = "open" /\ gs[t[i].fn].def = t[i].node
             /\ t[i].fn \in 1..Len(gs)
  <2>1. i \in 1..Len(s) /\ t[i] = s[i]
    BY <1>4, MovesBody
  <2>2. /\ fs[s[i].fn].state = "open" /\ fs[s[i].fn].def = s[i].node
        /\ s[i].fn \in 1..Len(fs)
    BY <1>4, <2>1 DEF Making
  <2>3. s[i].fn \in 1..Len(gs)
    BY <1>1, <2>2
  <2>4. gs[s[i].fn].def = fs[s[i].fn].def /\ gs[s[i].fn].state = fs[s[i].fn].state
    BY <1>2, <2>3
  <2> QED
    BY <2>1, <2>2, <2>3, <2>4
<1>5. ASSUME NEW i \in 1..Len(t), NEW k \in 1..Len(t), i < k,
             t[i].pc = "body", t[k].pc = "body"
      PROVE  t[i].fn # t[k].fn /\ Nests(bs, t[i].node)
  <2>1. i \in 1..Len(s) /\ t[i] = s[i] /\ k \in 1..Len(s) /\ t[k] = s[k]
    BY <1>5, MovesBody
  <2>2. s[i].fn # s[k].fn /\ Nests(ns, s[i].node)
    BY <1>5, <2>1 DEF Making
  <2>3. Nests(bs, s[i].node)
    BY <2>2, NestsKept
  <2> QED
    BY <2>1, <2>2, <2>3
<1> QED
  BY <1>2, <1>3, <1>4, <1>5 DEF Making

LEMMA OutsideGoes ==
  ASSUME NEW ns \in Seq(Node), NEW bs \in Seq(Node), Kept(ns, bs),
         NEW fs \in Seq(Function), NEW s, IsStack(s, ns, fs),
         NEW t, Moves(s, t, bs), Outside(s, ns)
  PROVE  Outside(t, bs)
<1>1. /\ Len(s) \in Nat /\ Len(t) \in Nat /\ Len(t) <= Len(s) + 1 /\ Len(s) >= 1
      /\ \A j \in 1..(Len(s) - 1) : t[j] = s[j]
  BY DEF Moves, Follows, IsStack
<1>2. ASSUME NEW k \in 1..Len(s), \A j \in 1..k : s[j].pc # "body"
      PROVE  Around(bs, s[k].node) = 0
  <2>1. Around(ns, s[k].node) = 0
    BY <1>2 DEF Outside
  <2>2. s[k].node \in 0..Len(ns)
    BY FrameNode
  <2> QED
    BY <2>1, <2>2, AroundKept
<1>3. ASSUME NEW k \in 1..Len(t), \A j \in 1..k : t[j].pc # "body"
      PROVE  Around(bs, t[k].node) = 0
  <2>1. CASE k \in 1..(Len(s) - 1)
    <3>1. k \in 1..Len(s) /\ t[k] = s[k]
      BY <1>1, <2>1
    <3>2. ASSUME NEW j \in 1..k PROVE s[j].pc # "body"
      <4>1. t[j] = s[j]
        BY <1>1, <2>1
      <4> QED
        BY <1>3, <4>1
    <3> QED
      BY <1>2, <3>1, <3>2
  <2>2. CASE k \in Len(s)..Len(t)
    <3>1. ASSUME NEW j \in 1..Len(s) PROVE s[j].pc # "body"
      <4>1. CASE j = Len(s)
        BY <4>1 DEF Moves
      <4>2. CASE j # Len(s)
        <5>1. j \in 1..(Len(s) - 1) /\ j \in 1..k
          BY <1>1, <2>2, <4>2
        <5> QED
          BY <1>1, <1>3, <5>1
      <4> QED
        BY <4>1, <4>2
    <3>2. Len(s) \in 1..Len(s)
      BY <1>1
    <3>3. Around(bs, s[Len(s)].node) = 0
      BY <1>2, <3>1, <3>2
    <3> QED
      BY <2>2, <3>3 DEF Moves
  <2> QED
    BY <1>1, <2>1, <2>2
<1> QED
  BY <1>3 DEF Outside

LEMMA DoomGoes ==
  ASSUME NEW s, NEW t, NEW bs, Moves(s, t, bs), Suspended(s),
         NEW v, NEW w, DoomPassed(s, v, t, w),
         NEW i \in 1..(Len(s) - 1), DoomedIn(s, i, v)
  PROVE  DoomedIn(t, i, w)
<1>1. /\ Len(s) \in Nat /\ Len(t) \in Nat /\ Len(t) \in (Len(s) - 1)..(Len(s) + 1)
      /\ \A j \in 1..(Len(s) - 1) : t[j] = s[j]
  BY DEF Moves, Follows
<1>2. CASE \/ s[Len(s)].pc \in Waiting /\ v = NULL
           \/ s[Len(s)].pc = "rhs" /\ s[Len(s)].vals[1] = NULL
  <2>1. \/ Len(t) = Len(s) - 1 /\ w = NULL
        \/ Len(t) >= Len(s) /\ t[Len(s)].pc = "rhs" /\ t[Len(s)].vals[1] = NULL
    BY <1>2 DEF DoomPassed
  <2>2. CASE Len(t) = Len(s) - 1 /\ w = NULL
    <3>1. Len(t) \in 1..(Len(s) - 1)
      BY <1>1, <2>2
    <3>2. t[Len(t)].pc \in Waiting
      BY <1>1, <3>1 DEF Suspended
    <3> QED
      BY <2>2, <3>2 DEF DoomedIn
  <2>3. CASE Len(t) >= Len(s) /\ t[Len(s)].pc = "rhs" /\ t[Len(s)].vals[1] = NULL
    <3>1. Len(s) \in (i + 1)..Len(t)
      BY <1>1, <2>3
    <3> QED
      BY <2>3, <3>1 DEF DoomedIn
  <2> QED
    BY <2>1, <2>2, <2>3
<1>3. CASE \E j \in (i + 1)..(Len(s) - 1) : s[j].pc = "rhs" /\ s[j].vals[1] = NULL
  <2>1. PICK j \in (i + 1)..(Len(s) - 1) : s[j].pc = "rhs" /\ s[j].vals[1] = NULL
    BY <1>3
  <2>2. j \in 1..(Len(s) - 1) /\ j \in (i + 1)..Len(t)
    BY <1>1
  <2> QED
    BY <1>1, <2>1, <2>2 DEF DoomedIn
<1>4. \A j \in (i + 1)..Len(s) : j = Len(s) \/ j \in (i + 1)..(Len(s) - 1)
  BY <1>1
<1> QED
  BY <1>2, <1>3, <1>4 DEF DoomedIn

LEMMA OverGoes ==
  ASSUME NEW s, NEW t, NEW bs, Moves(s, t, bs), NEW fs, NEW pos, NEW to,
         NearPlaces(s, t, fs, pos, to), NEW i \in 1..(Len(s) - 1)
  PROVE  \A p \in Over(t, i + 1, to) : p \in Over(s, i + 1, pos) \/ p \notin Places(fs)
<1>1. /\ Len(s) \in Nat /\ Len(t) \in Nat /\ Len(t) \in (Len(s) - 1)..(Len(s) + 1)
      /\ \A j \in 1..(Len(s) - 1) : t[j] = s[j]
  BY DEF Moves, Follows
<1>2. i + 1 \in Nat /\ i + 1 <= Len(s)
  BY <1>1
<1>3. Over(s, Len(s), pos) \subseteq Over(s, i + 1, pos)
  BY <1>1, <1>2, OverShrinks
<1>4. ASSUME NEW p \in Over(t, Len(s), to)
      PROVE  p \in Over(s, i + 1, pos) \/ p \notin Places(fs)
  BY <1>3, <1>4 DEF NearPlaces
<1>5. ASSUME NEW p \in Over(t, i + 1, to)
      PROVE  p \in Over(s, i + 1, pos) \/ p \notin Places(fs)
  <2>1. p = to \/ \E k \in (i + 1)..Len(t) : p \in Ahead(t[k])
    BY OverFrames
  <2>2. CASE p = to
    <3>1. p \in Over(t, Len(s), to)
      BY <2>2, OverFrames
    <3> QED
      BY <1>4, <3>1
  <2>3. CASE \E k \in (i + 1)..Len(t) : p \in Ahead(t[k])
    <3>1. PICK k \in (i + 1)..Len(t) : p \in Ahead(t[k])
      BY <2>3
    <3>2. CASE k \in Len(s)..Len(t)
      <4>1. p \in Over(t, Len(s), to)
        BY <3>1, <3>2, OverFrames
      <4> QED
        BY <1>4, <4>1
    <3>3. CASE k \notin Len(s)..Len(t)
      <4>1. k \in 1..(Len(s) - 1) /\ k \in (i + 1)..Len(s)
        BY <1>1, <3>3
      <4>2. p \in Ahead(s[k])
        BY <1>1, <3>1, <4>1
      <4> QED
        BY <4>1, <4>2, OverFrames
    <3> QED
      BY <3>2, <3>3
  <2> QED
    BY <2>1, <2>2, <2>3
<1> QED
  BY <1>5

LEMMA AbandonedGoes ==
  ASSUME NEW s, NEW t, NEW bs, Moves(s, t, bs),
         NEW fs \in Seq(Function), NEW gs, NEW pos, NEW to,
         NearPlaces(s, t, fs, pos, to), Elsewhere(fs, gs, Over(s, Len(s), pos)),
         gs \in Seq(Function),
         NEW i \in 1..(Len(s) - 1), s[i].fn \in 1..Len(fs), Abandoned(s, i, fs, pos)
  PROVE  Abandoned(t, i, gs, to)
<1>1. Len(s) \in Nat /\ t[i] = s[i]
  BY DEF Moves, Follows
<1>2. PICK f : f = s[i].fn
  OBVIOUS
<1>3. PICK b \in Blocks(fs, f) : /\ Unclosed(fs[f].blocks[b])
                                 /\ <<f, b>> \notin Over(s, i + 1, pos)
  BY <1>2 DEF Abandoned
<1>4. f \in 1..Len(fs) /\ f \in 1..Len(gs)
      /\ Len(fs[f].blocks) \in Nat /\ Len(gs[f].blocks) \in Nat
      /\ Len(fs[f].blocks) <= Len(gs[f].blocks)
  BY <1>2, FunctionFields DEF Elsewhere
<1>5. b \in Blocks(gs, f)
  BY <1>4 DEF Blocks
<1>6. Over(s, Len(s), pos) \subseteq Over(s, i + 1, pos)
  <2>1. i + 1 \in Nat /\ i + 1 <= Len(s)
    BY <1>1
  <2> QED
    BY <1>1, <2>1, OverShrinks
<1>7. gs[f].blocks[b] = fs[f].blocks[b]
  BY <1>3, <1>4, <1>6 DEF Elsewhere
<1>8. <<f, b>> \in Places(fs)
  <2>1. f \in Nat /\ b \in Nat
    BY <1>4, FunctionFields DEF Blocks
  <2>2. PICK p : p = <<f, b>>
    OBVIOUS
  <2>3. p \in Pos /\ p[1] = f /\ p[2] = b
    BY <2>1, <2>2 DEF Pos
  <2>4. p \in Places(fs)
    BY <1>4, <2>3 DEF Places
  <2> QED
    BY <2>2, <2>4
<1>9. <<f, b>> \notin Over(t, i + 1, to)
  BY <1>3, <1>8, OverGoes
<1> QED
  BY <1>1, <1>2, <1>3, <1>5, <1>7, <1>9 DEF Abandoned

LEMMA VerdictsGo ==
  ASSUME NEW ns \in Seq(Node), NEW bs \in Seq(Node), Kept(ns, bs), NoDefs(ns, bs),
         NEW fs, NEW gs, NEW U, Elsewhere(fs, gs, U), Verdicts(ns, fs)
  PROVE  Verdicts(bs, gs)
<1>1. ASSUME NEW f \in 1..Len(gs)
      PROVE  /\ gs[f].state = "rejected" => Nests(bs, gs[f].def)
             /\ gs[f].state = "verified" => ~Nests(bs, gs[f].def)
  <2>1. f \in 1..Len(fs) /\ gs[f].state = fs[f].state /\ gs[f].def = fs[f].def
    BY DEF Elsewhere, SameHead
  <2>2. Nests(bs, fs[f].def) <=> Nests(ns, fs[f].def)
    BY NestsSame
  <2> QED
    BY <2>1, <2>2 DEF Verdicts
<1> QED
  BY <1>1 DEF Verdicts

Goes(s, ns, fs, pos, v, t, bs, gs, to, w) ==
  /\ Moves(s, t, bs) /\ NearPlaces(s, t, fs, pos, to)
  /\ Elsewhere(fs, gs, Over(s, Len(s), pos))
  /\ DoomPassed(s, v, t, w) /\ Kept(ns, bs) /\ NoDefs(ns, bs)
  /\ gs \in Seq(Function) /\ bs \in Seq(Node)

(* What the step does to the function of body frame i. *)
StaysSane(s, ns, fs, pos, v, t, bs, gs, to, w) ==
  \A i \in 1..(Len(s) - 1) :
    s[i].pc = "body" /\ ~Nests(ns, s[i].node) /\ Valid(s, i, ns, fs, pos, v) =>
      DoomedIn(t, i, w) \/ Valid(t, i, bs, gs, to, w)

LEMMA FramedGoes ==
  ASSUME NEW ns \in Seq(Node), NEW fs \in Seq(Function), NEW s, IsStack(s, ns, fs),
         NEW pos, NEW v, NEW t, NEW bs, NEW gs, NEW to, NEW w,
         Goes(s, ns, fs, pos, v, t, bs, gs, to, w), Framed(s, ns, fs)
  PROVE  Framed(t, bs, gs)
<1>1. /\ Moves(s, t, bs) /\ Elsewhere(fs, gs, Over(s, Len(s), pos))
      /\ Kept(ns, bs) /\ NoDefs(ns, bs)
      /\ gs \in Seq(Function) /\ bs \in Seq(Node)
  BY DEF Goes
<1>2. Making(s, ns, fs) /\ Outside(s, ns)
  BY DEF Framed
<1>3. Making(t, bs, gs)
  BY <1>1, <1>2, MakingGoes
<1>4. Outside(t, bs)
  BY <1>1, <1>2, OutsideGoes
<1>5. ScopesOK(bs)
  BY <1>1 DEF NoDefs, ScopesOK
<1> QED
  BY <1>3, <1>4, <1>5 DEF Framed

LEMMA SaneGoes ==
  ASSUME NEW ns \in Seq(Node), NEW fs \in Seq(Function), NEW s, IsStack(s, ns, fs),
         Suspended(s), NEW pos, NEW v, NEW t, NEW bs, NEW gs, NEW to, NEW w,
         Goes(s, ns, fs, pos, v, t, bs, gs, to, w), Framed(s, ns, fs),
         AllSane(s, ns, fs, pos, v), StaysSane(s, ns, fs, pos, v, t, bs, gs, to, w)
  PROVE  AllSane(t, bs, gs, to, w)
<1>1. /\ Moves(s, t, bs) /\ Elsewhere(fs, gs, Over(s, Len(s), pos))
      /\ Kept(ns, bs) /\ NoDefs(ns, bs) /\ NearPlaces(s, t, fs, pos, to)
      /\ gs \in Seq(Function) /\ bs \in Seq(Node) /\ DoomPassed(s, v, t, w)
  BY DEF Goes
<1>2. Verdicts(bs, gs)
  BY <1>1, VerdictsGo DEF AllSane
<1>3. ASSUME NEW i \in 1..Len(t), t[i].pc = "body"
      PROVE  Sane(t, i, bs, gs, to, w)
  <2>1. i \in 1..(Len(s) - 1) /\ i \in 1..Len(s) /\ t[i] = s[i]
    BY <1>1, <1>3, MovesBody
  <2>2. Sane(s, i, ns, fs, pos, v)
    BY <1>3, <2>1 DEF AllSane
  <2>3. s[i].fn \in 1..Len(fs)
    BY <1>3, <2>1 DEF Framed, Making
  <2>4. Nests(bs, t[i].node) <=> Nests(ns, s[i].node)
    BY <1>1, <2>1, NestsSame
  <2>5. CASE DoomedIn(s, i, v)
    BY <1>1, <2>1, <2>5, DoomGoes DEF Sane
  <2>6. CASE Nests(ns, s[i].node) /\ Abandoned(s, i, fs, pos)
    <3>1. Abandoned(t, i, gs, to)
      BY <1>1, <2>1, <2>3, <2>6, AbandonedGoes
    <3> QED
      BY <2>4, <2>6, <3>1 DEF Sane
  <2>7. CASE ~Nests(ns, s[i].node) /\ Valid(s, i, ns, fs, pos, v)
    <3>1. DoomedIn(t, i, w) \/ Valid(t, i, bs, gs, to, w)
      BY <1>3, <2>1, <2>7 DEF StaysSane
    <3> QED
      BY <2>4, <2>7, <3>1 DEF Sane
  <2> QED
    BY <2>2, <2>5, <2>6, <2>7 DEF Sane
<1> QED
  BY <1>2, <1>3 DEF AllSane

(* A step that neither begins nor ends a definition keeps the invariant.   *)
LEMMA VStep ==
  ASSUME TypeInv, DoomInv, VInv,
         Goes(stack, ast, funcs, at, ret, stack', ast', funcs', at', ret'),
         ub \subseteq ub',
         ub' = {} => StaysSane(stack, ast, funcs, at, ret, stack', ast', funcs', at', ret')
  PROVE  VInv'
<1>1. PICK t, bs, gs, to, w : /\ t = stack' /\ bs = ast' /\ gs = funcs' /\ to = at'
                              /\ w = ret'
  OBVIOUS
<1>2. /\ ast \in Seq(Node) /\ funcs \in Seq(Function) /\ IsStack(stack, ast, funcs)
      /\ Suspended(stack) /\ Framed(stack, ast, funcs)
  BY DEF TypeInv, Typed, DoomInv, VInv
<1>3. Goes(stack, ast, funcs, at, ret, t, bs, gs, to, w)
  BY <1>1
<1>4. Framed(t, bs, gs)
  BY <1>2, <1>3, FramedGoes
<1>5. ASSUME ub' = {} PROVE AllSane(t, bs, gs, to, w)
  <2>1. ub = {}
    BY <1>5
  <2>2. AllSane(stack, ast, funcs, at, ret)
    BY <2>1 DEF VInv
  <2>3. StaysSane(stack, ast, funcs, at, ret, t, bs, gs, to, w)
    BY <1>1, <1>5
  <2> QED
    BY <1>2, <1>3, <2>2, <2>3, SaneGoes
<1> QED
  BY <1>1, <1>4, <1>5 DEF VInv

-----------------------------------------------------------------------------
(* The steps that add no code.                                             *)

LEMMA SamePlaces ==
  ASSUME NEW fs \in Seq(Function), NEW U PROVE Elsewhere(fs, fs, U)
<1>1. \A f \in 1..Len(fs) : Len(fs[f].blocks) \in Nat
  BY FunctionFields
<1> QED
  BY <1>1 DEF Elsewhere, SameHead

LEMMA QuietNear ==
  ASSUME NEW s, NEW t, \A k \in Len(s)..Len(t) : Ahead(t[k]) = {},
         NEW fs, NEW pos
  PROVE  NearPlaces(s, t, fs, pos, pos)
<1>1. Over(t, Len(s), pos) = {pos}
  BY OverNothing
<1>2. pos \in Over(s, Len(s), pos)
  BY OverFrames
<1> QED
  BY <1>1, <1>2 DEF NearPlaces

(* What the frames of t need to go on in the function of body frame i. *)
Passed(s, fs, pos, t, bs, w, i, dom) ==
  \/ w = NULL /\ Len(t) = Len(s) - 1
  \/ /\ \A k \in Len(s)..Len(t) : FrameFine(fs, bs, s[i].fn, dom, t[k], {pos})
     /\ t[Len(t)].pc \in Waiting => Held(fs, s[i].fn, dom[pos[2]], w)

Passes(s, ns, fs, pos, v, t, bs, w) ==
  \A i \in 1..(Len(s) - 1) : \A dom :
    /\ s[i].pc = "body" /\ ~Nests(ns, s[i].node)
    /\ ValidTop(fs, ns, s[i].fn, s[Len(s)], pos, v, dom)
    => Passed(s, fs, pos, t, bs, w, i, dom)

LEMMA FailDooms ==
  ASSUME NEW s, NEW t, Suspended(s), Follows(s, t), Len(t) = Len(s) - 1,
         NEW i \in 1..(Len(s) - 1)
  PROVE  DoomedIn(t, i, NULL)
<1>1. Len(t) \in 1..(Len(s) - 1)
  BY DEF Follows
<1>2. t[Len(t)] = s[Len(t)]
  BY <1>1 DEF Follows
<1> QED
  BY <1>1, <1>2 DEF Suspended, DoomedIn

LEMMA FailStays ==
  ASSUME NEW s, NEW ns, NEW fs, NEW pos, NEW v, NEW t, NEW bs, NEW gs, NEW to,
         Suspended(s), Follows(s, t), Len(t) = Len(s) - 1
  PROVE  StaysSane(s, ns, fs, pos, v, t, bs, gs, to, NULL)
BY FailDooms DEF StaysSane

LEMMA QuietStays ==
  ASSUME NEW ns \in Seq(Node), NEW bs \in Seq(Node), Kept(ns, bs),
         NEW fs \in Seq(Function), NEW s, IsStack(s, ns, fs), Suspended(s),
         NEW t, Follows(s, t), Ahead(s[Len(s)]) = {},
         \A k \in Len(s)..Len(t) : Ahead(t[k]) = {},
         NEW pos, NEW v, NEW w, Passes(s, ns, fs, pos, v, t, bs, w)
  PROVE  StaysSane(s, ns, fs, pos, v, t, bs, fs, pos, w)
<1>1. ASSUME NEW i \in 1..(Len(s) - 1), s[i].pc = "body", ~Nests(ns, s[i].node),
             Valid(s, i, ns, fs, pos, v)
      PROVE  DoomedIn(t, i, w) \/ Valid(t, i, bs, fs, pos, w)
  <2>1. PICK dom : ValidBy(s, i, ns, fs, pos, v, dom)
    BY <1>1 DEF Valid
  <2>2. Len(s) \in Nat
    BY DEF Follows
  <2>3. ValidTop(fs, ns, s[i].fn, s[Len(s)], pos, v, dom)
    BY <2>1, <2>2, ValidParts
  <2>4. Passed(s, fs, pos, t, bs, w, i, dom)
    BY <1>1, <2>3 DEF Passes
  <2>5. CASE w = NULL /\ Len(t) = Len(s) - 1
    BY <2>5, FailDooms
  <2>6. CASE /\ \A k \in Len(s)..Len(t) : FrameFine(fs, bs, s[i].fn, dom, t[k], {pos})
             /\ t[Len(t)].pc \in Waiting => Held(fs, s[i].fn, dom[pos[2]], w)
    <3>1. CodeGoesOn(fs, fs, s[i].fn, dom, dom, s, t, pos, pos)
      BY <2>1, <2>2, QuietGoesOn
    <3>2. ASSUME NEW k \in Len(s)..Len(t)
          PROVE  FrameFine(fs, bs, s[i].fn, dom, t[k], Over(t, k + 1, pos))
      <4>1. \A j \in (k + 1)..Len(t) : j \in Len(s)..Len(t)
        BY <2>2 DEF Follows
      <4>2. Over(t, k + 1, pos) = {pos}
        BY <4>1, OverNothing
      <4> QED
        BY <2>6, <4>2
    <3> QED
      BY <2>1, <2>6, <3>1, <3>2, ValidStep
  <2> QED
    BY <2>4, <2>5, <2>6 DEF Passed
<1> QED
  BY <1>1 DEF StaysSane

QuietStep(s, v, t, ns, bs, w) ==
  /\ bs \in Seq(Node) /\ Kept(ns, bs) /\ NoDefs(ns, bs)
  /\ Moves(s, t, bs) /\ DoomPassed(s, v, t, w)
  /\ \A k \in Len(s)..Len(t) : Ahead(t[k]) = {}

LEMMA QuietVInv ==
  ASSUME TypeInv, DoomInv, VInv, UNCHANGED <<funcs, at>>, ub \subseteq ub',
         QuietStep(stack, ret, stack', ast, ast', ret'),
         ub' = {} =>
           \/ ret' = NULL /\ Len(stack') = Len(stack) - 1
           \/ /\ Ahead(Top) = {}
              /\ Passes(stack, ast, funcs, at, ret, stack', ast', ret')
  PROVE  VInv'
<1>1. PICK t, bs, w : t = stack' /\ bs = ast' /\ w = ret'
  OBVIOUS
<1>2. /\ ast \in Seq(Node) /\ funcs \in Seq(Function) /\ IsStack(stack, ast, funcs)
      /\ Suspended(stack)
  BY DEF TypeInv, Typed, DoomInv
<1>3. /\ bs \in Seq(Node) /\ Kept(ast, bs) /\ NoDefs(ast, bs)
      /\ Moves(stack, t, bs) /\ DoomPassed(stack, ret, t, w)
      /\ \A k \in Len(stack)..Len(t) : Ahead(t[k]) = {}
  BY <1>1 DEF QuietStep
<1>4. Follows(stack, t)
  BY <1>3 DEF Moves
<1>5. Elsewhere(funcs, funcs, Over(stack, Len(stack), at))
  BY <1>2, SamePlaces
<1>6. NearPlaces(stack, t, funcs, at, at)
  BY <1>3, QuietNear
<1>7. Goes(stack, ast, funcs, at, ret, t, bs, funcs, at, w)
  BY <1>2, <1>3, <1>5, <1>6 DEF Goes
<1>8. ASSUME ub' = {} PROVE StaysSane(stack, ast, funcs, at, ret, t, bs, funcs, at, w)
  <2>1. CASE w = NULL /\ Len(t) = Len(stack) - 1
    BY <1>2, <1>4, <2>1, FailStays
  <2>2. CASE Ahead(Top) = {} /\ Passes(stack, ast, funcs, at, ret, t, bs, w)
    <3>1. Ahead(stack[Len(stack)]) = {}
      BY <2>2 DEF Top
    <3> QED
      BY <1>2, <1>3, <1>4, <2>2, <3>1, QuietStays
  <2> QED
    BY <1>1, <1>8, <2>1, <2>2
<1>9. Goes(stack, ast, funcs, at, ret, stack', ast', funcs', at', ret')
  BY <1>1, <1>7
<1>10. ub' = {} =>
         StaysSane(stack, ast, funcs, at, ret, stack', ast', funcs', at', ret')
  BY <1>1, <1>8
<1> QED
  BY <1>9, <1>10, VStep

-----------------------------------------------------------------------------
(* The stack after a return, a resumption and a call.                      *)

LEMMA ReturnMoves ==
  ASSUME TypeInv, Top.pc \notin Base, Top.pc # "body", NEW v, Return(v), NEW bs
  PROVE  Moves(stack, stack', bs) /\ Len(stack') = Len(stack) - 1 /\ ret' = v
<1>1. /\ stack' = SubSeq(stack, 1, Len(stack) - 1) /\ ret' = v
  BY DEF Return
<1>2. /\ Len(SubSeq(stack, 1, Len(stack) - 1)) = Len(stack) - 1
      /\ \A i \in 1..(Len(stack) - 1) : SubSeq(stack, 1, Len(stack) - 1)[i] = stack[i]
  BY PopStack
<1>3. Len(stack) \in Nat /\ Len(stack) >= 1
  BY TopType DEF TypeInv
<1>4. PICK t : t = stack'
  OBVIOUS
<1>5. Len(t) = Len(stack) - 1 /\ \A i \in 1..(Len(stack) - 1) : t[i] = stack[i]
  BY <1>1, <1>2, <1>4
<1>6. Follows(stack, t)
  BY <1>3, <1>5 DEF Follows
<1>7. \A k \in Len(stack)..Len(t) : FALSE
  BY <1>3, <1>5
<1>8. Moves(stack, t, bs)
  BY <1>6, <1>7 DEF Moves, Top
<1> QED
  BY <1>1, <1>4, <1>5, <1>8

LEMMA ResumeShape ==
  ASSUME TypeInv, NEW g
  PROVE  /\ Len(stack) \in Nat /\ Len(stack) >= 1
         /\ Len(Resume(g)) = Len(stack) /\ Resume(g)[Len(stack)] = g
         /\ \A i \in 1..(Len(stack) - 1) : Resume(g)[i] = stack[i]
         /\ \A h : LET t == Append(Resume(g), h)
                   IN /\ Len(t) = Len(stack) + 1
                      /\ t[Len(stack)] = g /\ t[Len(stack) + 1] = h
                      /\ \A i \in 1..(Len(stack) - 1) : t[i] = stack[i]
<1>1. stack \in Seq(FrameOf(ast, funcs)) /\ Len(stack) >= 1 /\ Len(stack) \in Nat
  BY TopType DEF TypeInv
<1>2. ASSUME NEW h
      PROVE  /\ Len(Resume(g)) = Len(stack) /\ Resume(g)[Len(stack)] = g
             /\ \A i \in 1..(Len(stack) - 1) : Resume(g)[i] = stack[i]
             /\ Len(Append(Resume(g), h)) = Len(stack) + 1
             /\ Append(Resume(g), h)[Len(stack)] = g
             /\ Append(Resume(g), h)[Len(stack) + 1] = h
             /\ \A i \in 1..(Len(stack) - 1) : Append(Resume(g), h)[i] = stack[i]
  <2> DEFINE S == FrameOf(ast, funcs) \cup {g, h}
  <2>1. FrameOf(ast, funcs) \subseteq S /\ g \in S /\ h \in S
    OBVIOUS
  <2>2. stack \in Seq(S)
    BY <1>1, <2>1, SeqMono
  <2> HIDE DEF S
  <2>3. PICK r : r = Resume(g)
    OBVIOUS
  <2>4. /\ r \in Seq(S) /\ Len(r) = Len(stack) /\ r[Len(stack)] = g
        /\ \A i \in 1..(Len(stack) - 1) : r[i] = stack[i]
    BY <1>1, <2>1, <2>2, <2>3, ResumeType
  <2>5. PICK t : t = Append(r, h)
    OBVIOUS
  <2>6. /\ Len(t) = Len(r) + 1 /\ t[Len(r) + 1] = h
        /\ \A i \in 1..Len(r) : t[i] = r[i]
    BY <2>1, <2>4, <2>5, AppendType
  <2>7. \A i \in 1..(Len(stack) - 1) : t[i] = stack[i]
    BY <1>1, <2>4, <2>6
  <2>8. t[Len(stack)] = g
    BY <1>1, <2>4, <2>6
  <2> QED
    BY <2>3, <2>4, <2>5, <2>6, <2>7, <2>8
<1> QED
  BY <1>1, <1>2

LEMMA ResumeMoves ==
  ASSUME TypeInv, Top.pc # "body", NEW g, stack' = Resume(g), g.pc # "body", NEW bs,
         Around(bs, g.node) = Around(bs, Top.node)
  PROVE  /\ Moves(stack, stack', bs) /\ Len(stack') = Len(stack)
         /\ stack'[Len(stack)] = g
         /\ \A k \in Len(stack)..Len(stack') : k = Len(stack)
<1>1. PICK t : t = stack'
  OBVIOUS
<1>2. /\ Len(stack) \in Nat /\ Len(stack) >= 1
      /\ Len(t) = Len(stack) /\ t[Len(stack)] = g
      /\ \A i \in 1..(Len(stack) - 1) : t[i] = stack[i]
  BY <1>1, ResumeShape
<1>3. \A k \in Len(stack)..Len(t) : k = Len(stack)
  BY <1>2
<1>4. Follows(stack, t)
  BY <1>2 DEF Follows
<1>5. Moves(stack, t, bs)
  BY <1>2, <1>3, <1>4 DEF Moves, Top
<1> QED
  BY <1>1, <1>2, <1>3, <1>5

LEMMA CallMoves ==
  ASSUME TypeInv, Top.pc # "body", NEW g, NEW h, stack' = Append(Resume(g), h),
         g.pc # "body", h.pc # "body", NEW bs,
         Around(bs, g.node) = Around(bs, Top.node),
         Around(bs, h.node) = Around(bs, Top.node)
  PROVE  /\ Moves(stack, stack', bs) /\ Len(stack') = Len(stack) + 1
         /\ stack'[Len(stack)] = g /\ stack'[Len(stack) + 1] = h
         /\ \A k \in Len(stack)..Len(stack') : k = Len(stack) \/ k = Len(stack) + 1
<1>1. PICK t : t = stack'
  OBVIOUS
<1>2. /\ Len(stack) \in Nat /\ Len(stack) >= 1
      /\ Len(t) = Len(stack) + 1 /\ t[Len(stack)] = g /\ t[Len(stack) + 1] = h
      /\ \A i \in 1..(Len(stack) - 1) : t[i] = stack[i]
  BY <1>1, ResumeShape
<1>3. \A k \in Len(stack)..Len(t) : k = Len(stack) \/ k = Len(stack) + 1
  BY <1>2
<1>4. Follows(stack, t)
  BY <1>2 DEF Follows
<1>5. Moves(stack, t, bs)
  BY <1>2, <1>3, <1>4 DEF Moves, Top
<1> QED
  BY <1>1, <1>2, <1>3, <1>5

(* Frame g, with the nodes bs, is right for the function that is           *)
(* generated, and v is a value in it.                                      *)
Suits(bs, g) ==
  \A i \in 1..(Len(stack) - 1) : \A dom :
    /\ stack[i].pc = "body" /\ ~Nests(ast, stack[i].node)
    /\ ValidTop(funcs, ast, stack[i].fn, Top, at, ret, dom)
    => FrameFine(funcs, bs, stack[i].fn, dom, g, {at})

Yields(v) ==
  \A i \in 1..(Len(stack) - 1) : \A dom :
    /\ stack[i].pc = "body" /\ ~Nests(ast, stack[i].node)
    /\ ValidTop(funcs, ast, stack[i].fn, Top, at, ret, dom)
    => Held(funcs, stack[i].fn, dom[at[2]], v)

(* A failure that the top frame knows of. *)
Failing ==
  \/ Top.pc \in Waiting /\ ret = NULL
  \/ Top.pc = "rhs" /\ Top.vals[1] = NULL

Grows == ast' \in Seq(Node) /\ Kept(ast, ast') /\ NoDefs(ast, ast')

LEMMA ReturnQuiet ==
  ASSUME TypeInv, DoomInv, VInv, UNCHANGED <<funcs, at>>, ub \subseteq ub', Grows,
         Top.pc \notin Base, Top.pc # "body", NEW v, Return(v), Failing => v = NULL,
         ub' = {} => v = NULL \/ (Ahead(Top) = {} /\ Yields(v))
  PROVE  VInv'
<1>1. PICK t, bs, w : t = stack' /\ bs = ast' /\ w = ret'
  OBVIOUS
<1>2. Moves(stack, t, bs) /\ Len(t) = Len(stack) - 1 /\ w = v
  BY <1>1, ReturnMoves
<1>3. Len(stack) \in Nat
  BY TopType DEF TypeInv
<1>4. \A k \in Len(stack)..Len(t) : FALSE
  BY <1>2, <1>3
<1>5. DoomPassed(stack, ret, t, w)
  BY <1>2 DEF DoomPassed, Failing, Top
<1>6. QuietStep(stack, ret, t, ast, bs, w)
  BY <1>1, <1>2, <1>4, <1>5 DEF QuietStep, Grows
<1>7. ASSUME Yields(v) PROVE Passes(stack, ast, funcs, at, ret, t, bs, w)
  <2>1. ASSUME NEW i \in 1..(Len(stack) - 1), NEW dom, stack[i].pc = "body",
               ~Nests(ast, stack[i].node),
               ValidTop(funcs, ast, stack[i].fn, stack[Len(stack)], at, ret, dom)
        PROVE  Passed(stack, funcs, at, t, bs, w, i, dom)
    <3>1. Held(funcs, stack[i].fn, dom[at[2]], w)
      BY <1>2, <1>7, <2>1 DEF Yields, Top
    <3> QED
      BY <1>4, <3>1 DEF Passed
  <2> QED
    BY <2>1 DEF Passes
<1>8. ub' = {} => \/ w = NULL /\ Len(t) = Len(stack) - 1
                  \/ Ahead(Top) = {} /\ Passes(stack, ast, funcs, at, ret, t, bs, w)
  BY <1>2, <1>7
<1> QED
  BY <1>1, <1>6, <1>8, QuietVInv

LEMMA ResumeQuiet ==
  ASSUME TypeInv, DoomInv, VInv, UNCHANGED <<funcs, at, ub, ret>>, Grows,
         Top.pc # "body", NEW g, stack' = Resume(g), ~Failing,
         g.pc \notin Waiting, Around(ast', g.node) = Around(ast', Top.node),
         Ahead(Top) = {}, Ahead(g) = {}, Suits(ast', g)
  PROVE  VInv'
<1>1. PICK t, bs, w : t = stack' /\ bs = ast' /\ w = ret'
  OBVIOUS
<1>2. g.pc # "body"
  BY DEF Waiting
<1>3. /\ Moves(stack, t, bs) /\ Len(t) = Len(stack) /\ t[Len(stack)] = g
      /\ \A k \in Len(stack)..Len(t) : k = Len(stack)
  BY <1>1, <1>2, ResumeMoves
<1>4. DoomPassed(stack, ret, t, w)
  BY DEF DoomPassed, Failing, Top
<1>5. QuietStep(stack, ret, t, ast, bs, w)
  BY <1>1, <1>3, <1>4 DEF QuietStep, Grows
<1>6. Passes(stack, ast, funcs, at, ret, t, bs, w)
  <2>1. ASSUME NEW i \in 1..(Len(stack) - 1), NEW dom, stack[i].pc = "body",
               ~Nests(ast, stack[i].node),
               ValidTop(funcs, ast, stack[i].fn, stack[Len(stack)], at, ret, dom)
        PROVE  Passed(stack, funcs, at, t, bs, w, i, dom)
    <3>1. FrameFine(funcs, bs, stack[i].fn, dom, g, {at})
      BY <1>1, <2>1 DEF Suits, Top
    <3> QED
      BY <1>3, <3>1 DEF Passed
  <2> QED
    BY <2>1 DEF Passes
<1>7. ub \subseteq ub'
  OBVIOUS
<1> QED
  BY <1>1, <1>5, <1>6, <1>7, QuietVInv

LEMMA CallQuiet ==
  ASSUME TypeInv, DoomInv, VInv, UNCHANGED <<funcs, at, ub>>, Grows,
         Top.pc # "body", Top.pc # "rhs", NEW g, NEW h, stack' = Append(Resume(g), h),
         g.pc # "body", h.pc \in {"expr", "block"}, Len(h.vals) = 0,
         Top.pc \in Waiting /\ ret = NULL => g.pc = "rhs" /\ g.vals[1] = NULL,
         Around(ast', g.node) = Around(ast', Top.node),
         Around(ast', h.node) = Around(ast', Top.node),
         Ahead(Top) = {}, Ahead(g) = {}, Suits(ast', g)
  PROVE  VInv'
<1>1. PICK t, bs, w : t = stack' /\ bs = ast' /\ w = ret'
  OBVIOUS
<1>2. h.pc # "body" /\ h.pc \notin Waiting /\ Ahead(h) = {}
  BY DEF Waiting, Ahead
<1>3. /\ Moves(stack, t, bs) /\ Len(t) = Len(stack) + 1
      /\ t[Len(stack)] = g /\ t[Len(stack) + 1] = h
      /\ \A k \in Len(stack)..Len(t) : k = Len(stack) \/ k = Len(stack) + 1
  <2>1. /\ Moves(stack, stack', ast') /\ Len(stack') = Len(stack) + 1
        /\ stack'[Len(stack)] = g /\ stack'[Len(stack) + 1] = h
        /\ \A k \in Len(stack)..Len(stack') : k = Len(stack) \/ k = Len(stack) + 1
    BY <1>2, CallMoves
  <2> QED
    BY ONLY <1>1, <2>1
<1>4. Len(stack) \in Nat
  BY TopType DEF TypeInv
<1>5. Len(t) >= Len(stack) /\ t[Len(t)] = h
  BY <1>3, <1>4
<1>6. DoomPassed(stack, ret, t, w)
  BY <1>3, <1>5 DEF DoomPassed, Top
<1>7. QuietStep(stack, ret, t, ast, bs, w)
  BY <1>1, <1>2, <1>3, <1>6 DEF QuietStep, Grows
<1>8. Passes(stack, ast, funcs, at, ret, t, bs, w)
  <2>1. ASSUME NEW i \in 1..(Len(stack) - 1), NEW dom, stack[i].pc = "body",
               ~Nests(ast, stack[i].node),
               ValidTop(funcs, ast, stack[i].fn, stack[Len(stack)], at, ret, dom)
        PROVE  Passed(stack, funcs, at, t, bs, w, i, dom)
    <3>1. FrameFine(funcs, bs, stack[i].fn, dom, g, {at})
      BY <1>1, <2>1 DEF Suits, Top
    <3>2. FrameFine(funcs, bs, stack[i].fn, dom, h, {at})
      BY IdleFine
    <3> QED
      BY <1>2, <1>3, <1>5, <3>1, <3>2 DEF Passed
  <2> QED
    BY <2>1 DEF Passes
<1>9. ub \subseteq ub'
  OBVIOUS
<1> QED
  BY <1>1, <1>7, <1>8, <1>9, QuietVInv

-----------------------------------------------------------------------------
(* What the AST becomes.                                                   *)

LEMMA SameGrows == ASSUME TypeInv, VInv, UNCHANGED ast PROVE Grows
<1>1. ast \in Seq(Node) /\ Kept(ast, ast) /\ ScopesOK(ast)
  BY Same DEF TypeInv, Typed, VInv, Framed
<1>2. NoDefs(ast, ast)
  BY <1>1 DEF ScopesOK, NoDefs
<1> QED
  BY <1>1, <1>2 DEF Grows

LEMMA ScopeInAst ==
  ASSUME TypeInv, ScopesOK(ast), NEW p \in 0..Len(ast)
  PROVE  ScopeOf(p) \in 0..Len(ast)
<1>1. Len(ast) \in Nat
  BY DEF TypeInv, Typed
<1>2. CASE p = 0
  BY <1>1, <1>2 DEF ScopeOf
<1>3. CASE p # 0
  <2>1. p \in 1..Len(ast)
    BY <1>1, <1>3
  <2> QED
    BY <1>3, <2>1 DEF ScopeOf, ScopesOK
<1> QED
  BY <1>2, <1>3

LEMMA MeetGrows ==
  ASSUME TypeInv, VInv, NEW p \in 0..Len(ast), NEW x \in Node, x.type # "FUNCDEF",
         x.scope = ScopeOf(p), Meet(p, x)
  PROVE  Grows
<1>1. PICK bs : bs = ast'
  OBVIOUS
<1>2. /\ bs \in Seq(Node) /\ Len(bs) = Len(ast) + 1 /\ Len(bs) = Fresh
      /\ bs[Fresh] = x /\ Kept(ast, bs)
  BY <1>1, MeetInv
<1>3. ScopesOK(ast) /\ Len(ast) \in Nat
  BY DEF VInv, Framed, TypeInv, Typed
<1>4. ScopeOf(p) \in 0..Len(ast)
  BY <1>3, ScopeInAst
<1>5. ASSUME NEW n \in 1..Len(bs)
      PROVE  /\ bs[n].scope \in 0..Len(bs)
             /\ bs[n].type = "FUNCDEF" => n \in 1..Len(ast)
  <2>1. CASE n \in 1..Len(ast)
    <3>1. bs[n].scope = ast[n].scope
      BY <1>2, <2>1 DEF Kept
    <3>2. ast[n].scope \in 0..Len(ast)
      BY <1>3, <2>1 DEF ScopesOK
    <3>3. 0..Len(ast) \subseteq 0..Len(bs)
      BY <1>2, <1>3
    <3> QED
      BY <2>1, <3>1, <3>2, <3>3
  <2>2. CASE n = Fresh
    <3>1. 0..Len(ast) \subseteq 0..Len(bs)
      BY <1>2, <1>3
    <3> QED
      BY <1>2, <1>4, <2>2, <3>1
  <2>3. n \in 1..Len(ast) \/ n = Fresh
    BY <1>2, <1>3
  <2> QED
    BY <2>1, <2>2, <2>3
<1> QED
  BY <1>1, <1>2, <1>5 DEF Grows, NoDefs

(* The expressions do_codegen meets. *)
LEMMA EnterGrows ==
  ASSUME TypeInv, VInv, EnterDbl \/ EnterVar \/ EnterBin \/ EnterCall \/ EnterIf
  PROVE  Grows /\ UNCHANGED <<funcs, at, ub>>
<1>1. /\ Top.node \in 0..Len(ast)
      /\ \E x \in Node : /\ Meet(Top.node, x) /\ x.type # "FUNCDEF"
                        /\ x.scope = ScopeOf(Top.node)
  BY EnterNodes
<1>2. UNCHANGED <<funcs, at, ub>>
  BY DEF EnterDbl, EnterVar, EnterBin, EnterCall, EnterIf, NoCode
<1> QED
  BY <1>1, <1>2, MeetGrows

-----------------------------------------------------------------------------
(* The steps of expressions and blocks that add no code.                   *)

LEMMA NextHolds ==
  ASSUME TypeInv, NEW pc, NEW node, NEW fn, NEW vals, NEW blks
  PROVE  /\ Holds([Top EXCEPT !.pc = pc], pc, Top.node, Top.vals, Top.blks, Top.fn)
         /\ Holds([Top EXCEPT !.pc = pc, !.node = node], pc, node, Top.vals, Top.blks, Top.fn)
         /\ Holds([Top EXCEPT !.pc = pc, !.node = node, !.fn = fn],
                  pc, node, Top.vals, Top.blks, fn)
         /\ Holds([Top EXCEPT !.pc = pc, !.vals = vals], pc, Top.node, vals, Top.blks, Top.fn)
         /\ Holds([Top EXCEPT !.pc = pc, !.blks = blks], pc, Top.node, Top.vals, blks, Top.fn)
         /\ Holds([Top EXCEPT !.pc = pc, !.vals = vals, !.blks = blks],
                  pc, Top.node, vals, blks, Top.fn)
<1>1. /\ Top \in FrameOf(ast, funcs) /\ ast \in Seq(Node) /\ funcs \in Seq(Function)
  BY TopType DEF TypeInv, Typed
<1>2. Top \in FrameIn(0..Len(ast), ValueOf(Len(funcs)), Places(funcs), 0..Len(funcs))
  BY <1>1, AsFrameIn
<1> QED
  BY <1>2 DEF FrameIn, Holds

LEMMA NewHolds ==
  ASSUME NEW pc, NEW node
  PROVE  Holds(NewFrame(pc, node), pc, node, <<>>, <<>>, 0) /\ Len(<<>>) = 0
BY DEF Holds, NewFrame

LEMMA NoAhead == \A g : g.pc \notin {"then", "else"} => Ahead(g) = {}
BY DEF Ahead

(* A body with no definition in it is the innermost one. *)
LEMMA OwnBody ==
  ASSUME TypeInv, ScopeInv, VInv, NEW i \in 1..Len(stack), stack[i].pc = "body",
         ~Nests(ast, stack[i].node)
  PROVE  Inner(stack, i, Len(stack)) /\ Owner(stack, ast, at, named_vals, i)
<1>1. Making(stack, ast, funcs)
  BY DEF VInv, Framed
<1>2. Len(stack) \in Nat
  BY TopType DEF TypeInv
<1>3. ASSUME NEW j \in (i + 1)..Len(stack) PROVE stack[j].pc # "body"
  <2>1. j \in 1..Len(stack) /\ i < j
    BY <1>2
  <2> QED
    BY <1>1, <2>1 DEF Making
<1>4. Inner(stack, i, Len(stack))
  BY <1>3 DEF Inner
<1> QED
  BY <1>4 DEF ScopeInv, Building

LEMMA VDbl == ASSUME TypeInv, DoomInv, VInv, EnterDbl PROVE VInv'
<1>1. Grows /\ UNCHANGED <<funcs, at, ub>>
  BY EnterGrows
<1>2. Top.pc = "expr"
  BY DEF EnterDbl, At
<1>3. PICK n \in Literals : Return(Const(n))
  BY DEF EnterDbl
<1>4. PICK v : v = Const(n)
  OBVIOUS
<1>5. v.kind = "const"
  BY <1>4 DEF Const
<1>6. Yields(v)
  BY <1>5 DEF Yields, Held
<1>7. Ahead(Top) = {} /\ Top.pc \notin Base /\ Top.pc # "body" /\ ~Failing
  BY <1>2, NoAhead DEF Base, Failing, Waiting
<1>8. Return(v) /\ ub \subseteq ub' /\ UNCHANGED <<funcs, at>>
  BY <1>1, <1>3, <1>4
<1> QED
  BY <1>1, <1>6, <1>7, <1>8, ReturnQuiet

(* A variable is a parameter of the function that is generated, or fails. *)
LEMMA VVar == ASSUME TypeInv, DoomInv, ScopeInv, VInv, EnterVar PROVE VInv'
<1>1. Grows /\ UNCHANGED <<funcs, at, ub>>
  BY EnterGrows
<1>2. Top.pc = "expr"
  BY DEF EnterVar, Enter, At
<1>3. PICK x \in ParamNames : Return(named_vals[x])
  BY DEF EnterVar
<1>4. PICK v : v = named_vals[x]
  OBVIOUS
<1>5. ASSUME v # NULL PROVE Yields(v)
  <2>1. ASSUME NEW i \in 1..(Len(stack) - 1), NEW dom, stack[i].pc = "body",
               ~Nests(ast, stack[i].node)
        PROVE  Held(funcs, stack[i].fn, dom[at[2]], v)
    <3>1. i \in 1..Len(stack) /\ IsStack(stack, ast, funcs) /\ ast \in Seq(Node)
          /\ funcs \in Seq(Function)
      <4>1. Len(stack) \in Nat
        BY TopType DEF TypeInv
      <4> QED
        BY <4>1 DEF TypeInv, Typed
    <3>2. Owner(stack, ast, at, named_vals, i)
      BY <2>1, <3>1, OwnBody
    <3>3. PICK f, params : f = stack[i].fn /\ params = ast[stack[i].node].params
      OBVIOUS
    <3>4. named_vals = Scope(f, params)
      BY <3>2, <3>3 DEF Owner
    <3>5. params \in Seq(ParamNames)
      <4>1. stack[i].node \in 1..Len(ast)
        BY <2>1, <3>1, FrameNode
      <4>2. ast[stack[i].node] \in Node
        BY <3>1, <4>1
      <4> QED
        BY <3>3, <4>2, NodeFields
    <3>6. v = Scope(f, params)[x]
      BY <1>4, <3>4
    <3>7. v = Param(f, v.i)
      BY <1>5, <3>5, <3>6, ScopeNames
    <3>8. v.kind = "param" /\ v.fn = f
      BY <3>7 DEF Param
    <3> QED
      BY <3>3, <3>8 DEF Held
  <2> QED
    BY <2>1 DEF Yields
<1>6. Ahead(Top) = {} /\ Top.pc \notin Base /\ Top.pc # "body" /\ ~Failing
  BY <1>2, NoAhead DEF Base, Failing, Waiting
<1>7. Return(v) /\ ub \subseteq ub' /\ UNCHANGED <<funcs, at>>
  BY <1>1, <1>3, <1>4
<1>8. ub' = {} => v = NULL \/ (Ahead(Top) = {} /\ Yields(v))
  BY <1>5, <1>6
<1> QED
  BY <1>1, <1>6, <1>7, <1>8, ReturnQuiet

(* Frames that wait for a value and keep none. *)
LEMMA SuitsIdle ==
  ASSUME NEW bs, NEW g,
         \/ g.pc \in Labels \ (Keeping \cup {"arg", "then", "else"})
         \/ g.pc \in {"expr", "block"} /\ Len(g.vals) = 0
  PROVE  Suits(bs, g)
BY IdleFine DEF Suits

LEMMA VBin1 == ASSUME TypeInv, DoomInv, VInv, EnterBin \/ EnterIf PROVE VInv'
<1>1. Grows /\ UNCHANGED <<funcs, at, ub>> /\ Top.pc = "expr"
      /\ Around(ast', Fresh) = Around(ast', Top.node)
  BY EnterGrows, EnterMeets
<1>2. PICK pc \in {"lhs", "cond"} : CallExpr([Top EXCEPT !.pc = pc, !.node = Fresh])
  BY DEF EnterBin, EnterIf
<1>3. PICK g : g = [Top EXCEPT !.pc = pc, !.node = Fresh]
  OBVIOUS
<1>4. g.pc = pc /\ g.node = Fresh
  BY <1>3, NextHolds DEF Holds
<1>5. PICK h : h = NewFrame("expr", g.node)
  OBVIOUS
<1>6. h.pc = "expr" /\ h.node = Fresh /\ Len(h.vals) = 0
  BY <1>4, <1>5, NewHolds DEF Holds
<1>7. stack' = Append(Resume(g), h)
  BY <1>2, <1>3, <1>5 DEF CallExpr
<1>8. g.pc \in Labels \ (Keeping \cup {"arg", "then", "else"}) /\ g.pc # "body"
  BY <1>4 DEF Labels, Keeping
<1>9. \A bs : Suits(bs, g)
  BY <1>8, SuitsIdle
<1>10. Ahead(Top) = {} /\ Ahead(g) = {} /\ Top.pc # "body" /\ Top.pc # "rhs"
       /\ Top.pc \notin Waiting
  BY <1>1, <1>8, NoAhead DEF Waiting
<1>11. /\ Around(ast', g.node) = Around(ast', Top.node)
       /\ Around(ast', h.node) = Around(ast', Top.node) /\ Suits(ast', g)
  BY <1>1, <1>4, <1>6, <1>9
<1> QED
  BY <1>1, <1>6, <1>7, <1>8, <1>10, <1>11, CallQuiet

(* What FrameFine says of a frame that keeps values, and of its callee. *)
LEMMA KeptVals ==
  ASSUME NEW ns, NEW f, NEW dom, Top.pc \in Keeping, FrameFine(funcs, ns, f, dom, Top, {at}),
         NEW m \in 1..Len(Top.vals)
  PROVE  Held(funcs, f, dom[at[2]], Top.vals[m])
BY DEF FrameFine

LEMMA VCall1 == ASSUME TypeInv, DoomInv, VInv, EnterCall PROVE VInv'
<1>1. Grows /\ UNCHANGED <<funcs, at, ub>> /\ Top.pc = "expr"
      /\ Around(ast', Fresh) = Around(ast', Top.node)
  BY EnterGrows, EnterMeets
<1>2. PICK name \in FuncNames, argc \in 0..MaxArgs :
        /\ Meet(Top.node, [Below("CALL") EXCEPT !.name = name, !.argc = argc])
        /\ IF Callable(Named(name), argc)
             THEN /\ stack' = Resume([Top EXCEPT !.pc = "args", !.node = Fresh,
                                                 !.fn = Named(name)])
                  /\ UNCHANGED ret
             ELSE Return(NULL)
  BY DEF EnterCall
<1>3. Ahead(Top) = {} /\ Top.pc \notin Base /\ Top.pc # "body" /\ ~Failing
  BY <1>1, NoAhead DEF Base, Failing, Waiting
<1>4. CASE ~Callable(Named(name), argc)
  <2>1. PICK v : v = NULL
    OBVIOUS
  <2>2. Return(v) /\ ub \subseteq ub' /\ UNCHANGED <<funcs, at>>
    BY <1>1, <1>2, <1>4, <2>1
  <2> QED
    BY <1>1, <1>3, <2>1, <2>2, ReturnQuiet
<1>5. CASE Callable(Named(name), argc)
  <2>1. PICK fn : fn = Named(name)
    OBVIOUS
  <2>2. /\ funcs[fn].state \in {"open", "verified"} /\ funcs[fn].arity = argc
    BY <1>5, <2>1, NamedType DEF Callable, Live
  <2>3. PICK g : g = [Top EXCEPT !.pc = "args", !.node = Fresh, !.fn = fn]
    OBVIOUS
  <2>4. g.pc = "args" /\ g.node = Fresh /\ g.vals = Top.vals /\ g.fn = fn
    BY <2>3, NextHolds DEF Holds
  <2>5. stack' = Resume(g) /\ UNCHANGED ret
    BY <1>2, <1>5, <2>1, <2>3
  <2>6. PICK bs : bs = ast'
    OBVIOUS
  <2>7. Fresh \in 1..Len(bs) /\ bs[Fresh].argc = argc
    <3>1. "CALL" \in NodeType /\ argc \in Nat
      BY CodegenAssumption DEF NodeType
    <3>2. PICK x : x = [Below("CALL") EXCEPT !.name = name, !.argc = argc]
      OBVIOUS
    <3>3. x \in Node /\ x.argc = argc /\ Top.node \in 0..Len(ast)
      <4>1. \A y \in Node : /\ [y EXCEPT !.name = name, !.argc = argc] \in Node
                            /\ [y EXCEPT !.name = name, !.argc = argc].argc = argc
        BY <3>1 DEF Node
      <4> QED
        BY <3>1, <3>2, <4>1, BelowType
    <3>4. bs[Fresh] = x /\ Len(bs) = Fresh /\ Len(bs) = Len(ast) + 1
      BY <1>2, <2>6, <3>2, <3>3, MeetInv
    <3>5. Len(ast) \in Nat
      BY DEF TypeInv, Typed
    <3> QED
      BY <3>3, <3>4, <3>5
  <2>8. CallFine(funcs, bs, g)
    BY <2>2, <2>4, <2>7 DEF CallFine
  <2>9. Ahead(g) = {}
    BY <2>4, NoAhead
  <2>10. Suits(bs, g)
    <3>1. ASSUME NEW i \in 1..(Len(stack) - 1), NEW dom,
                 ValidTop(funcs, ast, stack[i].fn, Top, at, ret, dom)
          PROVE  FrameFine(funcs, bs, stack[i].fn, dom, g, {at})
      <4>1. FrameFine(funcs, ast, stack[i].fn, dom, Top, {at}) /\ Top.pc \in Keeping
        BY <1>1, <3>1 DEF ValidTop, Keeping
      <4>2. \A m \in 1..Len(Top.vals) : Held(funcs, stack[i].fn, dom[at[2]], Top.vals[m])
        BY <4>1, KeptVals
      <4> QED
        BY <2>4, <2>8, <2>9, <4>2 DEF FrameFine
    <3> QED
      BY <3>1 DEF Suits
  <2>11. g.pc \notin Waiting /\ Around(ast', g.node) = Around(ast', Top.node)
    BY <1>1, <2>4 DEF Waiting
  <2>12. UNCHANGED <<funcs, at, ub, ret>> /\ Suits(ast', g)
    BY <1>1, <2>5, <2>6, <2>10
  <2> QED
    BY <1>1, <1>3, <2>5, <2>9, <2>11, <2>12, ResumeQuiet
<1> QED
  BY <1>4, <1>5

(* The right operand is generated, the value of the left one is kept. *)
LEMMA VRhs == ASSUME TypeInv, DoomInv, VInv, Rhs PROVE VInv'
<1>1. /\ Top.pc = "lhs" /\ CallExpr([Top EXCEPT !.pc = "rhs", !.vals = <<ret>>])
      /\ UNCHANGED <<ast, funcs, at, ub>>
  BY DEF Rhs, At, NoCode
<1>2. PICK g : g = [Top EXCEPT !.pc = "rhs", !.vals = <<ret>>]
  OBVIOUS
<1>3. g.pc = "rhs" /\ g.node = Top.node /\ g.vals = <<ret>>
  BY <1>2, NextHolds DEF Holds
<1>4. PICK h : h = NewFrame("expr", g.node)
  OBVIOUS
<1>5. h.pc = "expr" /\ h.node = g.node /\ Len(h.vals) = 0
  BY <1>4, NewHolds DEF Holds
<1>6. stack' = Append(Resume(g), h)
  BY <1>1, <1>2, <1>4 DEF CallExpr
<1>7. Len(g.vals) = 1 /\ g.vals[1] = ret
  BY <1>3
<1>8. Suits(ast, g)
  <2>1. ASSUME NEW i \in 1..(Len(stack) - 1), NEW dom,
               ValidTop(funcs, ast, stack[i].fn, Top, at, ret, dom)
        PROVE  FrameFine(funcs, ast, stack[i].fn, dom, g, {at})
    <3>1. Held(funcs, stack[i].fn, dom[at[2]], ret)
      BY <1>1, <2>1 DEF ValidTop, Waiting
    <3>2. \A m \in 1..Len(g.vals) : g.vals[m] = ret
      BY <1>7
    <3> QED
      BY <1>3, <3>1, <3>2 DEF FrameFine, Ahead
  <2> QED
    BY <2>1 DEF Suits
<1>9. Grows /\ Ahead(Top) = {} /\ Ahead(g) = {} /\ g.pc # "body" /\ Top.pc # "body"
      /\ Top.pc # "rhs"
  BY <1>1, <1>3, NoAhead, SameGrows
<1>10. /\ Around(ast', g.node) = Around(ast', Top.node)
       /\ Around(ast', h.node) = Around(ast', Top.node) /\ Suits(ast', g)
  BY <1>1, <1>3, <1>5, <1>8
<1> QED
  BY <1>1, <1>3, <1>5, <1>6, <1>7, <1>9, <1>10, CallQuiet

(* The next argument of a call. *)
LEMMA VNextArg == ASSUME TypeInv, DoomInv, VInv, NextArg PROVE VInv'
<1>1. /\ Top.pc = "args" /\ CallExpr([Top EXCEPT !.pc = "arg"])
      /\ UNCHANGED <<ast, funcs, at, ub>>
  BY DEF NextArg, At, NoCode
<1>2. PICK g : g = [Top EXCEPT !.pc = "arg"]
  OBVIOUS
<1>3. g.pc = "arg" /\ g.node = Top.node /\ g.vals = Top.vals /\ g.fn = Top.fn
  BY <1>2, NextHolds DEF Holds
<1>4. PICK h : h = NewFrame("expr", g.node)
  OBVIOUS
<1>5. h.pc = "expr" /\ h.node = g.node /\ Len(h.vals) = 0
  BY <1>4, NewHolds DEF Holds
<1>6. stack' = Append(Resume(g), h)
  BY <1>1, <1>2, <1>4 DEF CallExpr
<1>7. Suits(ast, g)
  <2>1. ASSUME NEW i \in 1..(Len(stack) - 1), NEW dom,
               ValidTop(funcs, ast, stack[i].fn, Top, at, ret, dom)
        PROVE  FrameFine(funcs, ast, stack[i].fn, dom, g, {at})
    <3>1. FrameFine(funcs, ast, stack[i].fn, dom, Top, {at})
      BY <2>1 DEF ValidTop
    <3> QED
      BY <1>1, <1>3, <3>1 DEF FrameFine, Ahead, Keeping, CallFine
  <2> QED
    BY <2>1 DEF Suits
<1>8. Grows /\ Ahead(Top) = {} /\ Ahead(g) = {} /\ g.pc # "body" /\ Top.pc # "body"
      /\ Top.pc # "rhs" /\ Top.pc \notin Waiting
  BY <1>1, <1>3, NoAhead, SameGrows DEF Waiting
<1>9. /\ Around(ast', g.node) = Around(ast', Top.node)
      /\ Around(ast', h.node) = Around(ast', Top.node) /\ Suits(ast', g)
  BY <1>1, <1>3, <1>5, <1>7
<1> QED
  BY <1>1, <1>5, <1>6, <1>8, <1>9, CallQuiet

(* A value more is kept. *)
LEMMA KeptMore ==
  ASSUME TypeInv, NEW g, g.vals = Append(Top.vals, ret)
  PROVE  /\ Len(g.vals) = Len(Top.vals) + 1
         /\ \A m \in 1..Len(g.vals) :
              (m \in 1..Len(Top.vals) /\ g.vals[m] = Top.vals[m]) \/ g.vals[m] = ret
<1>1. Top.vals \in Seq(ValueOf(Len(funcs))) /\ ret \in ValueOf(Len(funcs))
  BY TopType, FrameFields DEF TypeInv, Typed
<1>2. PICK vals : vals = Top.vals
  OBVIOUS
<1>3. vals \in Seq(ValueOf(Len(funcs))) /\ Len(vals) \in Nat
  BY <1>1, <1>2
<1>4. /\ Len(Append(vals, ret)) = Len(vals) + 1
      /\ Append(vals, ret)[Len(vals) + 1] = ret
      /\ \A m \in 1..Len(vals) : Append(vals, ret)[m] = vals[m]
  BY <1>1, <1>3, AppendType
<1>5. \A m \in 1..(Len(vals) + 1) : m \in 1..Len(vals) \/ m = Len(vals) + 1
  BY <1>3
<1> QED
  BY <1>2, <1>4, <1>5

LEMMA VStoreArg == ASSUME TypeInv, DoomInv, VInv, StoreArg PROVE VInv'
<1>1. /\ Top.pc = "arg" /\ UNCHANGED <<ast, funcs, at, ub>>
      /\ IF ret = NULL
           THEN Return(NULL)
           ELSE /\ stack' = Resume([Top EXCEPT !.pc = "args", !.vals = Append(@, ret)])
                /\ UNCHANGED ret
  BY DEF StoreArg, At, NoCode
<1>2. Grows /\ Ahead(Top) = {} /\ Top.pc # "body" /\ Top.pc \notin Base
  BY <1>1, NoAhead, SameGrows DEF Base
<1>3. CASE ret = NULL
  <2>1. PICK v : v = NULL
    OBVIOUS
  <2>2. Return(v) /\ ub \subseteq ub' /\ UNCHANGED <<funcs, at>>
    BY <1>1, <1>3, <2>1
  <2> QED
    BY <1>2, <2>1, <2>2, ReturnQuiet
<1>4. CASE ret # NULL
  <2>1. PICK g : g = [Top EXCEPT !.pc = "args", !.vals = Append(Top.vals, ret)]
    OBVIOUS
  <2>2. stack' = Resume(g)
    BY <1>1, <1>4, <2>1
  <2>3. g.pc = "args" /\ g.node = Top.node /\ g.fn = Top.fn /\ g.vals = Append(Top.vals, ret)
    BY <2>1, NextHolds DEF Holds
  <2>4. \A m \in 1..Len(g.vals) :
          (m \in 1..Len(Top.vals) /\ g.vals[m] = Top.vals[m]) \/ g.vals[m] = ret
    BY <2>3, KeptMore
  <2>5. Suits(ast, g)
    <3>1. ASSUME NEW i \in 1..(Len(stack) - 1), NEW dom,
                 ValidTop(funcs, ast, stack[i].fn, Top, at, ret, dom)
          PROVE  FrameFine(funcs, ast, stack[i].fn, dom, g, {at})
      <4>1. FrameFine(funcs, ast, stack[i].fn, dom, Top, {at})
            /\ Held(funcs, stack[i].fn, dom[at[2]], ret)
        BY <1>1, <3>1 DEF ValidTop, Waiting
      <4>2. \A m \in 1..Len(Top.vals) : Held(funcs, stack[i].fn, dom[at[2]], Top.vals[m])
        <5>1. Top.pc \in Keeping
          BY <1>1 DEF Keeping
        <5> QED
          BY <4>1, <5>1, KeptVals
      <4>3. \A m \in 1..Len(g.vals) : Held(funcs, stack[i].fn, dom[at[2]], g.vals[m])
        BY <2>4, <4>1, <4>2
      <4>4. CallFine(funcs, ast, g)
        <5>1. CallFine(funcs, ast, Top)
          BY <1>1, <4>1 DEF FrameFine
        <5> QED
          BY <2>3, <5>1 DEF CallFine
      <4> QED
        BY <2>3, <4>3, <4>4 DEF FrameFine, Ahead
    <3> QED
      BY <3>1 DEF Suits
  <2>6. Ahead(g) = {} /\ ~Failing /\ g.pc \notin Waiting
    BY <1>1, <1>4, <2>3, NoAhead DEF Failing, Waiting
  <2>7. UNCHANGED <<funcs, at, ub, ret>> /\ Suits(ast', g)
        /\ Around(ast', g.node) = Around(ast', Top.node)
    BY <1>1, <1>4, <2>3, <2>5
  <2> QED
    BY <1>2, <2>2, <2>6, <2>7, ResumeQuiet
<1> QED
  BY <1>3, <1>4

LEMMA VIfFails == ASSUME TypeInv, DoomInv, VInv, IfFails PROVE VInv'
<1>1. /\ Top.pc \in {"cond", "then", "else"} /\ Return(NULL)
      /\ UNCHANGED <<ast, funcs, at, ub>>
  BY DEF IfFails, At, NoCode
<1>2. Grows /\ Top.pc # "body" /\ Top.pc \notin Base
  BY <1>1, SameGrows DEF Base
<1>3. PICK v : v = NULL
  OBVIOUS
<1>4. Return(v) /\ ub \subseteq ub' /\ UNCHANGED <<funcs, at>>
  BY <1>1, <1>3
<1> QED
  BY <1>2, <1>3, <1>4, ReturnQuiet

-----------------------------------------------------------------------------
(* Blocks.                                                                 *)

LEMMA VNextStmt == ASSUME TypeInv, DoomInv, VInv, NextStmt PROVE VInv'
<1>1. /\ Top.pc = "block" /\ CallExpr([Top EXCEPT !.pc = "stmt"])
      /\ UNCHANGED <<ast, funcs, at, ub>>
  BY DEF NextStmt, At, NoCode
<1>2. PICK g : g = [Top EXCEPT !.pc = "stmt"]
  OBVIOUS
<1>3. g.pc = "stmt" /\ g.node = Top.node
  BY <1>2, NextHolds DEF Holds
<1>4. PICK h : h = NewFrame("expr", g.node)
  OBVIOUS
<1>5. h.pc = "expr" /\ h.node = g.node /\ Len(h.vals) = 0
  BY <1>4, NewHolds DEF Holds
<1>6. stack' = Append(Resume(g), h)
  BY <1>1, <1>2, <1>4 DEF CallExpr
<1>7. Suits(ast, g)
  BY <1>3, SuitsIdle DEF Labels, Keeping
<1>8. Grows /\ Ahead(Top) = {} /\ Ahead(g) = {} /\ g.pc # "body" /\ Top.pc # "body"
      /\ Top.pc # "rhs" /\ Top.pc \notin Waiting
  BY <1>1, <1>3, NoAhead, SameGrows DEF Waiting
<1>9. /\ Around(ast', g.node) = Around(ast', Top.node)
      /\ Around(ast', h.node) = Around(ast', Top.node) /\ Suits(ast', g)
  BY <1>1, <1>3, <1>5, <1>7
<1> QED
  BY <1>1, <1>5, <1>6, <1>8, <1>9, CallQuiet

LEMMA VStmtDone == ASSUME TypeInv, DoomInv, VInv, StmtDone PROVE VInv'
<1>1. /\ Top.pc = "stmt" /\ UNCHANGED <<ast, funcs, at, ub>>
      /\ IF ret = NULL
           THEN Return(NULL)
           ELSE /\ stack' = Resume([Top EXCEPT !.pc = "block", !.vals = <<ret>>])
                /\ UNCHANGED ret
  BY DEF StmtDone, At, NoCode
<1>2. Grows /\ Ahead(Top) = {} /\ Top.pc # "body" /\ Top.pc \notin Base
  BY <1>1, NoAhead, SameGrows DEF Base
<1>3. CASE ret = NULL
  <2>1. PICK v : v = NULL
    OBVIOUS
  <2>2. Return(v) /\ ub \subseteq ub' /\ UNCHANGED <<funcs, at>>
    BY <1>1, <1>3, <2>1
  <2> QED
    BY <1>2, <2>1, <2>2, ReturnQuiet
<1>4. CASE ret # NULL
  <2>1. PICK g : g = [Top EXCEPT !.pc = "block", !.vals = <<ret>>]
    OBVIOUS
  <2>2. stack' = Resume(g)
    BY <1>1, <1>4, <2>1
  <2>3. g.pc = "block" /\ g.node = Top.node /\ g.vals = <<ret>>
    BY <2>1, NextHolds DEF Holds
  <2>4. \A m \in 1..Len(g.vals) : g.vals[m] = ret
    BY <2>3
  <2>5. Suits(ast, g)
    <3>1. ASSUME NEW i \in 1..(Len(stack) - 1), NEW dom,
                 ValidTop(funcs, ast, stack[i].fn, Top, at, ret, dom)
          PROVE  FrameFine(funcs, ast, stack[i].fn, dom, g, {at})
      <4>1. Held(funcs, stack[i].fn, dom[at[2]], ret)
        BY <1>1, <3>1 DEF ValidTop, Waiting
      <4> QED
        BY <2>3, <2>4, <4>1 DEF FrameFine, Ahead
    <3> QED
      BY <3>1 DEF Suits
  <2>6. Ahead(g) = {} /\ ~Failing /\ g.pc \notin Waiting
    BY <1>1, <1>4, <2>3, NoAhead DEF Failing, Waiting
  <2>7. UNCHANGED <<funcs, at, ub, ret>> /\ Suits(ast', g)
        /\ Around(ast', g.node) = Around(ast', Top.node)
    BY <1>1, <1>4, <2>3, <2>5
  <2> QED
    BY <1>2, <2>2, <2>6, <2>7, ResumeQuiet
<1> QED
  BY <1>3, <1>4

LEMMA VBlockDone == ASSUME TypeInv, DoomInv, VInv, BlockDone PROVE VInv'
<1>1. /\ Top.pc = "block" /\ Return(Top.vals[1]) /\ Top.vals # <<>>
      /\ UNCHANGED <<ast, funcs, at, ub>>
  BY DEF BlockDone, At, NoCode
<1>2. Grows /\ Ahead(Top) = {} /\ Top.pc # "body" /\ Top.pc \notin Base /\ ~Failing
  BY <1>1, NoAhead, SameGrows DEF Base, Failing, Waiting
<1>3. PICK v : v = Top.vals[1]
  OBVIOUS
<1>4. 1 \in 1..Len(Top.vals)
  <2>1. Top.vals \in Seq(ValueOf(Len(funcs)))
    BY TopType, FrameFields DEF TypeInv, Typed
  <2> QED
    BY <1>1, <2>1
<1>5. Yields(v)
  <2>1. ASSUME NEW i \in 1..(Len(stack) - 1), NEW dom,
               ValidTop(funcs, ast, stack[i].fn, Top, at, ret, dom)
        PROVE  Held(funcs, stack[i].fn, dom[at[2]], v)
    <3>1. FrameFine(funcs, ast, stack[i].fn, dom, Top, {at}) /\ Top.pc \in Keeping
      BY <1>1, <2>1 DEF ValidTop, Keeping
    <3> QED
      BY <1>3, <1>4, <3>1, KeptVals
  <2> QED
    BY <2>1 DEF Yields
<1>6. Return(v) /\ ub \subseteq ub' /\ UNCHANGED <<funcs, at>>
  BY <1>1, <1>3
<1> QED
  BY <1>2, <1>5, <1>6, ReturnQuiet

LEMMA VEmptyBlock == ASSUME TypeInv, DoomInv, VInv, EmptyBlock PROVE VInv'
<1>1. /\ Top.pc = "block" /\ ub' = ub \cup {"uninit"} /\ UNCHANGED <<ast, funcs, at>>
      /\ \E v \in {NULL, ret} : Return(v)
  BY DEF EmptyBlock, At
<1>2. Grows /\ Top.pc # "body" /\ Top.pc \notin Base /\ ~Failing
  BY <1>1, SameGrows DEF Base, Failing, Waiting
<1>3. PICK v : Return(v)
  BY <1>1
<1>4. ub' # {} /\ ub \subseteq ub'
  BY <1>1
<1> QED
  BY <1>1, <1>2, <1>3, <1>4, ReturnQuiet

LEMMA VEvalStarts == ASSUME TypeInv, DoomInv, VInv, EvalStarts PROVE VInv'
<1>1. /\ Top.pc = "main" /\ CallBlock([Top EXCEPT !.pc = "coded"])
      /\ UNCHANGED <<funcs, at, ub, ret>>
  BY DEF EvalStarts, At, NoCode
<1>2. PICK g : g = [Top EXCEPT !.pc = "coded"]
  OBVIOUS
<1>3. g.pc = "coded" /\ g.node = Top.node
  BY <1>2, NextHolds DEF Holds
<1>4. PICK h : h = NewFrame("block", Fresh)
  OBVIOUS
<1>5. h.pc = "block" /\ h.node = Fresh /\ Len(h.vals) = 0
  BY <1>4, NewHolds DEF Holds
<1>6. stack' = Append(Resume(g), h) /\ Meet(g.node, NewNode("BLOCK", ScopeOf(g.node)))
  BY <1>1, <1>2, <1>4 DEF CallBlock
<1>7. PICK x : x = NewNode("BLOCK", ScopeOf(g.node))
  OBVIOUS
<1>8. ast \in Seq(Node) /\ g.node \in 0..Len(ast)
  BY <1>3, TopType, FrameFields DEF TypeInv, Typed
<1>9. x \in Node /\ x.type # "FUNCDEF" /\ x.scope = ScopeOf(g.node) /\ Meet(g.node, x)
  BY <1>6, <1>7, <1>8, ScopeType, NewNodeType DEF NodeType
<1>10. Grows /\ Around(ast', Fresh) = Around(ast', g.node)
  BY <1>8, <1>9, MeetGrows, MeetAround
<1>11. Suits(ast', g)
  BY <1>3, SuitsIdle DEF Labels, Keeping
<1>12. Ahead(Top) = {} /\ Ahead(g) = {} /\ g.pc # "body" /\ Top.pc # "body"
      /\ Top.pc # "rhs" /\ Top.pc \notin Waiting
  BY <1>1, <1>3, NoAhead DEF Waiting
<1>13. /\ Around(ast', g.node) = Around(ast', Top.node)
       /\ Around(ast', h.node) = Around(ast', Top.node)
  BY <1>3, <1>5, <1>10
<1> QED
  BY <1>1, <1>5, <1>6, <1>10, <1>11, <1>12, <1>13, CallQuiet

-----------------------------------------------------------------------------
(* The steps that build an instruction and return its value.               *)

LEMMA AddsElsewhere ==
  ASSUME NEW fs \in Seq(Function), NEW f \in 1..Len(fs), NEW b, NEW x, NEW gs,
         Adds(fs, gs, f, b, x), NEW U, <<f, b>> \in U
  PROVE  Elsewhere(fs, gs, U)
<1>1. Len(gs) = Len(fs)
  BY DEF Adds
<1>2. ASSUME NEW g \in 1..Len(fs)
      PROVE  /\ SameHead(fs[g], gs[g]) /\ Len(fs[g].blocks) <= Len(gs[g].blocks)
             /\ \A c \in Blocks(fs, g) : <<g, c>> \notin U => gs[g].blocks[c] = fs[g].blocks[c]
  <2>1. SameHead(fs[g], gs[g]) /\ Len(gs[g].blocks) = Len(fs[g].blocks)
    BY DEF Adds
  <2>2. Len(fs[g].blocks) \in Nat
    BY FunctionFields
  <2>3. ASSUME NEW c \in Blocks(fs, g), <<g, c>> \notin U
        PROVE  gs[g].blocks[c] = fs[g].blocks[c]
    <3>1. g # f \/ c # b
      BY Zenon, <2>3
    <3> QED
      BY <3>1 DEF Adds
  <2> QED
    BY <2>1, <2>2, <2>3
<1> QED
  BY <1>1, <1>2 DEF Elsewhere

(* x is right for the function that is generated. *)
Fitting(x) ==
  \A i \in 1..(Len(stack) - 1) : \A dom :
    /\ stack[i].pc = "body" /\ ~Nests(ast, stack[i].node)
    /\ ValidTop(funcs, ast, stack[i].fn, Top, at, ret, dom)
    => Operable(funcs, stack[i].fn, dom, at[2], x)

LEMMA BuildStays ==
  ASSUME NEW fs \in Seq(Function), NEW gs, NEW ns \in Seq(Node), NEW bs \in Seq(Node),
         Kept(ns, bs), NEW s, IsStack(s, ns, fs), Suspended(s),
         NEW t, Follows(s, t), Len(t) = Len(s) - 1, Ahead(s[Len(s)]) = {},
         NEW pos, NEW v, NEW w, NEW x \in Instr, Plainly(x),
         NEW i \in 1..(Len(s) - 1), NEW dom, ValidBy(s, i, ns, fs, pos, v, dom),
         Operable(fs, s[i].fn, dom, pos[2], x), Adds(fs, gs, s[i].fn, pos[2], x),
         w = Instruction(s[i].fn, pos[2], Len(fs[s[i].fn].blocks[pos[2]]) + 1)
  PROVE  Valid(t, i, bs, gs, pos, w)
<1>1. Len(s) \in Nat
  BY DEF Follows
<1>2. \A k \in Len(s)..Len(t) : FALSE
  BY <1>1
<1>3. /\ CodeGoesOn(fs, gs, s[i].fn, dom, dom, s, t, pos, pos)
      /\ Held(gs, s[i].fn, dom[pos[2]],
              Instruction(s[i].fn, pos[2], Len(fs[s[i].fn].blocks[pos[2]]) + 1))
  <2>1. PICK f : f = s[i].fn
    OBVIOUS
  <2>2. \A k \in Len(s)..Len(t) : Ahead(t[k]) = {}
    BY <1>2
  <2>3. Operable(fs, f, dom, pos[2], x) /\ Adds(fs, gs, f, pos[2], x)
    BY <2>1
  <2>4. /\ CodeGoesOn(fs, gs, f, dom, dom, s, t, pos, pos)
        /\ Held(gs, f, dom[pos[2]],
                Instruction(f, pos[2], Len(fs[f].blocks[pos[2]]) + 1))
    BY <1>1, <2>1, <2>2, <2>3, BuildGoesOn
  <2> QED
    BY <2>1, <2>4
<1>4. \A k \in Len(s)..Len(t) : FrameFine(gs, bs, s[i].fn, dom, t[k], Over(t, k + 1, pos))
  BY <1>2
<1>5. Held(gs, s[i].fn, dom[pos[2]], w)
  BY <1>3
<1> QED
  BY <1>3, <1>4, <1>5, ValidStep

(* The instruction built, if the operation is not folded. *)
LEMMA VBuild ==
  ASSUME TypeInv, DoomInv, VInv, UNCHANGED <<ast, at>>, ub \subseteq ub',
         Top.pc \in {"rhs", "args"}, ~Failing,
         NEW op \in Opcode, op \notin Terminators, op # "phi",
         NEW args \in Seq(Value), NEW callee \in Nat,
         NEW x, x = [op |-> op, args |-> args, to |-> <<>>, callee |-> callee],
         Fitting(x), funcs' = Insert(funcs, at, op, args, <<>>, callee),
         Return(Result(funcs, at, op, args))
  PROVE  VInv'
<1>1. PICK v : v = Result(funcs, at, op, args)
  OBVIOUS
<1>2. Ahead(Top) = {} /\ Top.pc # "body" /\ Top.pc \notin Base /\ Grows /\ Return(v)
  BY <1>1, NoAhead, SameGrows DEF Base
<1>3. /\ funcs \in Seq(Function) /\ ast \in Seq(Node) /\ IsPlace(at, funcs)
      /\ Len(stack) \in Nat /\ IsStack(stack, ast, funcs) /\ Suspended(stack)
  BY TopType DEF TypeInv, Typed, DoomInv
<1>4. at[1] = 0 \/ at \in Places(funcs)
  BY <1>3, PlaceFields
<1>5. CASE Folds(op, args) \/ at[1] = 0
  <2>1. UNCHANGED funcs
    BY <1>5 DEF Insert
  <2>2. ASSUME NEW i \in 1..(Len(stack) - 1), NEW dom,
               ValidTop(funcs, ast, stack[i].fn, Top, at, ret, dom)
        PROVE  Held(funcs, stack[i].fn, dom[at[2]], v)
    <3>1. at[1] # 0
      <4>1. at \in Places(funcs)
        BY <2>2 DEF ValidTop
      <4>2. at[1] \in 1..Len(funcs)
        BY <4>1 DEF Places
      <4> QED
        BY <1>3, <4>2
    <3>2. v = Fold(op, args)
      BY <1>1, <1>5, <3>1 DEF Result
    <3>3. v.kind = "const"
      BY <3>2 DEF Fold, Const
    <3> QED
      BY <3>3 DEF Held
  <2>3. Yields(v)
    BY <2>2 DEF Yields
  <2>4. UNCHANGED <<funcs, at>>
    BY <2>1
  <2>5. ub' = {} => v = NULL \/ (Ahead(Top) = {} /\ Yields(v))
    BY <1>2, <2>3
  <2> QED
    BY <1>2, <2>4, <2>5, ReturnQuiet
<1>6. CASE ~Folds(op, args) /\ at \in Places(funcs)
  <2>1. PICK t, bs, gs, to, w : /\ t = stack' /\ bs = ast' /\ gs = funcs' /\ to = at'
                                /\ w = ret'
    OBVIOUS
  <2>2. <<>> \in Seq(Pos)
    BY EmptyType
  <2>3. PICK none : none = <<>>
    OBVIOUS
  <2>4. x \in Instr /\ Adds(funcs, gs, at[1], at[2], x)
    <3>1. LET hs == Insert(funcs, at, op, args, none, callee)
              y == [op |-> op, args |-> args, to |-> none, callee |-> callee]
          IN /\ Folds(op, args) => hs = funcs
             /\ ~Folds(op, args) => y \in Instr /\ Adds(funcs, hs, at[1], at[2], y)
      BY <1>3, <1>6, <2>2, <2>3, InsertAdds
    <3> QED
      BY <1>6, <2>1, <2>3, <3>1
  <2>5. Plainly(x)
    BY DEF Plainly
  <2>6. /\ Moves(stack, t, bs) /\ Len(t) = Len(stack) - 1 /\ w = v
    BY <1>2, <2>1, ReturnMoves
  <2>7. \A k \in Len(stack)..Len(t) : Ahead(t[k]) = {}
    BY <1>3, <2>6
  <2>8. NearPlaces(stack, t, funcs, at, at)
    BY <2>7, QuietNear
  <2>9. Elsewhere(funcs, gs, Over(stack, Len(stack), at))
    <3>1. at = <<at[1], at[2]>> /\ at[1] \in 1..Len(funcs)
      BY <1>3, <1>6, PlacePair
    <3>2. at \in Over(stack, Len(stack), at)
      BY DEF Over
    <3>3. <<at[1], at[2]>> \in Over(stack, Len(stack), at)
      BY <3>1, <3>2
    <3> QED
      BY <1>3, <2>4, <3>1, <3>3, AddsElsewhere
  <2>10. DoomPassed(stack, ret, t, w)
    BY Zenon DEF DoomPassed, Failing, Top
  <2>11. gs \in Seq(Function) /\ to = at /\ bs = ast
    BY <2>1, <2>4 DEF Adds
  <2>12. Goes(stack, ast, funcs, at, ret, t, bs, gs, to, w)
    BY <1>2, <2>1, <2>6, <2>8, <2>9, <2>10, <2>11 DEF Goes, Grows
  <2>13. StaysSane(stack, ast, funcs, at, ret, t, bs, gs, to, w)
    <3>1. ASSUME NEW i \in 1..(Len(stack) - 1), stack[i].pc = "body",
                 ~Nests(ast, stack[i].node), Valid(stack, i, ast, funcs, at, ret)
          PROVE  Valid(t, i, bs, gs, to, w)
      <4>1. PICK dom : ValidBy(stack, i, ast, funcs, at, ret, dom)
        BY <3>1 DEF Valid
      <4>2. ValidTop(funcs, ast, stack[i].fn, stack[Len(stack)], at, ret, dom)
        BY <1>3, <4>1, ValidParts
      <4>3. stack[i].fn = at[1]
        BY <4>2 DEF ValidTop
      <4>4. Operable(funcs, stack[i].fn, dom, at[2], x)
        BY <3>1, <4>2 DEF Fitting, Top
      <4>5. w = Instruction(at[1], at[2], Len(funcs[at[1]].blocks[at[2]]) + 1)
        <5>1. at[1] # 0
          <6>1. at[1] \in 1..Len(funcs)
            BY <1>6 DEF Places
          <6> QED
            BY <1>3, <6>1
        <5> QED
          BY <1>1, <1>6, <2>6, <5>1 DEF Result, Instruction
      <4>6. Follows(stack, t) /\ Kept(ast, bs) /\ bs \in Seq(Node) /\ Ahead(stack[Len(stack)]) = {}
        BY <1>2, <2>1, <2>6 DEF Moves, Grows, Top
      <4>7. /\ Adds(funcs, gs, stack[i].fn, at[2], x)
            /\ w = Instruction(stack[i].fn, at[2], Len(funcs[stack[i].fn].blocks[at[2]]) + 1)
        BY Zenon, <2>4, <4>3, <4>5
      <4>8. Valid(t, i, bs, gs, at, w)
        BY <1>3, <2>4, <2>5, <2>6, <4>1, <4>4, <4>6, <4>7, BuildStays
      <4> QED
        BY <2>11, <4>8
    <3> QED
      BY <3>1 DEF StaysSane
  <2> QED
    BY <2>1, <2>12, <2>13, VStep
<1> QED
  BY <1>4, <1>5, <1>6

LEMMA VBin == ASSUME TypeInv, DoomInv, VInv, Bin PROVE VInv'
<1>1. PICK op, left, args : /\ op = ast[Top.node].op /\ left = Top.vals[1]
                            /\ args = <<left, ret>>
  OBVIOUS
<1>2. /\ Top.pc = "rhs" /\ UNCHANGED <<ast, at>>
      /\ IF left = NULL \/ ret = NULL
           THEN Return(NULL) /\ UNCHANGED <<funcs, ub>>
           ELSE /\ funcs' = Insert(funcs, at, op, args, <<>>, 0)
                /\ Return(Result(funcs, at, op, args))
                /\ ub \subseteq ub'
  BY <1>1 DEF Bin, At, Operands, EitherFails
<1>3. CASE left = NULL \/ ret = NULL
  <2>1. PICK v : v = NULL
    OBVIOUS
  <2>2. Return(v) /\ ub \subseteq ub' /\ UNCHANGED <<funcs, at>>
    BY <1>2, <1>3, <2>1
  <2>3. Grows /\ Top.pc # "body" /\ Top.pc \notin Base
    BY <1>2, SameGrows DEF Base
  <2> QED
    BY <2>1, <2>2, <2>3, ReturnQuiet
<1>4. CASE left # NULL /\ ret # NULL
  <2>1. PICK x : x = [op |-> op, args |-> args, to |-> <<>>, callee |-> 0]
    OBVIOUS
  <2>2. At("rhs")
    BY DEF Bin
  <2>3. op \in Ops /\ left \in ValueOf(Len(funcs)) /\ args \in Seq(ValueOf(Len(funcs)))
    BY <1>1, <2>2, BinArgs
  <2>4. args \in Seq(Value)
    <3>1. ValueOf(Len(funcs)) \subseteq Value
      BY SomeFunctions, ValueMono
    <3> QED
      BY <2>3, <3>1, SeqMono
  <2>5. op \in Opcode /\ op \notin Terminators /\ op # "phi" /\ op # "call"
    BY <2>3, CodegenAssumption DEF Opcode, Terminators
  <2>6. Fitting(x)
    <3>1. ASSUME NEW i \in 1..(Len(stack) - 1), NEW dom,
                 ValidTop(funcs, ast, stack[i].fn, Top, at, ret, dom)
          PROVE  Operable(funcs, stack[i].fn, dom, at[2], x)
      <4>1. FrameFine(funcs, ast, stack[i].fn, dom, Top, {at})
            /\ Held(funcs, stack[i].fn, dom[at[2]], ret)
        BY <1>2, <3>1 DEF ValidTop, Waiting
      <4>2. Top.pc \in Keeping
        BY <1>2 DEF Keeping
      <4>3. 1 \in 1..Len(Top.vals)
        <5>1. Fits(Top, ast)
          BY TopType, FrameFields DEF TypeInv, Typed
        <5>2. Top.pc = "rhs"
          BY <1>2
        <5>3. Len(Top.vals) = 1
          BY <5>1, <5>2 DEF Fits
        <5> QED
          BY <5>3
      <4>4. Held(funcs, stack[i].fn, dom[at[2]], left)
        BY <1>1, <4>1, <4>2, <4>3, KeptVals
      <4>5. x.args = args /\ x.op = op
        BY <2>1
      <4>6. \A j \in 1..Len(args) : args[j] = left \/ args[j] = ret
        BY <1>1
      <4> QED
        BY <2>5, <4>1, <4>4, <4>5, <4>6 DEF Operable
    <3> QED
      BY <3>1 DEF Fitting
  <2>7. ~Failing
    BY <1>1, <1>4 DEF Failing
  <2>8. PICK callee \in Nat : callee = 0
    OBVIOUS
  <2>9. /\ Top.pc \in {"rhs", "args"} /\ UNCHANGED <<ast, at>> /\ ub \subseteq ub'
        /\ x = [op |-> op, args |-> args, to |-> <<>>, callee |-> callee]
        /\ funcs' = Insert(funcs, at, op, args, <<>>, callee)
        /\ Return(Result(funcs, at, op, args))
    BY <1>2, <1>4, <2>1, <2>8
  <2> QED
    BY <2>4, <2>5, <2>6, <2>7, <2>9, VBuild
<1> QED
  BY <1>3, <1>4

LEMMA VBuildCall == ASSUME TypeInv, DoomInv, VInv, BuildCall PROVE VInv'
<1>1. PICK op, args, callee : op = "call" /\ args = Top.vals /\ callee = Top.fn
  OBVIOUS
<1>2. /\ Top.pc = "args" /\ UNCHANGED <<ast, at>> /\ ub \subseteq ub'
      /\ Len(args) = ast[Top.node].argc
      /\ funcs' = Insert(funcs, at, op, args, <<>>, callee)
      /\ Return(Result(funcs, at, op, args))
  BY <1>1 DEF BuildCall, At
<1>3. PICK x : x = [op |-> op, args |-> args, to |-> <<>>, callee |-> callee]
  OBVIOUS
<1>4. /\ args \in Seq(ValueOf(Len(funcs))) /\ callee \in 0..Len(funcs) /\ Fits(Top, ast)
      /\ Len(funcs) \in Nat
  BY <1>1, TopType, FrameFields, SomeFunctions DEF TypeInv, Typed
<1>5. callee \in 1..Len(funcs) /\ callee \in Nat
  <2>1. callee # 0
    BY <1>1, <1>2, <1>4 DEF Fits
  <2> QED
    BY <1>4, <2>1
<1>6. args \in Seq(Value)
  <2>1. ValueOf(Len(funcs)) \subseteq Value
    BY <1>4, ValueMono
  <2> QED
    BY <1>4, <2>1, SeqMono
<1>7. op \in Opcode /\ op \notin Terminators /\ op # "phi"
  BY <1>1 DEF Opcode, Terminators
<1>8. Fitting(x)
  <2>1. ASSUME NEW i \in 1..(Len(stack) - 1), NEW dom,
               ValidTop(funcs, ast, stack[i].fn, Top, at, ret, dom)
        PROVE  Operable(funcs, stack[i].fn, dom, at[2], x)
    <3>1. FrameFine(funcs, ast, stack[i].fn, dom, Top, {at}) /\ Top.pc \in Keeping
      BY <1>2, <2>1 DEF ValidTop, Keeping
    <3>2. \A j \in 1..Len(args) : Held(funcs, stack[i].fn, dom[at[2]], args[j])
      BY <1>1, <3>1, KeptVals
    <3>3. CallFine(funcs, ast, Top)
      BY <1>2, <3>1 DEF FrameFine
    <3>4. x.args = args /\ x.op = op /\ x.callee = callee
      BY <1>3
    <3> QED
      BY <1>1, <1>2, <1>5, <3>2, <3>3, <3>4 DEF Operable, CallFine
  <2> QED
    BY <2>1 DEF Fitting
<1>9. ~Failing /\ Top.pc \in {"rhs", "args"}
  BY <1>2 DEF Failing, Waiting
<1> QED
  BY <1>2, <1>3, <1>5, <1>6, <1>7, <1>8, <1>9, VBuild

-----------------------------------------------------------------------------
(* The steps of conditionals.                                              *)

LEMMA ElsewhereTwice ==
  ASSUME NEW fs \in Seq(Function), NEW gs \in Seq(Function), NEW hs \in Seq(Function),
         NEW U, Elsewhere(fs, gs, U), Elsewhere(gs, hs, U)
  PROVE  Elsewhere(fs, hs, U)
<1>1. Len(hs) = Len(fs) /\ Len(gs) = Len(fs)
  BY DEF Elsewhere
<1>2. ASSUME NEW g \in 1..Len(fs)
      PROVE  /\ SameHead(fs[g], hs[g]) /\ Len(fs[g].blocks) <= Len(hs[g].blocks)
             /\ \A c \in Blocks(fs, g) : <<g, c>> \notin U => hs[g].blocks[c] = fs[g].blocks[c]
  <2>1. SameHead(fs[g], gs[g]) /\ SameHead(gs[g], hs[g])
    BY <1>1 DEF Elsewhere
  <2>2. Len(fs[g].blocks) <= Len(gs[g].blocks) /\ Len(gs[g].blocks) <= Len(hs[g].blocks)
    BY <1>1 DEF Elsewhere
  <2>3. Len(fs[g].blocks) \in Nat /\ Len(gs[g].blocks) \in Nat /\ Len(hs[g].blocks) \in Nat
    BY <1>1, FunctionFields
  <2>4. ASSUME NEW c \in Blocks(fs, g), <<g, c>> \notin U
        PROVE  hs[g].blocks[c] = fs[g].blocks[c]
    <3>1. c \in Blocks(gs, g)
      BY <2>2, <2>3 DEF Blocks
    <3>2. gs[g].blocks[c] = fs[g].blocks[c]
      BY <2>4 DEF Elsewhere
    <3>3. hs[g].blocks[c] = gs[g].blocks[c]
      BY <1>1, <2>4, <3>1 DEF Elsewhere
    <3> QED
      BY <3>2, <3>3
  <2>5. SameHead(fs[g], hs[g])
    BY ONLY <2>1 DEF SameHead
  <2>6. Len(fs[g].blocks) <= Len(hs[g].blocks)
    <3>1. PICK a, b, c : a = Len(fs[g].blocks) /\ b = Len(gs[g].blocks) /\ c = Len(hs[g].blocks)
      OBVIOUS
    <3>2. a <= b /\ b <= c /\ a \in Nat /\ b \in Nat /\ c \in Nat
      BY ONLY <2>2, <2>3, <3>1
    <3>3. a <= c
      BY ONLY <3>2
    <3> QED
      BY ONLY <3>1, <3>3
  <2> QED
    BY ONLY <2>4, <2>5, <2>6
<1> QED
  BY <1>1, <1>2 DEF Elsewhere

LEMMA BranchesElsewhere ==
  ASSUME NEW fs \in Seq(Function), NEW f \in 1..Len(fs), NEW gs, Branches(fs, gs, f),
         NEW U
  PROVE  Elsewhere(fs, gs, U)
<1>1. Len(gs) = Len(fs)
  BY DEF Branches
<1>2. ASSUME NEW g \in 1..Len(fs)
      PROVE  /\ SameHead(fs[g], gs[g]) /\ Len(fs[g].blocks) <= Len(gs[g].blocks)
             /\ \A c \in Blocks(fs, g) : <<g, c>> \notin U => gs[g].blocks[c] = fs[g].blocks[c]
  <2>1. SameHead(fs[g], gs[g]) /\ Len(fs[g].blocks) \in Nat
    BY FunctionFields DEF Branches
  <2>2. CASE g # f
    <3>1. gs[g] = fs[g]
      BY <2>2 DEF Branches
    <3> QED
      BY <2>1, <3>1
  <2>3. CASE g = f
    BY <2>1, <2>3 DEF Branches, Blocks
  <2> QED
    BY <2>2, <2>3
<1> QED
  BY <1>1, <1>2 DEF Elsewhere

(* The condition is compared with zero, y or a constant, and x branches to *)
(* two of three blocks behind the n of f.                                  *)
Compared(f, cs, y, v) ==
  \/ cs = funcs /\ v.kind = "const"
  \/ /\ y \in Instr /\ y.op = "ONE" /\ Len(y.args) = 1 /\ y.args[1] = ret
     /\ Adds(funcs, cs, f, at[2], y)
     /\ v = Instruction(f, at[2], Len(funcs[f].blocks[at[2]]) + 1)

Forking(f, n, cs, gs, y, x) ==
  /\ at = <<f, at[2]>> /\ f \in 1..Len(funcs) /\ at[2] \in Blocks(funcs, f)
  /\ cs \in Seq(Function) /\ f \in 1..Len(cs)
  /\ x \in Instr /\ x.op = "condbr" /\ Len(x.args) = 1
  /\ Targets(x) = {<<f, n + 1>>, <<f, n + 2>>}
  /\ Compared(f, cs, y, x.args[1])
  /\ gs \in Seq(Function) /\ Adds(cs, gs, f, at[2], x)
  /\ Branches(gs, funcs', f)

LEMMA ComparedAs ==
  ASSUME TypeInv, at \in Places(funcs), NEW cs,
         cs = Insert(funcs, at, "ONE", <<ret>>, <<>>, 0)
  PROVE  \E y : Compared(at[1], cs, y, Result(funcs, at, "ONE", <<ret>>))
<1>1. PICK op, args, to, callee : op = "ONE" /\ args = <<ret>> /\ to = <<>> /\ callee = 0
  OBVIOUS
<1>2. funcs \in Seq(Function) /\ ret \in ValueOf(Len(funcs)) /\ Len(funcs) \in Nat
  BY SomeFunctions DEF TypeInv, Typed
<1>3. ret \in Value
  <2>1. ValueOf(Len(funcs)) \subseteq Value
    BY <1>2, ValueMono
  <2> QED
    BY <1>2, <2>1
<1>4. args \in Seq(Value) /\ Len(args) = 1 /\ args[1] = ret
  BY <1>1, <1>3, OneType
<1>5. to \in Seq(Pos) /\ callee \in Nat /\ op \in Opcode
  BY <1>1, EmptyType DEF Opcode
<1>6. PICK y : y = [op |-> op, args |-> args, to |-> to, callee |-> callee]
  OBVIOUS
<1>7. /\ Folds(op, args) => cs = funcs
      /\ ~Folds(op, args) => y \in Instr /\ Adds(funcs, cs, at[1], at[2], y)
  <2>1. LET gs == Insert(funcs, at, op, args, to, callee)
            x == [op |-> op, args |-> args, to |-> to, callee |-> callee]
        IN /\ Folds(op, args) => gs = funcs
           /\ ~Folds(op, args) => x \in Instr /\ Adds(funcs, gs, at[1], at[2], x)
    BY <1>2, <1>4, <1>5, InsertAdds
  <2> QED
    BY <1>1, <1>6, <2>1
<1>8. PICK v : v = Result(funcs, at, op, args)
  OBVIOUS
<1>9. CASE Folds(op, args)
  <2>1. v.kind = "const"
    BY <1>8, <1>9 DEF Result, Fold, Const
  <2> QED
    BY <1>1, <1>7, <1>8, <1>9, <2>1 DEF Compared
<1>10. CASE ~Folds(op, args)
  <2>1. at[1] # 0
    <3>1. at[1] \in 1..Len(funcs)
      BY DEF Places
    <3> QED
      BY <1>2, <3>1
  <2>2. v = Instruction(at[1], at[2], Len(funcs[at[1]].blocks[at[2]]) + 1)
    BY <1>8, <1>10, <2>1 DEF Result, Instruction
  <2>3. y.op = "ONE" /\ y.args = args
    BY <1>1, <1>6
  <2> QED
    BY <1>1, <1>4, <1>7, <1>8, <1>10, <2>2, <2>3 DEF Compared
<1> QED
  BY <1>9, <1>10

LEMMA ComparedPlace ==
  ASSUME TypeInv, at \in Places(funcs), NEW cs, NEW y, NEW v, Compared(at[1], cs, y, v)
  PROVE  /\ cs \in Seq(Function) /\ at[1] \in 1..Len(cs) /\ Len(cs) = Len(funcs)
         /\ Len(cs[at[1]].blocks) = Len(funcs[at[1]].blocks) /\ at \in Places(cs)
<1>1. funcs \in Seq(Function) /\ at[1] \in 1..Len(funcs) /\ at[2] \in Blocks(funcs, at[1])
      /\ at \in Pos
  BY Zenon DEF TypeInv, Typed, Places
<1>2. /\ cs \in Seq(Function) /\ Len(cs) = Len(funcs)
      /\ Len(cs[at[1]].blocks) = Len(funcs[at[1]].blocks)
  BY Zenon, <1>1 DEF Compared, Adds
<1> QED
  BY <1>1, <1>2 DEF Places, Blocks

LEMMA ThenForks ==
  ASSUME TypeInv, Then, NEW f, f = at[1], NEW n, n = Len(funcs[f].blocks)
  PROVE  \E cs, gs, y, x : Forking(f, n, cs, gs, y, x)
<1>1. PICK cs, gs, v : /\ cs = Insert(funcs, at, "ONE", <<ret>>, <<>>, 0)
                       /\ v = Result(funcs, at, "ONE", <<ret>>)
                       /\ gs = Insert(cs, at, "condbr", <<v>>,
                                      <<<<f, n + 1>>, <<f, n + 2>>>>, 0)
  OBVIOUS
<1>2. at[1] # 0 /\ funcs' = Branching(gs, f)
  BY <1>1 DEF Then, Branching
<1>3. at \in Places(funcs) /\ funcs \in Seq(Function) /\ ret \in ValueOf(Len(funcs))
      /\ IsPlace(at, funcs)
  BY <1>2, PlaceFields DEF TypeInv, Typed
<1>4. at = <<f, at[2]>> /\ f \in 1..Len(funcs) /\ at[2] \in Blocks(funcs, f)
  BY <1>3, PlacePair
<1>5. PICK y : Compared(f, cs, y, v)
  BY <1>1, <1>3, ComparedAs
<1>6. cs \in Seq(Function) /\ f \in 1..Len(cs) /\ at \in Places(cs)
  BY <1>3, <1>5, ComparedPlace
<1>7. v \in Value
  <2>1. PICK op, args : op = "ONE" /\ args = <<ret>>
    OBVIOUS
  <2>2. args \in Seq(ValueOf(Len(funcs))) /\ Len(args) = 1
    BY <1>3, <2>1, OneType
  <2>3. op \in Opcode /\ op \notin Ops
    BY <2>1, CodegenAssumption DEF Opcode
  <2>4. Result(funcs, at, op, args) \in ValueOf(Len(funcs))
    BY <1>3, <2>2, <2>3, ResultType
  <2>5. ValueOf(Len(funcs)) \subseteq Value
    BY SomeFunctions, ValueMono
  <2> QED
    BY <1>1, <2>1, <2>4, <2>5
<1>8. n \in Nat /\ f \in Nat
  BY <1>3, <1>4, FunctionFields
<1>9. PICK op, args, to, callee :
        /\ op = "condbr" /\ args = <<v>> /\ to = <<<<f, n + 1>>, <<f, n + 2>>>>
        /\ callee = 0
  OBVIOUS
<1>10. args \in Seq(Value) /\ Len(args) = 1 /\ args[1] = v
  BY <1>7, <1>9, OneType
<1>11. /\ to \in Seq(Pos) /\ Len(to) = 2 /\ to[1] = <<f, n + 1>> /\ to[2] = <<f, n + 2>>
  <2>1. PICK p, q : p = <<f, n + 1>> /\ q = <<f, n + 2>>
    OBVIOUS
  <2>2. n + 1 \in Nat /\ n + 2 \in Nat
    BY <1>8
  <2>3. p \in Pos /\ q \in Pos
    BY <1>8, <2>1, <2>2 DEF Pos
  <2>4. to = <<p, q>>
    BY <1>9, <2>1
  <2> QED
    BY <2>1, <2>3, <2>4
<1>12. op \in Opcode /\ callee \in Nat /\ ~Folds(op, args)
  BY <1>9, CodegenAssumption DEF Opcode, Terminators, Folds
<1>13. PICK x : x = [op |-> op, args |-> args, to |-> to, callee |-> callee]
  OBVIOUS
<1>14. x \in Instr /\ Adds(cs, gs, f, at[2], x)
  <2>1. LET hs == Insert(cs, at, op, args, to, callee)
            z == [op |-> op, args |-> args, to |-> to, callee |-> callee]
        IN /\ Folds(op, args) => hs = cs
           /\ ~Folds(op, args) => z \in Instr /\ Adds(cs, hs, at[1], at[2], z)
    BY <1>6, <1>10, <1>11, <1>12, InsertAdds
  <2> QED
    BY <1>1, <1>9, <1>12, <1>13, <2>1
<1>15. x.op = "condbr" /\ x.args = args /\ x.to = to
  BY <1>9, <1>13
<1>16. Targets(x) = {<<f, n + 1>>, <<f, n + 2>>}
  <2>1. PICK p, q : p = <<f, n + 1>> /\ q = <<f, n + 2>>
    OBVIOUS
  <2>2. to[1] = p /\ to[2] = q /\ Len(to) = 2
    BY ONLY <1>11, <2>1
  <2>3. Targets(x) = {to[j] : j \in 1..2}
    BY ONLY <1>15, <2>2 DEF Targets
  <2>4. Targets(x) = {p, q}
    BY ONLY <2>2, <2>3
  <2> QED
    BY ONLY <2>1, <2>4
<1>17. gs \in Seq(Function) /\ f \in 1..Len(gs)
  BY <1>6, <1>14 DEF Adds
<1>18. Branches(gs, funcs', f)
  BY <1>2, <1>17, BranchingType
<1> QED
  BY <1>4, <1>5, <1>6, <1>10, <1>14, <1>15, <1>16, <1>17, <1>18 DEF Forking

LEMMA ForkElsewhere ==
  ASSUME TypeInv, NEW f, NEW n, NEW cs, NEW gs, NEW y, NEW x, Forking(f, n, cs, gs, y, x),
         NEW U, at \in U
  PROVE  funcs' \in Seq(Function) /\ Elsewhere(funcs, funcs', U)
<1>1. PICK hs : hs = funcs'
  OBVIOUS
<1>2. /\ funcs \in Seq(Function) /\ cs \in Seq(Function) /\ gs \in Seq(Function)
      /\ f \in 1..Len(funcs) /\ f \in 1..Len(cs) /\ <<f, at[2]>> \in U
  BY DEF Forking, TypeInv, Typed
<1>3. Branches(gs, hs, f) /\ Adds(cs, gs, f, at[2], x)
  BY <1>1 DEF Forking
<1>4. hs \in Seq(Function) /\ f \in 1..Len(gs)
  BY <1>2, <1>3 DEF Branches, Adds
<1>5. Elsewhere(gs, hs, U)
  BY <1>2, <1>3, <1>4, BranchesElsewhere
<1>6. Elsewhere(cs, gs, U)
  BY <1>2, <1>3, AddsElsewhere
<1>7. Elsewhere(cs, hs, U)
  BY <1>2, <1>4, <1>5, <1>6, ElsewhereTwice
<1>8. Elsewhere(funcs, cs, U)
  <2>1. CASE cs = funcs
    BY <1>2, <2>1, SamePlaces
  <2>2. CASE Adds(funcs, cs, f, at[2], y)
    BY <1>2, <2>2, AddsElsewhere
  <2> QED
    BY <2>1, <2>2 DEF Forking, Compared
<1> QED
  BY <1>1, <1>2, <1>4, <1>7, <1>8, ElsewhereTwice

LEMMA ForkBuilt ==
  ASSUME TypeInv, NEW f, NEW n, NEW cs, NEW gs, NEW y, NEW x, Forking(f, n, cs, gs, y, x),
         NEW dom, CodeFine(funcs, f, dom), Unclosed(funcs[f].blocks[at[2]]),
         Held(funcs, f, dom[at[2]], ret)
  PROVE  Built(funcs, cs, f, dom, at[2]) /\ Held(cs, f, dom[at[2]], x.args[1])
<1>1. PICK b : b = at[2]
  OBVIOUS
<1>2. funcs \in Seq(Function) /\ f \in 1..Len(funcs) /\ b \in Blocks(funcs, f)
      /\ Unclosed(funcs[f].blocks[b])
  BY <1>1 DEF Forking, TypeInv, Typed
<1>3. Compared(f, cs, y, x.args[1])
  BY DEF Forking
<1>4. CASE cs = funcs /\ x.args[1].kind = "const"
  <2>1. Built(funcs, funcs, f, dom, b)
    BY <1>2, NothingBuilt
  <2> QED
    BY <1>1, <1>4, <2>1 DEF Held
<1>5. CASE /\ y \in Instr /\ y.op = "ONE" /\ Len(y.args) = 1 /\ y.args[1] = ret
           /\ Adds(funcs, cs, f, at[2], y)
           /\ x.args[1] = Instruction(f, at[2], Len(funcs[f].blocks[at[2]]) + 1)
  <2>1. Plainly(y) /\ y \in Instr /\ Adds(funcs, cs, f, b, y)
    BY <1>1, <1>5 DEF Plainly, Terminators
  <2>2. Operable(funcs, f, dom, b, y)
    BY <1>1, <1>5 DEF Operable
  <2>3. Built(funcs, cs, f, dom, b)
    BY <1>2, <2>1, <2>2, PlainBuilt
  <2>4. Continued(funcs, cs, f, dom, b)
    BY <1>2, <2>1, <2>2, PlainFine
  <2>5. Held(cs, f, dom[b], x.args[1])
    BY <1>1, <1>5, <2>4 DEF Continued
  <2> QED
    BY <1>1, <2>3, <2>5
<1> QED
  BY <1>3, <1>4, <1>5 DEF Compared

(* The frames after the step: g waits for the branch, which h generates. *)
Calling(s, t, g, h) ==
  /\ Follows(s, t) /\ Len(t) = Len(s) + 1 /\ t[Len(s)] = g /\ t[Len(s) + 1] = h
  /\ h.pc = "block" /\ Len(h.vals) = 0

LEMMA CallStays ==
  ASSUME NEW fs \in Seq(Function), NEW gs, NEW ns \in Seq(Node), NEW bs \in Seq(Node),
         Kept(ns, bs), NEW s, IsStack(s, ns, fs), NEW t, NEW g, NEW h, Calling(s, t, g, h),
         NEW i \in 1..(Len(s) - 1), NEW pos, NEW v, NEW dom, ValidBy(s, i, ns, fs, pos, v, dom),
         NEW to, NEW w, NEW new, GoesTo(fs, gs, bs, s[i].fn, dom, new, s, t, pos, to)
  PROVE  Valid(t, i, bs, gs, to, w)
<1>0. /\ CodeGoesOn(fs, gs, s[i].fn, dom, new, s, t, pos, to)
      /\ FrameFine(gs, bs, s[i].fn, new, g, Over(t, Len(s) + 1, to))
  BY DEF GoesTo, Calling
<1>1. Len(s) \in Nat /\ Follows(s, t)
  BY DEF Follows, Calling
<1>2. \A k \in Len(s)..Len(t) : k = Len(s) \/ k = Len(s) + 1
  BY <1>1 DEF Calling
<1>3. \A k \in Len(s)..Len(t) : FrameFine(gs, bs, s[i].fn, new, t[k], Over(t, k + 1, to))
  <2>1. t[Len(s)] = g /\ t[Len(s) + 1] = h
    BY DEF Calling
  <2>2. \A L : FrameFine(gs, bs, s[i].fn, new, h, L)
    BY IdleFine DEF Calling
  <2> QED
    BY <1>0, <1>2, <2>1, <2>2
<1>4. t[Len(t)].pc \in Waiting => Held(gs, s[i].fn, new[to[2]], w)
  BY DEF Calling, Waiting
<1> QED
  BY <1>0, <1>1, <1>3, <1>4, ValidStep

LEMMA ThenStays ==
  ASSUME TypeInv, Top.pc = "cond", NEW f, NEW n, NEW cs, NEW gs, NEW y, NEW x,
         Forking(f, n, cs, gs, y, x), n = Len(funcs[f].blocks),
         NEW t, NEW g, NEW h, Calling(stack, t, g, h),
         g.pc = "then", g.blks[2] = <<f, n + 2>>, g.blks[3] = <<f, n + 3>>,
         NEW bs \in Seq(Node), Kept(ast, bs), NEW to, to = <<f, n + 1>>,
         NEW hs, hs = funcs', NEW w,
         NEW i \in 1..(Len(stack) - 1), Valid(stack, i, ast, funcs, at, ret)
  PROVE  Valid(t, i, bs, hs, to, w)
<1>1. PICK s, fs, ns, pos, v : s = stack /\ fs = funcs /\ ns = ast /\ pos = at /\ v = ret
  OBVIOUS
<1>2. fs \in Seq(Function) /\ ns \in Seq(Node) /\ IsStack(s, ns, fs) /\ Len(s) \in Nat
      /\ i \in 1..(Len(s) - 1)
  BY <1>1, TopType DEF TypeInv, Typed
<1>3. PICK dom : ValidBy(s, i, ns, fs, pos, v, dom)
  BY <1>1 DEF Valid
<1>4. ValidTop(fs, ns, s[i].fn, s[Len(s)], pos, v, dom)
  BY <1>2, <1>3, ValidParts
<1>5. s[i].fn = f
  BY <1>1, <1>4 DEF ValidTop, Forking
<1>6. CodeFine(fs, f, dom) /\ Unclosed(fs[f].blocks[pos[2]]) /\ Held(fs, f, dom[pos[2]], v)
  BY <1>1, <1>4, <1>5 DEF ValidTop, Top, Waiting
<1>7. Forks(fs, cs, gs, hs, f, dom, pos[2], n, x)
  <2>1. Built(fs, cs, f, dom, pos[2]) /\ Held(cs, f, dom[pos[2]], x.args[1])
    BY <1>1, <1>6, ForkBuilt
  <2>2. n = Len(fs[f].blocks)
    BY <1>1
  <2> QED
    BY <1>1, <2>1, <2>2 DEF Forking, Forks
<1>8. Calling(s, t, g, h)
  BY <1>1 DEF Calling
<1>9. ToThen(s, t, f, n)
  <2>1. Ahead(s[Len(s)]) = {}
    BY <1>1, NoAhead DEF Top
  <2>2. Len(t) = Len(s) + 1 /\ g = t[Len(s)] /\ h = t[Len(s) + 1] /\ h.pc = "block"
        /\ Len(h.vals) = 0
    BY <1>8 DEF Calling
  <2> QED
    BY <2>1, <2>2 DEF ToThen
<1>10. PICK new : GoesTo(fs, hs, bs, s[i].fn, dom, new, s, t, pos, <<s[i].fn, n + 1>>)
  <2>1. Forks(fs, cs, gs, hs, s[i].fn, dom, pos[2], n, x) /\ ToThen(s, t, s[i].fn, n)
    BY <1>5, <1>7, <1>9
  <2> QED
    BY <1>2, <1>3, <2>1, ThenGoesOn
<1>11. GoesTo(fs, hs, bs, s[i].fn, dom, new, s, t, pos, to) /\ Kept(ns, bs)
  BY <1>1, <1>5, <1>10
<1> QED
  BY <1>2, <1>3, <1>8, <1>11, CallStays

(* The builder goes to new blocks. *)
LEMMA ThenNear ==
  ASSUME TypeInv, NEW f, NEW n, n = Len(funcs[f].blocks), f \in 1..Len(funcs),
         NEW t, NEW g, NEW h, Calling(stack, t, g, h), NEW to, to = <<f, n + 1>>,
         g.pc = "then", g.blks[2] = <<f, n + 2>>, g.blks[3] = <<f, n + 3>>
  PROVE  NearPlaces(stack, t, funcs, at, to)
<1>1. n \in Nat /\ Len(stack) \in Nat
  BY FunctionFields, TopType DEF TypeInv, Typed
<1>2. ASSUME NEW p \in Over(t, Len(stack), to)
      PROVE  p \in {to, <<f, n + 2>>, <<f, n + 3>>}
  <2>1. p = to \/ \E k \in Len(stack)..Len(t) : p \in Ahead(t[k])
    BY <1>2, OverFrames
  <2>2. \A k \in Len(stack)..Len(t) : t[k] = g \/ t[k] = h
    BY <1>1 DEF Calling
  <2>3. Ahead(h) = {} /\ Ahead(g) = {<<f, n + 2>>, <<f, n + 3>>}
    BY DEF Calling, Ahead
  <2> QED
    BY <2>1, <2>2, <2>3
<1>3. ASSUME NEW m \in {n + 1, n + 2, n + 3} PROVE <<f, m>> \notin Places(funcs)
  <2>1. m \notin 1..n
    BY <1>1
  <2>2. <<f, m>>[1] = f /\ <<f, m>>[2] = m
    OBVIOUS
  <2> QED
    BY <2>1, <2>2 DEF Places, Blocks
<1> QED
  BY <1>2, <1>3 DEF NearPlaces

LEMMA VThen == ASSUME TypeInv, DoomInv, VInv, Then PROVE VInv'
<1>1. PICK f, n : f = at[1] /\ n = Len(funcs[f].blocks)
  OBVIOUS
<1>2. PICK g : g = [Top EXCEPT !.pc = "then",
                      !.blks = <<<<f, n + 1>>, <<f, n + 2>>, <<f, n + 3>>>>]
  OBVIOUS
<1>3. /\ Top.pc = "cond" /\ ret # NULL /\ at' = <<f, n + 1>> /\ CallBlock(g)
      /\ ub \subseteq ub' /\ UNCHANGED ret
  BY <1>1, <1>2 DEF Then, At
<1>4. PICK blks : blks = <<<<f, n + 1>>, <<f, n + 2>>, <<f, n + 3>>>>
  OBVIOUS
<1>5. /\ g.pc = "then" /\ g.node = Top.node /\ g.blks = blks
  BY <1>2, <1>4, NextHolds DEF Holds
<1>6. g.blks[2] = <<f, n + 2>> /\ g.blks[3] = <<f, n + 3>>
  BY <1>4, <1>5
<1>7. PICK h : h = NewFrame("block", Fresh)
  OBVIOUS
<1>8. h.pc = "block" /\ h.node = Fresh /\ Len(h.vals) = 0
  BY <1>7, NewHolds DEF Holds
<1>9. stack' = Append(Resume(g), h) /\ Meet(g.node, NewNode("BLOCK", ScopeOf(g.node)))
  BY <1>3, <1>7 DEF CallBlock
<1>10. PICK x : x = NewNode("BLOCK", ScopeOf(g.node))
  OBVIOUS
<1>11. ast \in Seq(Node) /\ g.node \in 0..Len(ast) /\ funcs \in Seq(Function)
       /\ Len(stack) \in Nat
  BY <1>5, TopType, FrameFields DEF TypeInv, Typed
<1>12. x \in Node /\ x.type # "FUNCDEF" /\ x.scope = ScopeOf(g.node) /\ Meet(g.node, x)
  BY <1>9, <1>10, <1>11, ScopeType, NewNodeType DEF NodeType
<1>13. Grows /\ Around(ast', Fresh) = Around(ast', g.node)
  BY <1>11, <1>12, MeetGrows, MeetAround
<1>14. PICK t, bs, hs, to, w : /\ t = stack' /\ bs = ast' /\ hs = funcs' /\ to = at'
                               /\ w = ret'
  OBVIOUS
<1>15. /\ Moves(stack, t, bs) /\ Len(t) = Len(stack) + 1
       /\ t[Len(stack)] = g /\ t[Len(stack) + 1] = h
  <2>1. /\ Around(bs, g.node) = Around(bs, Top.node)
        /\ Around(bs, h.node) = Around(bs, Top.node)
    BY <1>5, <1>8, <1>13, <1>14
  <2>2. Top.pc # "body" /\ g.pc # "body" /\ h.pc # "body"
    BY <1>3, <1>5, <1>8
  <2> QED
    BY <1>9, <1>14, <2>1, <2>2, CallMoves
<1>16. Calling(stack, t, g, h)
  BY <1>8, <1>15 DEF Calling, Moves
<1>17. PICK cs, gs, y, z : Forking(f, n, cs, gs, y, z)
  BY <1>1, ThenForks
<1>18. f \in 1..Len(funcs) /\ to = <<f, n + 1>>
  BY <1>3, <1>14, <1>17 DEF Forking
<1>19. NearPlaces(stack, t, funcs, at, to)
  BY <1>1, <1>5, <1>6, <1>16, <1>18, ThenNear
<1>20. hs \in Seq(Function) /\ Elsewhere(funcs, hs, Over(stack, Len(stack), at))
  <2>1. at \in Over(stack, Len(stack), at)
    BY DEF Over
  <2> QED
    BY <1>14, <1>17, <2>1, ForkElsewhere
<1>21. DoomPassed(stack, ret, t, w)
  BY <1>3 DEF DoomPassed, Top
<1>22. bs \in Seq(Node) /\ Kept(ast, bs) /\ NoDefs(ast, bs)
  BY <1>13, <1>14 DEF Grows
<1>23. Goes(stack, ast, funcs, at, ret, t, bs, hs, to, w)
  BY <1>15, <1>19, <1>20, <1>21, <1>22 DEF Goes
<1>24. StaysSane(stack, ast, funcs, at, ret, t, bs, hs, to, w)
  <2>1. ASSUME NEW i \in 1..(Len(stack) - 1), Valid(stack, i, ast, funcs, at, ret)
        PROVE  Valid(t, i, bs, hs, to, w)
    BY <1>1, <1>3, <1>5, <1>6, <1>14, <1>16, <1>17, <1>18, <1>22, <2>1, ThenStays
  <2> QED
    BY <2>1 DEF StaysSane
<1> QED
  BY <1>3, <1>14, <1>23, <1>24, VStep

(* The place where the builder is gets a branch to p. *)
LEMMA LinkInserted ==
  ASSUME NEW fs \in Seq(Function), NEW pos \in Places(fs), NEW p \in Places(fs),
         NEW gs, gs = Insert(fs, pos, "br", <<>>, <<p>>, 0)
  PROVE  \E x : Links(fs, gs, pos[1], pos[2], x, p)
<1>1. PICK op, args, to, callee : op = "br" /\ args = <<>> /\ to = <<p>> /\ callee = 0
  OBVIOUS
<1>2. p \in Pos
  BY DEF Places
<1>3. args \in Seq(Value) /\ Len(args) = 0
  BY <1>1, EmptyType
<1>4. to \in Seq(Pos) /\ Len(to) = 1 /\ to[1] = p
  BY <1>1, <1>2, OneType
<1>5. op \in Opcode /\ callee \in Nat /\ ~Folds(op, args)
  BY <1>1, CodegenAssumption DEF Opcode, Terminators, Folds
<1>6. PICK x : x = [op |-> op, args |-> args, to |-> to, callee |-> callee]
  OBVIOUS
<1>7. x \in Instr /\ Adds(fs, gs, pos[1], pos[2], x)
  <2>1. LET hs == Insert(fs, pos, op, args, to, callee)
            z == [op |-> op, args |-> args, to |-> to, callee |-> callee]
        IN /\ Folds(op, args) => hs = fs
           /\ ~Folds(op, args) => z \in Instr /\ Adds(fs, hs, pos[1], pos[2], z)
    BY <1>3, <1>4, <1>5, InsertAdds
  <2> QED
    BY <1>1, <1>5, <1>6, <2>1
<1>8. x.op = "br" /\ x.args = args /\ x.to = to
  BY <1>1, <1>6
<1>9. Targets(x) = {p}
  <2>1. 1..Len(to) = {1}
    BY <1>4
  <2> QED
    BY <1>4, <1>8, <2>1 DEF Targets
<1> QED
  BY <1>3, <1>7, <1>8, <1>9 DEF Links

(* What Else does. *)
LEMMA ElseParts ==
  ASSUME TypeInv, Else
  PROVE  /\ Top.pc = "then" /\ ret # NULL /\ at' = Top.blks[2] /\ ub \subseteq ub'
         /\ UNCHANGED ret
         /\ \E g : /\ CallBlock(g) /\ g.pc = "else" /\ g.node = Top.node
                   /\ g.blks[1] = at /\ g.blks[3] = Top.blks[3] /\ g.vals[1] = ret
         /\ \E x : Links(funcs, funcs', at[1], at[2], x, Top.blks[3])
<1>1. PICK blks, vals : blks = [Top.blks EXCEPT ![1] = at] /\ vals = <<ret>>
  OBVIOUS
<1>2. PICK g : g = [Top EXCEPT !.pc = "else", !.vals = vals, !.blks = blks]
  OBVIOUS
<1>3. /\ CallBlock(g) /\ Top.pc = "then" /\ at' = Top.blks[2] /\ ret # NULL
      /\ funcs' = Insert(funcs, at, "br", <<>>, <<Top.blks[3]>>, 0)
      /\ ub \subseteq ub' /\ UNCHANGED ret
  BY <1>1, <1>2 DEF Else, At, BranchEnd
<1>4. Top.blks[3] \in Places(funcs) /\ at \in Places(funcs) /\ funcs \in Seq(Function)
      /\ Len(Top.blks) = 3
  BY <1>3, InFunction DEF TypeInv, Typed
<1>5. g.pc = "else" /\ g.node = Top.node /\ g.blks = blks /\ g.vals = vals
  BY <1>2, NextHolds DEF Holds
<1>6. blks[1] = at /\ blks[3] = Top.blks[3]
  <2>1. Top.blks \in Seq(Places(funcs))
    BY TopType, FrameFields DEF TypeInv, Typed
  <2>2. 1 \in 1..Len(Top.blks) /\ 3 \in 1..Len(Top.blks)
    BY <1>4
  <2> QED
    BY <1>1, <1>4, <2>1, <2>2, ExceptType
<1>7. vals[1] = ret
  BY <1>1
<1>8. \E x : Links(funcs, funcs', at[1], at[2], x, Top.blks[3])
  <2>1. PICK p, gs : p = Top.blks[3] /\ gs = funcs'
    OBVIOUS
  <2>2. gs = Insert(funcs, at, "br", <<>>, <<p>>, 0) /\ p \in Places(funcs)
    BY <1>3, <1>4, <2>1
  <2>3. \E x : Links(funcs, gs, at[1], at[2], x, p)
    BY <1>4, <2>2, LinkInserted
  <2> QED
    BY <2>1, <2>3
<1> QED
  BY <1>3, <1>5, <1>6, <1>7, <1>8

LEMMA ElseStays ==
  ASSUME TypeInv, NEW t, NEW g, NEW h, Calling(stack, t, g, h), ToElse(stack, t, at, ret),
         NEW x, NEW hs, Links(funcs, hs, at[1], at[2], x, Top.blks[3]),
         NEW bs \in Seq(Node), Kept(ast, bs), NEW to, to = Top.blks[2], NEW w,
         NEW i \in 1..(Len(stack) - 1), Valid(stack, i, ast, funcs, at, ret)
  PROVE  Valid(t, i, bs, hs, to, w)
<1>1. PICK s, fs, ns, pos, v : s = stack /\ fs = funcs /\ ns = ast /\ pos = at /\ v = ret
  OBVIOUS
<1>2. fs \in Seq(Function) /\ ns \in Seq(Node) /\ IsStack(s, ns, fs) /\ Len(s) \in Nat
      /\ i \in 1..(Len(s) - 1)
  BY <1>1, TopType DEF TypeInv, Typed
<1>3. PICK dom : ValidBy(s, i, ns, fs, pos, v, dom)
  BY <1>1 DEF Valid
<1>4. ValidTop(fs, ns, s[i].fn, s[Len(s)], pos, v, dom)
  BY <1>2, <1>3, ValidParts
<1>5. s[i].fn = pos[1]
  BY <1>4 DEF ValidTop
<1>6. Links(fs, hs, s[i].fn, pos[2], x, s[Len(s)].blks[3]) /\ ToElse(s, t, pos, v)
      /\ Calling(s, t, g, h) /\ Kept(ns, bs) /\ to = s[Len(s)].blks[2]
  BY <1>1, <1>5 DEF Top
<1>7. GoesTo(fs, hs, bs, s[i].fn, dom, dom, s, t, pos, s[Len(s)].blks[2])
  BY <1>2, <1>3, <1>6, ElseGoesOn
<1>8. GoesTo(fs, hs, bs, s[i].fn, dom, dom, s, t, pos, to)
  BY <1>6, <1>7
<1> QED
  BY <1>2, <1>3, <1>6, <1>8, CallStays

LEMMA VElse == ASSUME TypeInv, DoomInv, VInv, Else PROVE VInv'
<1>1. /\ Top.pc = "then" /\ ret # NULL /\ at' = Top.blks[2] /\ ub \subseteq ub'
      /\ UNCHANGED ret
  BY ElseParts
<1>2. PICK g : /\ CallBlock(g) /\ g.pc = "else" /\ g.node = Top.node
               /\ g.blks[1] = at /\ g.blks[3] = Top.blks[3] /\ g.vals[1] = ret
  BY ElseParts
<1>3. PICK x : Links(funcs, funcs', at[1], at[2], x, Top.blks[3])
  BY ElseParts
<1>7. PICK h : h = NewFrame("block", Fresh)
  OBVIOUS
<1>8. h.pc = "block" /\ h.node = Fresh /\ Len(h.vals) = 0
  BY <1>7, NewHolds DEF Holds
<1>9. stack' = Append(Resume(g), h) /\ Meet(g.node, NewNode("BLOCK", ScopeOf(g.node)))
  BY <1>2, <1>7 DEF CallBlock
<1>10. PICK y : y = NewNode("BLOCK", ScopeOf(g.node))
  OBVIOUS
<1>11. ast \in Seq(Node) /\ g.node \in 0..Len(ast) /\ funcs \in Seq(Function)
       /\ Len(stack) \in Nat
  BY <1>2, TopType, FrameFields DEF TypeInv, Typed
<1>12. y \in Node /\ y.type # "FUNCDEF" /\ y.scope = ScopeOf(g.node) /\ Meet(g.node, y)
  BY <1>9, <1>10, <1>11, ScopeType, NewNodeType DEF NodeType
<1>13. Grows /\ Around(ast', Fresh) = Around(ast', g.node)
  BY <1>11, <1>12, MeetGrows, MeetAround
<1>14. PICK t, bs, hs, to, w : /\ t = stack' /\ bs = ast' /\ hs = funcs' /\ to = at'
                               /\ w = ret'
  OBVIOUS
<1>15. /\ Moves(stack, t, bs) /\ Len(t) = Len(stack) + 1
       /\ t[Len(stack)] = g /\ t[Len(stack) + 1] = h
  <2>1. /\ Around(bs, g.node) = Around(bs, Top.node)
        /\ Around(bs, h.node) = Around(bs, Top.node)
    BY <1>2, <1>8, <1>13, <1>14
  <2>2. Top.pc # "body" /\ g.pc # "body" /\ h.pc # "body"
    BY <1>1, <1>2, <1>8
  <2> QED
    BY <1>9, <1>14, <2>1, <2>2, CallMoves
<1>16. Calling(stack, t, g, h)
  BY <1>8, <1>15 DEF Calling, Moves
<1>17. ToElse(stack, t, at, ret)
  BY <1>1, <1>2, <1>8, <1>15 DEF ToElse, Top
<1>18. to = Top.blks[2] /\ Links(funcs, hs, at[1], at[2], x, Top.blks[3])
  BY <1>1, <1>3, <1>14
<1>19. NearPlaces(stack, t, funcs, at, to)
  <2>1. ASSUME NEW p \in Over(t, Len(stack), to)
        PROVE  p \in {Top.blks[2], Top.blks[3]}
    <3>1. p = to \/ \E k \in Len(stack)..Len(t) : p \in Ahead(t[k])
      BY <2>1, OverFrames
    <3>2. \A k \in Len(stack)..Len(t) : t[k] = g \/ t[k] = h
      BY <1>11, <1>15
    <3>3. Ahead(h) = {} /\ Ahead(g) = {Top.blks[3]}
      BY <1>2, <1>8 DEF Ahead
    <3> QED
      BY <1>18, <3>1, <3>2, <3>3
  <2>2. Over(stack, Len(stack), at) = {at} \cup Ahead(stack[Len(stack)])
    BY <1>11, OverTop
  <2>3. Ahead(stack[Len(stack)]) = {Top.blks[2], Top.blks[3]}
    BY <1>1 DEF Ahead, Top
  <2> QED
    BY <2>1, <2>2, <2>3 DEF NearPlaces
<1>20. hs \in Seq(Function) /\ Elsewhere(funcs, hs, Over(stack, Len(stack), at))
  <2>1. at \in Places(funcs)
    BY <1>1, InFunction
  <2>2. at = <<at[1], at[2]>> /\ at[1] \in 1..Len(funcs)
    BY <2>1, PlacePair
  <2>3. <<at[1], at[2]>> \in Over(stack, Len(stack), at)
    BY <2>2 DEF Over
  <2>4. Adds(funcs, hs, at[1], at[2], x)
    BY Zenon, <1>18 DEF Links
  <2>5. hs \in Seq(Function)
    BY <2>4 DEF Adds
  <2> QED
    BY <1>11, <2>2, <2>3, <2>4, <2>5, AddsElsewhere
<1>21. DoomPassed(stack, ret, t, w)
  BY <1>1 DEF DoomPassed, Top
<1>22. bs \in Seq(Node) /\ Kept(ast, bs) /\ NoDefs(ast, bs)
  BY <1>13, <1>14 DEF Grows
<1>23. Goes(stack, ast, funcs, at, ret, t, bs, hs, to, w)
  BY <1>15, <1>19, <1>20, <1>21, <1>22 DEF Goes
<1>24. StaysSane(stack, ast, funcs, at, ret, t, bs, hs, to, w)
  <2>1. ASSUME NEW i \in 1..(Len(stack) - 1), Valid(stack, i, ast, funcs, at, ret)
        PROVE  Valid(t, i, bs, hs, to, w)
    BY Zenon, <1>16, <1>17, <1>18, <1>22, <2>1, ElseStays
  <2> QED
    BY <2>1 DEF StaysSane
<1> QED
  BY <1>1, <1>14, <1>23, <1>24, VStep

(* What Phi does. *)
LEMMA PhiSteps ==
  ASSUME TypeInv, Phi
  PROVE  /\ Top.pc = "else" /\ ret # NULL /\ at' = Top.blks[3] /\ ub \subseteq ub'
         /\ UNCHANGED ast
         /\ \E cs, x, y :
              /\ Links(funcs, cs, at[1], at[2], x, Top.blks[3])
              /\ Meets(cs, funcs', Top.blks[3][1], stack, at, ret, y)
              /\ Return(Instruction(Top.blks[3][1], Top.blks[3][2],
                                    Len(cs[Top.blks[3][1]].blocks[Top.blks[3][2]]) + 1))
<1>1. PICK merge, cs : merge = Top.blks[3] /\ cs = Insert(funcs, at, "br", <<>>, <<merge>>, 0)
  OBVIOUS
<1>2. PICK op, args, to, callee : /\ op = "phi" /\ args = <<Top.vals[1], ret>>
                                  /\ to = <<Top.blks[1], at>> /\ callee = 0
  OBVIOUS
<1>3. /\ Top.pc = "else" /\ ret # NULL /\ at' = merge /\ ub \subseteq ub' /\ UNCHANGED ast
      /\ funcs' = Insert(cs, merge, op, args, to, callee)
      /\ Return(Result(cs, merge, op, args))
  BY <1>1, <1>2 DEF Phi, At, Incoming, BranchEnd
<1>4. merge \in Places(funcs) /\ at \in Places(funcs) /\ funcs \in Seq(Function)
  BY <1>1, <1>3, InFunction DEF TypeInv, Typed
<1>5. PICK x : Links(funcs, cs, at[1], at[2], x, merge)
  BY Zenon, <1>1, <1>4, LinkInserted
<1>6. cs \in Seq(Function) /\ Len(cs) = Len(funcs)
      /\ \A f \in 1..Len(funcs) : Len(cs[f].blocks) = Len(funcs[f].blocks)
  BY <1>5 DEF Links, Adds
<1>7. merge \in Places(cs)
  <2>1. merge \in Pos /\ merge[1] \in 1..Len(funcs) /\ merge[2] \in Blocks(funcs, merge[1])
    BY <1>4 DEF Places
  <2> QED
    BY <1>6, <2>1 DEF Places, Blocks
<1>8. args \in Seq(Value) /\ to \in Seq(Pos)
  <2>1. ValueOf(Len(funcs)) \subseteq Value
    BY SomeFunctions, ValueMono
  <2>2. args \in Seq(ValueOf(Len(funcs))) /\ to \in Seq(Pos)
    BY <1>2, PhiParts
  <2> QED
    BY <2>1, <2>2, SeqMono
<1>9. op \in Opcode /\ callee \in Nat /\ ~Folds(op, args)
  BY <1>2, CodegenAssumption DEF Opcode, Folds
<1>10. PICK y : y = [op |-> op, args |-> args, to |-> to, callee |-> callee]
  OBVIOUS
<1>11. PICK hs : hs = funcs'
  OBVIOUS
<1>12. y \in Instr /\ Adds(cs, hs, merge[1], merge[2], y)
  <2>1. LET gs == Insert(cs, merge, op, args, to, callee)
            z == [op |-> op, args |-> args, to |-> to, callee |-> callee]
        IN /\ Folds(op, args) => gs = cs
           /\ ~Folds(op, args) => z \in Instr /\ Adds(cs, gs, merge[1], merge[2], z)
    BY <1>6, <1>7, <1>8, <1>9, InsertAdds
  <2> QED
    BY <1>3, <1>9, <1>10, <1>11, <2>1
<1>13. y.op = "phi" /\ y.args = args /\ y.to = to
  BY <1>2, <1>10
<1>14. /\ Len(y.to) = 2 /\ Len(y.args) = 2 /\ y.to[1] = Top.blks[1] /\ y.to[2] = at
       /\ y.args[1] = Top.vals[1] /\ y.args[2] = ret
  BY <1>2, <1>13
<1>15. Meets(cs, hs, merge[1], stack, at, ret, y)
  BY <1>1, <1>12, <1>13, <1>14 DEF Meets, Top
<1>16. Result(cs, merge, op, args)
         = Instruction(merge[1], merge[2], Len(cs[merge[1]].blocks[merge[2]]) + 1)
  <2>1. merge[1] # 0
    <3>1. merge[1] \in 1..Len(funcs)
      BY <1>4 DEF Places
    <3> QED
      BY <3>1, SomeFunctions
  <2> QED
    BY <1>9, <2>1 DEF Result, Instruction
<1>17. Return(Instruction(merge[1], merge[2], Len(cs[merge[1]].blocks[merge[2]]) + 1))
  BY Zenon, <1>3, <1>16
<1> QED
  BY <1>1, <1>3, <1>5, <1>11, <1>15, <1>17

LEMMA PhiStays ==
  ASSUME TypeInv, Top.pc = "else", NEW t, Follows(stack, t), Len(t) = Len(stack) - 1,
         NEW cs, NEW x, Links(funcs, cs, at[1], at[2], x, Top.blks[3]),
         NEW y, NEW hs, Meets(cs, hs, Top.blks[3][1], stack, at, ret, y),
         NEW bs \in Seq(Node), Kept(ast, bs), NEW to, to = Top.blks[3],
         NEW w, w = Instruction(to[1], to[2], Len(cs[to[1]].blocks[to[2]]) + 1),
         NEW i \in 1..(Len(stack) - 1), Valid(stack, i, ast, funcs, at, ret)
  PROVE  Valid(t, i, bs, hs, to, w)
<1>1. PICK s, fs, ns, pos, v : s = stack /\ fs = funcs /\ ns = ast /\ pos = at /\ v = ret
  OBVIOUS
<1>2. fs \in Seq(Function) /\ ns \in Seq(Node) /\ IsStack(s, ns, fs) /\ Len(s) \in Nat
      /\ i \in 1..(Len(s) - 1)
  BY <1>1, TopType DEF TypeInv, Typed
<1>3. PICK dom : ValidBy(s, i, ns, fs, pos, v, dom)
  BY <1>1 DEF Valid
<1>4. ValidTop(fs, ns, s[i].fn, s[Len(s)], pos, v, dom)
  BY <1>2, <1>3, ValidParts
<1>5. s[i].fn = pos[1] /\ s[Len(s)].pc = "else" /\ to = s[Len(s)].blks[3]
  <2>1. PICK f : f = s[i].fn
    OBVIOUS
  <2>2. pos = <<f, pos[2]>>
    BY ONLY <1>4, <2>1 DEF ValidTop
  <2>3. pos[1] = f
    BY ONLY <2>2
  <2>4. s[Len(s)].pc = "else" /\ to = s[Len(s)].blks[3]
    BY ONLY Zenon, <1>1, Top.pc = "else", to = Top.blks[3] DEF Top
  <2> QED
    BY ONLY <2>1, <2>3, <2>4
<1>6. Awaits(fs, s[i].fn, dom, to, {pos})
  <2>1. FrameFine(fs, ns, s[i].fn, dom, s[Len(s)], {pos})
    BY <1>4 DEF ValidTop
  <2>2. to \in Ahead(s[Len(s)])
    BY Zenon, <1>5 DEF Ahead
  <2> QED
    BY <2>1, <2>2 DEF FrameFine
<1>7. to[1] = s[i].fn /\ to \in Places(fs) /\ to # pos /\ Len(fs[to[1]].blocks[to[2]]) = 0
  BY Zenon, <1>6 DEF Awaits
<1>8. /\ Links(fs, cs, s[i].fn, pos[2], x, s[Len(s)].blks[3])
      /\ Meets(cs, hs, s[i].fn, s, pos, v, y) /\ Len(t) = Len(s) - 1
      /\ Follows(s, t) /\ Kept(ns, bs)
  BY Zenon, <1>1, <1>5, <1>7 DEF Top
<1>9. PhiGoes(fs, hs, s[i].fn, dom, s, t, pos)
  BY <1>2, <1>3, <1>5, <1>8, PhiGoesOn
<1>10. /\ CodeGoesOn(fs, hs, s[i].fn, dom, dom, s, t, pos, to)
       /\ Held(hs, s[i].fn, dom[to[2]], Instruction(s[i].fn, to[2], 1))
  BY <1>5, <1>9 DEF PhiGoes
<1>11. w = Instruction(s[i].fn, to[2], 1)
  <2>1. cs[to[1]].blocks[to[2]] = fs[to[1]].blocks[to[2]]
    <3>1. Adds(fs, cs, pos[1], pos[2], x)
      BY Zenon, <1>5, <1>8 DEF Links
    <3>2. to[1] \in 1..Len(fs) /\ to[2] \in Blocks(fs, to[1]) /\ to = <<to[1], to[2]>>
      BY Zenon, <1>7, PlacePair
    <3>3. pos = <<pos[1], pos[2]>>
      BY Zenon, <1>4, <1>5 DEF ValidTop
    <3>4. to[2] # pos[2]
      BY <1>5, <1>7, <3>2, <3>3
    <3> QED
      BY Zenon, <3>1, <3>2, <3>4 DEF Adds
  <2>2. Len(cs[to[1]].blocks[to[2]]) + 1 = 1
    <3>1. Len(cs[to[1]].blocks[to[2]]) = 0
      BY ONLY <1>7, <2>1
    <3> QED
      BY ONLY <3>1
  <2> QED
    BY ONLY Zenon, <1>7, <2>2, w = Instruction(to[1], to[2], Len(cs[to[1]].blocks[to[2]]) + 1)
<1>12. \A k \in Len(s)..Len(t) : FALSE
  <2>1. Len(s) \in Nat /\ Len(t) = Len(s) - 1
    BY ONLY <1>2, <1>8
  <2> QED
    BY ONLY <2>1
<1>13. \A k \in Len(s)..Len(t) : FrameFine(hs, bs, s[i].fn, dom, t[k], Over(t, k + 1, to))
  BY Zenon, <1>12
<1>14. Held(hs, s[i].fn, dom[to[2]], w)
  BY <1>10, <1>11
<1> QED
  BY Zenon, <1>2, <1>3, <1>8, <1>10, <1>13, <1>14, ValidStep

LEMMA VPhi == ASSUME TypeInv, DoomInv, VInv, Phi PROVE VInv'
<1>1. /\ Top.pc = "else" /\ ret # NULL /\ at' = Top.blks[3] /\ ub \subseteq ub'
      /\ UNCHANGED ast
  BY PhiSteps
<1>2. PICK merge : merge = Top.blks[3]
  OBVIOUS
<1>3. PICK cs, x, y :
        /\ Links(funcs, cs, at[1], at[2], x, merge)
        /\ Meets(cs, funcs', merge[1], stack, at, ret, y)
        /\ Return(Instruction(merge[1], merge[2], Len(cs[merge[1]].blocks[merge[2]]) + 1))
  BY <1>2, PhiSteps
<1>4. PICK t, bs, hs, to, w : /\ t = stack' /\ bs = ast' /\ hs = funcs' /\ to = at'
                              /\ w = ret'
  OBVIOUS
<1>5. PICK v : v = Instruction(merge[1], merge[2], Len(cs[merge[1]].blocks[merge[2]]) + 1)
  OBVIOUS
<1>6. Top.pc \notin Base /\ Top.pc # "body" /\ Return(v)
  BY <1>1, <1>3, <1>5 DEF Base
<1>7. Moves(stack, t, bs) /\ Len(t) = Len(stack) - 1 /\ w = v
  BY <1>4, <1>6, ReturnMoves
<1>8. Grows /\ funcs \in Seq(Function) /\ ast \in Seq(Node) /\ Len(stack) \in Nat
  BY <1>1, SameGrows, TopType DEF TypeInv, Typed
<1>9. bs \in Seq(Node) /\ Kept(ast, bs) /\ NoDefs(ast, bs)
  BY <1>4, <1>8 DEF Grows
<1>10. to = merge /\ Over(stack, Len(stack), at) = {at, merge}
  <2>1. Over(stack, Len(stack), at) = {at} \cup Ahead(stack[Len(stack)])
    BY <1>8, OverTop
  <2>2. Ahead(stack[Len(stack)]) = {merge}
    BY <1>1, <1>2 DEF Ahead, Top
  <2> QED
    BY <1>1, <1>2, <1>4, <2>1, <2>2
<1>11. NearPlaces(stack, t, funcs, at, to)
  <2>1. \A k \in Len(stack)..Len(t) : FALSE
    BY <1>7, <1>8
  <2>2. \A p \in Over(t, Len(stack), to) : p = to
    BY <2>1, OverFrames
  <2> QED
    BY <1>10, <2>2 DEF NearPlaces
<1>12. PICK U : U = {at, merge}
  OBVIOUS
<1>13. hs \in Seq(Function) /\ Elsewhere(funcs, hs, U)
  <2>1. at \in Places(funcs) /\ merge \in Places(funcs)
    BY <1>1, <1>2, InFunction
  <2>2. /\ at = <<at[1], at[2]>> /\ at[1] \in 1..Len(funcs)
        /\ merge = <<merge[1], merge[2]>> /\ merge[1] \in 1..Len(funcs)
    BY <2>1, PlacePair
  <2>3. <<at[1], at[2]>> \in U /\ <<merge[1], merge[2]>> \in U
    BY <1>12, <2>2
  <2>4. Adds(funcs, cs, at[1], at[2], x)
    BY Zenon, <1>3 DEF Links
  <2>5. Adds(cs, hs, merge[1], merge[2], y)
    BY Zenon, <1>2, <1>3, <1>4 DEF Meets, Top
  <2>6. cs \in Seq(Function) /\ hs \in Seq(Function) /\ Len(cs) = Len(funcs)
    BY <2>4, <2>5 DEF Adds
  <2>7. Elsewhere(funcs, cs, U)
    BY <1>8, <2>2, <2>3, <2>4, AddsElsewhere
  <2>8. Elsewhere(cs, hs, U)
    BY <2>2, <2>3, <2>5, <2>6, AddsElsewhere
  <2> QED
    BY <1>8, <2>6, <2>7, <2>8, ElsewhereTwice
<1>14. DoomPassed(stack, ret, t, w)
  BY <1>1 DEF DoomPassed, Top
<1>15. Goes(stack, ast, funcs, at, ret, t, bs, hs, to, w)
  BY Zenon, <1>7, <1>9, <1>10, <1>11, <1>12, <1>13, <1>14 DEF Goes
<1>16. StaysSane(stack, ast, funcs, at, ret, t, bs, hs, to, w)
  <2>1. ASSUME NEW i \in 1..(Len(stack) - 1), Valid(stack, i, ast, funcs, at, ret)
        PROVE  Valid(t, i, bs, hs, to, w)
    <3>1. Follows(stack, t) /\ to = Top.blks[3]
      BY <1>2, <1>7, <1>10 DEF Moves
    <3>2. /\ Links(funcs, cs, at[1], at[2], x, Top.blks[3])
          /\ Meets(cs, hs, Top.blks[3][1], stack, at, ret, y)
      BY <1>2, <1>3, <1>4
    <3>3. w = Instruction(to[1], to[2], Len(cs[to[1]].blocks[to[2]]) + 1)
      BY <1>5, <1>7, <1>10
    <3> QED
      BY Zenon, <1>1, <1>7, <1>9, <2>1, <3>1, <3>2, <3>3, PhiStays
  <2> QED
    BY <2>1 DEF StaysSane
<1> QED
  BY <1>1, <1>4, <1>15, <1>16, VStep

-----------------------------------------------------------------------------
(* The beginning of a definition.                                          *)

(* The definition is met, d being the one around it, perhaps with its      *)
(* body.                                                                   *)
Defining(ns, bs, d) ==
  /\ bs \in Seq(Node) /\ Kept(ns, bs) /\ Len(ns) + 1 \in 1..Len(bs)
  /\ bs[Len(ns) + 1].type = "FUNCDEF" /\ bs[Len(ns) + 1].scope = d
  /\ \A n \in 1..Len(bs) :
       n > Len(ns) + 1 => bs[n].type # "FUNCDEF" /\ bs[n].scope = Len(ns) + 1

(* b are the frames below the one that calls codegen_funcdef.              *)
Rests(s, b) ==
  /\ Len(s) \in Nat /\ Len(b) \in 1..Len(s) /\ s[Len(s)].pc \in {"expr", "main"}
  /\ \A k \in 1..Len(b) : /\ b[k].pc \in Waiting /\ b[k].node = s[k].node
                          /\ b[k].pc # "coded" => b[k] = s[k]
  /\ \A k \in 1..Len(s) : s[k].pc \notin {"expr", "main"} => k \in 1..Len(b) /\ b[k] = s[k]

(* d is the innermost definition that they generate.                       *)
InDef(b, ns, d) ==
  /\ d \in 0..Len(ns)
  /\ \A i \in 1..Len(b) : Inner(b, i, Len(b)) => d = b[i].node
  /\ (\A i \in 1..Len(b) : b[i].pc # "body") => d = 0

LEMMA DefNests ==
  ASSUME NEW ns \in Seq(Node), NEW bs, NEW d \in 0..Len(ns), Defining(ns, bs, d),
         ScopesOK(ns)
  PROVE  /\ ScopesOK(bs) /\ Nests(bs, d) /\ ~Nests(bs, Len(ns) + 1)
         /\ \A e : Nests(ns, e) => Nests(bs, e)
         /\ \A e \in 1..Len(ns) : e # d /\ Nests(bs, e) => Nests(ns, e)
<1>1. Len(ns) \in Nat /\ Len(bs) \in Nat /\ Len(ns) <= Len(bs)
  BY DEF Defining, Kept
<1>2. \A n \in 1..Len(ns) : bs[n].type = ns[n].type /\ bs[n].scope = ns[n].scope
                            /\ ns[n].scope \in 0..Len(ns)
  BY DEF Defining, Kept, ScopesOK
<1>3. \A n \in 1..Len(bs) : n \in 1..Len(ns) \/ n = Len(ns) + 1 \/ n > Len(ns) + 1
  BY <1>1
<1>4. ScopesOK(bs)
  <2> SUFFICES ASSUME NEW n \in 1..Len(bs)
               PROVE  bs[n].scope \in 0..Len(bs)
    BY DEF ScopesOK
  <2>1. CASE n \in 1..Len(ns)
    BY <1>1, <1>2, <2>1
  <2>2. CASE n = Len(ns) + 1
    BY <1>1, <2>2 DEF Defining
  <2>3. CASE n > Len(ns) + 1
    BY <1>1, <2>3 DEF Defining
  <2> QED
    BY <1>3, <2>1, <2>2, <2>3
<1>5. Nests(bs, d)
  BY DEF Nests, Defining
<1>6. ASSUME NEW n \in 1..Len(bs), bs[n].type = "FUNCDEF"
      PROVE  n \in 1..Len(ns) \/ (n = Len(ns) + 1 /\ bs[n].scope = d)
  BY <1>3, <1>6 DEF Defining
<1>7. ~Nests(bs, Len(ns) + 1)
  <2> SUFFICES ASSUME NEW n \in 1..Len(bs), bs[n].type = "FUNCDEF",
                      bs[n].scope = Len(ns) + 1
               PROVE  FALSE
    BY DEF Nests
  <2>1. bs[n].scope \in 0..Len(ns)
    BY <1>2, <1>6
  <2> QED
    BY <1>1, <2>1
<1>8. \A e : Nests(ns, e) => Nests(bs, e)
  BY <1>1, <1>2 DEF Nests
<1>9. ASSUME NEW e \in 1..Len(ns), e # d, Nests(bs, e)
      PROVE  Nests(ns, e)
  BY <1>2, <1>6, <1>9 DEF Nests
<1> QED
  BY <1>4, <1>5, <1>7, <1>8, <1>9

(* A body frame has an innermost one above it. *)
LEMMA InnerExists ==
  ASSUME NEW b, Len(b) \in Nat, NEW i \in 1..Len(b), b[i].pc = "body"
  PROVE  \E m \in i..Len(b) : Inner(b, m, Len(b))
<1> DEFINE T == {k \in 1..Len(b) : b[k].pc = "body"}
<1>1. PICK m \in T : \A j \in T : j <= m
  BY GreatestExists
<1>2. m \in i..Len(b)
  BY <1>1
<1>3. \A j \in (m + 1)..Len(b) : b[j].pc # "body"
  BY <1>1
<1> QED
  BY <1>1, <1>2, <1>3 DEF Inner

(* The function whose definition is around the new one is not done. *)
LEMMA DefVerdicts ==
  ASSUME NEW ns \in Seq(Node), NEW fs \in Seq(Function), NEW s, NEW b, Rests(s, b),
         Making(s, ns, fs), Verdicts(ns, fs), ScopesOK(ns),
         NEW d, InDef(b, ns, d), NEW bs, Defining(ns, bs, d)
  PROVE  Verdicts(bs, fs)
<1>1. d \in 0..Len(ns) /\ Len(b) \in Nat /\ Len(ns) \in Nat
  BY DEF InDef, Rests
<1>2. /\ \A e : Nests(ns, e) => Nests(bs, e)
      /\ \A e \in 1..Len(ns) : e # d /\ Nests(bs, e) => Nests(ns, e)
  BY <1>1, DefNests
<1>3. ASSUME NEW f \in 1..Len(fs), fs[f].state = "verified"
      PROVE  ~Nests(bs, fs[f].def)
  <2>1. fs[f].def \in 1..Len(ns) /\ ~Nests(ns, fs[f].def)
    BY <1>3 DEF Making, Verdicts
  <2>2. fs[f].def # d
    <3>1. CASE \A i \in 1..Len(b) : b[i].pc # "body"
      BY <1>1, <2>1, <3>1 DEF InDef
    <3>2. ASSUME NEW i \in 1..Len(b), b[i].pc = "body"
          PROVE  fs[f].def # d
      <4>1. PICK m \in i..Len(b) : Inner(b, m, Len(b))
        BY <1>1, <3>2, InnerExists
      <4>2. m \in 1..Len(b) /\ b[m].pc = "body" /\ d = b[m].node
        BY <1>1, <4>1 DEF Inner, InDef
      <4>3. m \in 1..Len(s) /\ b[m] = s[m]
        BY <4>2 DEF Rests
      <4>4. fs[s[m].fn].state = "open" /\ fs[s[m].fn].def = d /\ s[m].fn \in 1..Len(fs)
        BY <4>2, <4>3 DEF Making
      <4> QED
        BY <1>3, <4>4 DEF Making
    <3> QED
      BY <3>1, <3>2
  <2> QED
    BY <1>2, <2>1, <2>2
<1> QED
  BY <1>2, <1>3 DEF Verdicts

(* Every body frame below has the new definition nested in its. *)
LEMMA AllNest ==
  ASSUME NEW ns \in Seq(Node), NEW fs, NEW s, NEW b, Rests(s, b),
         Making(s, ns, fs), ScopesOK(ns),
         NEW d, InDef(b, ns, d), NEW bs, Defining(ns, bs, d),
         NEW i \in 1..Len(b), b[i].pc = "body"
  PROVE  Nests(bs, b[i].node)
<1>1. d \in 0..Len(ns) /\ Len(b) \in Nat
  BY DEF InDef, Rests
<1>2. Nests(bs, d) /\ \A e : Nests(ns, e) => Nests(bs, e)
  BY <1>1, DefNests
<1>3. PICK m \in i..Len(b) : Inner(b, m, Len(b))
  BY <1>1, InnerExists
<1>4. m \in 1..Len(b) /\ b[m].pc = "body" /\ d = b[m].node
  BY <1>1, <1>3 DEF Inner, InDef
<1>5. CASE i = m
  BY <1>2, <1>4, <1>5
<1>6. CASE i < m
  <2>1. i \in 1..Len(s) /\ m \in 1..Len(s) /\ b[i] = s[i] /\ b[m] = s[m]
    BY <1>4 DEF Rests
  <2> QED
    BY <1>2, <1>4, <1>6, <2>1 DEF Making
<1> QED
  BY <1>1, <1>3, <1>5, <1>6

(* The functions and the top level, when a definition is refused. *)
LEMMA RefusedFramed ==
  ASSUME NEW ns \in Seq(Node), NEW fs \in Seq(Function), NEW s, IsStack(s, ns, fs),
         NEW b, Rests(s, b), Framed(s, ns, fs),
         NEW d, InDef(b, ns, d), NEW bs, Defining(ns, bs, d)
  PROVE  Framed(b, bs, fs)
<1>1. d \in 0..Len(ns) /\ Len(b) \in Nat /\ Len(s) \in Nat /\ Len(b) <= Len(s)
      /\ Len(ns) \in Nat /\ Len(bs) \in Nat /\ Len(ns) <= Len(bs)
  BY DEF InDef, Rests, Defining, Kept
<1>2. ScopesOK(bs) /\ \A e : Nests(ns, e) => Nests(bs, e)
  BY <1>1, DefNests DEF Framed
<1>3. \A i \in 1..Len(b) : b[i].pc = "body" => i \in 1..Len(s) /\ b[i] = s[i]
  BY <1>1 DEF Rests
<1>4. Making(b, bs, fs)
  <2>1. Making(s, ns, fs)
    BY DEF Framed
  <2>2. \A f \in 1..Len(fs) : Len(fs[f].blocks) >= 1 /\ fs[f].def \in 1..Len(bs)
    BY <1>1, <2>1 DEF Making
  <2>3. \A i \in 1..Len(b) : b[i].pc = "body" =>
          /\ fs[b[i].fn].state = "open" /\ fs[b[i].fn].def = b[i].node
          /\ b[i].fn \in 1..Len(fs)
    BY <1>3, <2>1 DEF Making
  <2>4. \A i, k \in 1..Len(b) : i < k /\ b[i].pc = "body" /\ b[k].pc = "body" =>
          b[i].fn # b[k].fn /\ Nests(bs, b[i].node)
    BY <1>2, <1>3, <2>1 DEF Making
  <2> QED
    BY <2>1, <2>2, <2>3, <2>4 DEF Making
<1>5. Outside(b, bs)
  <2> SUFFICES ASSUME NEW k \in 1..Len(b), \A j \in 1..k : b[j].pc # "body"
               PROVE  Around(bs, b[k].node) = 0
    BY DEF Outside
  <2>1. k \in 1..Len(s) /\ b[k].node = s[k].node
    BY <1>1 DEF Rests
  <2>2. \A j \in 1..k : s[j].pc # "body"
    <3> SUFFICES ASSUME NEW j \in 1..k, s[j].pc = "body"
                 PROVE  FALSE
      OBVIOUS
    <3>1. b[j] = s[j]
      BY <1>1 DEF Rests
    <3> QED
      BY <3>1
  <2>3. Around(ns, s[k].node) = 0
    BY <2>1, <2>2 DEF Framed, Outside
  <2>4. s[k].node \in 0..Len(ns)
    BY <2>1, FrameNode
  <2>5. Kept(ns, bs) /\ bs \in Seq(Node)
    BY DEF Defining
  <2> QED
    BY <2>1, <2>3, <2>4, <2>5, AroundKept
<1> QED
  BY <1>2, <1>4, <1>5 DEF Framed

LEMMA RefusedSane ==
  ASSUME NEW ns \in Seq(Node), NEW fs \in Seq(Function), NEW s,
         NEW b, Rests(s, b), Framed(s, ns, fs),
         NEW d, InDef(b, ns, d), NEW bs, Defining(ns, bs, d),
         NEW pos, NEW v, AllSane(s, ns, fs, pos, v)
  PROVE  AllSane(b, bs, fs, pos, NULL)
<1>1. Verdicts(bs, fs)
  BY DefVerdicts DEF Framed, AllSane
<1>2. \A i \in 1..Len(b) : DoomedIn(b, i, NULL)
  BY DEF Rests, DoomedIn
<1> QED
  BY <1>1, <1>2 DEF AllSane, Sane

(* gs is fs with a function more, that of definition n, whose only block   *)
(* is empty.                                                               *)
Opened(fs, gs, n) ==
  /\ gs \in Seq(Function) /\ Len(gs) = Len(fs) + 1
  /\ \A f \in 1..Len(fs) : gs[f] = fs[f]
  /\ LET x == gs[Len(fs) + 1]
     IN x.state = "open" /\ x.def = n /\ Len(x.blocks) = 1 /\ Len(x.blocks[1]) = 0

(* t is b with the frame of definition n, of function f, and that of its   *)
(* body.                                                                   *)
Opening(b, t, n, f) ==
  /\ Len(t) = Len(b) + 2 /\ \A k \in 1..Len(b) : t[k] = b[k]
  /\ LET g == t[Len(b) + 1]
     IN g.pc = "body" /\ g.node = n /\ g.fn = f
  /\ LET h == t[Len(b) + 2]
     IN h.pc = "block" /\ Len(h.vals) = 0

LEMMA OpeningFrames ==
  ASSUME NEW b, NEW t, Len(b) \in Nat, NEW n, NEW f, Opening(b, t, n, f)
  PROVE  /\ Len(t) \in Nat
         /\ \A k \in 1..Len(t) : k \in 1..Len(b) \/ k = Len(b) + 1 \/ k = Len(b) + 2
         /\ \A k \in 1..Len(b) : k \in 1..Len(t) /\ t[k] = b[k]
         /\ Len(b) + 1 \in 1..Len(t) /\ Len(b) + 2 \in 1..Len(t)
         /\ \A k \in 1..Len(t) : t[k].pc = "body" =>
              (k \in 1..Len(b) /\ t[k] = b[k]) \/ k = Len(b) + 1
         /\ Ahead(t[Len(b) + 1]) = {} /\ Ahead(t[Len(b) + 2]) = {}
<1>1. Len(t) = Len(b) + 2 /\ \A k \in 1..Len(b) : t[k] = b[k]
  BY DEF Opening
<1>2. t[Len(b) + 1].pc = "body" /\ t[Len(b) + 2].pc = "block"
  BY DEF Opening
<1>3. \A k \in 1..Len(t) : k \in 1..Len(b) \/ k = Len(b) + 1 \/ k = Len(b) + 2
  BY <1>1
<1>4. \A k \in 1..Len(t) : t[k].pc = "body" =>
        (k \in 1..Len(b) /\ t[k] = b[k]) \/ k = Len(b) + 1
  BY <1>1, <1>2, <1>3
<1>5. Ahead(t[Len(b) + 1]) = {} /\ Ahead(t[Len(b) + 2]) = {}
  BY <1>2 DEF Ahead
<1> QED
  BY <1>1, <1>3, <1>4, <1>5

LEMMA DefinedMaking ==
  ASSUME NEW ns \in Seq(Node), NEW fs \in Seq(Function), NEW s,
         NEW b, Rests(s, b), Making(s, ns, fs), ScopesOK(ns),
         NEW d, InDef(b, ns, d), NEW bs, Defining(ns, bs, d),
         NEW gs, Opened(fs, gs, Len(ns) + 1),
         NEW t, Opening(b, t, Len(ns) + 1, Len(fs) + 1)
  PROVE  Making(t, bs, gs)
<1>1. Len(b) \in Nat /\ Len(ns) \in Nat /\ Len(bs) \in Nat /\ Len(ns) <= Len(bs)
      /\ Len(fs) \in Nat /\ Len(gs) = Len(fs) + 1 /\ Len(ns) + 1 \in 1..Len(bs)
  BY DEF Rests, Defining, Kept, Opened
<1>2. /\ \A k \in 1..Len(t) : t[k].pc = "body" =>
           (k \in 1..Len(b) /\ t[k] = b[k]) \/ k = Len(b) + 1
  BY <1>1, OpeningFrames
<1>3. \A k \in 1..Len(b) : b[k].pc = "body" =>
        /\ k \in 1..Len(s) /\ b[k] = s[k]
        /\ fs[b[k].fn].state = "open" /\ fs[b[k].fn].def = b[k].node
        /\ b[k].fn \in 1..Len(fs) /\ Nests(bs, b[k].node)
  <2> SUFFICES ASSUME NEW k \in 1..Len(b), b[k].pc = "body"
               PROVE  /\ k \in 1..Len(s) /\ b[k] = s[k]
                      /\ fs[b[k].fn].state = "open" /\ fs[b[k].fn].def = b[k].node
                      /\ b[k].fn \in 1..Len(fs) /\ Nests(bs, b[k].node)
    OBVIOUS
  <2>1. k \in 1..Len(s) /\ b[k] = s[k]
    BY <1>1 DEF Rests
  <2>2. Nests(bs, b[k].node)
    BY AllNest
  <2> QED
    BY <2>1, <2>2 DEF Making
<1>4. t[Len(b) + 1].node = Len(ns) + 1 /\ t[Len(b) + 1].fn = Len(fs) + 1
  BY DEF Opening
<1>5. gs[Len(fs) + 1].state = "open" /\ gs[Len(fs) + 1].def = Len(ns) + 1
      /\ Len(gs[Len(fs) + 1].blocks) = 1 /\ \A f \in 1..Len(fs) : gs[f] = fs[f]
  BY DEF Opened
<1>6. \A f \in 1..Len(gs) : f \in 1..Len(fs) \/ f = Len(fs) + 1
  BY <1>1
<1>7. \A f \in 1..Len(gs) : Len(gs[f].blocks) >= 1 /\ gs[f].def \in 1..Len(bs)
  <2> SUFFICES ASSUME NEW f \in 1..Len(gs)
               PROVE  Len(gs[f].blocks) >= 1 /\ gs[f].def \in 1..Len(bs)
    OBVIOUS
  <2>1. CASE f \in 1..Len(fs)
    <3>1. Len(fs[f].blocks) >= 1 /\ fs[f].def \in 1..Len(ns)
      BY <2>1 DEF Making
    <3> QED
      BY <1>1, <1>5, <2>1, <3>1
  <2>2. CASE f = Len(fs) + 1
    <3>1. Len(gs[f].blocks) = 1 /\ gs[f].def = Len(ns) + 1
      BY <1>5, <2>2
    <3> QED
      BY ONLY <1>1, <3>1
  <2> QED
    BY <1>6, <2>1, <2>2
<1>8. \A f, g \in 1..Len(gs) : gs[f].def = gs[g].def => f = g
  <2>1. \A f \in 1..Len(fs) : gs[f].def \in 1..Len(ns)
    BY <1>5 DEF Making
  <2>2. \A f \in 1..Len(fs) : gs[f].def # Len(ns) + 1
    BY <1>1, <2>1
  <2>3. \A f, g \in 1..Len(fs) : gs[f].def = gs[g].def => f = g
    BY <1>5 DEF Making
  <2> QED
    BY <1>5, <1>6, <2>2, <2>3
<1>9. \A i \in 1..Len(t) : t[i].pc = "body" =>
        /\ gs[t[i].fn].state = "open" /\ gs[t[i].fn].def = t[i].node
        /\ t[i].fn \in 1..Len(gs)
  <2> SUFFICES ASSUME NEW i \in 1..Len(t), t[i].pc = "body"
               PROVE  /\ gs[t[i].fn].state = "open" /\ gs[t[i].fn].def = t[i].node
                      /\ t[i].fn \in 1..Len(gs)
    OBVIOUS
  <2>1. CASE i \in 1..Len(b) /\ t[i] = b[i]
    <3>1. t[i].fn \in 1..Len(fs)
      BY <1>3, <2>1
    <3>2. gs[t[i].fn] = fs[t[i].fn] /\ t[i].fn \in 1..Len(gs)
      BY <1>1, <1>5, <3>1
    <3> QED
      BY <1>3, <2>1, <3>2
  <2>2. CASE i = Len(b) + 1
    BY <1>1, <1>4, <1>5, <2>2
  <2> QED
    BY <1>2, <2>1, <2>2
<1>10. \A i, k \in 1..Len(t) : i < k /\ t[i].pc = "body" /\ t[k].pc = "body" =>
         t[i].fn # t[k].fn /\ Nests(bs, t[i].node)
  <2> SUFFICES ASSUME NEW i \in 1..Len(t), NEW k \in 1..Len(t), i < k,
                      t[i].pc = "body", t[k].pc = "body"
               PROVE  t[i].fn # t[k].fn /\ Nests(bs, t[i].node)
    OBVIOUS
  <2>1. i \in 1..Len(b) /\ t[i] = b[i]
    <3>1. k <= Len(b) + 1
      BY <1>1, <1>2
    <3>2. i # Len(b) + 1
      BY <1>1, <3>1
    <3> QED
      BY <1>2, <3>2
  <2>2. CASE k \in 1..Len(b) /\ t[k] = b[k]
    BY <1>3, <2>1, <2>2 DEF Making
  <2>3. CASE k = Len(b) + 1
    <3>1. t[i].fn \in 1..Len(fs) /\ Nests(bs, t[i].node)
      BY <1>3, <2>1
    <3> QED
      BY <1>1, <1>4, <2>3, <3>1
  <2> QED
    BY <1>2, <2>2, <2>3
<1> QED
  BY <1>7, <1>8, <1>9, <1>10 DEF Making

LEMMA DefinedFramed ==
  ASSUME NEW ns \in Seq(Node), NEW fs \in Seq(Function), NEW s, IsStack(s, ns, fs),
         NEW b, Rests(s, b), Framed(s, ns, fs),
         NEW d, InDef(b, ns, d), NEW bs, Defining(ns, bs, d),
         NEW gs, Opened(fs, gs, Len(ns) + 1),
         NEW t, Opening(b, t, Len(ns) + 1, Len(fs) + 1)
  PROVE  Framed(t, bs, gs)
<1>1. Making(t, bs, gs)
  BY DefinedMaking DEF Framed
<1>2. Framed(b, bs, fs) /\ Len(b) \in Nat
  BY RefusedFramed DEF Rests
<1>3. Outside(t, bs)
  <2> SUFFICES ASSUME NEW k \in 1..Len(t), \A j \in 1..k : t[j].pc # "body"
               PROVE  Around(bs, t[k].node) = 0
    BY DEF Outside
  <2>1. \A j \in 1..Len(b) : t[j] = b[j]
    BY DEF Opening
  <2>2. t[Len(b) + 1].pc = "body"
    BY DEF Opening
  <2>3. k \in 1..Len(b)
    <3>1. k < Len(b) + 1
      BY <1>2, <2>2
    <3> QED
      BY <1>2, <3>1
  <2>4. \A j \in 1..k : b[j].pc # "body"
    BY <1>2, <2>1, <2>3
  <2> QED
    BY <1>2, <2>1, <2>3, <2>4 DEF Framed, Outside
<1> QED
  BY <1>1, <1>2, <1>3 DEF Framed

-----------------------------------------------------------------------------
(* The function that begins, and those that are left for it.               *)

LEMMA NewValid ==
  ASSUME NEW fs \in Seq(Function), NEW b, Len(b) \in Nat, NEW n,
         NEW gs, Opened(fs, gs, n), NEW t, Opening(b, t, n, Len(fs) + 1),
         NEW i, i = Len(b) + 1, NEW to, to = <<Len(fs) + 1, 1>>, NEW bs, NEW v
  PROVE  Valid(t, i, bs, gs, to, v)
<1>1. PICK f : f = Len(fs) + 1
  OBVIOUS
<1>2. f \in 1..Len(gs) /\ gs \in Seq(Function) /\ t[i].fn = f /\ Len(fs) \in Nat
  BY <1>1 DEF Opened, Opening
<1>3. Len(gs[f].blocks) = 1 /\ Len(gs[f].blocks[1]) = 0
  BY <1>1 DEF Opened
<1>4. Blocks(gs, f) = {1}
  BY <1>3 DEF Blocks
<1>5. Unclosed(gs[f].blocks[1])
  <2>1. 1..Len(gs[f].blocks[1]) = {}
    BY <1>3
  <2> QED
    BY <2>1 DEF Unclosed
<1>6. Succ(gs, f, 1) = {}
  BY <1>2, <1>4, <1>5, CodeFields
<1>7. \A c : Preds(gs, f, c) = {}
  BY <1>4, <1>6 DEF Preds
<1>8. PICK dom : dom = [c \in {1} |-> {1}]
  OBVIOUS
<1>9. CodeFine(gs, f, dom)
  <2>1. Certified(gs, f, dom)
    BY <1>4, <1>7, <1>8 DEF Certified
  <2>2. BlockFine(gs, f, dom, 1)
    <3>1. 1..Len(gs[f].blocks[1]) = {}
      BY <1>3
    <3> QED
      BY <3>1 DEF BlockFine
  <2> QED
    BY <1>4, <2>1, <2>2 DEF CodeFine
<1>10. to = <<f, 1>> /\ to \in Places(gs) /\ to[1] = f /\ to[2] = 1
  BY <1>1, <1>2, <1>4 DEF Places, Pos
<1>11. Len(t) \in Nat /\ Len(t) = Len(b) + 2 /\ t[Len(t)].pc = "block"
       /\ Len(t[Len(t)].vals) = 0
  BY DEF Opening
<1>12. <<f, 1>> \in Over(t, i + 1, to)
  BY <1>10, OverFrames
<1>13. \A j \in (i + 1)..Len(t) : FrameFine(gs, bs, f, dom, t[j], Over(t, j + 1, to))
  <2> SUFFICES ASSUME NEW j \in (i + 1)..Len(t)
               PROVE  FrameFine(gs, bs, f, dom, t[j], Over(t, j + 1, to))
    OBVIOUS
  <2>1. j = Len(t)
    BY <1>11
  <2>2. t[j].pc \in {"expr", "block"} /\ Len(t[j].vals) = 0
    BY <1>11, <2>1
  <2> QED
    BY <2>2, IdleFine
<1>14. t[Len(t)].pc \notin Waiting
  BY <1>11 DEF Waiting
<1>15. ValidBy(t, i, bs, gs, to, v, dom)
  <2>1. /\ CodeFine(gs, t[i].fn, dom)
        /\ to \in Places(gs) /\ to[1] = t[i].fn
        /\ Unclosed(gs[t[i].fn].blocks[to[2]])
    BY <1>2, <1>5, <1>9, <1>10
  <2>2. \A c \in Blocks(gs, t[i].fn) :
          Closed(gs[t[i].fn].blocks[c]) \/ <<t[i].fn, c>> \in Over(t, i + 1, to)
    BY <1>2, <1>4, <1>12
  <2>3. \A j \in (i + 1)..Len(t) :
          FrameFine(gs, bs, t[i].fn, dom, t[j], Over(t, j + 1, to))
    BY <1>2, <1>13
  <2> QED
    BY <1>14, <2>1, <2>2, <2>3 DEF ValidBy
<1> QED
  BY <1>15 DEF Valid

(* The places of the frames below are those that they had. *)
LEMMA OpeningOver ==
  ASSUME NEW s, NEW b, Rests(s, b), NEW t, NEW n, NEW f, Opening(b, t, n, f),
         NEW i \in 1..Len(b), NEW pos, NEW to
  PROVE  \A p \in Over(t, i + 1, to) :
           p = to \/ \E k \in (i + 1)..Len(s) : p \in Ahead(s[k])
<1>1. Len(b) \in Nat /\ Len(s) \in Nat /\ Len(b) <= Len(s)
  BY DEF Rests
<1>2. /\ \A k \in 1..Len(t) : k \in 1..Len(b) \/ k = Len(b) + 1 \/ k = Len(b) + 2
      /\ \A k \in 1..Len(b) : k \in 1..Len(t) /\ t[k] = b[k]
      /\ Ahead(t[Len(b) + 1]) = {} /\ Ahead(t[Len(b) + 2]) = {}
      /\ Len(t) \in Nat
  BY <1>1, OpeningFrames
<1> SUFFICES ASSUME NEW p \in Over(t, i + 1, to), p # to
             PROVE  \E k \in (i + 1)..Len(s) : p \in Ahead(s[k])
  OBVIOUS
<1>3. PICK k \in (i + 1)..Len(t) : p \in Ahead(t[k])
  BY OverFrames
<1>4. k \in 1..Len(b)
  <2>1. k \in 1..Len(t)
    BY <1>1, <1>2
  <2> QED
    BY <1>2, <1>3, <2>1
<1>5. b[k].pc \in {"then", "else"}
  BY <1>2, <1>3, <1>4 DEF Ahead
<1>6. t[k] = s[k] /\ k \in (i + 1)..Len(s)
  BY <1>1, <1>2, <1>3, <1>4, <1>5 DEF Rests
<1> QED
  BY <1>3, <1>6

(* A function that was all right until now is abandoned. *)
LeftOpen(s, i, ns, fs, pos, v) ==
  Abandoned(s, i, fs, pos) \/ Valid(s, i, ns, fs, pos, v)

LEMMA OldAbandoned ==
  ASSUME NEW ns, NEW fs \in Seq(Function), NEW s, NEW b, Rests(s, b), NEW n,
         NEW gs, Opened(fs, gs, n), NEW t, Opening(b, t, n, Len(fs) + 1),
         NEW i \in 1..Len(b), b[i] = s[i], s[i].fn \in 1..Len(fs), NEW pos, NEW v,
         NEW to, to = <<Len(fs) + 1, 1>>, LeftOpen(s, i, ns, fs, pos, v)
  PROVE  Abandoned(t, i, gs, to)
<1>1. Len(b) \in Nat /\ Len(s) \in Nat /\ Len(b) <= Len(s) /\ Len(fs) \in Nat
  BY DEF Rests
<1>2. PICK f : f = s[i].fn
  OBVIOUS
<1>3. t[i].fn = f /\ f \in 1..Len(fs) /\ f # to[1] /\ gs[f] = fs[f]
  BY <1>1, <1>2 DEF Opening, Opened
<1>4. \A p \in Over(t, i + 1, to) :
        p = to \/ \E k \in (i + 1)..Len(s) : p \in Ahead(s[k])
  BY OpeningOver
<1>5. Blocks(gs, f) = Blocks(fs, f)
  BY <1>3 DEF Blocks
<1>6. \E c \in Blocks(fs, f) : /\ Unclosed(fs[f].blocks[c])
                               /\ \A k \in (i + 1)..Len(s) : <<f, c>> \notin Ahead(s[k])
  <2>1. CASE Abandoned(s, i, fs, pos)
    <3>1. PICK c \in Blocks(fs, f) : /\ Unclosed(fs[f].blocks[c])
                                     /\ <<f, c>> \notin Over(s, i + 1, pos)
      BY <1>2, <2>1 DEF Abandoned
    <3>2. \A k \in (i + 1)..Len(s) : <<f, c>> \notin Ahead(s[k])
      BY <3>1, OverFrames
    <3> QED
      BY <3>1, <3>2
  <2>2. CASE Valid(s, i, ns, fs, pos, v)
    <3>1. PICK dom : ValidBy(s, i, ns, fs, pos, v, dom)
      BY <2>2 DEF Valid
    <3>2. pos \in Places(fs) /\ pos[1] = f /\ Unclosed(fs[f].blocks[pos[2]])
      BY <1>2, <3>1 DEF ValidBy
    <3>3. pos[2] \in Blocks(fs, f) /\ pos = <<f, pos[2]>>
      BY <3>2, PlacePair
    <3>4. \A k \in (i + 1)..Len(s) : pos \notin Ahead(s[k])
      <4> SUFFICES ASSUME NEW k \in (i + 1)..Len(s), pos \in Ahead(s[k])
                   PROVE  FALSE
        OBVIOUS
      <4>1. FrameFine(fs, ns, f, dom, s[k], Over(s, k + 1, pos))
        BY <1>2, <3>1 DEF ValidBy
      <4>2. Awaits(fs, f, dom, pos, Over(s, k + 1, pos))
        BY <4>1 DEF FrameFine
      <4>3. pos \in Over(s, k + 1, pos)
        BY OverFrames
      <4> QED
        BY <4>2, <4>3 DEF Awaits
    <3> QED
      BY <3>2, <3>3, <3>4
  <2> QED
    BY <2>1, <2>2 DEF LeftOpen
<1>7. PICK c \in Blocks(fs, f) : /\ Unclosed(fs[f].blocks[c])
                                 /\ \A k \in (i + 1)..Len(s) : <<f, c>> \notin Ahead(s[k])
  BY <1>6
<1>8. <<f, c>> # to
  BY <1>3
<1>9. <<f, c>> \notin Over(t, i + 1, to)
  BY <1>4, <1>7, <1>8
<1> QED
  BY <1>3, <1>5, <1>7, <1>9 DEF Abandoned

LEMMA DefinedSane ==
  ASSUME NEW ns \in Seq(Node), NEW fs \in Seq(Function), NEW s,
         NEW b, Rests(s, b), Framed(s, ns, fs),
         NEW d, InDef(b, ns, d), NEW bs, Defining(ns, bs, d),
         NEW gs, Opened(fs, gs, Len(ns) + 1),
         NEW t, Opening(b, t, Len(ns) + 1, Len(fs) + 1),
         NEW pos, NEW v, AllSane(s, ns, fs, pos, v),
         NEW to, to = <<Len(fs) + 1, 1>>
  PROVE  AllSane(t, bs, gs, to, v)
<1>1. Len(b) \in Nat /\ Len(s) \in Nat /\ Len(b) <= Len(s) /\ Len(ns) \in Nat
      /\ Len(fs) \in Nat /\ d \in 0..Len(ns)
  BY DEF Rests, InDef
<1>2. Making(s, ns, fs) /\ ScopesOK(ns) /\ Verdicts(ns, fs)
  BY DEF Framed, AllSane
<1>3. ASSUME NEW i \in 1..Len(b), b[i].pc = "body", t[i] = b[i]
      PROVE  Sane(t, i, bs, gs, to, v)
  <2>1. i \in 1..Len(s) /\ b[i] = s[i]
    BY <1>1, <1>3 DEF Rests
  <2>2. Sane(s, i, ns, fs, pos, v) /\ s[i].fn \in 1..Len(fs)
    BY <1>2, <1>3, <2>1 DEF AllSane, Making
  <2>3. Nests(bs, t[i].node)
    BY <1>2, <1>3, AllNest
  <2>4. CASE DoomedIn(s, i, v)
    <3>1. s[Len(s)].pc \notin Waiting
      BY DEF Rests, Waiting
    <3>2. PICK j \in (i + 1)..Len(s) : s[j].pc = "rhs" /\ s[j].vals[1] = NULL
      BY <2>4, <3>1 DEF DoomedIn
    <3>3. j \in 1..Len(s)
      BY <1>1, <3>2
    <3>4. j \in 1..Len(b) /\ b[j] = s[j]
      BY <3>2, <3>3 DEF Rests
    <3>5. t[j] = s[j] /\ j \in (i + 1)..Len(t)
      BY <1>1, <3>2, <3>4 DEF Opening
    <3>6. DoomedIn(t, i, v)
      BY <3>2, <3>5 DEF DoomedIn
    <3> QED
      BY <3>6 DEF Sane
  <2>5. CASE Abandoned(s, i, fs, pos) \/ Valid(s, i, ns, fs, pos, v)
    <3>1. LeftOpen(s, i, ns, fs, pos, v)
      BY <2>5 DEF LeftOpen
    <3>2. PICK n : n = Len(ns) + 1
      OBVIOUS
    <3>3. Opened(fs, gs, n) /\ Opening(b, t, n, Len(fs) + 1)
      BY <3>2
    <3>4. b[i] = s[i] /\ s[i].fn \in 1..Len(fs)
      BY <2>1, <2>2
    <3>5. Abandoned(t, i, gs, to)
      BY <3>1, <3>3, <3>4, OldAbandoned
    <3> QED
      BY <2>3, <3>5 DEF Sane
  <2> QED
    BY <2>2, <2>4, <2>5 DEF Sane
<1>4. Sane(t, Len(b) + 1, bs, gs, to, v)
  <2>1. ~Nests(bs, Len(ns) + 1)
    BY <1>1, <1>2, DefNests
  <2>2. t[Len(b) + 1].node = Len(ns) + 1
    BY DEF Opening
  <2>3. Valid(t, Len(b) + 1, bs, gs, to, v)
    BY <1>1, NewValid
  <2> QED
    BY <2>1, <2>2, <2>3 DEF Sane
<1>5. \A i \in 1..Len(t) : t[i].pc = "body" => Sane(t, i, bs, gs, to, v)
  <2>1. \A k \in 1..Len(t) : t[k].pc = "body" =>
          (k \in 1..Len(b) /\ t[k] = b[k]) \/ k = Len(b) + 1
    BY <1>1, OpeningFrames
  <2> QED
    BY <1>3, <1>4, <2>1
<1>6. Verdicts(bs, gs)
  <2>1. Verdicts(bs, fs)
    BY <1>2, DefVerdicts
  <2>2. \A f \in 1..Len(gs) : f \in 1..Len(fs) \/ f = Len(fs) + 1
    BY <1>1 DEF Opened
  <2>3. gs[Len(fs) + 1].state = "open" /\ \A f \in 1..Len(fs) : gs[f] = fs[f]
    BY DEF Opened
  <2> QED
    BY <2>1, <2>2, <2>3 DEF Verdicts
<1> QED
  BY <1>5, <1>6 DEF AllSane

(* A function that exists has a body already. *)
LEMMA DefinesNew ==
  ASSUME TypeInv, VInv, NEW name, NEW n, Definable(Named(name), n)
  PROVE  Named(name) = 0 /\ Defined(name) = Len(funcs) + 1
<1>1. Named(name) = 0
  <2> SUFFICES ASSUME Named(name) # 0 PROVE FALSE
    OBVIOUS
  <2>1. Named(name) \in 1..Len(funcs)
    BY NamedType
  <2>2. Len(funcs[Named(name)].blocks) >= 1
    BY <2>1 DEF VInv, Framed, Making
  <2>3. Len(funcs[Named(name)].blocks) = 0
    BY EmptyType DEF Definable
  <2> QED
    BY ONLY <2>2, <2>3
<1> QED
  BY <1>1 DEF Defined

LEMMA DefinesOpened ==
  ASSUME TypeInv, NEW name \in FuncNames, NEW params \in Seq(ParamNames),
         Named(name) = 0, Defined(name) = Len(funcs) + 1
  PROVE  Opened(funcs, Redefined(Defined(name), WithBody(Unbodied(name, params))), Fresh)
<1>1. PICK f, x, y, gs : /\ f = Len(funcs) + 1 /\ x = Unbodied(name, params)
                         /\ y = WithBody(x) /\ gs = Redefined(f, y)
  OBVIOUS
<1>2. /\ x.blocks = <<>> /\ x.state = "open" /\ y \in Function
      /\ y.blocks = Append(x.blocks, <<>>) /\ Len(y.blocks) = Len(x.blocks) + 1
      /\ y.state = x.state
  <2>1. LET z == Unbodied(name, params)
        IN /\ z \in Function /\ z.blocks \in Seq(Seq(Instr)) /\ Len(z.blocks) \in Nat
           /\ z.name = name /\ z.state \in {"open", "verified"}
           /\ Named(name) = 0 => z.blocks = <<>> /\ z.state = "open"
           /\ WithBody(z) \in Function
           /\ WithBody(z).blocks = Append(z.blocks, <<>>)
           /\ Len(WithBody(z).blocks) = Len(z.blocks) + 1
           /\ WithBody(z).state = z.state
           /\ WithBody(z).name = z.name /\ WithBody(z).arity = z.arity
    BY UnbodiedType
  <2> QED
    BY <1>1, <2>1
<1>3. y.def = Fresh
  <2>1. x = [name |-> name, arity |-> Len(params), blocks |-> <<>>,
             state |-> "open", def |-> Fresh]
    BY <1>1 DEF Unbodied
  <2> QED
    BY <1>1, <2>1 DEF WithBody
<1>4. Len(y.blocks) = 1 /\ Len(y.blocks[1]) = 0
  BY <1>2, EmptyType
<1>5. funcs \in Seq(Function) /\ Len(funcs) \in Nat
  BY SomeFunctions
<1>6. RedefinedAs(f, y, gs)
  <2>1. f \notin 1..Len(funcs)
    BY <1>1, <1>5
  <2> QED
    BY <1>1, <1>2, <2>1, RedefinedType
<1>7. /\ gs \in Seq(Function) /\ Len(funcs) <= Len(gs)
      /\ f \in 1..Len(gs) /\ gs[f] = y /\ Len(gs) \in Nat
      /\ \A g \in 1..Len(gs) : g # f => g \in 1..Len(funcs) /\ gs[g] = funcs[g]
  BY <1>6 DEF RedefinedAs, Grown
<1>8. Len(gs) = Len(funcs) + 1
  <2>1. Len(gs) \in 1..Len(gs) /\ Len(gs) >= f
    BY <1>7
  <2>2. Len(gs) # f => Len(gs) \in 1..Len(funcs)
    BY <1>7, <2>1
  <2> QED
    BY <1>1, <1>5, <2>1, <2>2
<1>9. \A g \in 1..Len(funcs) : gs[g] = funcs[g]
  BY <1>1, <1>5, <1>7
<1>10. Opened(funcs, gs, Fresh)
  BY <1>1, <1>2, <1>3, <1>4, <1>7, <1>8, <1>9 DEF Opened
<1> QED
  BY <1>1, <1>10

LEMMA DefinesNode ==
  ASSUME TypeInv, NEW p \in 0..Len(ast), NEW name \in FuncNames,
         NEW params \in Seq(ParamNames)
  PROVE  /\ Defining(ast, DefAst(p, name, params), ScopeOf(p))
         /\ Defining(ast, Append(Adopted(p), DefNode(p, name, params)), ScopeOf(p))
<1>1. PICK x, new, failed : /\ x = DefNode(p, name, params) /\ new = DefAst(p, name, params)
                            /\ failed = Append(Adopted(p), x)
  OBVIOUS
<1>2. /\ failed \in Seq(Node) /\ Kept(ast, failed)
      /\ Len(failed) = Fresh /\ failed[Fresh] = x
      /\ new \in Seq(Node) /\ Kept(ast, new)
      /\ Len(new) = Fresh + 1
      /\ new[Fresh].type = "FUNCDEF" /\ new[Fresh].scope = ScopeOf(p)
      /\ new[Fresh + 1].type = "BLOCK" /\ new[Fresh + 1].scope = Fresh
  BY <1>1, DefAstType
<1>3. x.type = "FUNCDEF" /\ x.scope = ScopeOf(p) /\ Fresh \in Nat
  BY <1>1, DefNodeType
<1>4. Len(ast) \in Nat /\ Fresh = Len(ast) + 1
  BY DEF TypeInv, Typed, Fresh
<1>5. Defining(ast, failed, ScopeOf(p))
  <2>1. \A n \in 1..Len(failed) : ~(n > Len(ast) + 1)
    BY <1>2, <1>4
  <2>2. Len(ast) + 1 \in 1..Len(failed)
    BY <1>2, <1>4
  <2> QED
    BY <1>2, <1>3, <1>4, <2>1, <2>2 DEF Defining
<1>6. Defining(ast, new, ScopeOf(p))
  <2>1. \A n \in 1..Len(new) : n > Len(ast) + 1 => n = Fresh + 1
    BY <1>2, <1>4
  <2>2. Len(ast) + 1 \in 1..Len(new)
    BY <1>2, <1>4
  <2> QED
    BY <1>2, <1>4, <2>1, <2>2 DEF Defining
<1> QED
  BY <1>1, <1>5, <1>6

LEMMA DefinesOpening ==
  ASSUME NEW S, NEW b \in Seq(S), NEW f, NEW T, S \subseteq T, BodyFrame(f) \in T,
         NewFrame("block", Fresh + 1) \in T
  PROVE  Opening(b, Append(Append(b, BodyFrame(f)), NewFrame("block", Fresh + 1)), Fresh, f)
<1>1. PICK g, h : g = BodyFrame(f) /\ h = NewFrame("block", Fresh + 1)
  OBVIOUS
<1>2. g.pc = "body" /\ g.node = Fresh /\ g.fn = f
  BY <1>1 DEF BodyFrame, NewFrame
<1>3. h.pc = "block" /\ Len(h.vals) = 0
  <2>1. h.vals = <<>> /\ h.pc = "block"
    BY <1>1 DEF NewFrame
  <2> QED
    BY <2>1, EmptyType
<1>4. b \in Seq(T) /\ Len(b) \in Nat
  BY SeqMono
<1>5. PICK t, u : t = Append(b, g) /\ u = Append(t, h)
  OBVIOUS
<1>6. /\ t \in Seq(T) /\ Len(t) = Len(b) + 1 /\ t[Len(b) + 1] = g
      /\ \A k \in 1..Len(b) : t[k] = b[k]
  BY <1>1, <1>4, <1>5, AppendType
<1>7. /\ Len(u) = Len(t) + 1 /\ u[Len(t) + 1] = h
      /\ \A k \in 1..Len(t) : u[k] = t[k]
  BY <1>1, <1>5, <1>6, AppendType
<1>8. Len(u) = Len(b) + 2 /\ u[Len(b) + 2] = h /\ u[Len(b) + 1] = g
      /\ \A k \in 1..Len(b) : u[k] = b[k]
  BY <1>4, <1>6, <1>7
<1>9. Opening(b, u, Fresh, f)
  BY <1>2, <1>3, <1>8 DEF Opening
<1> QED
  BY <1>1, <1>5, <1>9

LEMMA VDefine ==
  ASSUME TypeInv, VInv, NEW base, IsStack(base, ast, funcs), Rests(stack, base),
         NEW p \in 0..Len(ast), InDef(base, ast, ScopeOf(p)),
         NEW name \in FuncNames, NEW params \in Seq(ParamNames),
         DefineFunction(base, p, name, params), UNCHANGED ub
  PROVE  VInv'
<1>1. /\ ast \in Seq(Node) /\ funcs \in Seq(Function) /\ IsStack(stack, ast, funcs)
      /\ Framed(stack, ast, funcs) /\ Fresh = Len(ast) + 1
  BY DEF TypeInv, Typed, VInv, Fresh
<1>2. PICK t, bs, gs, to, w, d : /\ t = stack' /\ bs = ast' /\ gs = funcs' /\ to = at'
                                 /\ w = ret' /\ d = ScopeOf(p)
  OBVIOUS
<1>3. CASE ~Definable(Named(name), Len(params))
  <2>1. /\ bs = Append(Adopted(p), DefNode(p, name, params))
        /\ t = base /\ w = NULL /\ gs = funcs /\ to = at
    BY <1>2, <1>3, DefineCases
  <2>2. Defining(ast, bs, d) /\ InDef(base, ast, d)
    BY <1>2, <2>1, DefinesNode
  <2>3. Framed(base, bs, funcs)
    BY <1>1, <2>2, RefusedFramed
  <2>4. ub = {} => AllSane(base, bs, funcs, at, NULL)
    <3> SUFFICES ASSUME ub = {} PROVE AllSane(base, bs, funcs, at, NULL)
      OBVIOUS
    <3>1. AllSane(stack, ast, funcs, at, ret)
      BY DEF VInv
    <3> QED
      BY <1>1, <2>2, <3>1, RefusedSane
  <2> QED
    BY <1>2, <2>1, <2>3, <2>4 DEF VInv
<1>4. CASE Definable(Named(name), Len(params))
  <2>1. Named(name) = 0 /\ Defined(name) = Len(funcs) + 1
    BY <1>4, DefinesNew
  <2>2. PICK f : f = Defined(name)
    OBVIOUS
  <2>3. /\ bs = DefAst(p, name, params)
        /\ gs = Redefined(Defined(name), WithBody(Unbodied(name, params)))
        /\ to = <<f, Len(Unbodied(name, params).blocks) + 1>>
        /\ t = Append(Append(base, BodyFrame(f)), NewFrame("block", Fresh + 1))
        /\ w = ret
    BY <1>2, <1>4, <2>2, DefineCases
  <2>4. Defining(ast, bs, d) /\ InDef(base, ast, d)
    BY <1>2, <2>3, DefinesNode
  <2>5. Opened(funcs, gs, Len(ast) + 1)
    BY <1>1, <2>1, <2>3, DefinesOpened
  <2>6. Opening(base, t, Len(ast) + 1, Len(funcs) + 1)
    <3>1. base \in Seq(FrameOf(ast, funcs))
      BY DEF IsStack
    <3>2. PICK T : T = FrameOf(ast, funcs) \cup {BodyFrame(f), NewFrame("block", Fresh + 1)}
      OBVIOUS
    <3>3. FrameOf(ast, funcs) \subseteq T /\ BodyFrame(f) \in T
          /\ NewFrame("block", Fresh + 1) \in T
      BY <3>2
    <3>4. Opening(base, t, Fresh, f)
      BY <2>3, <3>1, <3>3, DefinesOpening
    <3> QED
      BY <1>1, <2>1, <2>2, <3>4
  <2>7. to = <<Len(funcs) + 1, 1>>
    <3>1. Unbodied(name, params).blocks = <<>>
      BY <2>1 DEF Unbodied
    <3>2. Len(Unbodied(name, params).blocks) + 1 = 1
      BY <3>1, EmptyType
    <3> QED
      BY <2>1, <2>2, <2>3, <3>2
  <2>8. Framed(t, bs, gs)
    BY <1>1, <2>4, <2>5, <2>6, DefinedFramed
  <2>9. ub = {} => AllSane(t, bs, gs, to, ret)
    <3> SUFFICES ASSUME ub = {} PROVE AllSane(t, bs, gs, to, ret)
      OBVIOUS
    <3>1. AllSane(stack, ast, funcs, at, ret)
      BY DEF VInv
    <3> QED
      BY <1>1, <2>4, <2>5, <2>6, <2>7, <3>1, DefinedSane
  <2> QED
    BY <1>2, <2>3, <2>8, <2>9 DEF VInv
<1> QED
  BY <1>3, <1>4

LEMMA VDef == ASSUME TypeInv, DoomInv, ScopeInv, VInv, EnterDef PROVE VInv'
<1> DEFINE base == SubSeq(stack, 1, Len(stack) - 1)
<1>1. PICK name \in FuncNames, params \in ParamLists :
        DefineFunction(base, Top.node, name, params)
  BY DEF EnterDef
<1>2. params \in Seq(ParamNames) /\ Top.node \in 0..Len(ast)
  <2>1. "FUNCDEF" \in NodeType
    BY DEF NodeType
  <2> QED
    BY <2>1, BelowType, CodegenAssumption
<1>3. /\ Top.pc = "expr" /\ Top.pc \notin Base /\ UNCHANGED ub
  BY DEF EnterDef, Enter, At, Base
<1>4. /\ IsStack(base, ast, funcs) /\ Len(base) = Len(stack) - 1
      /\ \A i \in 1..(Len(stack) - 1) : base[i] = stack[i]
  BY <1>3, PopStack
<1> HIDE DEF base
<1>5. Len(stack) >= 2 /\ Len(stack) \in Nat /\ Len(base) \in Nat
      /\ Len(base) \in 1..Len(stack) /\ Len(stack) \in 1..Len(stack)
  <2>1. Len(stack) >= 2 /\ Len(stack) \in Nat
    BY <1>3, TopType DEF TypeInv
  <2> QED
    BY <1>4, <2>1
<1>6. Rests(stack, base)
  <2>1. \A k \in 1..Len(base) : base[k].pc \in Waiting /\ base[k] = stack[k]
    BY <1>4 DEF DoomInv, Suspended
  <2>2. ASSUME NEW k \in 1..Len(stack), stack[k].pc \notin {"expr", "main"}
        PROVE  k \in 1..Len(base) /\ base[k] = stack[k]
    <3>1. k # Len(stack)
      BY <1>3, <2>2 DEF Top
    <3>2. k \in 1..Len(base)
      BY <1>4, <1>5, <3>1
    <3> QED
      BY <2>1, <3>2
  <2> QED
    BY <1>3, <1>5, <2>1, <2>2 DEF Rests, Top
<1>7. \A i \in 1..Len(base) : Inner(base, i, Len(base)) => ScopeOf(Top.node) = base[i].node
  <2> SUFFICES ASSUME NEW i \in 1..Len(base), Inner(base, i, Len(base))
               PROVE  ScopeOf(Top.node) = base[i].node
    OBVIOUS
  <2>1. i \in 1..Len(stack) /\ base[i] = stack[i]
    BY <1>4, <1>5
  <2>2. Inner(stack, i, Len(stack))
    <3>1. ASSUME NEW j \in (i + 1)..Len(stack) PROVE stack[j].pc # "body"
      <4>1. CASE j = Len(stack)
        BY <1>3, <4>1 DEF Top
      <4>2. CASE j # Len(stack)
        <5>1. j \in (i + 1)..Len(base) /\ base[j] = stack[j]
          BY <1>4, <1>5, <4>2
        <5> QED
          BY <5>1 DEF Inner
      <4> QED
        BY <4>1, <4>2
    <3> QED
      BY <2>1, <3>1 DEF Inner
  <2>3. Around(ast, stack[Len(stack)].node) = stack[i].node
    BY <1>5, <2>1, <2>2 DEF ScopeInv, Scoped
  <2> QED
    BY <2>1, <2>3 DEF Top, Around, ScopeOf
<1>8. ASSUME \A i \in 1..Len(base) : base[i].pc # "body"
      PROVE  ScopeOf(Top.node) = 0
  <2>1. \A j \in 1..Len(stack) : stack[j].pc # "body"
    <3> SUFFICES ASSUME NEW j \in 1..Len(stack), stack[j].pc = "body"
                 PROVE  FALSE
      OBVIOUS
    <3>1. j \in 1..Len(base) /\ base[j] = stack[j]
      BY <1>6 DEF Rests
    <3> QED
      BY <1>8, <3>1
  <2>2. Around(ast, stack[Len(stack)].node) = 0
    BY <1>5, <2>1 DEF VInv, Framed, Outside
  <2> QED
    BY <2>2 DEF Top, Around, ScopeOf
<1>9. ScopeOf(Top.node) \in 0..Len(ast)
  BY <1>2, ScopeInAst DEF VInv, Framed
<1>10. InDef(base, ast, ScopeOf(Top.node))
  BY <1>7, <1>8, <1>9 DEF InDef
<1> QED
  BY <1>1, <1>2, <1>3, <1>4, <1>6, <1>10, VDefine

LEMMA VEmit == ASSUME TypeInv, VInv, EmitStarts PROVE VInv'
<1> DEFINE base == <<[Top EXCEPT !.pc = "coded"]>>
<1>1. /\ DefineFunction(base, 0, "main", <<>>) /\ UNCHANGED ub /\ Top.pc = "main"
  BY DEF EmitStarts, At
<1>2. <<>> \in Seq(ParamNames) /\ "main" \in FuncNames
  BY CodegenAssumption, EmptyType
<1>3. /\ IsStack(base, ast, funcs) /\ Len(base) = 1 /\ base[1].pc = "coded"
      /\ base[1].node = Top.node /\ 0 \in 0..Len(ast)
  BY EmitBase
<1> HIDE DEF base
<1>4. Len(stack) = 1 /\ stack[1] = Top
  BY <1>1, BottomFrame DEF Base
<1>5. 1..Len(base) = {1} /\ 1..Len(stack) = {1}
  BY <1>3, <1>4
<1>6. Rests(stack, base)
  BY <1>1, <1>3, <1>4, <1>5 DEF Rests, Waiting
<1>7. ScopeOf(0) = 0
  BY DEF ScopeOf
<1>8. InDef(base, ast, ScopeOf(0))
  BY <1>3, <1>5, <1>7 DEF InDef, Inner
<1>9. PICK name, params : name = "main" /\ params = <<>>
  OBVIOUS
<1> QED
  BY <1>1, <1>2, <1>3, <1>6, <1>8, <1>9, VDefine

-----------------------------------------------------------------------------
(* The end of a definition.                                                *)

(* A verdict on f; code was added only in the places of U. *)
Judges(fs, gs, f, U) ==
  /\ gs \in Seq(Function) /\ Len(gs) = Len(fs)
  /\ \A g \in 1..Len(fs) :
       /\ gs[g].def = fs[g].def /\ Len(gs[g].blocks) = Len(fs[g].blocks)
       /\ g # f => gs[g].state = fs[g].state
       /\ \A b \in Blocks(fs, g) : <<g, b>> \notin U => gs[g].blocks[b] = fs[g].blocks[b]

LEMMA JudgedJudges ==
  ASSUME NEW fs \in Seq(Function), NEW f \in 1..Len(fs),
         NEW state \in {"verified", "dropped", "rejected"}, NEW U
  PROVE  Judges(fs, Judged(fs, f, state), f, U) /\ Judged(fs, f, state)[f].state = state
<1>1. PICK gs : gs = Judged(fs, f, state)
  OBVIOUS
<1>2. /\ gs \in Seq(Function) /\ Len(gs) = Len(fs) /\ gs[f].state = state
      /\ \A g \in 1..Len(fs) : g # f => gs[g] = fs[g]
  <2>1. LET hs == Judged(fs, f, state)
        IN /\ hs \in Seq(Function) /\ Len(hs) = Len(fs) /\ Grown(fs, hs)
           /\ hs[f].state = state
           /\ \A g \in 1..Len(fs) : g # f => hs[g] = fs[g]
    BY JudgedType
  <2> QED
    BY <1>1, <2>1
<1>3. gs[f].def = fs[f].def /\ gs[f].blocks = fs[f].blocks
  <2>1. PICK x : x = [fs[f] EXCEPT !.state = state]
    OBVIOUS
  <2>2. fs[f] \in Function
    BY FunctionFields
  <2>3. x \in Function /\ x.def = fs[f].def /\ x.blocks = fs[f].blocks
    BY <2>1, <2>2 DEF Function
  <2>4. gs = [fs EXCEPT ![f] = x]
    BY <1>1, <2>1 DEF Judged
  <2>5. gs[f] = x
    BY <2>3, <2>4, ExceptType
  <2> QED
    BY <2>3, <2>5
<1>4. Judges(fs, gs, f, U)
  BY <1>2, <1>3 DEF Judges
<1> QED
  BY <1>1, <1>2, <1>4

LEMMA AddedJudges ==
  ASSUME NEW fs \in Seq(Function), NEW pos \in Places(fs), NEW x, NEW hs,
         Adds(fs, hs, pos[1], pos[2], x), NEW gs, NEW f, Judges(hs, gs, f, {})
  PROVE  Judges(fs, gs, f, {pos})
<1>1. pos = <<pos[1], pos[2]>>
  BY Zenon, PlacePair
<1>2. gs \in Seq(Function) /\ Len(gs) = Len(fs) /\ Len(hs) = Len(fs)
  BY DEF Judges, Adds
<1>3. ASSUME NEW g \in 1..Len(fs)
      PROVE  /\ gs[g].def = fs[g].def /\ Len(gs[g].blocks) = Len(fs[g].blocks)
             /\ g # f => gs[g].state = fs[g].state
             /\ \A b \in Blocks(fs, g) :
                  <<g, b>> \notin {pos} => gs[g].blocks[b] = fs[g].blocks[b]
  <2>1. /\ hs[g].def = fs[g].def /\ hs[g].state = fs[g].state
        /\ Len(hs[g].blocks) = Len(fs[g].blocks)
        /\ \A b \in Blocks(fs, g) :
             g # pos[1] \/ b # pos[2] => hs[g].blocks[b] = fs[g].blocks[b]
    BY DEF Adds, SameHead
  <2>2. /\ gs[g].def = hs[g].def /\ Len(gs[g].blocks) = Len(hs[g].blocks)
        /\ g # f => gs[g].state = hs[g].state
        /\ \A b \in Blocks(hs, g) : gs[g].blocks[b] = hs[g].blocks[b]
    BY <1>2 DEF Judges
  <2>3. Blocks(hs, g) = Blocks(fs, g)
    BY <2>1 DEF Blocks
  <2>4. \A b : <<g, b>> \notin {pos} => g # pos[1] \/ b # pos[2]
    BY <1>1
  <2> QED
    BY Zenon, <2>1, <2>2, <2>3, <2>4
<1> QED
  BY <1>2, <1>3 DEF Judges

(* t is s without the frame of the definition. *)
Popped(s, t) ==
  /\ Len(s) \in Nat /\ Len(s) >= 2 /\ Len(t) = Len(s) - 1
  /\ \A k \in 1..(Len(s) - 1) : t[k] = s[k]
  /\ s[Len(s)].pc = "body"

LEMMA PoppedParts ==
  ASSUME NEW s, NEW t, Popped(s, t)
  PROVE  /\ Len(t) \in Nat /\ Len(s) \in 1..Len(s)
         /\ \A k \in 1..Len(t) : k \in 1..Len(s) /\ k < Len(s) /\ t[k] = s[k]
         /\ \A k \in 1..Len(s) : k # Len(s) => k \in 1..Len(t) /\ t[k] = s[k]
BY DEF Popped

LEMMA DoneFramed ==
  ASSUME NEW ns, NEW fs \in Seq(Function), NEW s, NEW t, Popped(s, t),
         Framed(s, ns, fs), NEW gs, NEW U, Judges(fs, gs, s[Len(s)].fn, U)
  PROVE  Framed(t, ns, gs)
<1>1. /\ Len(t) \in Nat /\ Len(s) \in 1..Len(s) /\ s[Len(s)].pc = "body"
      /\ \A k \in 1..Len(t) : k \in 1..Len(s) /\ k < Len(s) /\ t[k] = s[k]
  BY PoppedParts DEF Popped
<1>2. Making(s, ns, fs) /\ ScopesOK(ns) /\ Outside(s, ns)
  BY DEF Framed
<1>3. /\ Len(gs) = Len(fs)
      /\ \A g \in 1..Len(fs) : /\ gs[g].def = fs[g].def
                               /\ Len(gs[g].blocks) = Len(fs[g].blocks)
                               /\ g # s[Len(s)].fn => gs[g].state = fs[g].state
  BY DEF Judges
<1>4. \A i \in 1..Len(t) : t[i].pc = "body" =>
        /\ gs[t[i].fn].state = "open" /\ gs[t[i].fn].def = t[i].node
        /\ t[i].fn \in 1..Len(gs)
  <2> SUFFICES ASSUME NEW i \in 1..Len(t), t[i].pc = "body"
               PROVE  /\ gs[t[i].fn].state = "open" /\ gs[t[i].fn].def = t[i].node
                      /\ t[i].fn \in 1..Len(gs)
    OBVIOUS
  <2>1. i \in 1..Len(s) /\ i < Len(s) /\ t[i] = s[i]
    BY <1>1
  <2>2. s[i].fn # s[Len(s)].fn
    BY <1>1, <1>2, <2>1 DEF Making
  <2>3. /\ fs[s[i].fn].state = "open" /\ fs[s[i].fn].def = s[i].node
        /\ s[i].fn \in 1..Len(fs)
    BY <1>2, <2>1 DEF Making
  <2> QED
    BY <1>3, <2>1, <2>2, <2>3
<1>5. \A i, k \in 1..Len(t) : i < k /\ t[i].pc = "body" /\ t[k].pc = "body" =>
        t[i].fn # t[k].fn /\ Nests(ns, t[i].node)
  BY <1>1, <1>2 DEF Making
<1>6. /\ \A f \in 1..Len(gs) : Len(gs[f].blocks) >= 1 /\ gs[f].def \in 1..Len(ns)
      /\ \A f, g \in 1..Len(gs) : gs[f].def = gs[g].def => f = g
  BY <1>2, <1>3 DEF Making
<1>7. Outside(t, ns)
  <2> SUFFICES ASSUME NEW k \in 1..Len(t), \A j \in 1..k : t[j].pc # "body"
               PROVE  Around(ns, t[k].node) = 0
    BY DEF Outside
  <2>1. k \in 1..Len(s) /\ t[k] = s[k]
    BY <1>1
  <2>2. \A j \in 1..k : j \in 1..Len(t)
    BY <1>1
  <2>3. \A j \in 1..k : s[j].pc # "body"
    BY <1>1, <2>2
  <2> QED
    BY <1>2, <2>1, <2>3 DEF Outside
<1> QED
  BY <1>2, <1>4, <1>5, <1>6, <1>7 DEF Framed, Making

LEMMA DroppedSane ==
  ASSUME NEW ns, NEW fs \in Seq(Function), NEW s, NEW t, Popped(s, t), Suspended(s),
         NEW pos, NEW v, AllSane(s, ns, fs, pos, v),
         NEW gs, NEW U, NEW f, Judges(fs, gs, f, U), gs[f].state = "dropped"
  PROVE  AllSane(t, ns, gs, pos, NULL)
<1>1. \A i \in 1..Len(t) : DoomedIn(t, i, NULL)
  <2>1. Len(t) \in 1..(Len(s) - 1) /\ t[Len(t)] = s[Len(t)]
    BY PoppedParts DEF Popped
  <2>2. t[Len(t)].pc \in Waiting
    BY <2>1 DEF Suspended
  <2> QED
    BY <2>2 DEF DoomedIn
<1>2. Verdicts(ns, gs)
  <2> SUFFICES ASSUME NEW g \in 1..Len(gs)
               PROVE  /\ gs[g].state = "rejected" => Nests(ns, gs[g].def)
                      /\ gs[g].state = "verified" => ~Nests(ns, gs[g].def)
    BY DEF Verdicts
  <2>1. g \in 1..Len(fs) /\ gs[g].def = fs[g].def /\ (g # f => gs[g].state = fs[g].state)
    BY DEF Judges
  <2>2. CASE g = f
    BY <2>2
  <2>3. CASE g # f
    BY <2>1, <2>3 DEF AllSane, Verdicts
  <2> QED
    BY <2>2, <2>3
<1> QED
  BY <1>1, <1>2 DEF AllSane, Sane

(* The verdict is right: the function is accepted if nothing nests in it. *)
Rightly(ns, gs, f) ==
  /\ gs[f].state = "rejected" => Nests(ns, gs[f].def)
  /\ gs[f].state = "verified" => ~Nests(ns, gs[f].def)

LEMMA DoneSane ==
  ASSUME NEW ns, NEW fs \in Seq(Function), NEW s, NEW t, Popped(s, t),
         Framed(s, ns, fs), NEW pos, NEW v, v # NULL, AllSane(s, ns, fs, pos, v),
         NEW gs, NEW f, f = s[Len(s)].fn, Judges(fs, gs, f, {pos}), Rightly(ns, gs, f),
         NEW w
  PROVE  AllSane(t, ns, gs, pos, w)
<1>1. /\ Len(t) \in Nat /\ Len(s) \in 1..Len(s) /\ s[Len(s)].pc = "body"
      /\ \A k \in 1..Len(t) : k \in 1..Len(s) /\ k < Len(s) /\ t[k] = s[k]
      /\ \A k \in 1..Len(s) : k # Len(s) => k \in 1..Len(t) /\ t[k] = s[k]
      /\ Len(s) \in Nat
  BY PoppedParts DEF Popped
<1>2. ASSUME NEW i \in 1..Len(t), t[i].pc = "body"
      PROVE  Sane(t, i, ns, gs, pos, w)
  <2>1. i \in 1..Len(s) /\ i < Len(s) /\ t[i] = s[i] /\ i \in Nat
    BY <1>1, <1>2
  <2>2. Nests(ns, s[i].node) /\ s[i].fn \in 1..Len(fs)
    BY <1>1, <1>2, <2>1 DEF Framed, Making
  <2>3. Sane(s, i, ns, fs, pos, v)
    BY <1>2, <2>1 DEF AllSane
  <2>4. CASE DoomedIn(s, i, v)
    <3>1. PICK j \in (i + 1)..Len(s) : s[j].pc = "rhs" /\ s[j].vals[1] = NULL
      BY <2>4 DEF DoomedIn
    <3>2. j \in 1..Len(s) /\ j # Len(s)
      BY <1>1, <2>1, <3>1
    <3>3. t[j] = s[j] /\ j \in 1..Len(t)
      BY <1>1, <3>2
    <3>4. j \in (i + 1)..Len(t)
      BY <1>1, <2>1, <3>1, <3>3
    <3>5. DoomedIn(t, i, w)
      BY <3>1, <3>3, <3>4 DEF DoomedIn
    <3> QED
      BY <3>5 DEF Sane
  <2>5. CASE Abandoned(s, i, fs, pos)
    <3>1. PICK g : g = s[i].fn
      OBVIOUS
    <3>2. PICK b \in Blocks(fs, g) : /\ Unclosed(fs[g].blocks[b])
                                     /\ <<g, b>> \notin Over(s, i + 1, pos)
      BY <2>5, <3>1 DEF Abandoned
    <3>3. <<g, b>> # pos
      BY <3>2, OverFrames
    <3>4. g \in 1..Len(fs)
      BY <2>2, <3>1
    <3>5. gs[g].blocks[b] = fs[g].blocks[b] /\ Len(gs[g].blocks) = Len(fs[g].blocks)
      BY <3>2, <3>3, <3>4 DEF Judges
    <3>6. b \in Blocks(gs, g) /\ t[i].fn = g
      BY <2>1, <3>1, <3>2, <3>5 DEF Blocks
    <3>7. <<g, b>> \notin Over(t, i + 1, pos)
      <4> SUFFICES ASSUME <<g, b>> \in Over(t, i + 1, pos) PROVE FALSE
        OBVIOUS
      <4>1. PICK k \in (i + 1)..Len(t) : <<g, b>> \in Ahead(t[k])
        BY <3>3, OverFrames
      <4>2. k \in 1..Len(t)
        BY <1>1, <2>1, <4>1
      <4>3. t[k] = s[k] /\ k \in (i + 1)..Len(s)
        BY <1>1, <2>1, <4>1, <4>2
      <4> QED
        BY <3>2, <4>1, <4>3, OverFrames
    <3>8. Abandoned(t, i, gs, pos)
      BY <3>2, <3>5, <3>6, <3>7 DEF Abandoned
    <3> QED
      BY <2>1, <2>2, <3>8 DEF Sane
  <2> QED
    BY <2>2, <2>3, <2>4, <2>5 DEF Sane
<1>3. Verdicts(ns, gs)
  <2> SUFFICES ASSUME NEW g \in 1..Len(gs) PROVE Rightly(ns, gs, g)
    BY DEF Verdicts, Rightly
  <2>1. g \in 1..Len(fs) /\ gs[g].def = fs[g].def /\ (g # f => gs[g].state = fs[g].state)
    BY DEF Judges
  <2>2. CASE g # f
    BY <2>1, <2>2 DEF AllSane, Verdicts, Rightly
  <2> QED
    BY <2>2
<1> QED
  BY <1>2, <1>3 DEF AllSane

(* A return is added to the code of function f, whose frame is on top. *)
Returns(fs, hs, pos, v, x) ==
  /\ x \in Instr /\ Adds(fs, hs, pos[1], pos[2], x)
  /\ x.op = "ret" /\ Len(x.args) = 1 /\ x.args[1] = v /\ Len(x.to) = 0

(* A block that was left is never closed. *)
LEMMA AbandonedRejected ==
  ASSUME NEW fs \in Seq(Function), NEW s, NEW f, f = s[Len(s)].fn, NEW pos,
         f \in 1..Len(fs), pos \in Places(fs),
         Abandoned(s, Len(s), fs, pos), NEW v, NEW x, NEW hs, Returns(fs, hs, pos, v, x)
  PROVE  ~WellFormed(hs, f)
<1>1. PICK b \in Blocks(fs, f) : /\ Unclosed(fs[f].blocks[b])
                                 /\ <<f, b>> \notin Over(s, Len(s) + 1, pos)
  BY DEF Abandoned
<1>2. <<f, b>> # pos
  BY <1>1, OverFrames
<1>3. f # pos[1] \/ b # pos[2]
  <2>1. pos = <<pos[1], pos[2]>>
    BY Zenon, PlacePair
  <2> QED
    BY <1>2, <2>1
<1>4. hs[f].blocks[b] = fs[f].blocks[b] /\ Len(hs[f].blocks) = Len(fs[f].blocks)
  BY <1>1, <1>3 DEF Returns, Adds
<1>5. b \in Blocks(hs, f)
  BY <1>1, <1>4 DEF Blocks
<1>6. PICK code : code = hs[f].blocks[b]
  OBVIOUS
<1>7. Len(code) \in Nat /\ code \in Seq(Instr)
  <2>1. fs[f].blocks[b] \in Seq(Instr) /\ Len(fs[f].blocks[b]) \in Nat
    BY <1>1, CodeFields
  <2> QED
    BY <1>4, <1>6, <2>1
<1>8. \A k \in 1..Len(code) : code[k].op \notin Terminators
  BY <1>1, <1>4, <1>6 DEF Unclosed
<1> SUFFICES ASSUME WellFormed(hs, f) PROVE FALSE
  BY Zenon
<1>9. /\ code # <<>>
      /\ \A k \in 1..Len(code) : k = Len(code) <=> code[k].op \in Terminators
  BY Zenon, <1>5, <1>6 DEF WellFormed
<1>10. Len(code) \in 1..Len(code)
  BY <1>7, <1>9
<1> QED
  BY <1>8, <1>9, <1>10

(* With the return all blocks of a function that is all right are closed. *)
LEMMA ValidAccepted ==
  ASSUME NEW fs \in Seq(Function), NEW s, Len(s) \in Nat, NEW f, f = s[Len(s)].fn,
         f \in 1..Len(fs), s[Len(s)].pc = "body", NEW ns, NEW pos, NEW v,
         Valid(s, Len(s), ns, fs, pos, v), NEW x, NEW hs, Returns(fs, hs, pos, v, x)
  PROVE  WellFormed(hs, f)
<1>1. PICK dom : ValidBy(s, Len(s), ns, fs, pos, v, dom)
  BY DEF Valid
<1>2. /\ CodeFine(fs, f, dom)
      /\ pos \in Places(fs) /\ pos[1] = f /\ Unclosed(fs[f].blocks[pos[2]])
      /\ \A b \in Blocks(fs, f) :
           Closed(fs[f].blocks[b]) \/ <<f, b>> \in Over(s, Len(s) + 1, pos)
      /\ s[Len(s)].pc \in Waiting => Held(fs, f, dom[pos[2]], v)
  BY <1>1 DEF ValidBy
<1>3. Held(fs, f, dom[pos[2]], v)
  BY <1>2 DEF Waiting
<1>4. PICK b : b = pos[2]
  OBVIOUS
<1>5. b \in Blocks(fs, f) /\ Adds(fs, hs, f, b, x) /\ x \in Instr
  BY <1>2, <1>4, PlacePair DEF Returns
<1>6. Branching2(fs, f, dom, b, x)
  <2>1. Targets(x) = {}
    <3>1. Len(x.to) = 0 /\ 1..0 = {}
      BY DEF Returns
    <3> QED
      BY <3>1 DEF Targets
  <2>2. \A j \in 1..Len(x.args) : Held(fs, f, dom[b], x.args[j])
    BY <1>3, <1>4 DEF Returns
  <2>3. x.op \in {"br", "condbr", "ret"}
    BY DEF Returns
  <2> QED
    BY <2>1, <2>2, <2>3 DEF Branching2, Reaches
<1>7. Branched(fs, hs, f, dom, b, x)
  BY <1>2, <1>4, <1>5, <1>6, BranchFine
<1>8. CodeFine(hs, f, dom) /\ Closed(hs[f].blocks[b])
  BY <1>7 DEF Branched
<1>9. \A c \in Blocks(hs, f) : Closed(hs[f].blocks[c])
  <2> SUFFICES ASSUME NEW c \in Blocks(hs, f), c # b
               PROVE  Closed(hs[f].blocks[c])
    BY Zenon, <1>8
  <2>1. c \in Blocks(fs, f)
    BY Zenon, <1>5 DEF Adds, Blocks
  <2>2. hs[f].blocks[c] = fs[f].blocks[c]
    BY <1>5, <2>1 DEF Adds
  <2>3. <<f, c>> \notin Over(s, Len(s) + 1, pos)
    <3>1. Over(s, Len(s) + 1, pos) = {pos}
      <4>1. \A k \in (Len(s) + 1)..Len(s) : Ahead(s[k]) = {}
        OBVIOUS
      <4> QED
        BY <4>1, OverNothing
    <3>2. pos = <<f, b>>
      BY Zenon, <1>2, <1>4, PlacePair
    <3> QED
      BY <3>1, <3>2
  <2> QED
    BY <1>2, <2>1, <2>2, <2>3
<1>10. hs \in Seq(Function) /\ f \in 1..Len(hs)
  BY <1>5 DEF Adds
<1> QED
  BY <1>8, <1>9, <1>10, FineIsWellFormed

(* What the verifier thinks of the function. *)
LEMMA VerdictRight ==
  ASSUME NEW fs \in Seq(Function), NEW s, Len(s) \in Nat, Len(s) >= 1,
         s[Len(s)].pc = "body", NEW ns, NEW pos, pos \in Places(fs),
         NEW v, v # NULL, Framed(s, ns, fs), AllSane(s, ns, fs, pos, v),
         NEW f, f = s[Len(s)].fn, NEW x, NEW hs, Returns(fs, hs, pos, v, x)
  PROVE  f \in 1..Len(fs) /\ fs[f].def = s[Len(s)].node
         /\ (WellFormed(hs, f) <=> ~Nests(ns, s[Len(s)].node))
<1>1. Len(s) \in 1..Len(s)
  OBVIOUS
<1>2. f \in 1..Len(fs) /\ fs[f].def = s[Len(s)].node
  BY <1>1 DEF Framed, Making
<1>3. Sane(s, Len(s), ns, fs, pos, v)
  BY <1>1 DEF AllSane
<1>4. ~DoomedIn(s, Len(s), v)
  BY DEF DoomedIn
<1>5. CASE Nests(ns, s[Len(s)].node)
  <2>1. Abandoned(s, Len(s), fs, pos)
    BY <1>3, <1>4, <1>5 DEF Sane
  <2>2. ~WellFormed(hs, f)
    BY <1>2, <2>1, AbandonedRejected
  <2> QED
    BY <1>2, <1>5, <2>2
<1>6. CASE ~Nests(ns, s[Len(s)].node)
  <2>1. Valid(s, Len(s), ns, fs, pos, v)
    BY <1>3, <1>4, <1>6 DEF Sane
  <2>2. WellFormed(hs, f)
    BY <1>2, <2>1, ValidAccepted
  <2> QED
    BY <1>2, <1>6, <2>2
<1> QED
  BY <1>5, <1>6

(* What the return adds. *)
LEMMA RetReturns ==
  ASSUME NEW fs \in Seq(Function), NEW pos \in Places(fs), NEW v \in Value,
         NEW hs, hs = Insert(fs, pos, "ret", <<v>>, <<>>, 0)
  PROVE  \E x : Returns(fs, hs, pos, v, x)
<1>1. PICK op, args, to, callee : op = "ret" /\ args = <<v>> /\ to = <<>> /\ callee = 0
  OBVIOUS
<1>2. op \in Opcode /\ op \notin Ops \cup {"ONE"} /\ callee \in Nat
  BY <1>1, CodegenAssumption DEF Opcode, Terminators
<1>3. /\ args \in Seq(Value) /\ Len(args) = 1 /\ args[1] = v
      /\ to \in Seq(Pos) /\ Len(to) = 0
  BY <1>1, OneType, EmptyType
<1>4. ~Folds(op, args)
  BY <1>2 DEF Folds
<1>5. PICK x : x = [op |-> op, args |-> args, to |-> to, callee |-> callee]
  OBVIOUS
<1>6. hs = Insert(fs, pos, op, args, to, callee)
  BY <1>1
<1>7. x \in Instr /\ Adds(fs, hs, pos[1], pos[2], x)
  <2>1. LET gs == Insert(fs, pos, op, args, to, callee)
            z == [op |-> op, args |-> args, to |-> to, callee |-> callee]
        IN /\ Folds(op, args) => gs = fs
           /\ ~Folds(op, args) => z \in Instr /\ Adds(fs, gs, pos[1], pos[2], z)
    BY <1>2, <1>3, InsertAdds
  <2> QED
    BY <1>4, <1>5, <1>6, <2>1
<1>8. x.op = "ret" /\ x.args = args /\ x.to = to
  BY <1>1, <1>5
<1>9. Returns(fs, hs, pos, v, x)
  BY <1>3, <1>7, <1>8 DEF Returns
<1> QED
  BY <1>9

LEMMA DonePopped ==
  ASSUME TypeInv, Top.pc = "body", NEW v, Return(v)
  PROVE  Popped(stack, stack') /\ ret' = v
<1>1. Len(stack) \in Nat /\ Len(stack) >= 2
  BY TopType DEF TypeInv, Base
<1>2. PICK t : t = SubSeq(stack, 1, Len(stack) - 1)
  OBVIOUS
<1>3. Len(t) = Len(stack) - 1 /\ \A i \in 1..(Len(stack) - 1) : t[i] = stack[i]
  BY <1>2, PopStack DEF Base
<1>4. Popped(stack, t)
  BY <1>1, <1>3 DEF Popped, Top
<1> QED
  BY <1>2, <1>4 DEF Return

LEMMA VDropped ==
  ASSUME TypeInv, DoomInv, VInv, DefDone, ret = NULL PROVE VInv'
<1>1. /\ Top.pc = "body" /\ Return(NULL) /\ UNCHANGED <<ub, ast, at>>
      /\ funcs' = Judged(funcs, Top.fn, "dropped")
  BY DEF DefDone, At, Judged
<1>2. Top.fn \in 1..Len(funcs) /\ funcs \in Seq(Function)
  BY BodyType, SomeFunctions DEF DefDone
<1>3. PICK t, gs, f : t = stack' /\ gs = funcs' /\ f = Top.fn
  OBVIOUS
<1>4. Judges(funcs, gs, f, {}) /\ gs[f].state = "dropped"
  BY <1>1, <1>2, <1>3, JudgedJudges
<1>5. Popped(stack, t) /\ ret' = NULL
  BY <1>1, <1>3, DonePopped
<1>6. Framed(t, ast, gs)
  BY <1>2, <1>3, <1>4, <1>5, DoneFramed DEF VInv, Top
<1>7. ub = {} => AllSane(t, ast, gs, at, NULL)
  <2> SUFFICES ASSUME ub = {} PROVE AllSane(t, ast, gs, at, NULL)
    OBVIOUS
  <2>1. AllSane(stack, ast, funcs, at, ret) /\ Suspended(stack)
    BY DEF VInv, DoomInv
  <2> QED
    BY <1>2, <1>4, <1>5, <2>1, DroppedSane
<1> QED
  BY <1>1, <1>3, <1>5, <1>6, <1>7 DEF VInv

LEMMA VJudged ==
  ASSUME TypeInv, DoomInv, VInv, DefDone, ret # NULL PROVE VInv'
<1>1. PICK hs : hs = Insert(funcs, at, "ret", <<ret>>, <<>>, 0)
  OBVIOUS
<1>2. /\ Top.pc = "body" /\ UNCHANGED <<ast, at>> /\ ub \subseteq ub'
  BY DEF DefDone, At
<1>3. PICK valid \in BOOLEAN :
        /\ funcs' = Judged(hs, Top.fn, IF valid THEN "verified" ELSE "rejected")
        /\ valid <=> WellFormed(hs, Top.fn)
        /\ Return(IF valid THEN Func(Top.fn) ELSE NULL)
  BY <1>1 DEF DefDone, Judged
<1>4. Top.fn \in 1..Len(funcs) /\ funcs \in Seq(Function) /\ Len(funcs) \in Nat
  BY BodyType, SomeFunctions DEF DefDone
<1>5. at \in Places(funcs)
  BY <1>4 DEF TypeInv, Typed, IsPlace
<1>6. ret \in Value
  BY <1>4, ValueMono DEF TypeInv, Typed
<1>7. PICK x : Returns(funcs, hs, at, ret, x)
  BY <1>1, <1>4, <1>5, <1>6, RetReturns
<1>8. PICK t, gs, f, state, w :
        /\ t = stack' /\ gs = funcs' /\ f = Top.fn
        /\ state = IF valid THEN "verified" ELSE "rejected"
        /\ w = IF valid THEN Func(Top.fn) ELSE NULL
  OBVIOUS
<1>9. state \in {"verified", "dropped", "rejected"} /\ gs = Judged(hs, f, state)
      /\ (valid => state = "verified") /\ (~valid => state = "rejected")
  BY <1>3, <1>8
<1>10. Adds(funcs, hs, at[1], at[2], x)
  BY Zenon, <1>7 DEF Returns
<1>11. hs \in Seq(Function) /\ f \in 1..Len(hs)
  BY <1>4, <1>8, <1>10 DEF Adds
<1>12. Judges(hs, gs, f, {}) /\ gs[f].state = state
  BY <1>9, <1>11, JudgedJudges
<1>13. Judges(funcs, gs, f, {at})
  BY <1>4, <1>5, <1>10, <1>12, AddedJudges
<1>14. Popped(stack, t) /\ ret' = w
  BY <1>2, <1>3, <1>8, DonePopped
<1>15. Framed(stack, ast, funcs) /\ f = stack[Len(stack)].fn
  BY <1>8 DEF VInv, Top
<1>16. Framed(t, ast, gs)
  BY <1>4, <1>13, <1>14, <1>15, DoneFramed
<1>17. ub = {} => AllSane(t, ast, gs, at, w)
  <2> SUFFICES ASSUME ub = {} PROVE AllSane(t, ast, gs, at, w)
    OBVIOUS
  <2>1. AllSane(stack, ast, funcs, at, ret)
    BY DEF VInv
  <2>2. Len(stack) \in Nat /\ Len(stack) >= 1 /\ stack[Len(stack)].pc = "body"
    BY <1>14 DEF Popped
  <2>3. f \in 1..Len(funcs) /\ funcs[f].def = stack[Len(stack)].node
        /\ (WellFormed(hs, f) <=> ~Nests(ast, stack[Len(stack)].node))
    BY <1>4, <1>5, <1>7, <1>15, <2>1, <2>2, VerdictRight
  <2>4. gs[f].def = funcs[f].def
    BY <1>13, <2>3 DEF Judges
  <2>5. Rightly(ast, gs, f)
    <3>1. valid <=> ~Nests(ast, gs[f].def)
      BY <1>3, <1>8, <2>3, <2>4
    <3>2. CASE valid
      <4>1. gs[f].state = "verified"
        BY <1>9, <1>12, <3>2
      <4> QED
        BY <3>1, <3>2, <4>1 DEF Rightly
    <3>3. CASE ~valid
      <4>1. gs[f].state = "rejected"
        BY <1>9, <1>12, <3>3
      <4> QED
        BY <3>1, <3>3, <4>1 DEF Rightly
    <3> QED
      BY <3>2, <3>3
  <2> QED
    BY <1>4, <1>13, <1>14, <1>15, <2>1, <2>5, DoneSane
<1>18. ub' = {} => ub = {}
  BY <1>2
<1> QED
  BY <1>2, <1>8, <1>14, <1>16, <1>17, <1>18 DEF VInv

LEMMA VDefDone == ASSUME TypeInv, DoomInv, VInv, DefDone PROVE VInv'
BY VDropped, VJudged

-----------------------------------------------------------------------------
(* The verifier agrees.                                                    *)

LEMMA VEnds == ASSUME VInv, Coded \/ Killed \/ IfDies PROVE VInv'
<1>1. UNCHANGED <<stack, ast, funcs, at, ret>> /\ ub \subseteq ub'
  <2>1. CASE Coded
    BY <2>1 DEF Coded
  <2>2. CASE Killed
    BY <2>2 DEF Killed
  <2>3. CASE IfDies
    BY <2>3 DEF IfDies
  <2> QED
    BY <2>1, <2>2, <2>3
<1>2. ub' = {} => ub = {}
  BY <1>1
<1>3. /\ Framed(stack, ast, funcs)
      /\ ub = {} => AllSane(stack, ast, funcs, at, ret)
  BY DEF VInv
<1>4. PICK t, bs, gs, to, w : /\ t = stack' /\ bs = ast' /\ gs = funcs' /\ to = at'
                              /\ w = ret'
  OBVIOUS
<1>5. t = stack /\ bs = ast /\ gs = funcs /\ to = at /\ w = ret
  BY <1>1, <1>4
<1>6. Framed(t, bs, gs) /\ (ub' = {} => AllSane(t, bs, gs, to, w))
  BY <1>2, <1>3, <1>5
<1> QED
  BY <1>4, <1>6 DEF VInv

LEMMA VSame == ASSUME VInv, UNCHANGED vars PROVE VInv'
<1>1. PICK t, bs, gs, to, w : /\ t = stack' /\ bs = ast' /\ gs = funcs' /\ to = at'
                              /\ w = ret'
  OBVIOUS
<1>2. t = stack /\ bs = ast /\ gs = funcs /\ to = at /\ w = ret /\ ub' = ub
  BY <1>1 DEF vars
<1>3. /\ Framed(stack, ast, funcs)
      /\ ub = {} => AllSane(stack, ast, funcs, at, ret)
  BY DEF VInv
<1>4. Framed(t, bs, gs) /\ (ub' = {} => AllSane(t, bs, gs, to, w))
  BY <1>2, <1>3
<1> QED
  BY <1>1, <1>4 DEF VInv

LEMMA VInvStep == ASSUME TypeInv, DoomInv, ScopeInv, VInv, [Next]_vars PROVE VInv'
<1>1. CASE UNCHANGED vars
  BY <1>1, VSame
<1>2. CASE EnterDbl \/ EnterVar \/ EnterBin \/ EnterCall \/ EnterIf
  BY <1>2, VDbl, VVar, VBin1, VCall1
<1>3. CASE EnterDef \/ EmitStarts \/ DefDone \/ EvalStarts
  BY <1>3, VDef, VEmit, VDefDone, VEvalStarts
<1>4. CASE Rhs \/ Bin \/ NextArg \/ StoreArg \/ BuildCall
  BY <1>4, VRhs, VBin, VNextArg, VStoreArg, VBuildCall
<1>5. CASE Then \/ Else \/ Phi \/ IfFails
  BY <1>5, VThen, VElse, VPhi, VIfFails
<1>6. CASE NextStmt \/ StmtDone \/ BlockDone \/ EmptyBlock
  BY <1>6, VNextStmt, VStmtDone, VBlockDone, VEmptyBlock
<1>7. CASE Coded \/ Killed \/ IfDies
  BY <1>7, VEnds
<1> QED
  BY <1>1, <1>2, <1>3, <1>4, <1>5, <1>6, <1>7 DEF Next, Step, Ended

LEMMA InitV == Init => VInv
<1> SUFFICES ASSUME Init PROVE VInv
  OBVIOUS
<1>1. /\ Len(stack) = 1 /\ stack[1].pc = "main" /\ stack[1].node = 0
  BY DEF Init, NewFrame
<1>2. Len(funcs) = 0 /\ Len(ast) = 0
  BY EmptyType DEF Init
<1>3. 1..Len(stack) = {1} /\ 1..Len(funcs) = {} /\ 1..Len(ast) = {}
  BY <1>1, <1>2
<1>4. \A i \in 1..Len(stack) : stack[i].pc # "body"
  BY <1>1, <1>3
<1>5. Making(stack, ast, funcs) /\ ScopesOK(ast)
  BY <1>3, <1>4 DEF Making, ScopesOK
<1>6. Outside(stack, ast)
  BY <1>1, <1>3 DEF Outside, Around
<1>7. Verdicts(ast, funcs)
  BY <1>3 DEF Verdicts
<1>8. AllSane(stack, ast, funcs, at, ret)
  BY <1>4, <1>7 DEF AllSane
<1> QED
  BY <1>5, <1>6, <1>8 DEF VInv, Framed

(* LLVMVerifyFunction never finds fault with the code that codegen.c       *)
(* generates for a function, however its conditionals, calls and operators *)
(* are nested, as long as no undefined behaviour was met: it rejects a     *)
(* function if and only if another one is defined in it.                   *)
THEOREM VerifierIsRight == Spec => []VerifierAgrees
<1>1. Init => TypeInv /\ DoomInv /\ ScopeInv /\ VInv
  BY InitType, InitDoom, InitScope, InitV
<1>2. TypeInv /\ DoomInv /\ ScopeInv /\ VInv /\ [Next]_vars
        => TypeInv' /\ DoomInv' /\ ScopeInv' /\ VInv'
  BY TypeStep, DoomStep, ScopeStep, VInvStep
<1>3. VInv => VerifierAgrees
  BY DEF VInv, AllSane, Verdicts, VerifierAgrees, HasNested, IsDef, Nests
<1> QED
  BY <1>1, <1>2, <1>3, PTL DEF Spec
=============================================================================
