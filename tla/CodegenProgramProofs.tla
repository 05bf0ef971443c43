------------------------ MODULE CodegenProgramProofs ------------------------
(***************************************************************************)
(* The program is the reference here: what codegen() refuses, and why, and *)
(* that the functions it has verified stay as they were.                   *)
(***************************************************************************)
EXTENDS CodegenVerifierProofs

(* gs is fs with code added. *)
Heads(fs, gs) ==
  /\ gs \in Seq(Function) /\ Len(gs) = Len(fs)
  /\ \A f \in 1..Len(fs) : SameHead(fs[f], gs[f])

(* What is below the root stays there. *)
RootKept(ns, bs) ==
  Len(ns) >= 1 => \A i \in 1..Len(ns[1].kids) :
                    i \in 1..Len(bs[1].kids) /\ bs[1].kids[i] = ns[1].kids[i]

(* There is a statement at the top level that is no definition. *)
Loose(ns) ==
  \E n \in 1..Len(ns) : /\ \E i \in 1..Len(ns[1].kids) : ns[1].kids[i] = n
                        /\ ns[n].type # "FUNCDEF"

(* Frame g is between two statements of the top level. *)
AtRoot(g) == g.pc \in {"block", "stmt", "expr"} /\ g.node = 1

(* A block keeps no failure. *)
Full(g) == g.pc = "block" => \A m \in 1..Len(g.vals) : g.vals[m] # NULL

(* A step of the top frame that neither begins nor ends a definition. *)
Turns(s, ns, fs, v, t, bs, gs, w) ==
  /\ Moves(s, t, bs)
  /\ bs \in Seq(Node) /\ Kept(ns, bs) /\ NoDefs(ns, bs) /\ RootKept(ns, bs)
  /\ Heads(fs, gs)
  /\ Doomed(s, v) => Doomed(t, w)
  /\ \A k \in Len(s)..Len(t) : Full(t[k])
  /\ AtRoot(s[Len(s)]) => Loose(bs) \/ \A k \in Len(s)..Len(t) : AtRoot(t[k])

Turning == Turns(stack, ast, funcs, ret, stack', ast', funcs', ret')

(* Nothing fails but here. *)
Unfailing(here) == Doomed(stack', ret') => Doomed(stack, ret) \/ here

Rooted(g) == AtRoot(Top) => Loose(ast') \/ AtRoot(g)

(* The frames below the one that goes on. *)
LEMMA BelowTop ==
  ASSUME NEW s, NEW t, NEW bs, Moves(s, t, bs)
  PROVE  /\ Len(s) \in Nat /\ Len(t) \in Int
         /\ Len(t) \in (Len(s) - 1)..(Len(s) + 1)
         /\ \A i \in 1..Len(s) : i # Len(s) => i \in 1..Len(t) /\ t[i] = s[i]
         /\ \A i \in 1..Len(t) :
              i \in Len(s)..Len(t) \/ (i \in 1..Len(s) /\ i # Len(s) /\ t[i] = s[i])
         /\ s[Len(s)].pc # "body"
         /\ \A k \in Len(s)..Len(t) : t[k].pc # "body"
<1>1. /\ Len(s) \in Nat /\ Len(t) \in (Len(s) - 1)..(Len(s) + 1)
      /\ \A j \in 1..(Len(s) - 1) : t[j] = s[j]
  BY DEF Moves, Follows
<1>2. s[Len(s)].pc # "body" /\ \A k \in Len(s)..Len(t) : t[k].pc # "body"
  BY DEF Moves
<1> QED
  BY <1>1, <1>2

(* What a step does to a failure: by a return, by a resumption or a call.  *)
LEMMA DoomReturns ==
  ASSUME NEW s, NEW t, NEW bs, Moves(s, t, bs), Suspended(s), Len(s) >= 2,
         Len(t) = Len(s) - 1, NEW v, NEW w,
         \/ s[Len(s)].pc \in Waiting /\ v = NULL
         \/ s[Len(s)].pc = "rhs" /\ s[Len(s)].vals[1] = NULL
         => w = NULL
  PROVE  /\ Doomed(s, v) => Doomed(t, w)
         /\ Doomed(t, w) => Doomed(s, v) \/ w = NULL
<1>1. /\ Len(s) \in Nat
      /\ \A i \in 1..Len(s) : i # Len(s) => i \in 1..Len(t) /\ t[i] = s[i]
      /\ \A i \in 1..Len(t) :
           i \in Len(s)..Len(t) \/ (i \in 1..Len(s) /\ i # Len(s) /\ t[i] = s[i])
  BY BelowTop
<1>2. Len(t) \in 1..Len(t) /\ Len(t) \in 1..(Len(s) - 1)
      /\ \A i \in Len(s)..Len(t) : FALSE
  BY <1>1
<1>3. t[Len(t)].pc \in Waiting
  BY <1>1, <1>2 DEF Suspended
<1>4. ASSUME Doomed(s, v), w # NULL PROVE Doomed(t, w)
  <2>1. PICK i \in 1..Len(s) : s[i].pc = "rhs" /\ s[i].vals[1] = NULL
    BY <1>4 DEF Doomed
  <2>2. i \in 1..Len(t) /\ t[i] = s[i]
    BY <1>1, <1>4, <2>1
  <2> QED
    BY <2>1, <2>2 DEF Doomed
<1>5. ASSUME Doomed(t, w), w # NULL PROVE Doomed(s, v)
  <2>1. PICK i \in 1..Len(t) : t[i].pc = "rhs" /\ t[i].vals[1] = NULL
    BY <1>5 DEF Doomed
  <2>2. i \in 1..Len(s) /\ t[i] = s[i]
    BY <1>1, <1>2
  <2> QED
    BY <2>1, <2>2 DEF Doomed
<1> QED
  BY <1>3, <1>4, <1>5 DEF Doomed

LEMMA DoomStays ==
  ASSUME NEW s, NEW t, NEW bs, Moves(s, t, bs), Len(s) >= 1, Len(t) >= Len(s),
         NEW v, NEW g, t[Len(s)] = g,
         s[Len(s)].pc \in Waiting /\ v = NULL => g.pc = "rhs" /\ g.vals[1] = NULL,
         g.pc = "rhs" /\ g.vals[1] = NULL => s[Len(s)].pc \in Waiting /\ v = NULL,
         ~(s[Len(s)].pc = "rhs" /\ s[Len(s)].vals[1] = NULL),
         t[Len(t)].pc \in Waiting => FALSE,
         Len(t) # Len(s) => t[Len(t)].pc # "rhs"
  PROVE  Doomed(t, v) <=> Doomed(s, v)
<1>1. /\ Len(s) \in Nat /\ Len(t) \in (Len(s) - 1)..(Len(s) + 1)
      /\ \A i \in 1..Len(s) : i # Len(s) => i \in 1..Len(t) /\ t[i] = s[i]
      /\ \A i \in 1..Len(t) :
           i \in Len(s)..Len(t) \/ (i \in 1..Len(s) /\ i # Len(s) /\ t[i] = s[i])
  BY BelowTop
<1>2. Len(s) \in 1..Len(t) /\ Len(s) \in 1..Len(s)
      /\ \A i \in Len(s)..Len(t) : i = Len(s) \/ (i = Len(t) /\ Len(t) # Len(s))
  BY <1>1
<1>3. ASSUME Doomed(s, v) PROVE Doomed(t, v)
  <2>1. CASE s[Len(s)].pc \in Waiting /\ v = NULL
    BY <1>2, <2>1 DEF Doomed
  <2>2. CASE \E i \in 1..Len(s) : s[i].pc = "rhs" /\ s[i].vals[1] = NULL
    <3>1. PICK i \in 1..Len(s) : s[i].pc = "rhs" /\ s[i].vals[1] = NULL
      BY <2>2
    <3>2. i # Len(s)
      BY <3>1
    <3>3. i \in 1..Len(t) /\ t[i] = s[i]
      BY <1>1, <3>2
    <3> QED
      BY <3>1, <3>3 DEF Doomed
  <2> QED
    BY <1>3, <2>1, <2>2 DEF Doomed
<1>4. ASSUME Doomed(t, v) PROVE Doomed(s, v)
  <2>1. PICK i \in 1..Len(t) : t[i].pc = "rhs" /\ t[i].vals[1] = NULL
    BY <1>4 DEF Doomed
  <2>2. CASE i = Len(s)
    BY <2>1, <2>2 DEF Doomed
  <2>3. CASE i # Len(s)
    <3>1. i \in 1..Len(s) /\ t[i] = s[i]
      BY <1>1, <1>2, <2>1, <2>3
    <3> QED
      BY <2>1, <3>1 DEF Doomed
  <2> QED
    BY <2>2, <2>3
<1> QED
  BY <1>3, <1>4

LEMMA ReturnTurns ==
  ASSUME TypeInv, DoomInv, Grows, RootKept(ast, ast'), Heads(funcs, funcs'),
         Top.pc \notin Base, Top.pc # "body", NEW v, Return(v), Failing => v = NULL
  PROVE  Turning /\ Unfailing(v = NULL)
<1>1. PICK t, bs, gs, w : t = stack' /\ bs = ast' /\ gs = funcs' /\ w = ret'
  OBVIOUS
<1>2. Moves(stack, t, bs) /\ Len(t) = Len(stack) - 1 /\ w = v
  BY <1>1, ReturnMoves
<1>3. Len(stack) \in Nat /\ Len(stack) >= 2 /\ Suspended(stack)
  BY TopType DEF TypeInv, DoomInv
<1>4. \A k \in Len(stack)..Len(t) : FALSE
  BY <1>2, <1>3
<1>5. \/ stack[Len(stack)].pc \in Waiting /\ ret = NULL
      \/ stack[Len(stack)].pc = "rhs" /\ stack[Len(stack)].vals[1] = NULL
      => w = NULL
  BY <1>2 DEF Failing, Top
<1>6. /\ Doomed(stack, ret) => Doomed(t, w)
      /\ Doomed(t, w) => Doomed(stack, ret) \/ w = NULL
  BY <1>2, <1>3, <1>5, DoomReturns
<1>7. Turns(stack, ast, funcs, ret, t, bs, gs, w)
  BY <1>1, <1>2, <1>4, <1>6 DEF Turns, Grows
<1> QED
  BY <1>1, <1>2, <1>6, <1>7 DEF Turning, Unfailing

LEMMA ResumeTurns ==
  ASSUME TypeInv, DoomInv, Grows, RootKept(ast, ast'), Heads(funcs, funcs'),
         UNCHANGED ret, Top.pc # "body", NEW g, stack' = Resume(g), ~Failing,
         g.pc \notin Waiting, Around(ast', g.node) = Around(ast', Top.node),
         Full(g), Rooted(g)
  PROVE  Turning /\ Unfailing(FALSE)
<1>1. PICK t, bs, gs, w : t = stack' /\ bs = ast' /\ gs = funcs' /\ w = ret'
  OBVIOUS
<1>2. g.pc # "body" /\ g.pc # "rhs"
  BY DEF Waiting
<1>3. /\ Moves(stack, t, bs) /\ Len(t) = Len(stack) /\ t[Len(stack)] = g
      /\ \A k \in Len(stack)..Len(t) : k = Len(stack)
  BY <1>1, <1>2, ResumeMoves
<1>4. Len(stack) \in Nat /\ Len(stack) >= 1
  BY TopType DEF TypeInv
<1>5. /\ ~(stack[Len(stack)].pc \in Waiting /\ ret = NULL)
      /\ ~(stack[Len(stack)].pc = "rhs" /\ stack[Len(stack)].vals[1] = NULL)
  BY DEF Failing, Top
<1>6. t[Len(t)] = g /\ Len(t) >= Len(stack)
  BY <1>3, <1>4
<1>7. Doomed(t, ret) <=> Doomed(stack, ret)
  BY <1>2, <1>3, <1>4, <1>5, <1>6, DoomStays
<1>8. AtRoot(stack[Len(stack)]) => Loose(bs) \/ AtRoot(g)
  BY <1>1 DEF Rooted, Top
<1>9. Turns(stack, ast, funcs, ret, t, bs, gs, w)
  BY <1>1, <1>3, <1>7, <1>8 DEF Turns, Grows
<1> QED
  BY <1>1, <1>7, <1>9 DEF Turning, Unfailing

LEMMA CallTurns ==
  ASSUME TypeInv, DoomInv, Grows, RootKept(ast, ast'), Heads(funcs, funcs'),
         UNCHANGED ret, Top.pc # "body", Top.pc # "rhs",
         NEW g, NEW h, stack' = Append(Resume(g), h),
         g.pc # "body", g.pc # "block", h.pc \in {"expr", "block"}, Len(h.vals) = 0,
         Top.pc \in Waiting /\ ret = NULL => g.pc = "rhs" /\ g.vals[1] = NULL,
         g.pc = "rhs" /\ g.vals[1] = NULL => Top.pc \in Waiting /\ ret = NULL,
         Around(ast', g.node) = Around(ast', Top.node),
         Around(ast', h.node) = Around(ast', Top.node),
         Rooted(g), Rooted(h)
  PROVE  Turning /\ Unfailing(FALSE)
<1>1. PICK t, bs, gs, w : t = stack' /\ bs = ast' /\ gs = funcs' /\ w = ret'
  OBVIOUS
<1>2. h.pc # "body" /\ h.pc \notin Waiting /\ h.pc # "rhs"
  BY DEF Waiting
<1>3. /\ Moves(stack, t, bs) /\ Len(t) = Len(stack) + 1
      /\ t[Len(stack)] = g /\ t[Len(stack) + 1] = h
      /\ \A k \in Len(stack)..Len(t) : k = Len(stack) \/ k = Len(stack) + 1
  <2>1. /\ Moves(stack, stack', ast') /\ Len(stack') = Len(stack) + 1
        /\ stack'[Len(stack)] = g /\ stack'[Len(stack) + 1] = h
        /\ \A k \in Len(stack)..Len(stack') : k = Len(stack) \/ k = Len(stack) + 1
    BY <1>2, CallMoves
  <2> QED
    BY ONLY <1>1, <2>1
<1>4. Len(stack) \in Nat /\ Len(stack) >= 1
  BY TopType DEF TypeInv
<1>5. /\ stack[Len(stack)].pc \in Waiting /\ ret = NULL => g.pc = "rhs" /\ g.vals[1] = NULL
      /\ g.pc = "rhs" /\ g.vals[1] = NULL => stack[Len(stack)].pc \in Waiting /\ ret = NULL
      /\ ~(stack[Len(stack)].pc = "rhs" /\ stack[Len(stack)].vals[1] = NULL)
  BY DEF Top
<1>6. t[Len(t)] = h /\ Len(t) >= Len(stack)
  BY <1>3, <1>4
<1>7. Doomed(t, ret) <=> Doomed(stack, ret)
  BY <1>2, <1>3, <1>4, <1>5, <1>6, DoomStays
<1>8. AtRoot(stack[Len(stack)]) => Loose(bs) \/ (AtRoot(g) /\ AtRoot(h))
  BY <1>1 DEF Rooted, Top
<1>9. Full(g) /\ Full(h)
  <2>1. 1..Len(h.vals) = {}
    OBVIOUS
  <2> QED
    BY <2>1 DEF Full
<1>10. Turns(stack, ast, funcs, ret, t, bs, gs, w)
  BY <1>1, <1>3, <1>7, <1>8, <1>9 DEF Turns, Grows
<1> QED
  BY <1>1, <1>7, <1>10 DEF Turning, Unfailing

-----------------------------------------------------------------------------
(* What is below the root.                                                 *)

LEMMA RootTwice ==
  ASSUME NEW ns, NEW bs, NEW cs, RootKept(ns, bs), RootKept(bs, cs),
         Len(ns) <= Len(bs), Len(ns) \in Nat, Len(bs) \in Nat
  PROVE  RootKept(ns, cs)
<1> SUFFICES ASSUME Len(ns) >= 1, NEW i \in 1..Len(ns[1].kids)
             PROVE  i \in 1..Len(cs[1].kids) /\ cs[1].kids[i] = ns[1].kids[i]
  BY DEF RootKept
<1>1. i \in 1..Len(bs[1].kids) /\ bs[1].kids[i] = ns[1].kids[i]
  BY DEF RootKept
<1>2. Len(bs) >= 1
  OBVIOUS
<1> QED
  BY <1>1, <1>2 DEF RootKept

LEMMA AppendRoot ==
  ASSUME NEW ns \in Seq(Node), NEW x \in Node
  PROVE  RootKept(ns, Append(ns, x))
<1> SUFFICES ASSUME Len(ns) >= 1
             PROVE  Append(ns, x)[1] = ns[1]
  BY DEF RootKept
<1>1. 1 \in 1..Len(ns)
  BY LenProperties
<1> QED
  BY <1>1, AppendType

LEMMA AdoptRoot ==
  ASSUME ast \in Seq(Node), NEW p \in 0..Len(ast), NEW ns,
         ns = IF p = 0 THEN ast ELSE [ast EXCEPT ![p].kids = Append(@, Len(ast) + 1)]
  PROVE  /\ RootKept(ast, ns)
         /\ p = 1 => \E i \in 1..Len(ns[1].kids) : ns[1].kids[i] = Len(ast) + 1
<1>1. CASE p = 0
  BY <1>1 DEF RootKept
<1>2. CASE p # 0
  <2>1. p \in 1..Len(ast) /\ Len(ast) + 1 \in Nat
    BY <1>2, Ranges, LenProperties
  <2>2. ast[p] \in Node
    BY <2>1, ElementOfSeq
  <2>3. ast[p].kids \in Seq(Nat)
    BY <2>2, NodeFields
  <2>4. PICK kids, k : k = Len(ast) + 1 /\ kids = Append(ast[p].kids, k)
    OBVIOUS
  <2>5. /\ kids \in Seq(Nat) /\ Len(kids) = Len(ast[p].kids) + 1
        /\ kids[Len(ast[p].kids) + 1] = k
        /\ \A i \in 1..Len(ast[p].kids) : kids[i] = ast[p].kids[i]
    BY <2>1, <2>3, <2>4, AppendType
  <2>6. PICK x : x = [ast[p] EXCEPT !.kids = kids]
    OBVIOUS
  <2>7. x \in Node /\ x.kids = kids
    BY <2>2, <2>5, <2>6 DEF Node
  <2>8. ns = [ast EXCEPT ![p] = x]
    BY <1>2, <2>4, <2>6
  <2>9. ns[p] = x /\ \A n \in 1..Len(ast) : n # p => ns[n] = ast[n]
    BY <2>1, <2>7, <2>8, ExceptType
  <2>10. Len(ast[p].kids) \in Nat
    BY <2>3, LenProperties
  <2>11. RootKept(ast, ns)
    <3>1. CASE p = 1
      BY <2>5, <2>7, <2>9, <2>10, <3>1 DEF RootKept
    <3>2. CASE p # 1
      <4>1. Len(ast) >= 1 => 1 \in 1..Len(ast)
        BY <2>1
      <4> QED
        BY <2>9, <3>2, <4>1 DEF RootKept
    <3> QED
      BY <3>1, <3>2
  <2>12. ASSUME p = 1 PROVE \E i \in 1..Len(ns[1].kids) : ns[1].kids[i] = Len(ast) + 1
    <3>1. ns[1].kids = kids
      BY <2>7, <2>9, <2>12
    <3>2. Len(ast[p].kids) + 1 \in 1..Len(kids)
      BY <2>5, <2>10
    <3> QED
      BY <2>4, <2>5, <3>1, <3>2
  <2> QED
    BY <2>11, <2>12
<1> QED
  BY <1>1, <1>2

LEMMA MeetRoot ==
  ASSUME TypeInv, NEW p \in 0..Len(ast), NEW x \in Node, Meet(p, x)
  PROVE  /\ RootKept(ast, ast')
         /\ p = 1 /\ x.type # "FUNCDEF" => Loose(ast')
<1>1. ast \in Seq(Node) /\ Len(ast) \in Nat
  BY DEF TypeInv, Typed
<1>2. PICK ns : ns = IF p = 0 THEN ast
                     ELSE [ast EXCEPT ![p].kids = Append(@, Len(ast) + 1)]
  OBVIOUS
<1>3. PICK bs : bs = ast'
  OBVIOUS
<1>4. bs = Append(ns, x)
  BY <1>2, <1>3 DEF Meet
<1>5. ns \in Seq(Node) /\ Len(ns) = Len(ast)
  BY <1>1, <1>2, AdoptType
<1>6. /\ RootKept(ast, ns)
      /\ p = 1 => \E i \in 1..Len(ns[1].kids) : ns[1].kids[i] = Len(ast) + 1
  BY <1>1, <1>2, AdoptRoot
<1>7. RootKept(ns, bs)
  BY <1>4, <1>5, AppendRoot
<1>8. /\ Len(bs) = Len(ast) + 1 /\ bs[Len(ast) + 1] = x
      /\ \A n \in 1..Len(ns) : bs[n] = ns[n]
  BY <1>4, <1>5, AppendType
<1>9. RootKept(ast, bs)
  BY <1>1, <1>5, <1>6, <1>7, <1>8, RootTwice
<1>10. ASSUME p = 1, x.type # "FUNCDEF" PROVE Loose(bs)
  <2>1. bs[1] = ns[1]
    BY <1>1, <1>5, <1>8, <1>10
  <2>2. Len(ast) + 1 \in 1..Len(bs)
    BY <1>1, <1>8
  <2> QED
    BY <1>6, <1>8, <1>10, <2>1, <2>2 DEF Loose
<1> QED
  BY <1>3, <1>9, <1>10

LEMMA EnterRoot ==
  ASSUME TypeInv, EnterDbl \/ EnterVar \/ EnterBin \/ EnterCall \/ EnterIf
  PROVE  RootKept(ast, ast') /\ (AtRoot(Top) => Loose(ast'))
<1>1. /\ Top.node \in 0..Len(ast)
      /\ \E x \in Node : Meet(Top.node, x) /\ x.type # "FUNCDEF"
  BY EnterNodes
<1> QED
  BY <1>1, MeetRoot DEF AtRoot

LEMMA BlockMet ==
  ASSUME TypeInv, VInv, NEW p \in 0..Len(ast), Meet(p, NewNode("BLOCK", ScopeOf(p)))
  PROVE  Grows /\ RootKept(ast, ast') /\ Around(ast', Fresh) = Around(ast', p)
<1>1. "BLOCK" \in NodeType /\ ScopeOf(p) \in Nat
  BY ScopeType DEF NodeType, TypeInv, Typed
<1>2. PICK x : x = NewNode("BLOCK", ScopeOf(p))
  OBVIOUS
<1>3. x \in Node /\ x.type # "FUNCDEF" /\ x.scope = ScopeOf(p) /\ Meet(p, x)
  BY <1>1, <1>2, NewNodeType
<1> QED
  BY <1>3, MeetGrows, MeetAround, MeetRoot

-----------------------------------------------------------------------------
(* Code is added to one function.                                          *)

LEMMA HeadsSame == ASSUME NEW fs \in Seq(Function) PROVE Heads(fs, fs)
BY DEF Heads, SameHead

LEMMA HeadsTwice ==
  ASSUME NEW fs, NEW gs, NEW hs, Heads(fs, gs), Heads(gs, hs)
  PROVE  Heads(fs, hs)
BY DEF Heads, SameHead

LEMMA ElsewhereHeads ==
  ASSUME NEW fs, NEW gs \in Seq(Function), NEW U, Elsewhere(fs, gs, U)
  PROVE  Heads(fs, gs)
BY DEF Elsewhere, Heads

Confined(fs, gs, f) ==
  Heads(fs, gs) /\ \A g \in 1..Len(fs) : g # f => gs[g].blocks = fs[g].blocks

LEMMA ConfinedTwice ==
  ASSUME NEW fs, NEW gs, NEW hs, NEW f, Confined(fs, gs, f), Confined(gs, hs, f)
  PROVE  Confined(fs, hs, f)
<1>1. Heads(fs, hs)
  BY HeadsTwice DEF Confined
<1>2. Len(gs) = Len(fs)
  BY DEF Confined, Heads
<1> QED
  BY <1>1, <1>2 DEF Confined

LEMMA InsertConfined ==
  ASSUME NEW fs \in Seq(Function), NEW pos, IsPlace(pos, fs), NEW op \in Opcode,
         NEW args \in Seq(Value), NEW to \in Seq(Pos), NEW callee \in Nat
  PROVE  Confined(fs, Insert(fs, pos, op, args, to, callee), pos[1])
<1>1. CASE Folds(op, args) \/ pos[1] = 0
  <2>1. Insert(fs, pos, op, args, to, callee) = fs
    BY <1>1 DEF Insert
  <2> QED
    BY <2>1, HeadsSame DEF Confined
<1>2. CASE ~Folds(op, args) /\ pos[1] # 0
  <2>1. pos \in Places(fs)
    BY <1>2, PlaceFields
  <2>2. PICK x, gs : /\ x = [op |-> op, args |-> args, to |-> to, callee |-> callee]
                     /\ gs = Insert(fs, pos, op, args, to, callee)
    OBVIOUS
  <2>3. Adds(fs, gs, pos[1], pos[2], x)
    BY <1>2, <2>1, <2>2, InsertAdds
  <2>4. pos[1] \in 1..Len(fs)
    BY <2>1, PlacePair
  <2>5. Confined(fs, gs, pos[1])
    <3>1. Heads(fs, gs)
      BY <2>3 DEF Adds, Heads
    <3>2. ASSUME NEW g \in 1..Len(fs), g # pos[1] PROVE gs[g].blocks = fs[g].blocks
      <4>1. /\ gs \in Seq(Function) /\ g \in 1..Len(gs)
            /\ Len(gs[g].blocks) = Len(fs[g].blocks)
            /\ \A c \in 1..Len(fs[g].blocks) : gs[g].blocks[c] = fs[g].blocks[c]
        BY <2>3, <3>2 DEF Adds, Blocks
      <4>2. fs[g].blocks \in Seq(Seq(Instr)) /\ gs[g].blocks \in Seq(Seq(Instr))
        BY <4>1, FunctionFields
      <4> QED
        BY <4>1, <4>2, SeqEqual
    <3> QED
      BY Zenon, <3>1, <3>2 DEF Confined
  <2> QED
    BY <2>2, <2>5
<1> QED
  BY <1>1, <1>2

LEMMA BranchesConfined ==
  ASSUME NEW fs, NEW gs, NEW f, Branches(fs, gs, f)
  PROVE  Confined(fs, gs, f)
BY DEF Branches, Heads, Confined

-----------------------------------------------------------------------------
(* The steps of expressions and blocks that add no code.                   *)

Calm == Grows /\ RootKept(ast, ast') /\ Heads(funcs, funcs')

LEMMA SameCalm == ASSUME TypeInv, VInv, UNCHANGED <<ast, funcs>> PROVE Calm
<1>1. Grows
  BY SameGrows
<1>2. RootKept(ast, ast)
  BY DEF RootKept
<1>3. Heads(funcs, funcs)
  <2>1. funcs \in Seq(Function)
    BY DEF TypeInv, Typed
  <2> QED
    BY <2>1, HeadsSame
<1> QED
  BY <1>1, <1>2, <1>3 DEF Calm

LEMMA EnterCalm ==
  ASSUME TypeInv, VInv, EnterDbl \/ EnterVar \/ EnterBin \/ EnterCall \/ EnterIf
  PROVE  /\ Calm /\ Top.pc = "expr"
         /\ Around(ast', Fresh) = Around(ast', Top.node)
         /\ \A g : Rooted(g)
<1>1. Grows /\ UNCHANGED <<funcs, at, ub>>
  BY EnterGrows
<1>2. Top.pc = "expr"
  BY DEF EnterDbl, EnterVar, EnterBin, EnterCall, EnterIf, Enter, At
<1>3. Around(ast', Fresh) = Around(ast', Top.node)
  BY EnterMeets
<1>4. RootKept(ast, ast') /\ (AtRoot(Top) => Loose(ast'))
  BY EnterRoot
<1>5. Heads(funcs, funcs')
  <2>1. funcs \in Seq(Function)
    BY DEF TypeInv, Typed
  <2>2. Heads(funcs, funcs)
    BY <2>1, HeadsSame
  <2> QED
    BY <1>1, <2>2
<1> QED
  BY <1>1, <1>2, <1>3, <1>4, <1>5 DEF Calm, Rooted

LEMMA CalmReturn ==
  ASSUME TypeInv, DoomInv, Calm, Top.pc \notin Base, Top.pc # "body",
         NEW v, Return(v), Failing => v = NULL
  PROVE  Turning /\ Unfailing(v = NULL)
BY ReturnTurns DEF Calm

LEMMA CalmResume ==
  ASSUME TypeInv, DoomInv, Calm, UNCHANGED ret, Top.pc # "body",
         NEW g, stack' = Resume(g), ~Failing, g.pc \notin Waiting,
         Around(ast', g.node) = Around(ast', Top.node), Full(g), Rooted(g)
  PROVE  Turning /\ Unfailing(FALSE)
BY ResumeTurns DEF Calm

LEMMA CalmCall ==
  ASSUME TypeInv, DoomInv, Calm, UNCHANGED ret, Top.pc # "body", Top.pc # "rhs",
         NEW g, NEW h, stack' = Append(Resume(g), h),
         g.pc # "body", g.pc # "block", h.pc \in {"expr", "block"}, Len(h.vals) = 0,
         Top.pc \in Waiting /\ ret = NULL => g.pc = "rhs" /\ g.vals[1] = NULL,
         g.pc = "rhs" /\ g.vals[1] = NULL => Top.pc \in Waiting /\ ret = NULL,
         Around(ast', g.node) = Around(ast', Top.node),
         Around(ast', h.node) = Around(ast', Top.node),
         Rooted(g), Rooted(h)
  PROVE  Turning /\ Unfailing(FALSE)
BY CallTurns DEF Calm

LEMMA TDbl ==
  ASSUME TypeInv, DoomInv, VInv, EnterDbl PROVE Turning /\ Unfailing(FALSE)
<1>1. Calm /\ Top.pc = "expr"
  BY EnterCalm
<1>2. PICK n \in Literals : Return(Const(n))
  BY DEF EnterDbl
<1>3. PICK v : v = Const(n)
  OBVIOUS
<1>4. v # NULL
  BY <1>3 DEF Const, NULL
<1>5. Top.pc \notin Base /\ Top.pc # "body" /\ ~Failing
  BY <1>1 DEF Base, Failing, Waiting
<1>6. Return(v)
  BY <1>2, <1>3
<1>7. Turning /\ Unfailing(v = NULL)
  BY <1>1, <1>5, <1>6, CalmReturn
<1> QED
  BY <1>4, <1>7 DEF Unfailing

LEMMA FailureDooms ==
  ASSUME TypeInv, DoomInv, Top.pc \notin Base, NEW v, Return(v), v = NULL
  PROVE  Doomed(stack', ret')
<1>1. PICK t, w : t = stack' /\ w = ret'
  OBVIOUS
<1>2. w = NULL
  BY <1>1 DEF Return
<1>3. Len(stack) \in Nat /\ Len(stack) >= 2 /\ Suspended(stack)
  BY TopType DEF TypeInv, DoomInv
<1>4. stack \in Seq(FrameOf(ast, funcs))
  BY DEF TypeInv, IsStack
<1>5. t = SubSeq(stack, 1, Len(stack) - 1)
  BY <1>1 DEF Return
<1>6. /\ Len(t) = Len(stack) - 1
      /\ \A i \in 1..(Len(stack) - 1) : t[i] = stack[i]
  BY <1>3, <1>4, <1>5, PopType
<1>7. Len(t) \in 1..(Len(stack) - 1)
  BY <1>3, <1>6
<1>8. t[Len(t)].pc \in Waiting
  BY <1>6, <1>7, <1>3 DEF Suspended
<1> QED
  BY <1>1, <1>2, <1>8 DEF Doomed

LEMMA TVar ==
  ASSUME TypeInv, DoomInv, VInv, EnterVar
  PROVE  \E x \in ParamNames :
           /\ Meet(Top.node, [Below("VAR") EXCEPT !.name = x])
           /\ Turning /\ Unfailing(named_vals[x] = NULL)
           /\ named_vals[x] = NULL => Doomed(stack', ret')
<1>1. Calm /\ Top.pc = "expr"
  BY EnterCalm
<1>2. PICK x \in ParamNames : /\ Meet(Top.node, [Below("VAR") EXCEPT !.name = x])
                              /\ Return(named_vals[x])
  BY DEF EnterVar
<1>3. PICK v : v = named_vals[x]
  OBVIOUS
<1>4. Top.pc \notin Base /\ Top.pc # "body" /\ ~Failing
  BY <1>1 DEF Base, Failing, Waiting
<1>5. Return(v)
  BY <1>2, <1>3
<1>6. Turning /\ Unfailing(v = NULL)
  BY <1>1, <1>4, <1>5, CalmReturn
<1>7. v = NULL => Doomed(stack', ret')
  BY <1>4, <1>5, FailureDooms
<1> QED
  BY <1>2, <1>3, <1>6, <1>7

LEMMA TBin1 ==
  ASSUME TypeInv, DoomInv, VInv, EnterBin \/ EnterIf PROVE Turning /\ Unfailing(FALSE)
<1>1. /\ Calm /\ Top.pc = "expr" /\ Around(ast', Fresh) = Around(ast', Top.node)
      /\ \A g : Rooted(g)
  BY EnterCalm
<1>2. PICK pc \in {"lhs", "cond"} : CallExpr([Top EXCEPT !.pc = pc, !.node = Fresh])
                                    /\ UNCHANGED ret
  BY DEF EnterBin, EnterIf
<1>3. PICK g : g = [Top EXCEPT !.pc = pc, !.node = Fresh]
  OBVIOUS
<1>4. g.pc = pc /\ g.node = Fresh
  BY <1>3, NextHolds DEF Holds
<1>5. PICK h : h = NewFrame("expr", g.node)
  OBVIOUS
<1>6. h.pc = "expr" /\ h.node = Fresh /\ Len(h.vals) = 0
  BY <1>4, <1>5, NewHolds DEF Holds
<1>7. stack' = Append(Resume(g), h)
  BY <1>2, <1>3, <1>5 DEF CallExpr
<1>8. /\ g.pc # "body" /\ g.pc # "block" /\ g.pc # "rhs"
      /\ Top.pc # "body" /\ Top.pc # "rhs" /\ Top.pc \notin Waiting
  BY <1>1, <1>4 DEF Waiting
<1>9. /\ Around(ast', g.node) = Around(ast', Top.node)
      /\ Around(ast', h.node) = Around(ast', Top.node) /\ Rooted(g) /\ Rooted(h)
  BY <1>1, <1>4, <1>6
<1> QED
  BY <1>1, <1>2, <1>6, <1>7, <1>8, <1>9, CalmCall

LEMMA TCall ==
  ASSUME TypeInv, DoomInv, VInv, EnterCall
  PROVE  \E name \in FuncNames, argc \in 0..MaxArgs :
           /\ Meet(Top.node, [Below("CALL") EXCEPT !.name = name, !.argc = argc])
           /\ Turning /\ Unfailing(~Callable(Named(name), argc))
           /\ ~Callable(Named(name), argc) => Doomed(stack', ret')
<1>1. /\ Calm /\ Top.pc = "expr" /\ Around(ast', Fresh) = Around(ast', Top.node)
      /\ \A g : Rooted(g)
  BY EnterCalm
<1>2. PICK name \in FuncNames, argc \in 0..MaxArgs :
        /\ Meet(Top.node, [Below("CALL") EXCEPT !.name = name, !.argc = argc])
        /\ IF Callable(Named(name), argc)
             THEN /\ stack' = Resume([Top EXCEPT !.pc = "args", !.node = Fresh,
                                                 !.fn = Named(name)])
                  /\ UNCHANGED ret
             ELSE Return(NULL)
  BY DEF EnterCall
<1>3. Top.pc \notin Base /\ Top.pc # "body" /\ ~Failing
  BY <1>1 DEF Base, Failing, Waiting
<1>4. /\ Turning /\ Unfailing(~Callable(Named(name), argc))
      /\ ~Callable(Named(name), argc) => Doomed(stack', ret')
  <2>1. CASE ~Callable(Named(name), argc)
    <3>1. PICK v : v = NULL
      OBVIOUS
    <3>2. Return(v)
      BY <1>2, <2>1, <3>1
    <3>3. Turning /\ Unfailing(v = NULL)
      BY <1>1, <1>3, <3>1, <3>2, CalmReturn
    <3>4. Doomed(stack', ret')
      BY <1>3, <3>1, <3>2, FailureDooms
    <3> QED
      BY <2>1, <3>3, <3>4 DEF Unfailing
  <2>2. CASE Callable(Named(name), argc)
    <3>1. PICK fn : fn = Named(name)
      OBVIOUS
    <3>2. PICK g : g = [Top EXCEPT !.pc = "args", !.node = Fresh, !.fn = fn]
      OBVIOUS
    <3>3. g.pc = "args" /\ g.node = Fresh
      BY <3>2, NextHolds DEF Holds
    <3>4. stack' = Resume(g) /\ UNCHANGED ret
      BY <1>2, <2>2, <3>1, <3>2
    <3>5. g.pc \notin Waiting /\ Full(g) /\ Rooted(g)
          /\ Around(ast', g.node) = Around(ast', Top.node)
      BY <1>1, <3>3 DEF Waiting, Full
    <3>6. Turning /\ Unfailing(FALSE)
      BY <1>1, <1>3, <3>4, <3>5, CalmResume
    <3> QED
      BY <2>2, <3>6 DEF Unfailing
  <2> QED
    BY <2>1, <2>2
<1> QED
  BY <1>2, <1>4

LEMMA TRhs == ASSUME TypeInv, DoomInv, VInv, Rhs PROVE Turning /\ Unfailing(FALSE)
<1>1. /\ Top.pc = "lhs" /\ CallExpr([Top EXCEPT !.pc = "rhs", !.vals = <<ret>>])
      /\ UNCHANGED <<ast, funcs, ret>>
  BY DEF Rhs, At, NoCode
<1>2. PICK g : g = [Top EXCEPT !.pc = "rhs", !.vals = <<ret>>]
  OBVIOUS
<1>3. g.pc = "rhs" /\ g.node = Top.node /\ g.vals = <<ret>>
  BY <1>2, NextHolds DEF Holds
<1>4. PICK h : h = NewFrame("expr", g.node)
  OBVIOUS
<1>5. h.pc = "expr" /\ h.node = g.node /\ Len(h.vals) = 0
  BY <1>4, NewHolds DEF Holds
<1>6. stack' = Append(Resume(g), h)
  BY <1>1, <1>2, <1>4 DEF CallExpr
<1>7. g.vals[1] = ret
  BY <1>3
<1>8. Calm
  BY <1>1, SameCalm
<1>9. /\ g.pc # "body" /\ g.pc # "block" /\ Top.pc # "body" /\ Top.pc # "rhs"
      /\ Top.pc \in Waiting
  BY <1>1, <1>3 DEF Waiting
<1>10. /\ Around(ast', g.node) = Around(ast', Top.node)
       /\ Around(ast', h.node) = Around(ast', Top.node)
  BY <1>3, <1>5
<1>11. Rooted(g) /\ Rooted(h)
  BY <1>1 DEF Rooted, AtRoot
<1> QED
  BY <1>1, <1>3, <1>5, <1>6, <1>7, <1>8, <1>9, <1>10, <1>11, CalmCall

LEMMA TNextArg == ASSUME TypeInv, DoomInv, VInv, NextArg PROVE Turning /\ Unfailing(FALSE)
<1>1. /\ Top.pc = "args" /\ CallExpr([Top EXCEPT !.pc = "arg"])
      /\ UNCHANGED <<ast, funcs, ret>>
  BY DEF NextArg, At, NoCode
<1>2. PICK g : g = [Top EXCEPT !.pc = "arg"]
  OBVIOUS
<1>3. g.pc = "arg" /\ g.node = Top.node
  BY <1>2, NextHolds DEF Holds
<1>4. PICK h : h = NewFrame("expr", g.node)
  OBVIOUS
<1>5. h.pc = "expr" /\ h.node = g.node /\ Len(h.vals) = 0
  BY <1>4, NewHolds DEF Holds
<1>6. stack' = Append(Resume(g), h)
  BY <1>1, <1>2, <1>4 DEF CallExpr
<1>7. Calm
  BY <1>1, SameCalm
<1>8. /\ g.pc # "body" /\ g.pc # "block" /\ g.pc # "rhs" /\ Top.pc # "body"
      /\ Top.pc # "rhs" /\ Top.pc \notin Waiting
  BY <1>1, <1>3 DEF Waiting
<1>9. /\ Around(ast', g.node) = Around(ast', Top.node)
      /\ Around(ast', h.node) = Around(ast', Top.node)
  BY <1>3, <1>5
<1>10. Rooted(g) /\ Rooted(h)
  BY <1>1 DEF Rooted, AtRoot
<1> QED
  BY <1>1, <1>5, <1>6, <1>7, <1>8, <1>9, <1>10, CalmCall

LEMMA TStoreArg == ASSUME TypeInv, DoomInv, VInv, StoreArg PROVE Turning /\ Unfailing(FALSE)
<1>1. /\ Top.pc = "arg" /\ UNCHANGED <<ast, funcs>>
      /\ IF ret = NULL
           THEN Return(NULL)
           ELSE /\ stack' = Resume([Top EXCEPT !.pc = "args", !.vals = Append(@, ret)])
                /\ UNCHANGED ret
  BY DEF StoreArg, At, NoCode
<1>2. Calm
  BY <1>1, SameCalm
<1>3. Top.pc # "body" /\ Top.pc \notin Base /\ Top.pc \in Waiting
  BY <1>1 DEF Base, Waiting
<1>4. CASE ret = NULL
  <2>1. PICK v : v = NULL
    OBVIOUS
  <2>2. Return(v)
    BY <1>1, <1>4, <2>1
  <2>3. Turning
    BY <1>2, <1>3, <2>1, <2>2, CalmReturn
  <2>4. Doomed(stack, ret)
    BY <1>3, <1>4 DEF Doomed, Top
  <2> QED
    BY <2>3, <2>4 DEF Unfailing
<1>5. CASE ret # NULL
  <2>1. PICK g : g = [Top EXCEPT !.pc = "args", !.vals = Append(Top.vals, ret)]
    OBVIOUS
  <2>2. stack' = Resume(g) /\ UNCHANGED ret
    BY <1>1, <1>5, <2>1
  <2>3. g.pc = "args" /\ g.node = Top.node
    BY <2>1, NextHolds DEF Holds
  <2>4. ~Failing /\ g.pc \notin Waiting /\ Full(g)
    BY <1>1, <1>5, <2>3 DEF Failing, Waiting, Full
  <2>5. Around(ast', g.node) = Around(ast', Top.node) /\ Rooted(g)
    BY <1>1, <2>3 DEF Rooted, AtRoot
  <2> QED
    BY <1>2, <1>3, <2>2, <2>4, <2>5, CalmResume
<1> QED
  BY <1>4, <1>5

LEMMA TIfFails == ASSUME TypeInv, DoomInv, VInv, IfFails PROVE Turning /\ Unfailing(FALSE)
<1>1. /\ Top.pc \in {"cond", "then", "else"} /\ ret = NULL /\ Return(NULL)
      /\ UNCHANGED <<ast, funcs>>
  BY DEF IfFails, At, NoCode
<1>2. Calm
  BY <1>1, SameCalm
<1>3. Top.pc # "body" /\ Top.pc \notin Base /\ Top.pc \in Waiting
  BY <1>1 DEF Base, Waiting
<1>4. PICK v : v = NULL
  OBVIOUS
<1>5. Return(v)
  BY <1>1, <1>4
<1>6. Turning
  BY <1>2, <1>3, <1>4, <1>5, CalmReturn
<1>7. Doomed(stack, ret)
  BY <1>1, <1>3 DEF Doomed, Top
<1> QED
  BY <1>6, <1>7 DEF Unfailing

LEMMA TNextStmt == ASSUME TypeInv, DoomInv, VInv, NextStmt PROVE Turning /\ Unfailing(FALSE)
<1>1. /\ Top.pc = "block" /\ CallExpr([Top EXCEPT !.pc = "stmt"])
      /\ UNCHANGED <<ast, funcs, ret>>
  BY DEF NextStmt, At, NoCode
<1>2. PICK g : g = [Top EXCEPT !.pc = "stmt"]
  OBVIOUS
<1>3. g.pc = "stmt" /\ g.node = Top.node
  BY <1>2, NextHolds DEF Holds
<1>4. PICK h : h = NewFrame("expr", g.node)
  OBVIOUS
<1>5. h.pc = "expr" /\ h.node = g.node /\ Len(h.vals) = 0
  BY <1>4, NewHolds DEF Holds
<1>6. stack' = Append(Resume(g), h)
  BY <1>1, <1>2, <1>4 DEF CallExpr
<1>7. Calm
  BY <1>1, SameCalm
<1>8. /\ g.pc # "body" /\ g.pc # "block" /\ g.pc # "rhs" /\ Top.pc # "body"
      /\ Top.pc # "rhs" /\ Top.pc \notin Waiting
  BY <1>1, <1>3 DEF Waiting
<1>9. /\ Around(ast', g.node) = Around(ast', Top.node)
      /\ Around(ast', h.node) = Around(ast', Top.node)
  BY <1>3, <1>5
<1>10. Rooted(g) /\ Rooted(h)
  BY <1>3, <1>5 DEF Rooted, AtRoot
<1> QED
  BY <1>1, <1>5, <1>6, <1>7, <1>8, <1>9, <1>10, CalmCall

LEMMA TStmtDone == ASSUME TypeInv, DoomInv, VInv, StmtDone PROVE Turning /\ Unfailing(FALSE)
<1>1. /\ Top.pc = "stmt" /\ UNCHANGED <<ast, funcs>>
      /\ IF ret = NULL
           THEN Return(NULL)
           ELSE /\ stack' = Resume([Top EXCEPT !.pc = "block", !.vals = <<ret>>])
                /\ UNCHANGED ret
  BY DEF StmtDone, At, NoCode
<1>2. Calm
  BY <1>1, SameCalm
<1>3. Top.pc # "body" /\ Top.pc \notin Base /\ Top.pc \in Waiting
  BY <1>1 DEF Base, Waiting
<1>4. CASE ret = NULL
  <2>1. PICK v : v = NULL
    OBVIOUS
  <2>2. Return(v)
    BY <1>1, <1>4, <2>1
  <2>3. Turning
    BY <1>2, <1>3, <2>1, <2>2, CalmReturn
  <2>4. Doomed(stack, ret)
    BY <1>3, <1>4 DEF Doomed, Top
  <2> QED
    BY <2>3, <2>4 DEF Unfailing
<1>5. CASE ret # NULL
  <2>1. PICK g : g = [Top EXCEPT !.pc = "block", !.vals = <<ret>>]
    OBVIOUS
  <2>2. stack' = Resume(g) /\ UNCHANGED ret
    BY <1>1, <1>5, <2>1
  <2>3. g.pc = "block" /\ g.node = Top.node /\ g.vals = <<ret>>
    BY <2>1, NextHolds DEF Holds
  <2>4. \A m \in 1..Len(g.vals) : g.vals[m] = ret
    BY <2>3
  <2>5. ~Failing /\ g.pc \notin Waiting
    BY <1>1, <1>5, <2>3 DEF Failing, Waiting
  <2>6. Full(g)
    BY <1>5, <2>4 DEF Full
  <2>7. Around(ast', g.node) = Around(ast', Top.node) /\ Rooted(g)
    BY <2>3 DEF Rooted, AtRoot
  <2> QED
    BY <1>2, <1>3, <2>2, <2>5, <2>6, <2>7, CalmResume
<1> QED
  BY <1>4, <1>5

LEMMA TBlockDone ==
  ASSUME TypeInv, DoomInv, VInv, BlockDone, Full(Top)
  PROVE  Turning /\ Unfailing(FALSE)
<1>1. /\ Top.pc = "block" /\ Return(Top.vals[1]) /\ Top.vals # <<>>
      /\ UNCHANGED <<ast, funcs>>
  BY DEF BlockDone, At, NoCode
<1>2. Calm
  BY <1>1, SameCalm
<1>3. Top.pc # "body" /\ Top.pc \notin Base /\ ~Failing
  BY <1>1 DEF Base, Failing, Waiting
<1>4. PICK v : v = Top.vals[1]
  OBVIOUS
<1>5. 1 \in 1..Len(Top.vals)
  <2>1. Top.vals \in Seq(ValueOf(Len(funcs)))
    BY TopType, FrameFields DEF TypeInv, Typed
  <2> QED
    BY <1>1, <2>1
<1>6. v # NULL
  BY <1>1, <1>4, <1>5 DEF Full
<1>7. Return(v)
  BY <1>1, <1>4
<1>8. Turning /\ Unfailing(v = NULL)
  BY <1>2, <1>3, <1>7, CalmReturn
<1> QED
  BY <1>6, <1>8 DEF Unfailing

LEMMA TEmptyBlock ==
  ASSUME TypeInv, DoomInv, VInv, EmptyBlock PROVE Turning /\ ub' # {}
<1>1. /\ Top.pc = "block" /\ ub' = ub \cup {"uninit"} /\ UNCHANGED <<ast, funcs>>
      /\ \E v \in {NULL, ret} : Return(v)
  BY DEF EmptyBlock, At
<1>2. Calm
  BY <1>1, SameCalm
<1>3. Top.pc # "body" /\ Top.pc \notin Base /\ ~Failing
  BY <1>1 DEF Base, Failing, Waiting
<1>4. PICK v : Return(v)
  BY <1>1
<1>5. Turning
  BY <1>2, <1>3, <1>4, CalmReturn
<1>6. ub' # {}
  BY <1>1
<1> QED
  BY <1>5, <1>6

(* The block of the top level. *)
LEMMA TEvalStarts ==
  ASSUME TypeInv, DoomInv, VInv, EvalStarts
  PROVE  /\ Turning /\ Unfailing(FALSE)
         /\ Meet(Top.node, NewNode("BLOCK", ScopeOf(Top.node)))
         /\ Top.node \in 0..Len(ast) /\ Len(stack) = 1 /\ Len(stack') = 2
         /\ stack'[2].pc = "block" /\ stack'[2].node = Fresh /\ mode = "eval"
<1>1. /\ Top.pc = "main" /\ CallBlock([Top EXCEPT !.pc = "coded"])
      /\ UNCHANGED <<funcs, ret>> /\ mode = "eval"
  BY DEF EvalStarts, At, NoCode
<1>2. PICK g : g = [Top EXCEPT !.pc = "coded"]
  OBVIOUS
<1>3. g.pc = "coded" /\ g.node = Top.node
  BY <1>2, NextHolds DEF Holds
<1>4. PICK h : h = NewFrame("block", Fresh)
  OBVIOUS
<1>5. h.pc = "block" /\ h.node = Fresh /\ Len(h.vals) = 0
  BY <1>4, NewHolds DEF Holds
<1>6. stack' = Append(Resume(g), h) /\ Meet(g.node, NewNode("BLOCK", ScopeOf(g.node)))
  BY <1>1, <1>2, <1>4 DEF CallBlock
<1>7. g.node \in 0..Len(ast)
  BY <1>3, TopType, FrameFields DEF TypeInv, Typed
<1>8. Grows /\ RootKept(ast, ast') /\ Around(ast', Fresh) = Around(ast', g.node)
  BY <1>6, <1>7, BlockMet
<1>9. Heads(funcs, funcs')
  <2>1. funcs \in Seq(Function)
    BY DEF TypeInv, Typed
  <2>2. Heads(funcs, funcs)
    BY <2>1, HeadsSame
  <2> QED
    BY <1>1, <2>2
<1>10. Calm
  BY <1>8, <1>9 DEF Calm
<1>11. /\ g.pc # "body" /\ g.pc # "block" /\ g.pc # "rhs" /\ Top.pc # "body"
       /\ Top.pc # "rhs" /\ Top.pc \notin Waiting
  BY <1>1, <1>3 DEF Waiting
<1>12. /\ Around(ast', g.node) = Around(ast', Top.node)
       /\ Around(ast', h.node) = Around(ast', Top.node)
  BY <1>3, <1>5, <1>8
<1>13. Rooted(g) /\ Rooted(h)
  BY <1>1 DEF Rooted, AtRoot
<1>14. Turning /\ Unfailing(FALSE)
  BY <1>1, <1>5, <1>6, <1>10, <1>11, <1>12, <1>13, CalmCall
<1>15. Len(stack) = 1
  <2>1. Top.pc \in Base /\ Len(stack) \in Nat /\ Len(stack) >= 1
    BY <1>1, TopType DEF TypeInv, Base
  <2>2. Len(stack) \in 1..Len(stack)
    BY <2>1
  <2> QED
    BY <2>1, <2>2 DEF TypeInv, IsStack, Top
<1>16. Len(stack') = 2 /\ stack'[2] = h
  <2>1. PICK t : t = stack'
    OBVIOUS
  <2>2. /\ Len(t) = Len(stack) + 1 /\ t[Len(stack) + 1] = h
    <3>1. g.pc # "body" /\ h.pc # "body"
      BY <1>3, <1>5
    <3> QED
      BY <1>6, <1>8, <1>11, <1>12, <2>1, <3>1, CallMoves DEF Grows
  <2> QED
    BY <1>15, <2>1, <2>2
<1> QED
  BY <1>1, <1>3, <1>5, <1>6, <1>7, <1>14, <1>15, <1>16

-----------------------------------------------------------------------------
(* The steps that build an instruction and return its value.               *)

Own ==
  \A i \in 1..Len(stack) :
    Owner(stack, ast, at, named_vals, i) => Confined(funcs, funcs', stack[i].fn)

LEMMA AddsConfined ==
  ASSUME NEW fs \in Seq(Function), NEW f \in 1..Len(fs), NEW b, NEW x, NEW gs,
         Adds(fs, gs, f, b, x)
  PROVE  Confined(fs, gs, f)
<1>1. Heads(fs, gs)
  BY DEF Adds, Heads
<1>2. ASSUME NEW g \in 1..Len(fs), g # f PROVE gs[g].blocks = fs[g].blocks
  <2>1. /\ gs \in Seq(Function) /\ g \in 1..Len(gs)
        /\ Len(gs[g].blocks) = Len(fs[g].blocks)
        /\ \A c \in 1..Len(fs[g].blocks) : gs[g].blocks[c] = fs[g].blocks[c]
    BY <1>2 DEF Adds, Blocks
  <2>2. fs[g].blocks \in Seq(Seq(Instr)) /\ gs[g].blocks \in Seq(Seq(Instr))
    BY <2>1, FunctionFields
  <2> QED
    BY <2>1, <2>2, SeqEqual
<1> QED
  BY <1>1, <1>2 DEF Confined

LEMMA ResultIs ==
  ASSUME NEW fs, NEW pos, NEW op, NEW args PROVE Result(fs, pos, op, args) # NULL
<1>1. Result(fs, pos, op, args).kind \in {"const", "instr"}
  BY DEF Result, Fold, Const
<1> QED
  BY <1>1 DEF NULL

LEMMA TBuild ==
  ASSUME TypeInv, DoomInv, VInv, UNCHANGED ast, Top.pc \in {"rhs", "args"}, ~Failing,
         NEW op \in Opcode, NEW args \in Seq(Value), NEW callee \in Nat,
         funcs' = Insert(funcs, at, op, args, <<>>, callee),
         Return(Result(funcs, at, op, args))
  PROVE  Turning /\ Unfailing(FALSE) /\ Own
<1>1. PICK v : v = Result(funcs, at, op, args)
  OBVIOUS
<1>2. v # NULL
  BY <1>1, ResultIs
<1>3. funcs \in Seq(Function) /\ IsPlace(at, funcs) /\ <<>> \in Seq(Pos)
  BY EmptyType DEF TypeInv, Typed
<1>4. PICK gs : gs = Insert(funcs, at, op, args, <<>>, callee)
  OBVIOUS
<1>5. Confined(funcs, gs, at[1])
  BY <1>3, <1>4, InsertConfined
<1>6. gs = funcs'
  BY <1>4
<1>7. Calm
  <2>1. Grows
    BY SameGrows
  <2>2. RootKept(ast, ast)
    BY DEF RootKept
  <2>3. Heads(funcs, gs)
    BY <1>5 DEF Confined
  <2> QED
    BY <1>6, <2>1, <2>2, <2>3 DEF Calm
<1>8. Top.pc \notin Base /\ Top.pc # "body"
  BY DEF Base
<1>9. Return(v)
  BY <1>1
<1>10. Turning /\ Unfailing(v = NULL)
  BY <1>7, <1>8, <1>9, CalmReturn
<1>11. Own
  <2>1. ASSUME NEW i \in 1..Len(stack), Owner(stack, ast, at, named_vals, i)
        PROVE  Confined(funcs, gs, stack[i].fn)
    BY <1>5, <2>1 DEF Owner
  <2> QED
    BY <1>6, <2>1 DEF Own
<1> QED
  BY <1>2, <1>10, <1>11 DEF Unfailing

LEMMA TBin == ASSUME TypeInv, DoomInv, VInv, Bin PROVE Turning /\ Unfailing(FALSE) /\ Own
<1>1. PICK op, left, args : /\ op = ast[Top.node].op /\ left = Top.vals[1]
                            /\ args = <<left, ret>>
  OBVIOUS
<1>2. /\ Top.pc = "rhs" /\ UNCHANGED <<ast, at>>
      /\ IF left = NULL \/ ret = NULL
           THEN Return(NULL) /\ UNCHANGED <<funcs, ub>>
           ELSE /\ funcs' = Insert(funcs, at, op, args, <<>>, 0)
                /\ Return(Result(funcs, at, op, args))
                /\ ub \subseteq ub'
  BY <1>1 DEF Bin, At, Operands, EitherFails
<1>3. CASE left = NULL \/ ret = NULL
  <2>1. PICK v : v = NULL
    OBVIOUS
  <2>2. Return(v) /\ UNCHANGED <<ast, funcs>>
    BY <1>2, <1>3, <2>1
  <2>3. Calm
    BY <2>2, SameCalm
  <2>4. Top.pc # "body" /\ Top.pc \notin Base /\ Top.pc \in Waiting
    BY <1>2 DEF Base, Waiting
  <2>5. Turning
    BY <2>1, <2>2, <2>3, <2>4, CalmReturn
  <2>6. Doomed(stack, ret)
    <3>1. Len(stack) \in 1..Len(stack)
      BY TopType DEF TypeInv
    <3>2. stack[Len(stack)].pc = "rhs" /\ stack[Len(stack)].vals[1] = left
      BY <1>1, <1>2 DEF Top
    <3> QED
      BY <1>3, <2>4, <3>1, <3>2 DEF Doomed, Top
  <2>7. Own
    <3>1. Confined(funcs, funcs, at[1])
      BY HeadsSame DEF TypeInv, Typed, Confined
    <3>2. ASSUME NEW i \in 1..Len(stack), Owner(stack, ast, at, named_vals, i)
          PROVE  Confined(funcs, funcs, stack[i].fn)
      BY <3>1, <3>2 DEF Owner
    <3> QED
      BY <2>2, <3>2 DEF Own
  <2> QED
    BY <2>5, <2>6, <2>7 DEF Unfailing
<1>4. CASE left # NULL /\ ret # NULL
  <2>1. At("rhs")
    BY DEF Bin
  <2>2. op \in Ops /\ left \in ValueOf(Len(funcs)) /\ args \in Seq(ValueOf(Len(funcs)))
    BY <1>1, <2>1, BinArgs
  <2>3. args \in Seq(Value)
    <3>1. ValueOf(Len(funcs)) \subseteq Value
      BY SomeFunctions, ValueMono
    <3> QED
      BY <2>2, <3>1, SeqMono
  <2>4. op \in Opcode
    BY <2>2 DEF Opcode
  <2>5. ~Failing
    BY <1>1, <1>4 DEF Failing
  <2>6. PICK callee \in Nat : callee = 0
    OBVIOUS
  <2>7. /\ Top.pc \in {"rhs", "args"} /\ UNCHANGED ast
        /\ funcs' = Insert(funcs, at, op, args, <<>>, callee)
        /\ Return(Result(funcs, at, op, args))
    BY <1>2, <1>4, <2>6
  <2> QED
    BY <2>3, <2>4, <2>5, <2>7, TBuild
<1> QED
  BY <1>3, <1>4

LEMMA TBuildCall ==
  ASSUME TypeInv, DoomInv, VInv, BuildCall PROVE Turning /\ Unfailing(FALSE) /\ Own
<1>1. PICK op, args, callee : op = "call" /\ args = Top.vals /\ callee = Top.fn
  OBVIOUS
<1>2. /\ Top.pc = "args" /\ UNCHANGED ast
      /\ funcs' = Insert(funcs, at, op, args, <<>>, callee)
      /\ Return(Result(funcs, at, op, args))
  BY <1>1 DEF BuildCall, At
<1>3. /\ args \in Seq(ValueOf(Len(funcs))) /\ callee \in 0..Len(funcs)
      /\ Len(funcs) \in Nat
  BY <1>1, TopType, FrameFields, SomeFunctions DEF TypeInv, Typed
<1>4. callee \in Nat
  BY <1>3
<1>5. args \in Seq(Value)
  <2>1. ValueOf(Len(funcs)) \subseteq Value
    BY <1>3, ValueMono
  <2> QED
    BY <1>3, <2>1, SeqMono
<1>6. op \in Opcode
  BY <1>1 DEF Opcode
<1>7. ~Failing /\ Top.pc \in {"rhs", "args"}
  BY <1>2 DEF Failing, Waiting
<1> QED
  BY <1>2, <1>4, <1>5, <1>6, <1>7, TBuild

-----------------------------------------------------------------------------
(* The steps of conditionals.                                              *)

LEMMA OwnBy ==
  ASSUME NEW hs, hs = funcs', Confined(funcs, hs, at[1]) PROVE Own
<1>1. ASSUME NEW i \in 1..Len(stack), Owner(stack, ast, at, named_vals, i)
      PROVE  Confined(funcs, hs, stack[i].fn)
  BY <1>1 DEF Owner
<1> QED
  BY <1>1 DEF Own

BranchCalls(g) ==
  /\ Top.pc \in {"cond", "then"} /\ ret # NULL /\ UNCHANGED ret
  /\ g.pc \in {"then", "else"} /\ g.node = Top.node /\ CallBlock(g)

LEMMA TBranch ==
  ASSUME TypeInv, DoomInv, VInv, NEW g, BranchCalls(g), Heads(funcs, funcs')
  PROVE  Turning /\ Unfailing(FALSE)
<1>1. /\ Top.pc \in {"cond", "then"} /\ ret # NULL /\ UNCHANGED ret
      /\ g.pc \in {"then", "else"} /\ g.node = Top.node /\ CallBlock(g)
  BY DEF BranchCalls
<1>2. PICK h : h = NewFrame("block", Fresh)
  OBVIOUS
<1>3. h.pc = "block" /\ h.node = Fresh /\ Len(h.vals) = 0
  BY <1>2, NewHolds DEF Holds
<1>4. stack' = Append(Resume(g), h) /\ Meet(g.node, NewNode("BLOCK", ScopeOf(g.node)))
  BY <1>1, <1>2 DEF CallBlock
<1>5. g.node \in 0..Len(ast)
  BY <1>1, TopType, FrameFields DEF TypeInv, Typed
<1>6. Grows /\ RootKept(ast, ast') /\ Around(ast', Fresh) = Around(ast', g.node)
  BY <1>4, <1>5, BlockMet
<1>7. Calm
  BY <1>6 DEF Calm
<1>8. /\ g.pc # "body" /\ g.pc # "block" /\ g.pc # "rhs" /\ Top.pc # "body"
      /\ Top.pc # "rhs"
  BY <1>1
<1>9. /\ Around(ast', g.node) = Around(ast', Top.node)
      /\ Around(ast', h.node) = Around(ast', Top.node)
  BY <1>1, <1>3, <1>6
<1>10. Rooted(g) /\ Rooted(h)
  BY <1>1 DEF Rooted, AtRoot
<1> QED
  BY <1>1, <1>3, <1>4, <1>7, <1>8, <1>9, <1>10, CalmCall

LEMMA TThen == ASSUME TypeInv, DoomInv, VInv, Then PROVE Turning /\ Unfailing(FALSE) /\ Own
<1>1. PICK f, n : f = at[1] /\ n = Len(funcs[f].blocks)
  OBVIOUS
<1>2. PICK blks : blks = <<<<f, n + 1>>, <<f, n + 2>>, <<f, n + 3>>>>
  OBVIOUS
<1>3. PICK g : g = [Top EXCEPT !.pc = "then", !.blks = blks]
  OBVIOUS
<1>4. Top.pc = "cond" /\ ret # NULL /\ CallBlock(g) /\ UNCHANGED ret
  BY <1>1, <1>2, <1>3 DEF Then, At
<1>5. g.pc = "then" /\ g.node = Top.node
  BY <1>3, NextHolds DEF Holds
<1>6. PICK hs : hs = funcs'
  OBVIOUS
<1>7. PICK cs, gs, y, x : Forking(f, n, cs, gs, y, x)
  BY <1>1, ThenForks
<1>8. f \in 1..Len(funcs) /\ cs \in Seq(Function) /\ f \in 1..Len(cs)
      /\ funcs \in Seq(Function)
  BY <1>7 DEF Forking, TypeInv, Typed
<1>9. Confined(funcs, cs, f)
  <2>1. Compared(f, cs, y, x.args[1])
    BY <1>7 DEF Forking
  <2>2. CASE cs = funcs
    BY <1>8, <2>2, HeadsSame DEF Confined
  <2>3. CASE Adds(funcs, cs, f, at[2], y)
    BY <1>8, <2>3, AddsConfined
  <2> QED
    BY <2>1, <2>2, <2>3 DEF Compared
<1>10. Confined(cs, gs, f)
  <2>1. Adds(cs, gs, f, at[2], x)
    BY <1>7 DEF Forking
  <2> QED
    BY <1>8, <2>1, AddsConfined
<1>11. Confined(gs, hs, f)
  <2>1. Branches(gs, hs, f)
    BY <1>6, <1>7 DEF Forking
  <2> QED
    BY <2>1, BranchesConfined
<1>12. Confined(funcs, gs, f)
  BY <1>9, <1>10, ConfinedTwice
<1>13. Confined(funcs, hs, f)
  BY <1>11, <1>12, ConfinedTwice
<1>14. Confined(funcs, hs, at[1])
  BY <1>1, <1>13
<1>15. Own
  BY <1>6, <1>14, OwnBy
<1>16. Heads(funcs, funcs')
  BY <1>6, <1>13 DEF Confined
<1>17. BranchCalls(g)
  BY <1>4, <1>5 DEF BranchCalls
<1>18. Turning /\ Unfailing(FALSE)
  BY <1>16, <1>17, TBranch
<1> QED
  BY <1>15, <1>18

LEMMA LinkConfined ==
  ASSUME TypeInv, Top.pc \in {"then", "else"}, NEW gs, NEW x, NEW p,
         Links(funcs, gs, at[1], at[2], x, p)
  PROVE  Confined(funcs, gs, at[1])
<1>1. at[1] \in 1..Len(funcs) /\ funcs \in Seq(Function)
  <2>1. at \in Places(funcs)
    BY InFunction
  <2> QED
    BY <2>1, PlacePair DEF TypeInv, Typed
<1>2. Adds(funcs, gs, at[1], at[2], x)
  BY DEF Links
<1> QED
  BY <1>1, <1>2, AddsConfined

LEMMA TElse == ASSUME TypeInv, DoomInv, VInv, Else PROVE Turning /\ Unfailing(FALSE) /\ Own
<1>1. Top.pc = "then" /\ ret # NULL /\ UNCHANGED ret
  BY ElseParts
<1>2. PICK g : CallBlock(g) /\ g.pc = "else" /\ g.node = Top.node
  BY ElseParts
<1>3. PICK p, hs : p = Top.blks[3] /\ hs = funcs'
  OBVIOUS
<1>4. \E x : Links(funcs, funcs', at[1], at[2], x, Top.blks[3])
  BY ElseParts
<1>5. PICK x : Links(funcs, hs, at[1], at[2], x, p)
  BY <1>3, <1>4
<1>6. Confined(funcs, hs, at[1])
  BY <1>1, <1>5, LinkConfined
<1>7. Own
  BY <1>3, <1>6, OwnBy
<1>8. Heads(funcs, funcs')
  BY <1>3, <1>6 DEF Confined
<1>9. BranchCalls(g)
  BY <1>1, <1>2 DEF BranchCalls
<1>10. Turning /\ Unfailing(FALSE)
  BY <1>8, <1>9, TBranch
<1> QED
  BY <1>7, <1>10

LEMMA TPhi == ASSUME TypeInv, DoomInv, VInv, Phi PROVE Turning /\ Unfailing(FALSE) /\ Own
<1>1. Top.pc = "else" /\ ret # NULL /\ UNCHANGED ast
  BY PhiSteps
<1>2. PICK merge, hs : merge = Top.blks[3] /\ hs = funcs'
  OBVIOUS
<1>3. PICK cs, x, y :
        /\ Links(funcs, cs, at[1], at[2], x, merge)
        /\ Meets(cs, funcs', merge[1], stack, at, ret, y)
        /\ Return(Instruction(merge[1], merge[2], Len(cs[merge[1]].blocks[merge[2]]) + 1))
  BY <1>2, PhiSteps
<1>4. PICK v : v = Instruction(merge[1], merge[2], Len(cs[merge[1]].blocks[merge[2]]) + 1)
  OBVIOUS
<1>5. Return(v)
  BY <1>3, <1>4
<1>6. v # NULL
  BY <1>4 DEF Instruction, NULL
<1>7. Confined(funcs, cs, at[1])
  BY <1>1, <1>3, LinkConfined
<1>8. merge \in Places(funcs)
  BY <1>1, <1>2, InFunction
<1>9. merge[1] \in 1..Len(funcs)
  BY <1>8, PlacePair
<1>10. cs \in Seq(Function) /\ merge[1] \in 1..Len(cs)
  BY <1>7, <1>9 DEF Confined, Heads
<1>11. Confined(cs, hs, merge[1])
  <2>1. Adds(cs, hs, merge[1], merge[2], y)
    BY <1>2, <1>3 DEF Meets, Top
  <2> QED
    BY Zenon, <1>10, <2>1, AddsConfined
<1>12. Heads(funcs, hs)
  BY <1>7, <1>11, HeadsTwice DEF Confined
<1>13. ASSUME NEW i \in 1..Len(stack), Owner(stack, ast, at, named_vals, i)
       PROVE  Confined(funcs, hs, stack[i].fn)
  <2>1. Len(stack) \in i..Len(stack)
    BY TopType DEF TypeInv
  <2>2. Within(stack[Len(stack)], stack[i].fn)
    BY <1>13, <2>1 DEF Owner
  <2>3. merge[1] = stack[i].fn
    BY <1>1, <1>2, <2>2 DEF Within, Top
  <2>4. at[1] = stack[i].fn
    BY <1>13 DEF Owner
  <2>5. Confined(funcs, cs, stack[i].fn) /\ Confined(cs, hs, stack[i].fn)
    BY <1>7, <1>11, <2>3, <2>4
  <2> QED
    BY <2>5, ConfinedTwice
<1>14. Own
  BY <1>2, <1>13 DEF Own
<1>15. Calm
  <2>1. Grows
    BY <1>1, SameGrows
  <2>2. RootKept(ast, ast)
    BY DEF RootKept
  <2> QED
    BY <1>1, <1>2, <1>12, <2>1, <2>2 DEF Calm
<1>16. Top.pc \notin Base /\ Top.pc # "body"
  BY <1>1 DEF Base
<1>17. ~Failing
  BY <1>1 DEF Failing
<1>18. Turning /\ Unfailing(v = NULL)
  BY <1>5, <1>15, <1>16, <1>17, CalmReturn
<1> QED
  BY <1>6, <1>14, <1>18 DEF Unfailing

-----------------------------------------------------------------------------
(* What LLVMVerifyFunction has approved stays valid.                       *)

(* Reachable depends on the code of the function only. *)
ReachBy(code, f, avoid) ==
  LET R[k \in 0..Len(code)] ==
        LET near == R[k - 1]
        IN IF k = 0 THEN {1} \ {avoid}
           ELSE near \cup {b \in (1..Len(code)) \ {avoid} :
                  {c \in 1..Len(code) :
                     <<f, b>> \in (LET x == code[c]
                                       to == x[Len(x)].to
                                   IN IF x = <<>> \/ x[Len(x)].op \notin Terminators
                                        THEN {} ELSE {to[i] : i \in 1..Len(to)})}
                  \cap near # {}}
  IN R[Len(code)]

LEMMA ReachByCode ==
  ASSUME NEW fs, NEW f, NEW avoid
  PROVE  Reachable(fs, f, avoid) = ReachBy(fs[f].blocks, f, avoid)
BY DEF Reachable, ReachBy, Preds, Succ, Blocks

(* Function f of gs has the code it has in fs, and what it calls remains. *)
Alike(fs, gs, f) ==
  /\ Len(fs) <= Len(gs) /\ gs[f].blocks = fs[f].blocks
  /\ \A g \in 1..Len(fs) :
       /\ gs[g].arity = fs[g].arity
       /\ fs[g].state \in {"open", "verified"} => gs[g].state \in {"open", "verified"}

SameCode(fs, gs, f) ==
  /\ gs[f].blocks = fs[f].blocks
  /\ Blocks(gs, f) = Blocks(fs, f)
  /\ \A b : Succ(gs, f, b) = Succ(fs, f, b)
  /\ \A b : Preds(gs, f, b) = Preds(fs, f, b)
  /\ \A a, b : Dominates(gs, f, a, b) <=> Dominates(fs, f, a, b)
  /\ \A b, i, v : Usable(gs, f, b, i, v) <=> Usable(fs, f, b, i, v)

LEMMA AlikeCode ==
  ASSUME NEW fs, NEW gs, NEW f, Alike(fs, gs, f) PROVE SameCode(fs, gs, f)
<1>1. gs[f].blocks = fs[f].blocks
  BY DEF Alike
<1>2. Blocks(gs, f) = Blocks(fs, f)
  BY <1>1 DEF Blocks
<1>3. ASSUME NEW b PROVE Succ(gs, f, b) = Succ(fs, f, b)
  BY <1>1 DEF Succ
<1>4. ASSUME NEW b PROVE Preds(gs, f, b) = Preds(fs, f, b)
  BY <1>2, <1>3 DEF Preds
<1>5. ASSUME NEW a, NEW b PROVE Dominates(gs, f, a, b) <=> Dominates(fs, f, a, b)
  <2>1. Reachable(gs, f, a) = ReachBy(gs[f].blocks, f, a)
    BY ReachByCode
  <2>2. Reachable(fs, f, a) = ReachBy(fs[f].blocks, f, a)
    BY ReachByCode
  <2>3. Reachable(gs, f, a) = Reachable(fs, f, a)
    BY <1>1, <2>1, <2>2
  <2> QED
    BY <2>3 DEF Dominates
<1>6. ASSUME NEW b, NEW i, NEW v PROVE Usable(gs, f, b, i, v) <=> Usable(fs, f, b, i, v)
  BY <1>5 DEF Usable
<1> QED
  BY <1>1, <1>2, <1>3, <1>4, <1>5, <1>6 DEF SameCode

LEMMA AlikePhi ==
  ASSUME NEW fs, NEW gs, NEW f, SameCode(fs, gs, f), NEW b, NEW x, PhiOK(fs, f, b, x)
  PROVE  PhiOK(gs, f, b, x)
<1>1. Preds(gs, f, b) = Preds(fs, f, b)
  BY DEF SameCode
<1>2. gs[f].blocks = fs[f].blocks
  BY DEF SameCode
<1>3. \A c, i, v : Usable(gs, f, c, i, v) <=> Usable(fs, f, c, i, v)
  BY DEF SameCode
<1> QED
  BY <1>1, <1>2, <1>3 DEF PhiOK

InstrOK(fs, f, b, i, n, x) ==
  /\ i = n <=> x.op \in Terminators
  /\ IF x.op = "phi" THEN i = 1 /\ PhiOK(fs, f, b, x)
     ELSE \A j \in 1..Len(x.args) : Usable(fs, f, b, i, x.args[j])
  /\ x.op = "call" => /\ fs[x.callee].state \in {"open", "verified"}
                      /\ fs[x.callee].arity = Len(x.args)

LEMMA WellFormedIs ==
  ASSUME NEW fs, NEW f
  PROVE  WellFormed(fs, f) <=>
           \A b \in Blocks(fs, f) :
             /\ fs[f].blocks[b] # <<>>
             /\ \A s \in Succ(fs, f, b) : s[1] = f /\ s[2] # 1
             /\ \A i \in 1..Len(fs[f].blocks[b]) :
                  InstrOK(fs, f, b, i, Len(fs[f].blocks[b]), fs[f].blocks[b][i])
BY DEF WellFormed, InstrOK

(* The functions that f calls exist. *)
Calls(fs, f) ==
  \A b \in Blocks(fs, f) : \A i \in 1..Len(fs[f].blocks[b]) :
    fs[f].blocks[b][i].op = "call" => fs[f].blocks[b][i].callee \in 1..Len(fs)

LEMMA InstrOKKept ==
  ASSUME NEW fs, NEW gs, NEW f, Alike(fs, gs, f), SameCode(fs, gs, f),
         NEW b, NEW i, NEW n, NEW x, InstrOK(fs, f, b, i, n, x),
         x.op = "call" => x.callee \in 1..Len(fs)
  PROVE  InstrOK(gs, f, b, i, n, x)
<1>1. i = n <=> x.op \in Terminators
  BY DEF InstrOK
<1>2. CASE x.op = "phi"
  <2>1. i = 1 /\ PhiOK(fs, f, b, x)
    BY <1>2 DEF InstrOK
  <2>2. PhiOK(gs, f, b, x)
    BY <2>1, AlikePhi
  <2> QED
    BY <1>1, <1>2, <2>1, <2>2 DEF InstrOK
<1>3. CASE x.op # "phi"
  <2>1. \A j \in 1..Len(x.args) : Usable(fs, f, b, i, x.args[j])
    BY <1>3 DEF InstrOK
  <2>2. \A j \in 1..Len(x.args) : Usable(gs, f, b, i, x.args[j])
    BY <2>1 DEF SameCode
  <2>3. ASSUME x.op = "call"
        PROVE  /\ gs[x.callee].state \in {"open", "verified"}
               /\ gs[x.callee].arity = Len(x.args)
    <3>1. /\ fs[x.callee].state \in {"open", "verified"}
          /\ fs[x.callee].arity = Len(x.args) /\ x.callee \in 1..Len(fs)
      BY <2>3 DEF InstrOK
    <3> QED
      BY <3>1 DEF Alike
  <2> QED
    BY <1>1, <1>3, <2>2, <2>3 DEF InstrOK
<1> QED
  BY <1>2, <1>3

Lasting(fs, f) == WellFormed(fs, f) /\ Calls(fs, f)

LEMMA LastingKept ==
  ASSUME NEW fs \in Seq(Function), NEW gs \in Seq(Function), NEW f,
         Alike(fs, gs, f), Lasting(fs, f)
  PROVE  Lasting(gs, f)
<1>1. SameCode(fs, gs, f)
  BY AlikeCode
<1>2. gs[f].blocks = fs[f].blocks /\ Blocks(gs, f) = Blocks(fs, f)
      /\ \A b : Succ(gs, f, b) = Succ(fs, f, b)
  BY <1>1 DEF SameCode
<1>3. WellFormed(fs, f) /\ Calls(fs, f)
  BY DEF Lasting
<1>4. ASSUME NEW b \in Blocks(gs, f)
      PROVE  /\ gs[f].blocks[b] # <<>>
             /\ \A s \in Succ(gs, f, b) : s[1] = f /\ s[2] # 1
             /\ \A i \in 1..Len(gs[f].blocks[b]) :
                  InstrOK(gs, f, b, i, Len(gs[f].blocks[b]), gs[f].blocks[b][i])
  <2>1. b \in Blocks(fs, f)
    BY <1>2
  <2>2. /\ fs[f].blocks[b] # <<>>
        /\ \A s \in Succ(fs, f, b) : s[1] = f /\ s[2] # 1
        /\ \A i \in 1..Len(fs[f].blocks[b]) :
             InstrOK(fs, f, b, i, Len(fs[f].blocks[b]), fs[f].blocks[b][i])
    BY <1>3, <2>1, WellFormedIs
  <2>3. ASSUME NEW i \in 1..Len(fs[f].blocks[b])
        PROVE  InstrOK(gs, f, b, i, Len(fs[f].blocks[b]), fs[f].blocks[b][i])
    <3>1. PICK n, x : n = Len(fs[f].blocks[b]) /\ x = fs[f].blocks[b][i]
      OBVIOUS
    <3>2. x.op = "call" => x.callee \in 1..Len(fs)
      BY <1>3, <2>1, <2>3, <3>1 DEF Calls
    <3>3. InstrOK(fs, f, b, i, n, x)
      BY <2>2, <2>3, <3>1
    <3>4. InstrOK(gs, f, b, i, n, x)
      BY <1>1, <3>2, <3>3, InstrOKKept
    <3> QED
      BY <3>1, <3>4
  <2> QED
    BY <1>2, <2>2, <2>3
<1>5. WellFormed(gs, f)
  BY <1>4, WellFormedIs
<1>6. Calls(gs, f)
  <2>1. Len(fs) <= Len(gs) /\ Len(fs) \in Nat /\ Len(gs) \in Nat
    BY FunctionFields DEF Alike
  <2>2. 1..Len(fs) \subseteq 1..Len(gs)
    BY <2>1
  <2> QED
    BY <1>2, <1>3, <2>2 DEF Calls
<1> QED
  BY <1>5, <1>6 DEF Lasting

(* What was verified is valid. *)
Standing(fs) == \A f \in 1..Len(fs) : fs[f].state = "verified" => Lasting(fs, f)

(* Code is added, but not to what was verified. *)
Sparing(fs, gs) ==
  /\ Heads(fs, gs)
  /\ \A f \in 1..Len(fs) : fs[f].state = "verified" => gs[f].blocks = fs[f].blocks

LEMMA StandingKept ==
  ASSUME NEW fs \in Seq(Function), NEW gs, Sparing(fs, gs), Standing(fs)
  PROVE  Standing(gs)
<1>1. /\ gs \in Seq(Function) /\ Len(gs) = Len(fs)
      /\ \A f \in 1..Len(fs) : gs[f].state = fs[f].state /\ gs[f].arity = fs[f].arity
  BY DEF Sparing, Heads, SameHead
<1>2. ASSUME NEW f \in 1..Len(gs), gs[f].state = "verified" PROVE Lasting(gs, f)
  <2>1. f \in 1..Len(fs) /\ fs[f].state = "verified"
    BY <1>1, <1>2
  <2>2. Lasting(fs, f)
    BY <2>1 DEF Standing
  <2>3. gs[f].blocks = fs[f].blocks
    BY <2>1 DEF Sparing
  <2>4. Len(fs) <= Len(gs)
    BY <1>1, FunctionFields
  <2>5. Alike(fs, gs, f)
    BY <1>1, <2>3, <2>4 DEF Alike
  <2> QED
    BY <1>1, <2>2, <2>5, LastingKept
<1> QED
  BY <1>2 DEF Standing

-----------------------------------------------------------------------------
(* The rules of the language, and the program that was met.                *)

Ruled(ns, n) ==
  /\ ns[n].type = "VAR" =>
       /\ ns[n].scope # 0
       /\ \E i \in 1..Len(ns[ns[n].scope].params) :
            ns[ns[n].scope].params[i] = ns[n].name
  /\ ns[n].type = "CALL" =>
       \E d \in 1..(n - 1) : /\ ns[d].type = "FUNCDEF" /\ ns[d].name = ns[n].name
                             /\ Len(ns[d].params) = ns[n].argc
  /\ ns[n].type = "FUNCDEF" =>
       /\ ns[n].scope = 0
       /\ \A d \in 1..(n - 1) : ns[d].type = "FUNCDEF" => ns[d].name # ns[n].name

Bad(ns) == \E n \in 1..Len(ns) : ~Ruled(ns, n)
TopVar(ns, n) == ns[n].type = "VAR" /\ ns[n].scope = 0
OnlyTop(ns) == \A n \in 1..Len(ns) : Ruled(ns, n) \/ TopVar(ns, n)

LEMMA RuledKept ==
  ASSUME NEW ns \in Seq(Node), NEW bs \in Seq(Node), Kept(ns, bs), ScopesOK(ns),
         NEW n \in 1..Len(ns)
  PROVE  (Ruled(bs, n) <=> Ruled(ns, n)) /\ (TopVar(bs, n) <=> TopVar(ns, n))
<1>1. Len(ns) \in Nat
  OBVIOUS
<1>2. /\ bs[n].type = ns[n].type /\ bs[n].name = ns[n].name
      /\ bs[n].scope = ns[n].scope /\ bs[n].argc = ns[n].argc
  BY DEF Kept
<1>3. \A d \in 1..(n - 1) : /\ bs[d].type = ns[d].type /\ bs[d].name = ns[d].name
                            /\ bs[d].params = ns[d].params
  <2>1. \A d \in 1..(n - 1) : d \in 1..Len(ns)
    BY <1>1
  <2> QED
    BY <2>1 DEF Kept
<1>4. ns[n].scope # 0 => bs[ns[n].scope].params = ns[ns[n].scope].params
  <2>1. ns[n].scope # 0 => ns[n].scope \in 1..Len(ns)
    BY <1>1 DEF ScopesOK
  <2> QED
    BY <2>1 DEF Kept
<1>5. TopVar(bs, n) <=> TopVar(ns, n)
  BY <1>2 DEF TopVar
<1>6. Ruled(bs, n) <=> Ruled(ns, n)
  <2>1. ns[n].scope # 0 =>
          ((\E i \in 1..Len(bs[bs[n].scope].params) : bs[bs[n].scope].params[i] = bs[n].name)
            <=> \E i \in 1..Len(ns[ns[n].scope].params) :
                  ns[ns[n].scope].params[i] = ns[n].name)
    BY ONLY <1>2, <1>4
  <2>2. (\E d \in 1..(n - 1) : /\ bs[d].type = "FUNCDEF" /\ bs[d].name = bs[n].name
                               /\ Len(bs[d].params) = bs[n].argc)
          <=> \E d \in 1..(n - 1) : /\ ns[d].type = "FUNCDEF" /\ ns[d].name = ns[n].name
                                    /\ Len(ns[d].params) = ns[n].argc
    BY ONLY <1>2, <1>3
  <2>3. (\A d \in 1..(n - 1) : bs[d].type = "FUNCDEF" => bs[d].name # bs[n].name)
          <=> \A d \in 1..(n - 1) : ns[d].type = "FUNCDEF" => ns[d].name # ns[n].name
    BY ONLY <1>2, <1>3
  <2> QED
    BY ONLY <1>2, <2>1, <2>2, <2>3 DEF Ruled
<1> QED
  BY <1>5, <1>6

LEMMA BadKept ==
  ASSUME NEW ns \in Seq(Node), NEW bs \in Seq(Node), Kept(ns, bs), ScopesOK(ns), Bad(ns)
  PROVE  Bad(bs)
<1>1. PICK n \in 1..Len(ns) : ~Ruled(ns, n)
  BY DEF Bad
<1>2. ~Ruled(bs, n)
  BY <1>1, RuledKept
<1>3. n \in 1..Len(bs)
  BY DEF Kept
<1> QED
  BY <1>2, <1>3 DEF Bad

(* The nodes of bs that are new follow the rules. *)
Lawful(ns, bs) ==
  \A n \in 1..Len(bs) : n \in 1..Len(ns) \/ Ruled(bs, n) \/ TopVar(bs, n)

LEMMA OnlyTopKept ==
  ASSUME NEW ns \in Seq(Node), NEW bs \in Seq(Node), Kept(ns, bs), ScopesOK(ns),
         Lawful(ns, bs), OnlyTop(ns)
  PROVE  OnlyTop(bs)
<1>1. ASSUME NEW n \in 1..Len(ns) PROVE Ruled(bs, n) \/ TopVar(bs, n)
  <2>1. (Ruled(bs, n) <=> Ruled(ns, n)) /\ (TopVar(bs, n) <=> TopVar(ns, n))
    BY RuledKept
  <2> QED
    BY <2>1 DEF OnlyTop
<1> QED
  BY <1>1 DEF Lawful, OnlyTop

LEMMA NestedIsBad ==
  ASSUME NEW ns, NEW d, d # 0, Nests(ns, d) PROVE Bad(ns)
BY DEF Nests, Bad, Ruled

-----------------------------------------------------------------------------
(* What the program and the functions have to do with each other.          *)

(* No frame up to the k-th is that of a definition. *)
Free(s, k) == \A j \in 1..k : s[j].pc # "body"

(* Above no definition there is the top level of lilc_eval. *)
TopLevel(m, s, ns) ==
  \A k \in 2..Len(s) : Free(s, k) => m = "eval" /\ (Loose(ns) \/ AtRoot(s[k]))

(* A function that is open has a frame. *)
Tended(s, fs) ==
  \A f \in 1..Len(fs) : fs[f].state = "open" =>
    \E i \in 1..Len(s) : s[i].pc = "body" /\ s[i].fn = f

Filled(s) == \A k \in 1..Len(s) : Full(s[k])

(* A function is as its definition says. *)
Defs(ns, fs) ==
  \A f \in 1..Len(fs) :
    LET d == fs[f].def
    IN /\ d \in 1..Len(ns) /\ ns[d].type = "FUNCDEF" /\ ns[d].name = fs[f].name
       /\ Len(ns[d].params) = fs[f].arity

(* A definition that is being generated has one in it. *)
NestedIn(s, ns) == \E i \in 1..Len(s) : s[i].pc = "body" /\ Nests(ns, s[i].node)

(* Unless the program has failed every definition has its function. *)
Declared(s, ns, fs, v) ==
  \/ Doomed(s, v)
  \/ \A d \in 1..Len(ns) : ns[d].type = "FUNCDEF" =>
       \E f \in 1..Len(fs) : fs[f].def = d

StandsBy(m, s, ns, fs) ==
  ~Stays(fs) \/ NestedIn(s, ns) \/ (m = "eval" /\ Loose(ns)) \/ Standing(fs)

FailsRightly(s, ns, fs, v) ==
  /\ Doomed(s, v) \/ ~Stays(fs) \/ NestedIn(s, ns) \/ OnlyTop(ns)
  /\ Doomed(s, v) \/ ~Stays(fs) => Bad(ns)

Settled(m, s, ns, fs) ==
  /\ TopLevel(m, s, ns) /\ Tended(s, fs) /\ Filled(s) /\ Defs(ns, fs)
  /\ s[Len(s)].pc = "main" => Len(ns) = 0

EndsRightly ==
  /\ status = "done" =>
       /\ Len(stack) = 1 /\ Top.pc = "coded" /\ Stays(funcs)
       /\ ub = {} => OnlyTop(ast) /\ (mode = "eval" => HasMain)
  /\ status = "failed" => (ub = {} => Bad(ast) \/ (mode = "eval" /\ ~HasMain))

(* The invariant of the program. *)
PInv ==
  /\ Settled(mode, stack, ast, funcs) /\ Declared(stack, ast, funcs, ret)
  /\ ub = {} => StandsBy(mode, stack, ast, funcs) /\ FailsRightly(stack, ast, funcs, ret)
  /\ EndsRightly

LEMMA StaysHeads ==
  ASSUME NEW fs, NEW gs, Heads(fs, gs) PROVE Stays(gs) <=> Stays(fs)
BY DEF Stays, Heads, SameHead

LEMMA LooseKept ==
  ASSUME NEW ns \in Seq(Node), NEW bs \in Seq(Node), Kept(ns, bs), RootKept(ns, bs),
         Loose(ns)
  PROVE  Loose(bs)
<1>1. PICK n \in 1..Len(ns) : /\ \E i \in 1..Len(ns[1].kids) : ns[1].kids[i] = n
                              /\ ns[n].type # "FUNCDEF"
  BY DEF Loose
<1>2. Len(ns) >= 1
  OBVIOUS
<1>3. \E i \in 1..Len(bs[1].kids) : bs[1].kids[i] = n
  BY <1>1, <1>2 DEF RootKept
<1>4. n \in 1..Len(bs) /\ bs[n].type # "FUNCDEF"
  BY <1>1 DEF Kept
<1> QED
  BY <1>3, <1>4 DEF Loose

LEMMA TendedTurns ==
  ASSUME NEW s, NEW ns, NEW fs, NEW v, NEW t, NEW bs, NEW gs, NEW w,
         Turns(s, ns, fs, v, t, bs, gs, w), Tended(s, fs)
  PROVE  Tended(t, gs)
<1>1. Moves(s, t, bs) /\ Heads(fs, gs)
  BY DEF Turns
<1>2. /\ \A i \in 1..Len(s) : i # Len(s) => i \in 1..Len(t) /\ t[i] = s[i]
      /\ s[Len(s)].pc # "body"
  BY <1>1, BelowTop
<1>3. \A i \in 1..Len(s) : s[i].pc = "body" => i \in 1..Len(t) /\ t[i] = s[i]
  BY <1>2
<1>4. Len(gs) = Len(fs) /\ \A f \in 1..Len(fs) : gs[f].state = fs[f].state
  BY <1>1 DEF Heads, SameHead
<1>5. ASSUME NEW f \in 1..Len(gs), gs[f].state = "open"
      PROVE  \E i \in 1..Len(t) : t[i].pc = "body" /\ t[i].fn = f
  <2>1. PICK i \in 1..Len(s) : s[i].pc = "body" /\ s[i].fn = f
    BY <1>4, <1>5 DEF Tended
  <2> QED
    BY <1>3, <2>1
<1> QED
  BY <1>5 DEF Tended

LEMMA NestedTurns ==
  ASSUME NEW ns \in Seq(Node), NEW bs \in Seq(Node), Kept(ns, bs), NEW s, NEW t,
         Moves(s, t, bs), NestedIn(s, ns)
  PROVE  NestedIn(t, bs)
<1>1. PICK i \in 1..Len(s) : s[i].pc = "body" /\ Nests(ns, s[i].node)
  BY DEF NestedIn
<1>2. i \in 1..Len(t) /\ t[i] = s[i]
  <2>1. i # Len(s)
    BY <1>1, BelowTop
  <2> QED
    BY <2>1, BelowTop
<1>3. Nests(bs, s[i].node)
  BY <1>1, NestsKept
<1> QED
  BY <1>1, <1>2, <1>3 DEF NestedIn

LEMMA TopLevelTurns ==
  ASSUME NEW m, NEW ns \in Seq(Node), NEW s, NEW fs, NEW v, NEW t, NEW bs, NEW gs, NEW w,
         Turns(s, ns, fs, v, t, bs, gs, w), Len(s) >= 2, TopLevel(m, s, ns)
  PROVE  TopLevel(m, t, bs)
<1>1. /\ Moves(s, t, bs) /\ bs \in Seq(Node) /\ Kept(ns, bs) /\ RootKept(ns, bs)
      /\ AtRoot(s[Len(s)]) => Loose(bs) \/ \A k \in Len(s)..Len(t) : AtRoot(t[k])
  BY DEF Turns
<1>2. /\ Len(s) \in Nat /\ Len(t) \in Int
      /\ \A i \in 1..Len(s) : i # Len(s) => i \in 1..Len(t) /\ t[i] = s[i]
      /\ \A i \in 1..Len(t) :
           i \in Len(s)..Len(t) \/ (i \in 1..Len(s) /\ i # Len(s) /\ t[i] = s[i])
      /\ s[Len(s)].pc # "body"
  BY <1>1, BelowTop
<1>3. Loose(ns) => Loose(bs)
  BY <1>1, LooseKept
<1> SUFFICES ASSUME NEW k \in 2..Len(t), Free(t, k)
             PROVE  m = "eval" /\ (Loose(bs) \/ AtRoot(t[k]))
  BY DEF TopLevel
<1>4. k \in 1..Len(t) /\ k \in Nat /\ k >= 2
  BY <1>2
<1>5. CASE k \in 1..Len(s) /\ k # Len(s) /\ t[k] = s[k]
  <2>1. k \in 2..Len(s)
    BY <1>4, <1>5
  <2>2. Free(s, k)
    <3>1. ASSUME NEW j \in 1..k PROVE s[j].pc # "body"
      <4>1. j \in 1..Len(s) /\ j # Len(s)
        BY <1>2, <1>4, <1>5
      <4>2. t[j] = s[j]
        BY <1>2, <4>1
      <4> QED
        BY <4>2 DEF Free
    <3> QED
      BY <3>1 DEF Free
  <2>3. m = "eval" /\ (Loose(ns) \/ AtRoot(s[k]))
    BY <2>1, <2>2 DEF TopLevel
  <2> QED
    BY <1>3, <1>5, <2>3
<1>6. CASE k \in Len(s)..Len(t)
  <2>1. Len(s) \in 2..Len(s)
    BY <1>2
  <2>2. Free(s, Len(s))
    <3>1. ASSUME NEW j \in 1..Len(s) PROVE s[j].pc # "body"
      <4>1. CASE j = Len(s)
        BY <1>2, <4>1
      <4>2. CASE j # Len(s)
        <5>1. t[j] = s[j]
          BY <1>2, <4>2
        <5>2. j \in 1..k
          BY <1>2, <1>4, <1>6
        <5> QED
          BY <5>1, <5>2 DEF Free
      <4> QED
        BY <4>1, <4>2
    <3> QED
      BY <3>1 DEF Free
  <2>3. m = "eval" /\ (Loose(ns) \/ AtRoot(s[Len(s)]))
    BY <2>1, <2>2 DEF TopLevel
  <2> QED
    BY <1>1, <1>3, <1>6, <2>3
<1> QED
  BY <1>2, <1>4, <1>5, <1>6

LEMMA FilledTurns ==
  ASSUME NEW s, NEW ns, NEW fs, NEW v, NEW t, NEW bs, NEW gs, NEW w,
         Turns(s, ns, fs, v, t, bs, gs, w), Filled(s)
  PROVE  Filled(t)
<1>1. Moves(s, t, bs) /\ \A k \in Len(s)..Len(t) : Full(t[k])
  BY DEF Turns
<1>2. \A i \in 1..Len(t) :
        i \in Len(s)..Len(t) \/ (i \in 1..Len(s) /\ i # Len(s) /\ t[i] = s[i])
  BY <1>1, BelowTop
<1>3. ASSUME NEW k \in 1..Len(t) PROVE Full(t[k])
  <2>1. CASE k \in Len(s)..Len(t)
    BY <1>1, <2>1
  <2>2. CASE k \in 1..Len(s) /\ t[k] = s[k]
    BY <2>2 DEF Filled
  <2> QED
    BY <1>2, <2>1, <2>2
<1> QED
  BY <1>3 DEF Filled

LEMMA DefsTurn ==
  ASSUME NEW ns \in Seq(Node), NEW bs \in Seq(Node), Kept(ns, bs), NEW fs, NEW gs,
         Heads(fs, gs), Defs(ns, fs)
  PROVE  Defs(bs, gs)
<1>1. Len(gs) = Len(fs)
      /\ \A f \in 1..Len(fs) : /\ gs[f].def = fs[f].def /\ gs[f].name = fs[f].name
                               /\ gs[f].arity = fs[f].arity
  BY DEF Heads, SameHead
<1>2. ASSUME NEW f \in 1..Len(gs)
      PROVE  /\ gs[f].def \in 1..Len(bs) /\ bs[gs[f].def].type = "FUNCDEF"
             /\ bs[gs[f].def].name = gs[f].name
             /\ Len(bs[gs[f].def].params) = gs[f].arity
  <2>1. PICK d : d = fs[f].def
    OBVIOUS
  <2>2. /\ d \in 1..Len(ns) /\ ns[d].type = "FUNCDEF" /\ ns[d].name = fs[f].name
        /\ Len(ns[d].params) = fs[f].arity
    BY <1>1, <2>1 DEF Defs
  <2>3. /\ bs[d].type = ns[d].type /\ bs[d].name = ns[d].name
        /\ bs[d].params = ns[d].params /\ d \in 1..Len(bs)
    BY <2>2 DEF Kept
  <2> QED
    BY <1>1, <2>1, <2>2, <2>3
<1> QED
  BY <1>2 DEF Defs

LEMMA DeclaredTurns ==
  ASSUME NEW s, NEW ns, NEW fs, NEW v, NEW t, NEW bs, NEW gs, NEW w,
         Turns(s, ns, fs, v, t, bs, gs, w), Declared(s, ns, fs, v)
  PROVE  Declared(t, bs, gs, w)
<1>1. /\ Doomed(s, v) => Doomed(t, w)
      /\ Kept(ns, bs) /\ NoDefs(ns, bs) /\ Heads(fs, gs)
  BY DEF Turns
<1>2. CASE Doomed(s, v)
  BY <1>1, <1>2 DEF Declared
<1>3. CASE ~Doomed(s, v)
  <2>1. ASSUME NEW d \in 1..Len(bs), bs[d].type = "FUNCDEF"
        PROVE  \E f \in 1..Len(gs) : gs[f].def = d
    <3>1. d \in 1..Len(ns)
      BY <1>1, <2>1 DEF NoDefs
    <3>2. ns[d].type = "FUNCDEF"
      BY <1>1, <2>1, <3>1 DEF Kept
    <3>3. PICK f \in 1..Len(fs) : fs[f].def = d
      BY <1>3, <3>1, <3>2 DEF Declared
    <3> QED
      BY <1>1, <3>3 DEF Heads, SameHead
  <2> QED
    BY <2>1 DEF Declared
<1> QED
  BY <1>2, <1>3

-----------------------------------------------------------------------------
(* A step that neither begins nor ends a definition.                       *)

LEMMA StandsTurns ==
  ASSUME NEW m, NEW s, NEW ns \in Seq(Node), NEW fs \in Seq(Function), NEW v,
         NEW t, NEW bs, NEW gs, NEW w, Turns(s, ns, fs, v, t, bs, gs, w),
         StandsBy(m, s, ns, fs),
         NestedIn(s, ns) \/ (m = "eval" /\ Loose(ns)) \/ Sparing(fs, gs)
  PROVE  StandsBy(m, t, bs, gs)
<1>1. /\ Moves(s, t, bs) /\ bs \in Seq(Node) /\ Kept(ns, bs) /\ RootKept(ns, bs)
      /\ Heads(fs, gs)
  BY DEF Turns
<1>2. CASE ~Stays(fs)
  <2>1. ~Stays(gs)
    BY <1>1, <1>2, StaysHeads
  <2> QED
    BY <2>1 DEF StandsBy
<1>3. CASE NestedIn(s, ns)
  <2>1. NestedIn(t, bs)
    BY <1>1, <1>3, NestedTurns
  <2> QED
    BY <2>1 DEF StandsBy
<1>4. CASE m = "eval" /\ Loose(ns)
  <2>1. Loose(bs)
    BY <1>1, <1>4, LooseKept
  <2> QED
    BY <1>4, <2>1 DEF StandsBy
<1>5. CASE Standing(fs) /\ Sparing(fs, gs)
  <2>1. Standing(gs)
    BY <1>5, StandingKept
  <2> QED
    BY <2>1 DEF StandsBy
<1> QED
  BY <1>2, <1>3, <1>4, <1>5 DEF StandsBy

LEMMA FailsTurns ==
  ASSUME NEW s, NEW ns \in Seq(Node), ScopesOK(ns), NEW fs \in Seq(Function), NEW v,
         NEW t, NEW bs, NEW gs, NEW w, Turns(s, ns, fs, v, t, bs, gs, w),
         FailsRightly(s, ns, fs, v),
         Doomed(t, w) => Doomed(s, v) \/ Bad(bs),
         Doomed(t, w) \/ NestedIn(s, ns) \/ Lawful(ns, bs)
  PROVE  FailsRightly(t, bs, gs, w)
<1>1. /\ Moves(s, t, bs) /\ bs \in Seq(Node) /\ Kept(ns, bs) /\ Heads(fs, gs)
      /\ Doomed(s, v) => Doomed(t, w)
  BY DEF Turns
<1>2. Stays(gs) <=> Stays(fs)
  BY <1>1, StaysHeads
<1>3. NestedIn(s, ns) => NestedIn(t, bs)
  BY <1>1, NestedTurns
<1>4. Lawful(ns, bs) /\ OnlyTop(ns) => OnlyTop(bs)
  BY <1>1, OnlyTopKept
<1>5. Bad(ns) => Bad(bs)
  BY <1>1, BadKept
<1> QED
  BY <1>1, <1>2, <1>3, <1>4, <1>5 DEF FailsRightly

LEMMA SettledTurns ==
  ASSUME NEW m, NEW s, NEW ns \in Seq(Node), NEW fs \in Seq(Function), NEW v,
         NEW t, NEW bs, NEW gs, NEW w, Turns(s, ns, fs, v, t, bs, gs, w),
         Len(s) >= 2, Settled(m, s, ns, fs), t[Len(t)].pc # "main"
  PROVE  Settled(m, t, bs, gs)
<1>1. bs \in Seq(Node) /\ Kept(ns, bs) /\ Heads(fs, gs)
  BY DEF Turns
<1>2. TopLevel(m, s, ns) /\ Tended(s, fs) /\ Filled(s) /\ Defs(ns, fs)
  BY DEF Settled
<1>3. TopLevel(m, t, bs)
  BY <1>2, TopLevelTurns
<1>4. Tended(t, gs)
  BY <1>2, TendedTurns
<1>5. Filled(t)
  BY <1>2, FilledTurns
<1>6. Defs(bs, gs)
  BY <1>1, <1>2, DefsTurn
<1> QED
  BY <1>3, <1>4, <1>5, <1>6 DEF Settled

LEMMA NotMain ==
  ASSUME TypeInv, TypeInv', DoomInv, Len(stack) >= 2, NEW t, t = stack', NEW bs,
         Moves(stack, t, bs)
  PROVE  t[Len(t)].pc # "main"
<1>1. /\ Len(stack) \in Nat /\ Len(t) \in Int
      /\ Len(t) \in (Len(stack) - 1)..(Len(stack) + 1)
      /\ \A i \in 1..Len(stack) : i # Len(stack) => i \in 1..Len(t) /\ t[i] = stack[i]
  BY BelowTop
<1>2. IsStack(t, ast', funcs')
  BY DEF TypeInv
<1>3. \A i \in 1..Len(t) : i = 1 <=> t[i].pc \in Base
  BY <1>2 DEF IsStack
<1>4. Len(t) \in 1..Len(t)
  <2>1. Len(t) >= 1
    BY <1>2 DEF IsStack
  <2> QED
    BY <1>1, <2>1
<1>5. CASE Len(t) # 1
  BY <1>3, <1>4, <1>5 DEF Base
<1>6. CASE Len(t) = 1
  <2>1. 1 \in 1..Len(stack) /\ 1 # Len(stack) /\ 1 \in 1..(Len(stack) - 1)
    <3>1. PICK n : n = Len(stack) /\ n \in Nat /\ n >= 2
      BY <1>1
    <3>2. 1 \in 1..n /\ 1 # n /\ 1 \in 1..(n - 1)
      BY ONLY <3>1
    <3> QED
      BY <3>1, <3>2
  <2>2. t[1] = stack[1]
    BY <1>1, <2>1
  <2>3. stack[1].pc \in Waiting
    BY <2>1 DEF DoomInv, Suspended
  <2> QED
    BY <1>6, <2>2, <2>3 DEF Waiting
<1> QED
  BY <1>5, <1>6

(* What a step has to show of its own. *)
Honest ==
  /\ Doomed(stack', ret') => Doomed(stack, ret) \/ Bad(ast')
  /\ Doomed(stack', ret') \/ NestedIn(stack, ast) \/ Lawful(ast, ast')
  /\ NestedIn(stack, ast) \/ (mode = "eval" /\ Loose(ast)) \/ Sparing(funcs, funcs')

LEMMA TurnsProgram ==
  ASSUME TypeInv, TypeInv', DoomInv, VInv, PInv, Turning, status = "running",
         UNCHANGED <<mode, status>>, ub \subseteq ub', Len(stack) >= 2, ub' = {} => Honest
  PROVE  PInv'
<1>1. PICK m, s, ns, fs, v : m = mode /\ s = stack /\ ns = ast /\ fs = funcs /\ v = ret
  OBVIOUS
<1>2. PICK t, bs, gs, w : t = stack' /\ bs = ast' /\ gs = funcs' /\ w = ret'
  OBVIOUS
<1>3. Turns(s, ns, fs, v, t, bs, gs, w) /\ Len(s) >= 2
  BY <1>1, <1>2 DEF Turning
<1>4. ns \in Seq(Node) /\ fs \in Seq(Function) /\ ScopesOK(ns)
  BY <1>1 DEF TypeInv, Typed, VInv, Framed
<1>5. t[Len(t)].pc # "main"
  <2>1. Moves(s, t, bs)
    BY <1>3 DEF Turns
  <2>2. Moves(stack, t, bs)
    BY <1>1, <2>1
  <2> QED
    BY <1>2, <2>2, NotMain
<1>6. Settled(m, t, bs, gs)
  <2>1. Settled(m, s, ns, fs)
    BY <1>1 DEF PInv
  <2> QED
    BY <1>3, <1>4, <1>5, <2>1, SettledTurns
<1>7. Declared(t, bs, gs, w)
  <2>1. Declared(s, ns, fs, v)
    BY <1>1 DEF PInv
  <2> QED
    BY <1>3, <2>1, DeclaredTurns
<1>8. ASSUME ub' = {} PROVE StandsBy(m, t, bs, gs) /\ FailsRightly(t, bs, gs, w)
  <2>1. ub = {}
    BY <1>8
  <2>2. StandsBy(m, s, ns, fs) /\ FailsRightly(s, ns, fs, v)
    BY <1>1, <2>1 DEF PInv
  <2>3. /\ Doomed(t, w) => Doomed(s, v) \/ Bad(bs)
        /\ Doomed(t, w) \/ NestedIn(s, ns) \/ Lawful(ns, bs)
        /\ NestedIn(s, ns) \/ (m = "eval" /\ Loose(ns)) \/ Sparing(fs, gs)
    BY <1>1, <1>2, <1>8 DEF Honest
  <2>4. StandsBy(m, t, bs, gs)
    BY <1>3, <1>4, <2>2, <2>3, StandsTurns
  <2>5. FailsRightly(t, bs, gs, w)
    BY <1>3, <1>4, <2>2, <2>3, FailsTurns
  <2> QED
    BY <2>4, <2>5
<1>9. EndsRightly'
  BY DEF EndsRightly
<1>10. m = mode'
  BY <1>1
<1> QED
  BY <1>2, <1>6, <1>7, <1>8, <1>9, <1>10 DEF PInv

(* A step that neither adds code nor a name. *)
LEMMA SparesSame == ASSUME NEW fs \in Seq(Function) PROVE Sparing(fs, fs)
  BY HeadsSame DEF Sparing

LEMMA LawfulSame == ASSUME NEW ns, NEW bs, bs = ns PROVE Lawful(ns, bs)
  BY DEF Lawful

LEMMA LawfulBy ==
  ASSUME TypeInv, NEW p \in 0..Len(ast), NEW x \in Node, Meet(p, x),
         Ruled(ast', Fresh) \/ TopVar(ast', Fresh)
  PROVE  Lawful(ast, ast')
<1>1. Len(ast') = Fresh /\ Len(ast') = Len(ast) + 1
  BY MeetInv
<1>2. Len(ast) \in Nat
  BY DEF TypeInv, Typed
<1>3. ASSUME NEW n \in 1..Len(ast') PROVE n \in 1..Len(ast) \/ n = Fresh
  <2>1. PICK m \in Nat : m = Len(ast)
    BY <1>2
  <2>2. n \in 1..(m + 1) /\ Fresh = m + 1
    BY <1>1, <1>3, <2>1 DEF Fresh
  <2> QED
    BY <2>1, <2>2
<1> QED
  BY <1>3 DEF Lawful

LEMMA LawfulMeet ==
  ASSUME TypeInv, NEW p \in 0..Len(ast), NEW x \in Node, Meet(p, x),
         x.type \notin {"VAR", "CALL", "FUNCDEF"}
  PROVE  Lawful(ast, ast')
<1>1. ast'[Fresh] = x
  BY MeetInv
<1>2. Ruled(ast', Fresh)
  BY <1>1 DEF Ruled
<1> QED
  BY <1>2, LawfulBy

(* Such a step, below the frame of lilc_eval or lilc_emit. *)
LEMMA QuietProgram ==
  ASSUME TypeInv, TypeInv', DoomInv, VInv, PInv, Turning /\ Unfailing(FALSE),
         status = "running", UNCHANGED <<mode, status>>, ub \subseteq ub',
         Top.pc \notin Base, Lawful(ast, ast'), Sparing(funcs, funcs')
  PROVE  PInv'
<1>1. Len(stack) >= 2
  BY TopType DEF TypeInv
<1>2. Honest
  BY DEF Honest, Unfailing
<1> QED
  BY <1>1, <1>2, TurnsProgram

(* Code is only added to open functions, or at the top level. *)
LEMMA SparesOwn ==
  ASSUME TypeInv, ScopeInv, VInv, PInv, Own, Heads(funcs, funcs'),
         Top.pc \notin {"block", "stmt", "expr"}, Top.pc \notin Base
  PROVE  NestedIn(stack, ast) \/ (mode = "eval" /\ Loose(ast)) \/ Sparing(funcs, funcs')
<1>1. Len(stack) \in Nat /\ Len(stack) >= 2
  BY TopType DEF TypeInv
<1>2. CASE \A j \in 1..Len(stack) : stack[j].pc # "body"
  <2>1. Len(stack) \in 2..Len(stack)
    BY <1>1
  <2>2. Free(stack, Len(stack))
    BY <1>2 DEF Free
  <2>3. ~AtRoot(stack[Len(stack)])
    BY DEF AtRoot, Top
  <2>4. TopLevel(mode, stack, ast)
    BY DEF PInv, Settled
  <2> QED
    BY <2>1, <2>2, <2>3, <2>4 DEF TopLevel
<1>3. CASE \E j \in 1..Len(stack) : stack[j].pc = "body"
  <2>1. PICK i : Inner(stack, i, Len(stack))
    BY <1>1, <1>3, InnerExists
  <2>2. i \in 1..Len(stack) /\ stack[i].pc = "body"
    BY <2>1 DEF Inner
  <2>3. CASE Nests(ast, stack[i].node)
    BY <2>2, <2>3 DEF NestedIn
  <2>4. CASE Owner(stack, ast, at, named_vals, i)
    <3>1. Confined(funcs, funcs', stack[i].fn)
      BY <2>2, <2>4 DEF Own
    <3>2. funcs[stack[i].fn].state = "open"
      BY <2>2 DEF VInv, Framed, Making
    <3>3. Sparing(funcs, funcs')
      BY <3>1, <3>2 DEF Confined, Sparing
    <3> QED
      BY <3>3
  <2> QED
    BY <2>1, <2>2, <2>3, <2>4 DEF ScopeInv, Building
<1> QED
  BY <1>2, <1>3

LEMMA OwnProgram ==
  ASSUME TypeInv, TypeInv', DoomInv, ScopeInv, VInv, PInv,
         Turning /\ Unfailing(FALSE) /\ Own,
         status = "running", UNCHANGED <<mode, status>>, ub \subseteq ub',
         Top.pc \notin {"block", "stmt", "expr"}, Top.pc \notin Base, Lawful(ast, ast')
  PROVE  PInv'
<1>1. Len(stack) >= 2
  BY TopType DEF TypeInv
<1>2. Heads(funcs, funcs')
  BY DEF Turning, Turns
<1>3. NestedIn(stack, ast) \/ (mode = "eval" /\ Loose(ast)) \/ Sparing(funcs, funcs')
  BY <1>2, SparesOwn
<1>4. Honest
  BY <1>3 DEF Honest, Unfailing
<1> QED
  BY <1>1, <1>4, TurnsProgram

-----------------------------------------------------------------------------
(* The steps of expressions and blocks.                                    *)

LEMMA SameProgram ==
  ASSUME TypeInv, TypeInv', DoomInv, VInv, PInv, Turning /\ Unfailing(FALSE),
         status = "running", UNCHANGED <<mode, ast, funcs, ub, status>>, Top.pc \notin Base
  PROVE  PInv'
<1>1. Lawful(ast, ast')
  BY LawfulSame
<1>2. Sparing(funcs, funcs')
  <2>1. funcs \in Seq(Function)
    BY DEF TypeInv, Typed
  <2>2. Sparing(funcs, funcs)
    BY <2>1, SparesSame
  <2> QED
    BY <2>2
<1>3. ub \subseteq ub'
  OBVIOUS
<1> QED
  BY <1>1, <1>2, <1>3, QuietProgram

LEMMA PPass ==
  ASSUME TypeInv, TypeInv', DoomInv, VInv, PInv,
         Rhs \/ NextArg \/ StoreArg \/ IfFails \/ NextStmt \/ StmtDone \/ BlockDone
  PROVE  PInv'
<1>1. /\ status = "running" /\ UNCHANGED <<mode, ast, funcs, ub, status>>
      /\ Top.pc \notin Base
  <2>1. CASE Rhs
    BY <2>1 DEF Rhs, At, NoCode, Base
  <2>2. CASE NextArg
    BY <2>2 DEF NextArg, At, NoCode, Base
  <2>3. CASE StoreArg
    BY <2>3 DEF StoreArg, At, NoCode, Base
  <2>4. CASE IfFails
    BY <2>4 DEF IfFails, At, NoCode, Base
  <2>5. CASE NextStmt
    BY <2>5 DEF NextStmt, At, NoCode, Base
  <2>6. CASE StmtDone
    BY <2>6 DEF StmtDone, At, NoCode, Base
  <2>7. CASE BlockDone
    BY <2>7 DEF BlockDone, At, NoCode, Base
  <2> QED
    BY <2>1, <2>2, <2>3, <2>4, <2>5, <2>6, <2>7
<1>2. Full(Top)
  <2>1. Filled(stack)
    BY DEF PInv, Settled
  <2>2. Len(stack) \in 1..Len(stack)
    BY TopType DEF TypeInv
  <2> QED
    BY <2>1, <2>2 DEF Filled, Top
<1>3. Turning /\ Unfailing(FALSE)
  BY <1>2, TRhs, TNextArg, TStoreArg, TIfFails, TNextStmt, TStmtDone, TBlockDone
<1> QED
  BY <1>1, <1>3, SameProgram

(* The nodes of numbers, operators and conditionals. *)
LEMMA PlainNodes ==
  ASSUME TypeInv, EnterDbl \/ EnterBin \/ EnterIf
  PROVE  \E x \in Node : Meet(Top.node, x) /\ x.type \notin {"VAR", "CALL", "FUNCDEF"}
<1>1. CASE EnterDbl
  <2>1. "DBL" \in NodeType
    BY DEF NodeType
  <2>2. PICK n \in Literals : Meet(Top.node, [Below("DBL") EXCEPT !.val = n])
    BY <1>1 DEF EnterDbl
  <2>3. \A y \in Node : [y EXCEPT !.val = n] \in Node /\ [y EXCEPT !.val = n].type = y.type
    <3>1. n \in Num
      BY CodegenAssumption
    <3> QED
      BY <3>1 DEF Node
  <2>4. [Below("DBL") EXCEPT !.val = n] \in Node /\ [Below("DBL") EXCEPT !.val = n].type = "DBL"
    BY <2>1, <2>3, BelowType
  <2> QED
    BY <2>2, <2>4
<1>2. CASE EnterBin
  <2>1. "BIN" \in NodeType
    BY DEF NodeType
  <2>2. PICK n \in Ops : Meet(Top.node, [Below("BIN") EXCEPT !.op = n])
    BY <1>2 DEF EnterBin
  <2>3. \A y \in Node : [y EXCEPT !.op = n] \in Node /\ [y EXCEPT !.op = n].type = y.type
    BY DEF Node
  <2>4. [Below("BIN") EXCEPT !.op = n] \in Node /\ [Below("BIN") EXCEPT !.op = n].type = "BIN"
    BY <2>1, <2>3, BelowType
  <2> QED
    BY <2>2, <2>4
<1>3. CASE EnterIf
  <2>1. "IF" \in NodeType
    BY DEF NodeType
  <2>2. Below("IF") \in Node /\ Below("IF").type = "IF"
    BY <2>1, BelowType
  <2> QED
    BY <1>3, <2>2 DEF EnterIf
<1> QED
  BY <1>1, <1>2, <1>3

LEMMA PPlain ==
  ASSUME TypeInv, TypeInv', DoomInv, VInv, PInv, EnterDbl \/ EnterBin \/ EnterIf
  PROVE  PInv'
<1>1. /\ status = "running" /\ UNCHANGED <<mode, funcs, ub, status>> /\ Top.pc \notin Base
  BY DEF EnterDbl, EnterBin, EnterIf, Enter, At, NoCode, Base
<1>2. Turning /\ Unfailing(FALSE)
  BY TDbl, TBin1
<1>3. PICK x \in Node : Meet(Top.node, x) /\ x.type \notin {"VAR", "CALL", "FUNCDEF"}
  BY PlainNodes
<1>4. Top.node \in 0..Len(ast)
  BY EnterNodes
<1>5. Lawful(ast, ast')
  BY <1>3, <1>4, LawfulMeet
<1>6. Sparing(funcs, funcs')
  <2>1. funcs \in Seq(Function)
    BY DEF TypeInv, Typed
  <2>2. Sparing(funcs, funcs)
    BY <2>1, SparesSame
  <2> QED
    BY <1>1, <2>2
<1>7. ub \subseteq ub'
  BY <1>1
<1> QED
  BY <1>1, <1>2, <1>5, <1>6, <1>7, QuietProgram

(* The value of an empty block: nothing is said of the program then. *)
LEMMA PEmptyBlock ==
  ASSUME TypeInv, TypeInv', DoomInv, VInv, PInv, EmptyBlock PROVE PInv'
<1>1. /\ status = "running" /\ UNCHANGED <<mode, status>> /\ ub \subseteq ub'
      /\ Top.pc \notin Base
  BY DEF EmptyBlock, At, Base
<1>2. Turning /\ ub' # {}
  BY TEmptyBlock
<1>3. Len(stack) >= 2
  BY <1>1, TopType DEF TypeInv
<1> QED
  BY <1>1, <1>2, <1>3, TurnsProgram

(* The steps that add code. *)
LEMMA PBuild ==
  ASSUME TypeInv, TypeInv', DoomInv, ScopeInv, VInv, PInv, Bin \/ BuildCall \/ Phi
  PROVE  PInv'
<1>1. /\ status = "running" /\ UNCHANGED <<mode, ast, status>> /\ Top.pc \notin Base
      /\ Top.pc \notin {"block", "stmt", "expr"}
  <2>1. CASE Bin
    BY <2>1 DEF Bin, At, Base
  <2>2. CASE BuildCall
    BY <2>2 DEF BuildCall, At, Base
  <2>3. CASE Phi
    BY <2>3 DEF Phi, At, Base
  <2> QED
    BY <2>1, <2>2, <2>3
<1>2. ub \subseteq ub'
  <2>1. CASE Bin
    BY <2>1 DEF Bin
  <2>2. CASE BuildCall
    BY <2>2 DEF BuildCall
  <2>3. CASE Phi
    BY <2>3 DEF Phi
  <2> QED
    BY <2>1, <2>2, <2>3
<1>3. Turning /\ Unfailing(FALSE) /\ Own
  BY TBin, TBuildCall, TPhi
<1>4. Lawful(ast, ast')
  BY <1>1, LawfulSame
<1> QED
  BY <1>1, <1>2, <1>3, <1>4, OwnProgram

(* A branch of a conditional is met, which is a block. *)
LEMMA LawfulBlock ==
  ASSUME TypeInv, NEW p \in 0..Len(ast), Meet(p, NewNode("BLOCK", ScopeOf(p)))
  PROVE  Lawful(ast, ast')
<1>1. "BLOCK" \in NodeType /\ ScopeOf(p) \in Nat
  BY ScopeType DEF NodeType, TypeInv, Typed
<1>2. NewNode("BLOCK", ScopeOf(p)) \in Node /\ NewNode("BLOCK", ScopeOf(p)).type = "BLOCK"
  BY <1>1, NewNodeType
<1> QED
  BY <1>2, LawfulMeet

LEMMA PBranch ==
  ASSUME TypeInv, TypeInv', DoomInv, ScopeInv, VInv, PInv, Then \/ Else
  PROVE  PInv'
<1>1. /\ status = "running" /\ UNCHANGED <<mode, status>> /\ Top.pc \notin Base
      /\ Top.pc \notin {"block", "stmt", "expr"}
  <2>1. CASE Then
    BY <2>1 DEF Then, At, Base
  <2>2. CASE Else
    BY <2>2 DEF Else, At, Base
  <2> QED
    BY Zenon, <2>1, <2>2
<1>2. ub \subseteq ub'
  <2>1. CASE Then
    BY <2>1 DEF Then
  <2>2. CASE Else
    BY <2>2 DEF Else
  <2> QED
    BY Zenon, <2>1, <2>2
<1>3. Turning /\ Unfailing(FALSE) /\ Own
  BY TThen, TElse
<1>4. \E g : CallBlock(g) /\ g.node = Top.node
  <2>1. CASE Then
    <3>1. PICK blks : blks = <<<<at[1], Len(funcs[at[1]].blocks) + 1>>,
                               <<at[1], Len(funcs[at[1]].blocks) + 2>>,
                               <<at[1], Len(funcs[at[1]].blocks) + 3>>>>
      OBVIOUS
    <3>2. PICK g : g = [Top EXCEPT !.pc = "then", !.blks = blks]
      OBVIOUS
    <3>3. CallBlock(g)
      BY <2>1, <3>1, <3>2 DEF Then
    <3>4. g.node = Top.node
      BY <3>2, NextHolds DEF Holds
    <3> QED
      BY <3>3, <3>4
  <2>2. CASE Else
    BY <2>2, ElseParts
  <2> QED
    BY <2>1, <2>2
<1>5. Meet(Top.node, NewNode("BLOCK", ScopeOf(Top.node)))
  BY <1>4 DEF CallBlock
<1>6. Top.node \in 0..Len(ast)
  <2>1. "IF" \in NodeType
    BY DEF NodeType
  <2> QED
    BY <2>1, BelowType
<1>7. Lawful(ast, ast')
  BY <1>5, <1>6, LawfulBlock
<1> QED
  BY <1>1, <1>2, <1>3, <1>7, OwnProgram

-----------------------------------------------------------------------------
(* Names that are looked up.                                               *)

LEMMA ScopeHas ==
  ASSUME NEW f, NEW params, NEW x \in ParamNames, Scope(f, params)[x] # NULL
  PROVE  \E i \in 1..Len(params) : params[i] = x
BY DEF Scope, Cleared, NoNames

(* A program with a definition in another one is wrong. *)
LEMMA NestedBad ==
  ASSUME NEW ns \in Seq(Node), NEW fs \in Seq(Function), NEW s, IsStack(s, ns, fs),
         NestedIn(s, ns)
  PROVE  Bad(ns)
<1>1. PICK i \in 1..Len(s) : s[i].pc = "body" /\ Nests(ns, s[i].node)
  BY DEF NestedIn
<1>2. s[i].node \in 1..Len(ns)
  BY <1>1, FrameNode
<1>3. s[i].node # 0
  BY <1>2
<1> QED
  BY <1>1, <1>3, NestedIsBad

(* d is a definition whose parameters the symbol table has. *)
NamesOf(d) ==
  /\ d \in 1..Len(ast)
  /\ \A x \in ParamNames :
       named_vals[x] = NULL <=> \A i \in 1..Len(ast[d].params) : ast[d].params[i] # x

LEMMA VarScope ==
  ASSUME TypeInv, ScopeInv, VInv
  PROVE  \/ Around(ast, Top.node) = 0 \/ NestedIn(stack, ast)
         \/ NamesOf(Around(ast, Top.node))
<1>1. Len(stack) \in Nat /\ Len(stack) >= 1
  BY TopType DEF TypeInv
<1>2. Len(stack) \in 1..Len(stack)
  BY <1>1
<1>3. CASE \A j \in 1..Len(stack) : stack[j].pc # "body"
  <2>1. Outside(stack, ast)
    BY DEF VInv, Framed
  <2> QED
    BY <1>2, <1>3, <2>1 DEF Outside, Top
<1>4. CASE \E j \in 1..Len(stack) : stack[j].pc = "body"
  <2>1. PICK i : Inner(stack, i, Len(stack))
    BY <1>1, <1>4, InnerExists
  <2>2. i \in 1..Len(stack) /\ stack[i].pc = "body"
    BY <2>1 DEF Inner
  <2>3. CASE Nests(ast, stack[i].node)
    BY <2>2, <2>3 DEF NestedIn
  <2>4. CASE Owner(stack, ast, at, named_vals, i)
    <3>1. PICK d : d = stack[i].node
      OBVIOUS
    <3>2. Around(ast, Top.node) = d
      BY <1>2, <2>1, <2>2, <3>1 DEF ScopeInv, Scoped, Top
    <3>3. d \in 1..Len(ast)
      <4>1. ast \in Seq(Node) /\ funcs \in Seq(Function) /\ IsStack(stack, ast, funcs)
        BY DEF TypeInv, Typed
      <4> QED
        BY <2>2, <3>1, <4>1, FrameNode
    <3>4. PICK params : params = ast[d].params
      OBVIOUS
    <3>5. params \in Seq(ParamNames)
      BY <3>3, <3>4, NodeFields DEF TypeInv, Typed
    <3>6. PICK f : named_vals = Scope(f, params)
      BY <2>4, <3>1, <3>4 DEF Owner
    <3>7. ASSUME NEW x \in ParamNames
          PROVE  named_vals[x] = NULL <=> \A m \in 1..Len(params) : params[m] # x
      <4>1. CASE Scope(f, params)[x] = NULL
        BY <3>5, <3>6, <4>1, ScopeNames
      <4>2. CASE Scope(f, params)[x] # NULL
        BY <3>6, <4>2, ScopeHas
      <4> QED
        BY <4>1, <4>2
    <3> QED
      BY <3>2, <3>3, <3>4, <3>7 DEF NamesOf
  <2> QED
    BY <2>1, <2>2, <2>3, <2>4 DEF ScopeInv, Building
<1> QED
  BY <1>3, <1>4

(* The node of a variable. *)
LEMMA VarNode ==
  ASSUME TypeInv, VInv, NEW x \in ParamNames,
         Meet(Top.node, [Below("VAR") EXCEPT !.name = x])
  PROVE  /\ Top.node \in 0..Len(ast)
         /\ \E y \in Node : Meet(Top.node, y)
         /\ ast' \in Seq(Node) /\ Kept(ast, ast') /\ Fresh \in 1..Len(ast')
         /\ ast'[Fresh].type = "VAR" /\ ast'[Fresh].name = x
         /\ ast'[Fresh].scope = Around(ast, Top.node)
<1>1. "VAR" \in NodeType
  BY DEF NodeType
<1>2. /\ Below("VAR") \in Node /\ Below("VAR").type = "VAR"
      /\ Below("VAR").scope = ScopeOf(Top.node) /\ Top.node \in 0..Len(ast)
  BY <1>1, BelowType
<1>3. \A y \in Node :
        /\ [y EXCEPT !.name = x] \in Node /\ [y EXCEPT !.name = x].type = y.type
        /\ [y EXCEPT !.name = x].name = x /\ [y EXCEPT !.name = x].scope = y.scope
  BY DEF Node
<1>4. PICK y \in Node : /\ Meet(Top.node, y) /\ y.type = "VAR" /\ y.name = x
                        /\ y.scope = ScopeOf(Top.node)
  BY <1>2, <1>3
<1>5. /\ ast' \in Seq(Node) /\ Kept(ast, ast') /\ Len(ast') = Fresh /\ ast'[Fresh] = y
      /\ Fresh \in 0..Len(ast') /\ Fresh # 0
  BY <1>2, <1>4, MeetInv
<1>6. Fresh \in 1..Len(ast')
  <2>1. Len(ast') \in Nat
    BY <1>5
  <2> QED
    BY <1>5, <2>1
<1>7. ScopeOf(Top.node) = Around(ast, Top.node)
  BY DEF ScopeOf, Around
<1> QED
  BY <1>2, <1>4, <1>5, <1>6, <1>7

LEMMA PVar ==
  ASSUME TypeInv, TypeInv', DoomInv, ScopeInv, VInv, PInv, EnterVar PROVE PInv'
<1>1. PICK x \in ParamNames :
        /\ Meet(Top.node, [Below("VAR") EXCEPT !.name = x])
        /\ Turning /\ Unfailing(named_vals[x] = NULL)
        /\ named_vals[x] = NULL => Doomed(stack', ret')
  BY TVar
<1>2. PICK bs, n, d : bs = ast' /\ n = Fresh /\ d = Around(ast, Top.node)
  OBVIOUS
<1>3. PICK y \in Node : Meet(Top.node, y)
  BY <1>1, VarNode
<1>4. /\ Top.node \in 0..Len(ast) /\ bs \in Seq(Node) /\ Kept(ast, bs) /\ n \in 1..Len(bs)
      /\ bs[n].type = "VAR" /\ bs[n].name = x /\ bs[n].scope = d
  BY <1>1, <1>2, VarNode
<1>5. /\ ast \in Seq(Node) /\ funcs \in Seq(Function) /\ IsStack(stack, ast, funcs)
      /\ ScopesOK(ast)
  BY DEF TypeInv, Typed, VInv, Framed
<1>6. NestedIn(stack, ast) => Bad(bs)
  <2>1. NestedIn(stack, ast) => Bad(ast)
    BY <1>5, NestedBad
  <2> QED
    BY <1>4, <1>5, <2>1, BadKept
<1>7. d = 0 => ~Ruled(bs, n) /\ TopVar(bs, n)
  BY <1>4 DEF Ruled, TopVar
<1>8. NamesOf(d) => (named_vals[x] = NULL <=> ~Ruled(bs, n))
  <2> SUFFICES ASSUME NamesOf(d) PROVE named_vals[x] = NULL <=> ~Ruled(bs, n)
    OBVIOUS
  <2>1. d \in 1..Len(ast) /\ d # 0
    BY DEF NamesOf
  <2>2. bs[d].params = ast[d].params
    BY <1>4, <2>1 DEF Kept
  <2>3. Ruled(bs, n) <=> \E i \in 1..Len(ast[d].params) : ast[d].params[i] = x
    BY <1>4, <2>1, <2>2 DEF Ruled
  <2> QED
    BY <2>3 DEF NamesOf
<1>9. d = 0 \/ NestedIn(stack, ast) \/ NamesOf(d)
  BY <1>2, VarScope
<1>10. Doomed(stack', ret') => Doomed(stack, ret) \/ Bad(ast')
  <2>1. named_vals[x] = NULL => Bad(bs)
    BY <1>4, <1>6, <1>7, <1>8, <1>9 DEF Bad
  <2> QED
    BY <1>1, <1>2, <2>1 DEF Unfailing
<1>11. Doomed(stack', ret') \/ NestedIn(stack, ast) \/ Lawful(ast, ast')
  <2>1. CASE named_vals[x] = NULL
    BY <1>1, <2>1
  <2>2. CASE named_vals[x] # NULL
    <3>1. NestedIn(stack, ast) \/ Ruled(bs, n) \/ TopVar(bs, n)
      BY <1>7, <1>8, <1>9, <2>2
    <3> QED
      BY <1>2, <1>3, <1>4, <3>1, LawfulBy
  <2> QED
    BY <2>1, <2>2
<1>12. status = "running" /\ UNCHANGED <<mode, funcs, ub, status>> /\ Top.pc \notin Base
  BY DEF EnterVar, Enter, At, NoCode, Base
<1>13. Sparing(funcs, funcs')
  <2>1. Sparing(funcs, funcs)
    BY <1>5, SparesSame
  <2> QED
    BY <1>12, <2>1
<1>14. Honest
  BY <1>10, <1>11, <1>13 DEF Honest
<1>15. Len(stack) >= 2 /\ ub \subseteq ub'
  BY <1>12, TopType DEF TypeInv
<1> QED
  BY <1>1, <1>12, <1>14, <1>15, TurnsProgram

(* The node of a call. *)
CallNode(name, argc) ==
  /\ ast' \in Seq(Node) /\ Kept(ast, ast') /\ Fresh \in 1..Len(ast')
  /\ \A d \in 1..(Fresh - 1) : d \in 1..Len(ast)
  /\ ast'[Fresh].type = "CALL" /\ ast'[Fresh].name = name /\ ast'[Fresh].argc = argc

LEMMA CallNodeIs ==
  ASSUME TypeInv, NEW name \in FuncNames, NEW argc \in 0..MaxArgs,
         Meet(Top.node, [Below("CALL") EXCEPT !.name = name, !.argc = argc])
  PROVE  /\ Top.node \in 0..Len(ast) /\ \E y \in Node : Meet(Top.node, y)
         /\ CallNode(name, argc)
<1>1. "CALL" \in NodeType
  BY DEF NodeType
<1>2. /\ Below("CALL") \in Node /\ Below("CALL").type = "CALL"
      /\ Top.node \in 0..Len(ast)
  BY <1>1, BelowType
<1>3. argc \in Nat
  BY CodegenAssumption
<1>4. \A y \in Node :
        /\ [y EXCEPT !.name = name, !.argc = argc] \in Node
        /\ [y EXCEPT !.name = name, !.argc = argc].type = y.type
        /\ [y EXCEPT !.name = name, !.argc = argc].name = name
        /\ [y EXCEPT !.name = name, !.argc = argc].argc = argc
  BY <1>3 DEF Node
<1>5. PICK y \in Node : /\ Meet(Top.node, y) /\ y.type = "CALL" /\ y.name = name
                        /\ y.argc = argc
  BY <1>2, <1>4
<1>6. /\ ast' \in Seq(Node) /\ Kept(ast, ast') /\ Len(ast') = Fresh /\ ast'[Fresh] = y
      /\ Fresh \in 0..Len(ast') /\ Fresh # 0
  BY <1>2, <1>5, MeetInv
<1>7. Fresh \in 1..Len(ast') /\ \A d \in 1..(Fresh - 1) : d \in 1..Len(ast)
  <2>1. Len(ast') \in Nat
    BY <1>6
  <2>2. PICK k : k = Len(ast) /\ k \in Nat
    BY DEF TypeInv, Typed
  <2>3. Fresh = k + 1
    BY <2>2 DEF Fresh
  <2> QED
    BY <1>6, <2>1, <2>2, <2>3
<1> QED
  BY <1>2, <1>5, <1>6, <1>7 DEF CallNode

(* In a program that follows the rules a name has one definition. *)
LEMMA OneDefinition ==
  ASSUME NEW ns, ~Bad(ns), Len(ns) \in Nat, NEW d \in 1..Len(ns), NEW e \in 1..Len(ns),
         ns[d].type = "FUNCDEF", ns[e].type = "FUNCDEF", ns[d].name = ns[e].name
  PROVE  d = e
<1>1. Ruled(ns, d) /\ Ruled(ns, e)
  BY DEF Bad
<1>2. \A c \in 1..(d - 1) : c # e
  BY <1>1 DEF Ruled
<1>3. \A c \in 1..(e - 1) : c # d
  BY <1>1 DEF Ruled
<1> QED
  BY <1>2, <1>3

(* The function that was defined is the one that its name stands for. *)
LEMMA NamedIsDefined ==
  ASSUME TypeInv, VInv, Defs(ast, funcs), Stays(funcs), ~Bad(ast),
         NEW f \in 1..Len(funcs), NEW name, funcs[f].name = name
  PROVE  Named(name) = f
<1>1. Live(f)
  BY DEF Stays, Live
<1>2. Named(name) # 0
  <2>1. f \in {g \in 1..Len(funcs) : Live(g) /\ funcs[g].name = name}
    BY <1>1
  <2>2. 0 \notin 1..Len(funcs)
    BY SomeFunctions
  <2> QED
    BY <2>1, <2>2 DEF Named
<1>3. PICK g : g = Named(name)
  OBVIOUS
<1>4. g \in 1..Len(funcs) /\ funcs[g].name = name
  BY <1>2, <1>3, NamedType
<1>5. PICK d, e : d = funcs[f].def /\ e = funcs[g].def
  OBVIOUS
<1>6. /\ d \in 1..Len(ast) /\ ast[d].type = "FUNCDEF" /\ ast[d].name = name
      /\ e \in 1..Len(ast) /\ ast[e].type = "FUNCDEF" /\ ast[e].name = name
  BY <1>4, <1>5 DEF Defs
<1>7. Len(ast) \in Nat
  BY DEF TypeInv, Typed
<1>8. d = e
  BY <1>6, <1>7, OneDefinition
<1>9. f = g
  BY <1>4, <1>5, <1>8 DEF VInv, Framed, Making
<1> QED
  BY <1>3, <1>9

LEMMA PCall ==
  ASSUME TypeInv, TypeInv', DoomInv, ScopeInv, VInv, PInv, EnterCall PROVE PInv'
<1>1. PICK name \in FuncNames, argc \in 0..MaxArgs :
        /\ Meet(Top.node, [Below("CALL") EXCEPT !.name = name, !.argc = argc])
        /\ Turning /\ Unfailing(~Callable(Named(name), argc))
        /\ ~Callable(Named(name), argc) => Doomed(stack', ret')
  BY TCall
<1>2. PICK bs, n : bs = ast' /\ n = Fresh
  OBVIOUS
<1>3. PICK y \in Node : Meet(Top.node, y)
  BY <1>1, CallNodeIs
<1>4. Top.node \in 0..Len(ast)
  BY <1>1, CallNodeIs
<1>5. CallNode(name, argc)
  BY <1>1, CallNodeIs
<1>6. /\ bs \in Seq(Node) /\ Kept(ast, bs) /\ n \in 1..Len(bs)
      /\ \A d \in 1..(n - 1) : d \in 1..Len(ast)
      /\ bs[n].type = "CALL" /\ bs[n].name = name /\ bs[n].argc = argc
  BY <1>2, <1>5 DEF CallNode
<1>7. /\ ast \in Seq(Node) /\ funcs \in Seq(Function) /\ IsStack(stack, ast, funcs)
      /\ ScopesOK(ast)
  BY DEF TypeInv, Typed, VInv, Framed
<1>8. Defs(ast, funcs)
  BY DEF PInv, Settled
<1>9. status = "running" /\ UNCHANGED <<mode, funcs, ub, status>> /\ Top.pc \notin Base
  BY DEF EnterCall, Enter, At, NoCode, Base
<1>10. Callable(Named(name), argc) => Ruled(bs, n)
  <2> SUFFICES ASSUME Callable(Named(name), argc) PROVE Ruled(bs, n)
    OBVIOUS
  <2>1. PICK f : f = Named(name)
    OBVIOUS
  <2>2. f \in 1..Len(funcs) /\ funcs[f].name = name /\ funcs[f].arity = argc
    BY <2>1, NamedType DEF Callable
  <2>3. PICK d : d = funcs[f].def
    OBVIOUS
  <2>4. /\ d \in 1..Len(ast) /\ ast[d].type = "FUNCDEF" /\ ast[d].name = name
        /\ Len(ast[d].params) = argc
    BY <1>8, <2>2, <2>3 DEF Defs
  <2>5. bs[d].type = "FUNCDEF" /\ bs[d].name = name /\ Len(bs[d].params) = argc
    BY <1>6, <2>4 DEF Kept
  <2>6. d \in 1..(n - 1)
    <3>1. PICK k : k = Len(ast) /\ k \in Nat
      BY <1>7
    <3>2. n = k + 1
      BY <1>2, <3>1 DEF Fresh
    <3> QED
      BY <2>4, <3>1, <3>2
  <2> QED
    BY <1>6, <2>5, <2>6 DEF Ruled
<1>11. ASSUME ub' = {}, ~Callable(Named(name), argc), ~Doomed(stack, ret)
       PROVE  Bad(bs)
  <2> SUFFICES ASSUME ~Bad(bs) PROVE FALSE
    OBVIOUS
  <2>1. ~Bad(ast)
    BY <1>6, <1>7, BadKept
  <2>2. FailsRightly(stack, ast, funcs, ret)
    BY <1>9, <1>11 DEF PInv
  <2>3. Stays(funcs)
    BY <1>11, <2>1, <2>2 DEF FailsRightly
  <2>4. Ruled(bs, n)
    BY <1>6 DEF Bad
  <2>5. PICK d \in 1..(n - 1) : /\ bs[d].type = "FUNCDEF" /\ bs[d].name = name
                                /\ Len(bs[d].params) = argc
    BY <1>6, <2>4 DEF Ruled
  <2>6. /\ d \in 1..Len(ast) /\ ast[d].type = "FUNCDEF" /\ ast[d].name = name
        /\ Len(ast[d].params) = argc
    BY <1>6, <2>5 DEF Kept
  <2>7. Declared(stack, ast, funcs, ret)
    BY DEF PInv
  <2>8. PICK f \in 1..Len(funcs) : funcs[f].def = d
    BY <1>11, <2>6, <2>7 DEF Declared
  <2>9. funcs[f].name = name /\ funcs[f].arity = argc
    BY <1>8, <2>6, <2>8 DEF Defs
  <2>10. Named(name) = f
    BY <1>8, <2>1, <2>3, <2>9, NamedIsDefined
  <2>11. f # 0
    <3>1. f \in 1..Len(funcs)
      OBVIOUS
    <3> QED
      BY <3>1
  <2> QED
    BY <1>11, <2>9, <2>10, <2>11 DEF Callable
<1>12. ub' = {} => (Doomed(stack', ret') => Doomed(stack, ret) \/ Bad(ast'))
  BY <1>1, <1>2, <1>11 DEF Unfailing
<1>13. Doomed(stack', ret') \/ NestedIn(stack, ast) \/ Lawful(ast, ast')
  <2>1. CASE ~Callable(Named(name), argc)
    BY <1>1, <2>1
  <2>2. CASE Callable(Named(name), argc)
    <3>1. Ruled(bs, n)
      BY <1>10, <2>2
    <3> QED
      BY <1>2, <1>3, <1>4, <3>1, LawfulBy
  <2> QED
    BY <2>1, <2>2
<1>14. Sparing(funcs, funcs')
  <2>1. Sparing(funcs, funcs)
    BY <1>7, SparesSame
  <2> QED
    BY <1>9, <2>1
<1>15. ub' = {} => Honest
  BY <1>12, <1>13, <1>14 DEF Honest
<1>16. Len(stack) >= 2 /\ ub \subseteq ub'
  BY <1>9, TopType DEF TypeInv
<1> QED
  BY <1>1, <1>9, <1>15, <1>16, TurnsProgram

(* lilc_eval begins with the block of the top level. *)
LEMMA PEvalStarts ==
  ASSUME TypeInv, TypeInv', DoomInv, VInv, PInv, EvalStarts PROVE PInv'
<1>1. PICK m, s, ns, fs, v : m = mode /\ s = stack /\ ns = ast /\ fs = funcs /\ v = ret
  OBVIOUS
<1>2. PICK t, bs, gs, w : t = stack' /\ bs = ast' /\ gs = funcs' /\ w = ret'
  OBVIOUS
<1>3. status = "running" /\ UNCHANGED <<mode, funcs, ub, status>> /\ Top.pc = "main"
  BY DEF EvalStarts, At, NoCode
<1>4. /\ Turning /\ Unfailing(FALSE)
      /\ Meet(Top.node, NewNode("BLOCK", ScopeOf(Top.node)))
      /\ Top.node \in 0..Len(ast) /\ Len(stack) = 1 /\ Len(stack') = 2
      /\ stack'[2].pc = "block" /\ stack'[2].node = Fresh /\ mode = "eval"
  BY TEvalStarts
<1>5. Turns(s, ns, fs, v, t, bs, gs, w)
  BY <1>1, <1>2, <1>4 DEF Turning
<1>6. /\ ns \in Seq(Node) /\ fs \in Seq(Function) /\ ScopesOK(ns)
      /\ bs \in Seq(Node) /\ Kept(ns, bs) /\ Heads(fs, gs) /\ gs = fs
  BY <1>1, <1>2, <1>3, <1>5 DEF TypeInv, Typed, VInv, Framed, Turns
<1>7. Settled(m, s, ns, fs)
  BY <1>1 DEF PInv
<1>8. Settled(m, t, bs, gs)
  <2>1. Len(ns) = 0
    BY <1>1, <1>3, <1>7 DEF Settled, Top
  <2>2. Len(t) = 2 /\ t[2].pc = "block" /\ t[2].node = 1 /\ m = "eval"
    BY <1>1, <1>2, <1>4, <2>1 DEF Fresh
  <2>3. AtRoot(t[2]) /\ t[Len(t)].pc # "main"
    BY <2>2 DEF AtRoot
  <2>4. TopLevel(m, t, bs)
    <3>1. \A k \in 2..Len(t) : k = 2
      BY <2>2
    <3> QED
      BY <2>2, <2>3, <3>1 DEF TopLevel
  <2>5. Tended(t, gs)
    BY <1>5, <1>7, TendedTurns DEF Settled
  <2>6. Filled(t)
    BY <1>5, <1>7, FilledTurns DEF Settled
  <2>7. Defs(bs, gs)
    BY <1>6, <1>7, DefsTurn DEF Settled
  <2> QED
    BY <2>3, <2>4, <2>5, <2>6, <2>7 DEF Settled
<1>9. Declared(t, bs, gs, w)
  <2>1. Declared(s, ns, fs, v)
    BY <1>1 DEF PInv
  <2> QED
    BY <1>5, <2>1, DeclaredTurns
<1>10. ASSUME ub' = {} PROVE StandsBy(m, t, bs, gs) /\ FailsRightly(t, bs, gs, w)
  <2>1. StandsBy(m, s, ns, fs) /\ FailsRightly(s, ns, fs, v)
    BY <1>1, <1>3, <1>10 DEF PInv
  <2>2. Sparing(fs, gs)
    BY <1>6, SparesSame
  <2>3. Lawful(ns, bs)
    <3>1. Lawful(ast, ast')
      BY <1>4, LawfulBlock
    <3> QED
      BY <1>1, <1>2, <3>1
  <2>4. Doomed(t, w) => Doomed(s, v)
    BY <1>1, <1>2, <1>4 DEF Unfailing
  <2>5. StandsBy(m, t, bs, gs)
    BY <1>5, <1>6, <2>1, <2>2, StandsTurns
  <2>6. FailsRightly(t, bs, gs, w)
    BY <1>5, <1>6, <2>1, <2>3, <2>4, FailsTurns
  <2> QED
    BY <2>5, <2>6
<1>11. EndsRightly'
  BY <1>3 DEF EndsRightly
<1>12. m = mode'
  BY <1>1, <1>3
<1> QED
  BY <1>2, <1>8, <1>9, <1>10, <1>11, <1>12 DEF PInv

-----------------------------------------------------------------------------
(* A definition begins: what becomes of the frames.                        *)

(* b are the frames below it, which hold the failure, if there is one. *)
DefBase(s, v, b) ==
  /\ Rests(s, b) /\ \A k \in 1..Len(b) : k # 1 => b[k] = s[k]
  /\ Doomed(s, v) => \E i \in 1..Len(b) : b[i].pc = "rhs" /\ b[i].vals[1] = NULL

LEMMA BaseFrames ==
  ASSUME NEW s, NEW v, NEW b, DefBase(s, v, b)
  PROVE  /\ Len(b) \in Nat /\ Len(b) >= 1
         /\ \A k \in 1..Len(b) : k \in 1..Len(s) /\ b[k].pc \in Waiting
         /\ \A k \in 1..Len(b) : b[k].pc = "body" <=> s[k].pc = "body"
         /\ \A k \in 1..Len(s) : s[k].pc = "body" => k \in 1..Len(b) /\ b[k] = s[k]
         /\ \A k \in 1..Len(b) : b[k].pc = "rhs" => b[k] = s[k]
<1>1. Rests(s, b)
  BY DEF DefBase
<1>2. Len(s) \in Nat /\ Len(b) \in 1..Len(s)
  BY <1>1 DEF Rests
<1>3. Len(b) \in Nat /\ Len(b) >= 1 /\ \A k \in 1..Len(b) : k \in 1..Len(s)
  BY <1>2
<1>4. \A k \in 1..Len(b) : b[k].pc \in Waiting
  BY <1>1 DEF Rests
<1>5. \A k \in 1..Len(s) : s[k].pc = "body" => k \in 1..Len(b) /\ b[k] = s[k]
  BY <1>1 DEF Rests
<1>6. \A k \in 1..Len(b) : b[k].pc \in {"body", "rhs"} => b[k] = s[k]
  BY <1>1 DEF Rests
<1> QED
  BY <1>3, <1>4, <1>5, <1>6

(* Above them there may be those of the definition. *)
DefFrames(s, v, b, t) ==
  /\ DefBase(s, v, b)
  /\ Len(t) \in Nat /\ Len(b) <= Len(t) /\ \A k \in 1..Len(b) : t[k] = b[k]
  /\ \A k \in (Len(b) + 1)..Len(t) : Full(t[k]) /\ \E j \in 1..k : t[j].pc = "body"

LEMMA FramesOf ==
  ASSUME NEW s, NEW v, NEW b, NEW t, DefFrames(s, v, b, t)
  PROVE  /\ \A k \in 1..Len(t) : k \in 1..Len(b) \/ k \in (Len(b) + 1)..Len(t)
         /\ \A k \in 1..Len(b) : k \in 1..Len(t) /\ t[k] = b[k]
         /\ \A k \in 1..Len(s) : s[k].pc = "body" => k \in 1..Len(t) /\ t[k] = s[k]
<1>1. Len(b) \in Nat
  BY BaseFrames DEF DefFrames
<1>2. \A k \in 1..Len(t) : k \in 1..Len(b) \/ k \in (Len(b) + 1)..Len(t)
  BY <1>1 DEF DefFrames
<1>3. \A k \in 1..Len(b) : k \in 1..Len(t) /\ t[k] = b[k]
  BY <1>1 DEF DefFrames
<1>4. \A k \in 1..Len(s) : s[k].pc = "body" => k \in 1..Len(b) /\ b[k] = s[k]
  BY BaseFrames DEF DefFrames
<1> QED
  BY <1>2, <1>3, <1>4

LEMMA TopLevelDef ==
  ASSUME NEW m, NEW ns \in Seq(Node), NEW bs \in Seq(Node), Kept(ns, bs), RootKept(ns, bs),
         NEW s, NEW v, NEW b, NEW t, DefFrames(s, v, b, t), TopLevel(m, s, ns)
  PROVE  TopLevel(m, t, bs)
<1> SUFFICES ASSUME NEW k \in 2..Len(t), Free(t, k)
             PROVE  m = "eval" /\ (Loose(bs) \/ AtRoot(t[k]))
  BY DEF TopLevel
<1>1. DefBase(s, v, b) /\ Len(t) \in Nat /\ Len(b) \in Nat /\ Len(s) \in Nat
  BY BaseFrames DEF DefFrames, DefBase, Rests
<1>2. k \in 1..Len(t) /\ k # 1
  BY <1>1
<1>3. k \notin (Len(b) + 1)..Len(t)
  BY DEF DefFrames, Free
<1>4. k \in 1..Len(b) /\ t[k] = b[k]
  BY <1>2, <1>3, FramesOf
<1>5. b[k] = s[k]
  BY <1>1, <1>2, <1>4 DEF DefBase
<1>6. k \in 2..Len(s)
  <2>1. k \in 1..Len(s)
    BY <1>1, <1>4, BaseFrames
  <2> QED
    BY <1>1, <1>2, <2>1
<1>7. Free(s, k)
  <2> SUFFICES ASSUME NEW j \in 1..k, s[j].pc = "body" PROVE FALSE
    BY DEF Free
  <2>1. j \in 1..Len(s)
    BY <1>1, <1>6
  <2>2. t[j] = s[j]
    BY <2>1, FramesOf
  <2> QED
    BY <2>2 DEF Free
<1>8. m = "eval" /\ (Loose(ns) \/ AtRoot(s[k]))
  BY <1>6, <1>7 DEF TopLevel
<1>9. Loose(ns) => Loose(bs)
  BY LooseKept
<1> QED
  BY <1>4, <1>5, <1>8, <1>9

LEMMA FilledDef ==
  ASSUME NEW s, NEW v, NEW b, NEW t, DefFrames(s, v, b, t) PROVE Filled(t)
<1>1. \A k \in 1..Len(b) : t[k].pc \in Waiting
  BY BaseFrames DEF DefFrames
<1>2. \A k \in 1..Len(b) : Full(t[k])
  BY <1>1 DEF Full, Waiting
<1>3. \A k \in (Len(b) + 1)..Len(t) : Full(t[k])
  BY DEF DefFrames
<1> QED
  BY <1>2, <1>3, FramesOf DEF Filled

LEMMA NestedDef ==
  ASSUME NEW ns \in Seq(Node), NEW bs \in Seq(Node), Kept(ns, bs),
         NEW s, NEW v, NEW b, NEW t, DefFrames(s, v, b, t), NestedIn(s, ns)
  PROVE  NestedIn(t, bs)
<1>1. PICK i \in 1..Len(s) : s[i].pc = "body" /\ Nests(ns, s[i].node)
  BY DEF NestedIn
<1>2. i \in 1..Len(t) /\ t[i] = s[i]
  BY <1>1, FramesOf
<1>3. Nests(bs, s[i].node)
  BY <1>1, NestsKept
<1> QED
  BY <1>1, <1>2, <1>3 DEF NestedIn

LEMMA DoomedDef ==
  ASSUME NEW s, NEW v, NEW b, NEW t, DefFrames(s, v, b, t), Doomed(s, v), NEW w
  PROVE  Doomed(t, w)
<1>1. PICK i \in 1..Len(b) : b[i].pc = "rhs" /\ b[i].vals[1] = NULL
  BY DEF DefFrames, DefBase
<1>2. i \in 1..Len(t) /\ t[i] = b[i]
  BY FramesOf
<1> QED
  BY <1>1, <1>2 DEF Doomed

-----------------------------------------------------------------------------
(* A definition that is refused.                                           *)

LEMMA TendedDef ==
  ASSUME NEW s, NEW v, NEW b, NEW t, DefFrames(s, v, b, t), NEW fs, Tended(s, fs)
  PROVE  Tended(t, fs)
<1> SUFFICES ASSUME NEW f \in 1..Len(fs), fs[f].state = "open"
             PROVE  \E i \in 1..Len(t) : t[i].pc = "body" /\ t[i].fn = f
  BY DEF Tended
<1>1. PICK i \in 1..Len(s) : s[i].pc = "body" /\ s[i].fn = f
  BY DEF Tended
<1>2. i \in 1..Len(t) /\ t[i] = s[i]
  BY <1>1, FramesOf
<1> QED
  BY <1>1, <1>2

LEMMA RefusedFrames ==
  ASSUME NEW s, NEW v, NEW b, DefBase(s, v, b)
  PROVE  DefFrames(s, v, b, b) /\ Len(b) \in 1..Len(b) /\ b[Len(b)].pc \in Waiting
<1>1. PICK k : k = Len(b) /\ k \in Nat /\ k >= 1
  BY BaseFrames
<1>2. (k + 1)..k = {} /\ k \in 1..k
  BY <1>1
<1>3. b[k].pc \in Waiting
  BY <1>1, <1>2, BaseFrames
<1> QED
  BY <1>1, <1>2, <1>3 DEF DefFrames

LEMMA RefusedSettled ==
  ASSUME NEW m, NEW ns \in Seq(Node), NEW bs \in Seq(Node), Kept(ns, bs), RootKept(ns, bs),
         NEW fs \in Seq(Function), NEW s, NEW v, NEW b, DefBase(s, v, b),
         Settled(m, s, ns, fs)
  PROVE  Settled(m, b, bs, fs)
<1>1. DefFrames(s, v, b, b) /\ b[Len(b)].pc # "main"
  BY RefusedFrames DEF Waiting
<1>2. TopLevel(m, s, ns) /\ Tended(s, fs) /\ Filled(s) /\ Defs(ns, fs)
  BY DEF Settled
<1>3. TopLevel(m, b, bs)
  BY <1>1, <1>2, TopLevelDef
<1>4. Tended(b, fs)
  BY <1>1, <1>2, TendedDef
<1>5. Filled(b)
  BY <1>1, FilledDef
<1>6. Defs(bs, fs)
  <2>1. Heads(fs, fs)
    BY HeadsSame
  <2> QED
    BY <1>2, <2>1, DefsTurn
<1> QED
  BY <1>1, <1>3, <1>4, <1>5, <1>6 DEF Settled

LEMMA RefusedStands ==
  ASSUME NEW m, NEW ns \in Seq(Node), NEW bs \in Seq(Node), Kept(ns, bs), RootKept(ns, bs),
         NEW fs, NEW s, NEW v, NEW b, DefBase(s, v, b), StandsBy(m, s, ns, fs)
  PROVE  StandsBy(m, b, bs, fs)
<1>1. DefFrames(s, v, b, b)
  BY RefusedFrames
<1>2. NestedIn(s, ns) => NestedIn(b, bs)
  BY <1>1, NestedDef
<1>3. Loose(ns) => Loose(bs)
  BY LooseKept
<1> QED
  BY <1>2, <1>3 DEF StandsBy

LEMMA RefusedBad ==
  ASSUME TypeInv, Defs(ast, funcs), NEW name, NEW n, ~Definable(Named(name), n),
         NEW bs, Kept(ast, bs), Fresh \in 1..Len(bs),
         bs[Fresh].type = "FUNCDEF", bs[Fresh].name = name
  PROVE  Bad(bs)
<1>1. PICK g : g = Named(name)
  OBVIOUS
<1>2. g \in 1..Len(funcs) /\ funcs[g].name = name
  BY <1>1, NamedType DEF Definable
<1>3. PICK d : d = funcs[g].def
  OBVIOUS
<1>4. d \in 1..Len(ast) /\ ast[d].type = "FUNCDEF" /\ ast[d].name = name
  BY <1>2, <1>3 DEF Defs
<1>5. bs[d].type = "FUNCDEF" /\ bs[d].name = name
  BY <1>4 DEF Kept
<1>6. d \in 1..(Fresh - 1)
  <2>1. PICK k : k = Len(ast) /\ k \in Nat
    BY DEF TypeInv, Typed
  <2>2. Fresh = k + 1
    BY <2>1 DEF Fresh
  <2> QED
    BY <1>4, <2>1, <2>2
<1>7. ~Ruled(bs, Fresh)
  BY <1>5, <1>6 DEF Ruled
<1> QED
  BY <1>7 DEF Bad

LEMMA RefusedProgram ==
  ASSUME TypeInv, VInv, PInv, NEW base, DefBase(stack, ret, base),
         NEW d, Defining(ast, ast', d), RootKept(ast, ast'),
         NEW name, ast'[Fresh].name = name, NEW n, ~Definable(Named(name), n),
         stack' = base, ret' = NULL, status = "running",
         UNCHANGED <<mode, funcs, ub, status>>
  PROVE  PInv'
<1>1. PICK bs : bs = ast'
  OBVIOUS
<1>2. /\ ast \in Seq(Node) /\ funcs \in Seq(Function) /\ ScopesOK(ast)
      /\ bs \in Seq(Node) /\ Kept(ast, bs) /\ RootKept(ast, bs)
      /\ Fresh \in 1..Len(bs) /\ bs[Fresh].type = "FUNCDEF" /\ bs[Fresh].name = name
  BY <1>1 DEF TypeInv, Typed, VInv, Framed, Defining, Fresh
<1>3. Settled(mode, stack, ast, funcs) /\ Defs(ast, funcs)
  BY DEF PInv, Settled
<1>4. Settled(mode, base, bs, funcs)
  BY <1>2, <1>3, RefusedSettled
<1>5. Doomed(base, NULL)
  BY RefusedFrames DEF Doomed
<1>6. Declared(base, bs, funcs, NULL)
  BY <1>5 DEF Declared
<1>7. Bad(bs)
  BY <1>2, <1>3, RefusedBad
<1>8. FailsRightly(base, bs, funcs, NULL)
  BY <1>5, <1>7 DEF FailsRightly
<1>9. ub = {} => StandsBy(mode, base, bs, funcs)
  <2> SUFFICES ASSUME ub = {} PROVE StandsBy(mode, base, bs, funcs)
    OBVIOUS
  <2>1. StandsBy(mode, stack, ast, funcs)
    BY DEF PInv
  <2> QED
    BY <1>2, <2>1, RefusedStands
<1>10. EndsRightly'
  BY DEF EndsRightly
<1>11. PICK m, fs, t, w : m = mode /\ fs = funcs /\ t = stack' /\ w = ret'
  OBVIOUS
<1>12. m = mode' /\ fs = funcs' /\ t = base /\ w = NULL
  BY <1>11
<1>13. /\ Settled(m, t, bs, fs) /\ Declared(t, bs, fs, w)
       /\ ub' = {} => StandsBy(m, t, bs, fs) /\ FailsRightly(t, bs, fs, w)
  BY <1>4, <1>6, <1>8, <1>9, <1>11, <1>12
<1> QED
  BY <1>1, <1>10, <1>11, <1>12, <1>13 DEF PInv

-----------------------------------------------------------------------------
(* A definition that is taken.                                             *)

(* Its function and its frames are new; b are the frames below it. *)
Accepts(ns, fs, s, v, b, d, bs, gs, t) ==
  /\ DefBase(s, v, b) /\ Defining(ns, bs, d) /\ InDef(b, ns, d) /\ RootKept(ns, bs)
  /\ Opened(fs, gs, Len(ns) + 1) /\ Opening(b, t, Len(ns) + 1, Len(fs) + 1)
  /\ gs[Len(fs) + 1].name = bs[Len(ns) + 1].name
  /\ gs[Len(fs) + 1].arity = Len(bs[Len(ns) + 1].params)

LEMMA OpeningDef ==
  ASSUME NEW s, NEW v, NEW b, DefBase(s, v, b), NEW t, NEW n, NEW f, Opening(b, t, n, f)
  PROVE  DefFrames(s, v, b, t) /\ t[Len(t)].pc = "block"
<1>1. PICK k : k = Len(b) /\ k \in Nat
  BY BaseFrames
<1>2. Len(t) = k + 2 /\ \A j \in 1..k : t[j] = b[j]
  BY <1>1 DEF Opening
<1>3. t[k + 1].pc = "body" /\ t[k + 2].pc = "block" /\ Len(t[k + 2].vals) = 0
  BY <1>1 DEF Opening
<1>4. Full(t[k + 1])
  BY <1>3 DEF Full
<1>5. Full(t[k + 2])
  <2>1. 1..0 = {}
    OBVIOUS
  <2> QED
    BY <1>3, <2>1 DEF Full
<1>6. \A j \in (k + 1)..(k + 2) : j = k + 1 \/ j = k + 2
  BY <1>1
<1>7. \A j \in (k + 1)..(k + 2) : k + 1 \in 1..j
  BY <1>1
<1>8. \A j \in (k + 1)..Len(t) : Full(t[j]) /\ \E i \in 1..j : t[i].pc = "body"
  BY <1>2, <1>3, <1>4, <1>5, <1>6, <1>7
<1>9. Len(t) \in Nat /\ Len(b) <= Len(t)
  BY <1>1, <1>2
<1> QED
  BY <1>1, <1>2, <1>3, <1>8, <1>9 DEF DefFrames

LEMMA OpenedOne ==
  ASSUME NEW fs \in Seq(Function), NEW gs, NEW n, Opened(fs, gs, n)
  PROVE  /\ \A f \in 1..Len(gs) : f \in 1..Len(fs) \/ f = Len(fs) + 1
         /\ \A f \in 1..Len(fs) : f \in 1..Len(gs) /\ gs[f] = fs[f]
         /\ Len(fs) + 1 \in 1..Len(gs) /\ Len(fs) + 1 \notin 1..Len(fs)
         /\ gs[Len(fs) + 1].state = "open" /\ gs[Len(fs) + 1].def = n
<1>1. Len(fs) \in Nat /\ Len(gs) = Len(fs) + 1
  BY DEF Opened
<1>2. \A f \in 1..Len(fs) : gs[f] = fs[f]
  BY DEF Opened
<1>3. gs[Len(fs) + 1].state = "open" /\ gs[Len(fs) + 1].def = n
  BY DEF Opened
<1>4. /\ \A f \in 1..Len(gs) : f \in 1..Len(fs) \/ f = Len(fs) + 1
      /\ \A f \in 1..Len(fs) : f \in 1..Len(gs)
      /\ Len(fs) + 1 \in 1..Len(gs) /\ Len(fs) + 1 \notin 1..Len(fs)
  BY ONLY <1>1
<1> QED
  BY <1>2, <1>3, <1>4

LEMMA AcceptedFrames ==
  ASSUME NEW ns, NEW fs, NEW s, NEW v, NEW b, NEW d, NEW bs, NEW gs, NEW t,
         Accepts(ns, fs, s, v, b, d, bs, gs, t)
  PROVE  DefFrames(s, v, b, t) /\ t[Len(t)].pc = "block"
<1>1. PICK n, f : Opening(b, t, n, f)
  BY DEF Accepts
<1> QED
  BY <1>1, OpeningDef DEF Accepts

LEMMA AcceptedTended ==
  ASSUME NEW ns, NEW fs \in Seq(Function), NEW s, NEW v, NEW b, NEW d, NEW bs, NEW gs,
         NEW t, Accepts(ns, fs, s, v, b, d, bs, gs, t), Tended(s, fs)
  PROVE  Tended(t, gs)
<1>1. Tended(t, fs)
  BY AcceptedFrames, TendedDef
<1>2. PICK n : n = Len(ns) + 1 /\ Opened(fs, gs, n) /\ Opening(b, t, n, Len(fs) + 1)
  BY DEF Accepts
<1>3. Len(b) \in Nat
  BY BaseFrames DEF Accepts
<1>4. Len(b) + 1 \in 1..Len(t)
  BY <1>2, <1>3, OpeningFrames
<1>5. t[Len(b) + 1].pc = "body" /\ t[Len(b) + 1].fn = Len(fs) + 1
  BY <1>2 DEF Opening
<1>6. \A f \in 1..Len(gs) : f \in 1..Len(fs) \/ f = Len(fs) + 1
  BY <1>2, OpenedOne
<1>7. \A f \in 1..Len(fs) : gs[f] = fs[f]
  BY <1>2, OpenedOne
<1> QED
  BY <1>1, <1>4, <1>5, <1>6, <1>7 DEF Tended

LEMMA AcceptedDefs ==
  ASSUME NEW ns \in Seq(Node), NEW fs \in Seq(Function), NEW s, NEW v, NEW b, NEW d,
         NEW bs, NEW gs, NEW t, Accepts(ns, fs, s, v, b, d, bs, gs, t), Defs(ns, fs)
  PROVE  Defs(bs, gs)
<1>1. PICK n, m : n = Len(ns) + 1 /\ m = Len(fs) + 1
  OBVIOUS
<1>2. Opened(fs, gs, n)
  BY <1>1 DEF Accepts
<1>3. /\ \A f \in 1..Len(gs) : f \in 1..Len(fs) \/ f = m
      /\ \A f \in 1..Len(fs) : gs[f] = fs[f]
      /\ gs[m].def = n
  BY <1>1, <1>2, OpenedOne
<1>4. bs \in Seq(Node) /\ Kept(ns, bs) /\ n \in 1..Len(bs) /\ bs[n].type = "FUNCDEF"
  BY <1>1 DEF Accepts, Defining
<1>5. gs[m].name = bs[n].name /\ gs[m].arity = Len(bs[n].params)
  BY <1>1 DEF Accepts
<1>6. Defs(bs, fs)
  <2>1. Heads(fs, fs)
    BY HeadsSame
  <2> QED
    BY <1>4, <2>1, DefsTurn
<1> QED
  BY <1>3, <1>4, <1>5, <1>6 DEF Defs

LEMMA AcceptedDeclared ==
  ASSUME NEW ns \in Seq(Node), NEW fs \in Seq(Function), NEW s, NEW v, NEW b, NEW d,
         NEW bs, NEW gs, NEW t, Accepts(ns, fs, s, v, b, d, bs, gs, t),
         Declared(s, ns, fs, v), NEW w
  PROVE  Declared(t, bs, gs, w)
<1>1. CASE Doomed(s, v)
  BY <1>1, AcceptedFrames, DoomedDef DEF Declared
<1>2. CASE ~Doomed(s, v)
  <2>1. PICK n, m : n = Len(ns) + 1 /\ m = Len(fs) + 1
    OBVIOUS
  <2>2. Opened(fs, gs, n)
    BY <2>1 DEF Accepts
  <2>3. /\ \A f \in 1..Len(fs) : f \in 1..Len(gs) /\ gs[f] = fs[f]
        /\ m \in 1..Len(gs) /\ gs[m].def = n
    BY <2>1, <2>2, OpenedOne
  <2>4. Defining(ns, bs, d)
    BY DEF Accepts
  <2> SUFFICES ASSUME NEW e \in 1..Len(bs), bs[e].type = "FUNCDEF"
               PROVE  \E f \in 1..Len(gs) : gs[f].def = e
    BY DEF Declared
  <2>5. ~(e > n)
    BY <2>1, <2>4 DEF Defining
  <2>6. e \in 1..Len(ns) \/ e = n
    <3>1. PICK k, l : k = Len(ns) /\ l = Len(bs) /\ e \in 1..l
      OBVIOUS
    <3>2. k \in Nat /\ l \in Nat
      <4>1. bs \in Seq(Node)
        BY <2>4 DEF Defining
      <4> QED
        BY <3>1, <4>1
    <3>3. n = k + 1
      BY <2>1, <3>1
    <3>4. e \in 1..k \/ e = n
      BY ONLY <3>1, <3>2, <3>3, <2>5
    <3> QED
      BY <3>1, <3>4
  <2>7. CASE e = n
    BY <2>3, <2>7
  <2>8. CASE e \in 1..Len(ns)
    <3>1. ns[e].type = "FUNCDEF"
      BY <2>4, <2>8 DEF Defining, Kept
    <3>2. PICK f \in 1..Len(fs) : fs[f].def = e
      BY <1>2, <2>8, <3>1 DEF Declared
    <3> QED
      BY <2>3, <3>2
  <2> QED
    BY <2>6, <2>7, <2>8
<1> QED
  BY <1>1, <1>2

LEMMA OpenedStays ==
  ASSUME NEW fs \in Seq(Function), NEW gs, NEW n, Opened(fs, gs, n)
  PROVE  (Stays(gs) <=> Stays(fs)) /\ (Standing(fs) => Standing(gs))
<1>1. PICK m : m = Len(fs) + 1
  OBVIOUS
<1>2. /\ \A f \in 1..Len(gs) : f \in 1..Len(fs) \/ f = m
      /\ \A f \in 1..Len(fs) : f \in 1..Len(gs) /\ gs[f] = fs[f]
      /\ gs[m].state = "open"
  BY <1>1, OpenedOne
<1>3. gs \in Seq(Function) /\ Len(fs) <= Len(gs)
  BY DEF Opened
<1>4. Stays(gs) <=> Stays(fs)
  BY <1>2 DEF Stays
<1>5. ASSUME Standing(fs) PROVE Standing(gs)
  <2> SUFFICES ASSUME NEW f \in 1..Len(gs), gs[f].state = "verified" PROVE Lasting(gs, f)
    BY DEF Standing
  <2>1. f \in 1..Len(fs) /\ fs[f].state = "verified" /\ gs[f] = fs[f]
    BY <1>2
  <2>2. Lasting(fs, f)
    BY <1>5, <2>1 DEF Standing
  <2>3. Alike(fs, gs, f)
    BY <1>2, <1>3, <2>1 DEF Alike
  <2> QED
    BY <1>3, <2>2, <2>3, LastingKept
<1> QED
  BY <1>4, <1>5

LEMMA AcceptedStands ==
  ASSUME NEW ns \in Seq(Node), NEW fs \in Seq(Function), NEW s, NEW v, NEW b, NEW d,
         NEW bs, NEW gs, NEW t, Accepts(ns, fs, s, v, b, d, bs, gs, t),
         NEW m, StandsBy(m, s, ns, fs)
  PROVE  StandsBy(m, t, bs, gs)
<1>1. PICK n : Opened(fs, gs, n)
  BY DEF Accepts
<1>2. bs \in Seq(Node) /\ Kept(ns, bs) /\ RootKept(ns, bs)
  BY DEF Accepts, Defining
<1>3. DefFrames(s, v, b, t)
  BY AcceptedFrames
<1>4. NestedIn(s, ns) => NestedIn(t, bs)
  BY <1>2, <1>3, NestedDef
<1>5. Loose(ns) => Loose(bs)
  BY <1>2, LooseKept
<1>6. (Stays(gs) <=> Stays(fs)) /\ (Standing(fs) => Standing(gs))
  BY <1>1, OpenedStays
<1> QED
  BY <1>4, <1>5, <1>6 DEF StandsBy

LEMMA AcceptedSettled ==
  ASSUME NEW m, NEW ns \in Seq(Node), NEW fs \in Seq(Function), NEW s, NEW v, NEW b,
         NEW d, NEW bs, NEW gs, NEW t, Accepts(ns, fs, s, v, b, d, bs, gs, t),
         Settled(m, s, ns, fs)
  PROVE  Settled(m, t, bs, gs)
<1>1. DefFrames(s, v, b, t) /\ t[Len(t)].pc # "main"
  BY AcceptedFrames
<1>2. bs \in Seq(Node) /\ Kept(ns, bs) /\ RootKept(ns, bs)
  BY DEF Accepts, Defining
<1>3. TopLevel(m, s, ns) /\ Tended(s, fs) /\ Defs(ns, fs)
  BY DEF Settled
<1>4. TopLevel(m, t, bs)
  BY <1>1, <1>2, <1>3, TopLevelDef
<1>5. Tended(t, gs)
  BY <1>3, AcceptedTended
<1>6. Filled(t)
  BY <1>1, FilledDef
<1>7. Defs(bs, gs)
  BY <1>3, AcceptedDefs
<1> QED
  BY <1>1, <1>4, <1>5, <1>6, <1>7 DEF Settled

(* Its name is new, and it has nothing but its body yet. *)
Unnamed(ns, fs, bs) ==
  /\ \A f \in 1..Len(fs) :
       fs[f].state \in {"open", "verified"} => fs[f].name # bs[Len(ns) + 1].name
  /\ \A n \in 1..Len(bs) : n > Len(ns) + 1 => bs[n].type = "BLOCK"

LEMMA AcceptedRuled ==
  ASSUME NEW ns \in Seq(Node), NEW fs, NEW s, NEW v, NEW bs, Defining(ns, bs, 0),
         Unnamed(ns, fs, bs), Stays(fs), ~Doomed(s, v), Declared(s, ns, fs, v),
         Defs(ns, fs)
  PROVE  Ruled(bs, Len(ns) + 1)
<1>1. PICK n : n = Len(ns) + 1 /\ 1..(n - 1) = 1..Len(ns)
  <2>1. Len(ns) \in Nat
    OBVIOUS
  <2>2. (Len(ns) + 1) - 1 = Len(ns)
    BY <2>1
  <2> QED
    BY <2>2
<1>2. bs[n].type = "FUNCDEF" /\ bs[n].scope = 0 /\ Kept(ns, bs)
  BY <1>1 DEF Defining
<1>3. ASSUME NEW e \in 1..(n - 1), bs[e].type = "FUNCDEF"
      PROVE  bs[e].name # bs[n].name
  <2>1. e \in 1..Len(ns)
    BY <1>1
  <2>2. ns[e].type = "FUNCDEF" /\ ns[e].name = bs[e].name
    BY <1>2, <1>3, <2>1 DEF Kept
  <2>3. PICK f \in 1..Len(fs) : fs[f].def = e
    BY <2>1, <2>2 DEF Declared
  <2>4. ns[e].name = fs[f].name
    BY <2>3 DEF Defs
  <2>5. fs[f].name # bs[n].name
    BY <1>1 DEF Stays, Unnamed
  <2> QED
    BY <2>2, <2>4, <2>5
<1>4. Ruled(bs, n)
  BY <1>2, <1>3 DEF Ruled
<1> QED
  BY <1>1, <1>4

LEMMA AcceptedLawful ==
  ASSUME NEW ns \in Seq(Node), NEW fs, NEW bs, NEW d, Defining(ns, bs, d),
         Unnamed(ns, fs, bs), Ruled(bs, Len(ns) + 1)
  PROVE  Lawful(ns, bs)
<1> SUFFICES ASSUME NEW n \in 1..Len(bs), n \notin 1..Len(ns) PROVE Ruled(bs, n)
  BY DEF Lawful
<1>1. bs \in Seq(Node)
  BY DEF Defining
<1>2. PICK k, l : k = Len(ns) /\ l = Len(bs)
  OBVIOUS
<1>3. k \in Nat /\ l \in Nat /\ n \in 1..l /\ n \notin 1..k
  BY <1>1, <1>2
<1>4. n = k + 1 \/ n > k + 1
  BY ONLY <1>3
<1>5. CASE n = Len(ns) + 1
  BY <1>5
<1>6. CASE n > Len(ns) + 1
  <2>1. bs[n].type = "BLOCK"
    BY <1>6 DEF Unnamed
  <2> QED
    BY <2>1 DEF Ruled
<1> QED
  BY <1>2, <1>4, <1>5, <1>6

LEMMA AcceptedDoom ==
  ASSUME NEW ns, NEW fs, NEW s, NEW v, NEW b, NEW d, NEW bs, NEW gs, NEW t,
         Accepts(ns, fs, s, v, b, d, bs, gs, t), NEW w, Doomed(t, w)
  PROVE  Doomed(s, v)
<1>1. t[Len(t)].pc = "block"
  BY AcceptedFrames
<1>2. PICK i \in 1..Len(t) : t[i].pc = "rhs" /\ t[i].vals[1] = NULL
  BY <1>1 DEF Doomed, Waiting
<1>3. PICK n, f : Opening(b, t, n, f)
  BY DEF Accepts
<1>4. Len(b) \in Nat
  BY BaseFrames DEF Accepts
<1>5. i \in 1..Len(b) \/ i = Len(b) + 1 \/ i = Len(b) + 2
  BY <1>3, <1>4, OpeningFrames
<1>6. i \in 1..Len(b) /\ t[i] = b[i]
  BY <1>2, <1>3, <1>5 DEF Opening
<1>7. i \in 1..Len(s) /\ b[i] = s[i]
  BY <1>2, <1>6, BaseFrames DEF Accepts
<1> QED
  BY <1>2, <1>6, <1>7 DEF Doomed

LEMMA AcceptedFails ==
  ASSUME NEW ns \in Seq(Node), NEW fs \in Seq(Function), NEW s, NEW v, NEW b, NEW d,
         NEW bs, NEW gs, NEW t, Accepts(ns, fs, s, v, b, d, bs, gs, t),
         ScopesOK(ns), Making(s, ns, fs), Declared(s, ns, fs, v), Defs(ns, fs),
         Unnamed(ns, fs, bs), FailsRightly(s, ns, fs, v)
  PROVE  FailsRightly(t, bs, gs, v)
<1>1. /\ Rests(s, b) /\ Defining(ns, bs, d) /\ InDef(b, ns, d)
      /\ bs \in Seq(Node) /\ Kept(ns, bs)
  BY DEF Accepts, DefBase, Defining
<1>2. DefFrames(s, v, b, t)
  BY AcceptedFrames
<1>3. Stays(gs) <=> Stays(fs)
  <2>1. PICK n : Opened(fs, gs, n)
    BY DEF Accepts
  <2> QED
    BY <2>1, OpenedStays
<1>4. Doomed(s, v) => Doomed(t, v)
  BY <1>2, DoomedDef
<1>5. NestedIn(s, ns) => NestedIn(t, bs)
  BY <1>1, <1>2, NestedDef
<1>6. ASSUME OnlyTop(ns), Stays(fs), ~Doomed(s, v)
      PROVE  NestedIn(t, bs) \/ OnlyTop(bs)
  <2>1. CASE \E i \in 1..Len(b) : b[i].pc = "body"
    <3>1. PICK i \in 1..Len(b) : b[i].pc = "body"
      BY <2>1
    <3>2. Nests(bs, b[i].node)
      BY <1>1, <3>1, AllNest
    <3>3. i \in 1..Len(t) /\ t[i] = b[i]
      BY <1>2, FramesOf
    <3> QED
      BY <3>1, <3>2, <3>3 DEF NestedIn
  <2>2. CASE \A i \in 1..Len(b) : b[i].pc # "body"
    <3>1. d = 0
      BY <1>1, <2>2 DEF InDef
    <3>2. Defining(ns, bs, 0)
      BY <1>1, <3>1
    <3>3. Ruled(bs, Len(ns) + 1)
      BY <1>6, <3>2, AcceptedRuled
    <3>4. Lawful(ns, bs)
      BY <3>2, <3>3, AcceptedLawful
    <3>5. OnlyTop(bs)
      BY <1>1, <1>6, <3>4, OnlyTopKept
    <3> QED
      BY <3>5
  <2> QED
    BY <2>1, <2>2
<1>7. Doomed(t, v) \/ ~Stays(gs) \/ NestedIn(t, bs) \/ OnlyTop(bs)
  <2>1. Doomed(s, v) \/ ~Stays(fs) \/ NestedIn(s, ns) \/ OnlyTop(ns)
    BY DEF FailsRightly
  <2> QED
    BY <1>3, <1>4, <1>5, <1>6, <2>1
<1>8. Doomed(t, v) => Doomed(s, v)
  BY AcceptedDoom
<1>9. Bad(ns) => Bad(bs)
  BY <1>1, BadKept
<1>10. Doomed(s, v) \/ ~Stays(fs) => Bad(ns)
  BY DEF FailsRightly
<1> QED
  BY <1>3, <1>7, <1>8, <1>9, <1>10 DEF FailsRightly

LEMMA AcceptedProgram ==
  ASSUME TypeInv, VInv, PInv, NEW base, NEW d,
         Accepts(ast, funcs, stack, ret, base, d, ast', funcs', stack'),
         Unnamed(ast, funcs, ast'), status = "running",
         UNCHANGED <<mode, ret, ub, status>>
  PROVE  PInv'
<1>1. PICK m, bs, gs, t, w : m = mode /\ bs = ast' /\ gs = funcs' /\ t = stack' /\ w = ret
  OBVIOUS
<1>2. Accepts(ast, funcs, stack, ret, base, d, bs, gs, t) /\ Unnamed(ast, funcs, bs)
  BY <1>1
<1>3. /\ ast \in Seq(Node) /\ funcs \in Seq(Function) /\ ScopesOK(ast)
      /\ Making(stack, ast, funcs)
  BY DEF TypeInv, Typed, VInv, Framed
<1>4. /\ Settled(mode, stack, ast, funcs) /\ Defs(ast, funcs)
      /\ Declared(stack, ast, funcs, ret)
  BY DEF PInv, Settled
<1>5. Settled(mode, t, bs, gs)
  BY <1>2, <1>3, <1>4, AcceptedSettled
<1>6. Declared(t, bs, gs, ret)
  BY <1>2, <1>3, <1>4, AcceptedDeclared
<1>7. ub = {} => StandsBy(mode, t, bs, gs) /\ FailsRightly(t, bs, gs, ret)
  <2> SUFFICES ASSUME ub = {}
               PROVE  StandsBy(mode, t, bs, gs) /\ FailsRightly(t, bs, gs, ret)
    OBVIOUS
  <2>1. StandsBy(mode, stack, ast, funcs) /\ FailsRightly(stack, ast, funcs, ret)
    BY DEF PInv
  <2>2. StandsBy(mode, t, bs, gs)
    BY <1>2, <1>3, <2>1, AcceptedStands
  <2>3. FailsRightly(t, bs, gs, ret)
    BY <1>2, <1>3, <1>4, <2>1, AcceptedFails
  <2> QED
    BY <2>2, <2>3
<1>8. EndsRightly'
  BY DEF EndsRightly
<1>9. m = mode' /\ w = ret'
  BY <1>1
<1>10. /\ Settled(m, t, bs, gs) /\ Declared(t, bs, gs, w)
       /\ ub' = {} => StandsBy(m, t, bs, gs) /\ FailsRightly(t, bs, gs, w)
  BY <1>1, <1>5, <1>6, <1>7
<1> QED
  BY <1>1, <1>8, <1>9, <1>10 DEF PInv

-----------------------------------------------------------------------------
(* The steps that begin a definition.                                      *)

LEMMA DefRoot ==
  ASSUME TypeInv, NEW p \in 0..Len(ast), NEW name \in FuncNames,
         NEW params \in Seq(ParamNames)
  PROVE  /\ RootKept(ast, DefAst(p, name, params))
         /\ RootKept(ast, Append(Adopted(p), DefNode(p, name, params)))
<1>1. ast \in Seq(Node) /\ Len(ast) \in Nat
  BY DEF TypeInv, Typed
<1>2. PICK x, y, z, ns : /\ x = DefNode(p, name, params) /\ y = Bodied(x)
                         /\ z = NewNode("BLOCK", Fresh) /\ ns = Adopted(p)
  OBVIOUS
<1>3. x \in Node /\ y \in Node /\ Fresh \in Nat
  BY <1>2, DefNodeType
<1>4. z \in Node
  <2>1. "BLOCK" \in NodeType
    BY DEF NodeType
  <2> QED
    BY <1>2, <1>3, <2>1, NewNodeType
<1>5. ns = IF p = 0 THEN ast ELSE [ast EXCEPT ![p].kids = Append(@, Len(ast) + 1)]
  BY <1>2 DEF Adopted, Fresh
<1>6. ns \in Seq(Node) /\ Len(ns) = Len(ast)
  BY <1>1, <1>5, AdoptType
<1>7. RootKept(ast, ns)
  BY <1>1, <1>5, AdoptRoot
<1>8. ASSUME NEW u \in Node
      PROVE  /\ RootKept(ast, Append(ns, u)) /\ Append(ns, u) \in Seq(Node)
             /\ Len(Append(ns, u)) = Len(ns) + 1
  <2>1. PICK bs : bs = Append(ns, u)
    OBVIOUS
  <2>2. bs \in Seq(Node) /\ Len(bs) = Len(ns) + 1
    BY <1>6, <2>1, AppendType
  <2>3. RootKept(ns, bs)
    BY <1>6, <2>1, AppendRoot
  <2>4. Len(ast) <= Len(ns) /\ Len(ns) \in Nat /\ Len(bs) \in Nat
    BY <1>1, <1>6, <2>2
  <2>5. RootKept(ast, bs)
    BY <1>1, <1>7, <2>3, <2>4, RootTwice
  <2> QED
    BY <2>1, <2>2, <2>5
<1>9. RootKept(ast, Append(ns, x))
  BY <1>3, <1>8
<1>10. PICK one : one = Append(ns, y)
  OBVIOUS
<1>11. RootKept(ast, one) /\ one \in Seq(Node) /\ Len(one) = Len(ast) + 1
  BY <1>3, <1>6, <1>8, <1>10
<1>12. PICK new : new = Append(one, z)
  OBVIOUS
<1>13. new \in Seq(Node) /\ Len(new) = Len(one) + 1 /\ RootKept(one, new)
  BY <1>4, <1>11, <1>12, AppendType, AppendRoot
<1>14. Len(ast) <= Len(one) /\ Len(one) \in Nat /\ Len(new) \in Nat
  BY <1>1, <1>11, <1>13
<1>15. RootKept(ast, new)
  BY <1>1, <1>11, <1>13, <1>14, RootTwice
<1>16. new = DefAst(p, name, params)
  BY <1>2, <1>10, <1>12 DEF DefAst
<1> QED
  BY <1>2, <1>9, <1>15, <1>16

LEMMA NoneNamed ==
  ASSUME NEW name, Named(name) = 0
  PROVE  \A f \in 1..Len(funcs) :
           funcs[f].state \in {"open", "verified"} => funcs[f].name # name
<1> SUFFICES ASSUME NEW f \in 1..Len(funcs), funcs[f].state \in {"open", "verified"},
                    funcs[f].name = name
             PROVE  FALSE
  OBVIOUS
<1>1. PICK fs : fs = {g \in 1..Len(funcs) : Live(g) /\ funcs[g].name = name}
  OBVIOUS
<1>2. f \in fs
  BY <1>1 DEF Live
<1>3. Named(name) = CHOOSE g \in fs : TRUE
  BY <1>1, <1>2 DEF Named
<1>4. 0 \in fs
  BY <1>2, <1>3
<1>5. 0 \notin 1..Len(funcs)
  OBVIOUS
<1> QED
  BY <1>1, <1>4, <1>5

(* The function that is added is named and has the arity of its definition. *)
LEMMA NewFunction ==
  ASSUME TypeInv, NEW name \in FuncNames, NEW params \in Seq(ParamNames),
         Named(name) = 0, NEW f, f = Len(funcs) + 1,
         NEW gs, gs = Redefined(f, WithBody(Unbodied(name, params)))
  PROVE  gs[f].name = name /\ gs[f].arity = Len(params)
<1>1. PICK x, y : x = Unbodied(name, params) /\ y = WithBody(x)
  OBVIOUS
<1>2. gs[f] = y
  BY <1>1 DEF Redefined
<1>3. /\ x.name = name /\ x.arity = Len(params)
  BY <1>1 DEF Unbodied
<1>4. y.name = x.name /\ y.arity = x.arity
  BY <1>1 DEF WithBody, Unbodied
<1> QED
  BY <1>2, <1>3, <1>4

LEMMA DefProgram ==
  ASSUME TypeInv, VInv, PInv, NEW base, IsStack(base, ast, funcs),
         DefBase(stack, ret, base), NEW p \in 0..Len(ast),
         InDef(base, ast, ScopeOf(p)), NEW name \in FuncNames,
         NEW params \in Seq(ParamNames), DefineFunction(base, p, name, params),
         status = "running", UNCHANGED <<mode, ub, status>>
  PROVE  PInv'
<1>1. /\ ast \in Seq(Node) /\ funcs \in Seq(Function) /\ Fresh = Len(ast) + 1
      /\ Len(ast) \in Nat
  BY DEF TypeInv, Typed, Fresh
<1>2. PICK t, bs, gs, d : t = stack' /\ bs = ast' /\ gs = funcs' /\ d = ScopeOf(p)
  OBVIOUS
<1>3. CASE ~Definable(Named(name), Len(params))
  <2>1. /\ bs = Append(Adopted(p), DefNode(p, name, params))
        /\ t = base /\ ret' = NULL /\ gs = funcs
    BY <1>2, <1>3, DefineCases
  <2>2. Defining(ast, bs, d)
    BY <1>2, <2>1, DefinesNode
  <2>3. RootKept(ast, bs)
    BY <2>1, DefRoot
  <2>4. bs[Fresh].name = name
    <3>1. PICK x : x = DefNode(p, name, params)
      OBVIOUS
    <3>2. x.name = name
      BY <3>1, DefNodeType
    <3>3. bs[Fresh] = x
      BY <2>1, <3>1, DefAstType
    <3> QED
      BY <3>2, <3>3
  <2>5. /\ Defining(ast, ast', d) /\ RootKept(ast, ast') /\ ast'[Fresh].name = name
        /\ stack' = base /\ ret' = NULL /\ UNCHANGED <<mode, funcs, ub, status>>
    BY <1>2, <2>1, <2>2, <2>3, <2>4
  <2>6. PICK n : n = Len(params)
    OBVIOUS
  <2> QED
    BY <1>3, <2>5, <2>6, RefusedProgram
<1>4. CASE Definable(Named(name), Len(params))
  <2>1. Named(name) = 0 /\ Defined(name) = Len(funcs) + 1
    BY <1>4, DefinesNew
  <2>2. PICK f : f = Defined(name)
    OBVIOUS
  <2>3. /\ bs = DefAst(p, name, params)
        /\ gs = Redefined(f, WithBody(Unbodied(name, params)))
        /\ t = Append(Append(base, BodyFrame(f)), NewFrame("block", Fresh + 1))
        /\ ret' = ret
    BY <1>2, <1>4, <2>2, DefineCases
  <2>4. Defining(ast, bs, d) /\ InDef(base, ast, d)
    BY <1>2, <2>3, DefinesNode
  <2>5. Opened(funcs, gs, Len(ast) + 1)
    BY <1>1, <2>1, <2>2, <2>3, DefinesOpened
  <2>6. Opening(base, t, Len(ast) + 1, Len(funcs) + 1)
    <3>1. base \in Seq(FrameOf(ast, funcs))
      BY DEF IsStack
    <3>2. PICK T : T = FrameOf(ast, funcs) \cup {BodyFrame(f), NewFrame("block", Fresh + 1)}
      OBVIOUS
    <3>3. FrameOf(ast, funcs) \subseteq T /\ BodyFrame(f) \in T
          /\ NewFrame("block", Fresh + 1) \in T
      BY <3>2
    <3>4. Opening(base, t, Fresh, f)
      BY <2>3, <3>1, <3>3, DefinesOpening
    <3> QED
      BY <1>1, <2>1, <2>2, <3>4
  <2>7. RootKept(ast, bs)
    BY <2>3, DefRoot
  <2>8. /\ bs[Fresh].params = params /\ bs[Fresh].name = name
        /\ bs[Fresh + 1].type = "BLOCK" /\ Len(bs) = Fresh + 1
    BY <2>3, DefAstType
  <2>9. gs[Len(funcs) + 1].name = name /\ gs[Len(funcs) + 1].arity = Len(params)
    BY <2>1, <2>2, <2>3, NewFunction
  <2>10. Accepts(ast, funcs, stack, ret, base, d, bs, gs, t)
    BY <1>1, <2>4, <2>5, <2>6, <2>7, <2>8, <2>9 DEF Accepts
  <2>11. Unnamed(ast, funcs, bs)
    <3>1. \A g \in 1..Len(funcs) :
            funcs[g].state \in {"open", "verified"} => funcs[g].name # bs[Len(ast) + 1].name
      BY <1>1, <2>1, <2>8, NoneNamed
    <3>2. \A n \in 1..Len(bs) : n > Len(ast) + 1 => n = Fresh + 1
      BY <1>1, <2>8
    <3> QED
      BY <2>8, <3>1, <3>2 DEF Unnamed
  <2>12. /\ Accepts(ast, funcs, stack, ret, base, d, ast', funcs', stack')
         /\ Unnamed(ast, funcs, ast') /\ UNCHANGED <<mode, ret, ub, status>>
    BY <1>2, <2>3, <2>10, <2>11
  <2> QED
    BY <2>12, AcceptedProgram
<1> QED
  BY <1>3, <1>4

LEMMA PDef ==
  ASSUME TypeInv, DoomInv, ScopeInv, VInv, PInv, EnterDef PROVE PInv'
<1> DEFINE base == SubSeq(stack, 1, Len(stack) - 1)
<1>1. PICK name \in FuncNames, params \in ParamLists :
        DefineFunction(base, Top.node, name, params)
  BY DEF EnterDef
<1>2. params \in Seq(ParamNames) /\ Top.node \in 0..Len(ast)
  <2>1. "FUNCDEF" \in NodeType
    BY DEF NodeType
  <2> QED
    BY <2>1, BelowType, CodegenAssumption
<1>3. /\ Top.pc = "expr" /\ Top.pc \notin Base
      /\ status = "running" /\ UNCHANGED <<mode, ub, status>>
  BY DEF EnterDef, Enter, At, Base
<1>4. /\ IsStack(base, ast, funcs) /\ Len(base) = Len(stack) - 1
      /\ \A i \in 1..(Len(stack) - 1) : base[i] = stack[i]
  BY <1>3, PopStack
<1> HIDE DEF base
<1>5. PICK n : n = Len(stack) /\ n \in Nat /\ n >= 2
  BY <1>3, TopType DEF TypeInv
<1>6. Len(base) \in Nat /\ Len(base) \in 1..n /\ \A k \in 1..Len(base) : k \in 1..(n - 1)
  BY <1>4, <1>5
<1>7. \A k \in 1..Len(base) : base[k].pc \in Waiting /\ base[k] = stack[k]
  BY <1>4, <1>5, <1>6 DEF DoomInv, Suspended
<1>8. \A k \in 1..n : stack[k].pc # "expr" => k \in 1..Len(base) /\ base[k] = stack[k]
  <2> SUFFICES ASSUME NEW k \in 1..n, stack[k].pc # "expr"
               PROVE  k \in 1..Len(base) /\ base[k] = stack[k]
    OBVIOUS
  <2>1. k # n
    BY <1>3, <1>5 DEF Top
  <2>2. k \in 1..Len(base)
    BY <1>4, <1>5, <2>1
  <2> QED
    BY <1>7, <2>2
<1>9. Rests(stack, base)
  BY <1>3, <1>5, <1>6, <1>7, <1>8 DEF Rests, Top
<1>10. DefBase(stack, ret, base)
  <2> SUFFICES ASSUME Doomed(stack, ret)
               PROVE  \E i \in 1..Len(base) : base[i].pc = "rhs" /\ base[i].vals[1] = NULL
    BY <1>7, <1>9 DEF DefBase
  <2>1. PICK i \in 1..Len(stack) : stack[i].pc = "rhs" /\ stack[i].vals[1] = NULL
    BY <1>3 DEF Doomed, Top, Waiting
  <2> QED
    BY <1>5, <1>8, <2>1
<1>11. ASSUME NEW i \in 1..Len(base), Inner(base, i, Len(base))
       PROVE  ScopeOf(Top.node) = base[i].node
  <2>1. i \in 1..n /\ base[i] = stack[i]
    BY <1>5, <1>6, <1>7
  <2>2. Inner(stack, i, n)
    <3>1. ASSUME NEW j \in (i + 1)..n PROVE stack[j].pc # "body"
      <4>1. j \in 1..n
        BY <1>5, <2>1
      <4>2. CASE stack[j].pc = "expr"
        BY <4>2
      <4>3. CASE stack[j].pc # "expr"
        <5>1. j \in 1..Len(base) /\ base[j] = stack[j]
          BY <1>8, <4>1, <4>3
        <5>2. j \in (i + 1)..Len(base)
          BY <1>6, <5>1
        <5> QED
          BY <1>11, <5>1, <5>2 DEF Inner
      <4> QED
        BY <4>2, <4>3
    <3>2. stack[i].pc = "body"
      BY <1>11, <2>1 DEF Inner
    <3> QED
      BY <2>1, <3>1, <3>2 DEF Inner
  <2>3. Around(ast, stack[n].node) = stack[i].node
    BY <1>5, <2>1, <2>2 DEF ScopeInv, Scoped
  <2> QED
    BY <1>5, <2>1, <2>3 DEF Top, Around, ScopeOf
<1>12. ASSUME \A i \in 1..Len(base) : base[i].pc # "body"
       PROVE  ScopeOf(Top.node) = 0
  <2>1. \A j \in 1..n : stack[j].pc # "body"
    <3> SUFFICES ASSUME NEW j \in 1..n, stack[j].pc = "body"
                 PROVE  FALSE
      OBVIOUS
    <3>1. j \in 1..Len(base) /\ base[j] = stack[j]
      BY <1>8
    <3> QED
      BY <1>12, <3>1
  <2>2. Around(ast, stack[n].node) = 0
    <3>1. n \in 1..n /\ \A j \in 1..Len(stack) : stack[j].pc # "body"
      BY <1>5, <2>1
    <3> QED
      BY <1>5, <2>1, <3>1 DEF VInv, Framed, Outside
  <2> QED
    BY <1>5, <2>2 DEF Top, Around, ScopeOf
<1>13. ScopeOf(Top.node) \in 0..Len(ast)
  BY <1>2, ScopeInAst DEF VInv, Framed
<1>14. InDef(base, ast, ScopeOf(Top.node))
  BY <1>11, <1>12, <1>13 DEF InDef
<1> QED
  BY <1>1, <1>2, <1>3, <1>4, <1>10, <1>14, DefProgram

LEMMA PEmit == ASSUME TypeInv, VInv, PInv, EmitStarts PROVE PInv'
<1> DEFINE base == <<[Top EXCEPT !.pc = "coded"]>>
<1>1. /\ DefineFunction(base, 0, "main", <<>>) /\ Top.pc = "main"
      /\ status = "running" /\ UNCHANGED <<mode, ub, status>>
  BY DEF EmitStarts, At
<1>2. <<>> \in Seq(ParamNames) /\ "main" \in FuncNames
  BY CodegenAssumption, EmptyType
<1>3. /\ IsStack(base, ast, funcs) /\ Len(base) = 1 /\ base[1].pc = "coded"
      /\ base[1].node = Top.node /\ 0 \in 0..Len(ast)
  BY EmitBase
<1> HIDE DEF base
<1>4. Len(stack) = 1 /\ stack[1] = Top
  BY <1>1, BottomFrame DEF Base
<1>5. 1..Len(base) = {1} /\ 1..Len(stack) = {1}
  BY <1>3, <1>4
<1>6. Rests(stack, base)
  BY <1>1, <1>3, <1>4, <1>5 DEF Rests, Waiting
<1>7. ScopeOf(0) = 0
  BY DEF ScopeOf
<1>8. InDef(base, ast, ScopeOf(0))
  BY <1>3, <1>5, <1>7 DEF InDef, Inner
<1>9. ~Doomed(stack, ret)
  BY <1>1, <1>4, <1>5 DEF Doomed, Waiting
<1>10. DefBase(stack, ret, base)
  BY <1>5, <1>6, <1>9 DEF DefBase
<1>11. PICK name, params : name = "main" /\ params = <<>>
  OBVIOUS
<1> QED
  BY <1>1, <1>2, <1>3, <1>8, <1>10, <1>11, DefProgram

-----------------------------------------------------------------------------
(* The end of a definition.                                                *)

(* The frame of function f is gone and f is judged; w is what is returned. *)
Finished(s, fs, v, f, t, gs, w) ==
  /\ Popped(s, t) /\ Suspended(s) /\ f = s[Len(s)].fn /\ f \in 1..Len(fs)
  /\ gs \in Seq(Function) /\ Len(gs) = Len(fs)
  /\ \A g \in 1..Len(fs) : /\ gs[g].name = fs[g].name /\ gs[g].arity = fs[g].arity
                           /\ gs[g].def = fs[g].def
                           /\ g # f => gs[g].state = fs[g].state
  /\ gs[f].state \in {"verified", "dropped", "rejected"}
  /\ w = NULL <=> gs[f].state # "verified"
  /\ gs[f].state = "dropped" => v = NULL
  /\ v = NULL => w = NULL

LEMMA FinishedTopLevel ==
  ASSUME NEW m, NEW s, NEW ns, NEW t, Popped(s, t), TopLevel(m, s, ns)
  PROVE  TopLevel(m, t, ns)
<1> SUFFICES ASSUME NEW k \in 2..Len(t), Free(t, k)
             PROVE  m = "eval" /\ (Loose(ns) \/ AtRoot(t[k]))
  BY DEF TopLevel
<1>1. Len(t) \in Nat /\ Len(s) \in Nat
  BY PoppedParts DEF Popped
<1>2. k \in 1..Len(t)
  BY <1>1
<1>3. k \in 1..Len(s) /\ t[k] = s[k]
  BY <1>2, PoppedParts
<1>4. k \in 2..Len(s)
  BY <1>1, <1>3
<1>5. \A j \in 1..k : j \in 1..Len(t)
  BY <1>1
<1>6. \A j \in 1..k : t[j] = s[j]
  BY <1>5, PoppedParts
<1>7. Free(s, k)
  BY <1>6 DEF Free
<1> QED
  BY <1>3, <1>4, <1>7 DEF TopLevel

LEMMA FinishedTended ==
  ASSUME NEW s, NEW fs, NEW v, NEW f, NEW t, NEW gs, NEW w,
         Finished(s, fs, v, f, t, gs, w), Tended(s, fs)
  PROVE  Tended(t, gs)
<1> SUFFICES ASSUME NEW g \in 1..Len(gs), gs[g].state = "open"
             PROVE  \E i \in 1..Len(t) : t[i].pc = "body" /\ t[i].fn = g
  BY DEF Tended
<1>1. g \in 1..Len(fs) /\ g # f
  BY DEF Finished
<1>2. fs[g].state = "open"
  BY <1>1 DEF Finished
<1>3. PICK i \in 1..Len(s) : s[i].pc = "body" /\ s[i].fn = g
  BY <1>1, <1>2 DEF Tended
<1>4. i # Len(s)
  BY <1>1, <1>3 DEF Finished
<1>5. i \in 1..Len(t) /\ t[i] = s[i]
  BY <1>4, PoppedParts DEF Finished
<1> QED
  BY <1>3, <1>5

LEMMA FinishedSettled ==
  ASSUME NEW m, NEW ns, NEW s, NEW fs, NEW v, NEW f, NEW t, NEW gs, NEW w,
         Finished(s, fs, v, f, t, gs, w), Settled(m, s, ns, fs)
  PROVE  Settled(m, t, ns, gs) /\ t[Len(t)].pc \in Waiting
<1>1. Popped(s, t) /\ Suspended(s)
  BY DEF Finished
<1>2. TopLevel(m, s, ns) /\ Tended(s, fs) /\ Filled(s) /\ Defs(ns, fs)
  BY DEF Settled
<1>3. TopLevel(m, t, ns)
  BY <1>1, <1>2, FinishedTopLevel
<1>4. Tended(t, gs)
  BY <1>2, FinishedTended
<1>5. Filled(t)
  BY <1>1, <1>2, PoppedParts DEF Filled
<1>6. Defs(ns, gs)
  <2>1. /\ Len(gs) = Len(fs)
        /\ \A g \in 1..Len(fs) : /\ gs[g].name = fs[g].name /\ gs[g].arity = fs[g].arity
                                 /\ gs[g].def = fs[g].def
    BY DEF Finished
  <2> QED
    BY <1>2, <2>1 DEF Defs
<1>7. t[Len(t)].pc \in Waiting
  <2>1. Len(t) \in 1..(Len(s) - 1) /\ t[Len(t)] = s[Len(t)]
    BY <1>1, PoppedParts DEF Popped
  <2> QED
    BY <1>1, <2>1 DEF Suspended
<1>8. t[Len(t)].pc # "main"
  BY <1>7 DEF Waiting
<1> QED
  BY <1>3, <1>4, <1>5, <1>6, <1>7, <1>8 DEF Settled

LEMMA FinishedDoom ==
  ASSUME NEW s, NEW fs, NEW v, NEW f, NEW t, NEW gs, NEW w,
         Finished(s, fs, v, f, t, gs, w), t[Len(t)].pc \in Waiting
  PROVE  /\ Doomed(s, v) => Doomed(t, w)
         /\ Doomed(t, w) => Doomed(s, v) \/ w = NULL
         /\ w = NULL => Doomed(t, w)
<1>1. Popped(s, t) /\ s[Len(s)].pc = "body"
  BY DEF Finished, Popped
<1>2. ASSUME Doomed(s, v) PROVE Doomed(t, w)
  <2>1. CASE v = NULL
    <3>1. w = NULL
      BY <2>1 DEF Finished
    <3> QED
      BY <3>1 DEF Doomed
  <2>2. CASE v # NULL
    <3>1. PICK i \in 1..Len(s) : s[i].pc = "rhs" /\ s[i].vals[1] = NULL
      BY <1>2, <2>2 DEF Doomed
    <3>2. i \in 1..Len(t) /\ t[i] = s[i]
      BY <1>1, <3>1, PoppedParts
    <3> QED
      BY <3>1, <3>2 DEF Doomed
  <2> QED
    BY <2>1, <2>2
<1>3. ASSUME Doomed(t, w), w # NULL PROVE Doomed(s, v)
  <2>1. PICK i \in 1..Len(t) : t[i].pc = "rhs" /\ t[i].vals[1] = NULL
    BY <1>3 DEF Doomed
  <2>2. i \in 1..Len(s) /\ t[i] = s[i]
    BY <1>1, PoppedParts
  <2> QED
    BY <2>1, <2>2 DEF Doomed
<1>4. w = NULL => Doomed(t, w)
  BY DEF Doomed
<1> QED
  BY <1>2, <1>3, <1>4

LEMMA FinishedDeclared ==
  ASSUME NEW ns, NEW s, NEW fs, NEW v, NEW f, NEW t, NEW gs, NEW w,
         Finished(s, fs, v, f, t, gs, w), t[Len(t)].pc \in Waiting, Declared(s, ns, fs, v)
  PROVE  Declared(t, ns, gs, w)
<1>1. Doomed(s, v) => Doomed(t, w)
  BY FinishedDoom
<1>2. Len(gs) = Len(fs) /\ \A g \in 1..Len(fs) : gs[g].def = fs[g].def
  BY DEF Finished
<1> QED
  BY <1>1, <1>2 DEF Declared

LEMMA FinishedStays ==
  ASSUME NEW ns, NEW s, NEW fs, NEW v, NEW f, NEW t, NEW gs, NEW w,
         Finished(s, fs, v, f, t, gs, w), Making(s, ns, fs)
  PROVE  /\ Stays(gs) <=> Stays(fs) /\ w # NULL
         /\ fs[f].state = "open" /\ fs[f].def = s[Len(s)].node
<1>1. /\ Popped(s, t) /\ f = s[Len(s)].fn /\ f \in 1..Len(fs) /\ Len(gs) = Len(fs)
      /\ \A g \in 1..Len(fs) : g # f => gs[g].state = fs[g].state
      /\ gs[f].state \in {"verified", "dropped", "rejected"}
      /\ w = NULL <=> gs[f].state # "verified"
  BY DEF Finished
<1>2. fs[f].state = "open" /\ fs[f].def = s[Len(s)].node
  <2>1. Len(s) \in 1..Len(s) /\ s[Len(s)].pc = "body"
    BY <1>1, PoppedParts DEF Popped
  <2> QED
    BY <1>1, <2>1 DEF Making
<1>3. ASSUME Stays(gs) PROVE Stays(fs) /\ w # NULL
  <2>1. \A g \in 1..Len(fs) : g # f => fs[g].state \in {"open", "verified"}
    BY <1>1, <1>3 DEF Stays
  <2>2. Stays(fs)
    BY <1>2, <2>1 DEF Stays
  <2>3. gs[f].state \in {"open", "verified"}
    BY <1>1, <1>3 DEF Stays
  <2> QED
    BY <1>1, <2>2, <2>3
<1>4. ASSUME Stays(fs), w # NULL PROVE Stays(gs)
  BY <1>1, <1>4 DEF Stays
<1> QED
  BY <1>2, <1>3, <1>4

(* What the verifier rejects has a definition in it. *)
LEMMA FinishedNested ==
  ASSUME NEW ns, NEW s, NEW fs, NEW v, NEW f, NEW t, NEW gs, NEW w,
         Finished(s, fs, v, f, t, gs, w), Making(s, ns, fs), Verdicts(ns, gs)
  PROVE  /\ gs[f].state = "rejected" => Bad(ns)
         /\ gs[f].state = "verified" => ~Nests(ns, s[Len(s)].node)
         /\ gs[f].state = "verified" /\ NestedIn(s, ns) => NestedIn(t, ns)
<1>1. f \in 1..Len(gs) /\ f \in 1..Len(fs) /\ gs[f].def = fs[f].def /\ Popped(s, t)
  BY DEF Finished
<1>2. fs[f].def = s[Len(s)].node
  BY FinishedStays
<1>3. /\ gs[f].state = "rejected" => Nests(ns, s[Len(s)].node)
      /\ gs[f].state = "verified" => ~Nests(ns, s[Len(s)].node)
  BY <1>1, <1>2 DEF Verdicts
<1>4. s[Len(s)].node # 0
  <2>1. fs[f].def \in 1..Len(ns)
    BY <1>1 DEF Making
  <2> QED
    BY <1>2, <2>1
<1>5. gs[f].state = "rejected" => Bad(ns)
  BY <1>3, <1>4, NestedIsBad
<1>6. ASSUME gs[f].state = "verified", NestedIn(s, ns) PROVE NestedIn(t, ns)
  <2>1. PICK i \in 1..Len(s) : s[i].pc = "body" /\ Nests(ns, s[i].node)
    BY <1>6 DEF NestedIn
  <2>2. i # Len(s)
    BY <1>3, <1>6, <2>1
  <2>3. i \in 1..Len(t) /\ t[i] = s[i]
    BY <1>1, <2>2, PoppedParts
  <2> QED
    BY <2>1, <2>3 DEF NestedIn
<1> QED
  BY <1>3, <1>5, <1>6

LEMMA FinishedFails ==
  ASSUME NEW ns, NEW s, NEW fs, NEW v, NEW f, NEW t, NEW gs, NEW w,
         Finished(s, fs, v, f, t, gs, w), Making(s, ns, fs), Verdicts(ns, gs),
         t[Len(t)].pc \in Waiting, FailsRightly(s, ns, fs, v)
  PROVE  FailsRightly(t, ns, gs, w)
<1>1. /\ Doomed(s, v) => Doomed(t, w)
      /\ Doomed(t, w) => Doomed(s, v) \/ w = NULL
      /\ w = NULL => Doomed(t, w)
  BY FinishedDoom
<1>2. Stays(gs) <=> Stays(fs) /\ w # NULL
  BY FinishedStays
<1>3. /\ gs[f].state = "rejected" => Bad(ns)
      /\ gs[f].state = "verified" /\ NestedIn(s, ns) => NestedIn(t, ns)
  BY FinishedNested
<1>4. /\ gs[f].state \in {"verified", "dropped", "rejected"}
      /\ w = NULL <=> gs[f].state # "verified"
      /\ gs[f].state = "dropped" => v = NULL
      /\ s[Len(s)].pc = "body"
  BY DEF Finished, Popped
<1>5. v = NULL => Doomed(s, v)
  BY <1>4 DEF Doomed, Waiting
<1>6. /\ Doomed(s, v) \/ ~Stays(fs) \/ NestedIn(s, ns) \/ OnlyTop(ns)
      /\ Doomed(s, v) \/ ~Stays(fs) => Bad(ns)
  BY DEF FailsRightly
<1>7. w = NULL => Bad(ns)
  BY <1>3, <1>4, <1>5, <1>6
<1>8. Doomed(t, w) \/ ~Stays(gs) => Bad(ns)
  BY <1>1, <1>2, <1>6, <1>7
<1>9. Doomed(t, w) \/ ~Stays(gs) \/ NestedIn(t, ns) \/ OnlyTop(ns)
  BY <1>1, <1>2, <1>3, <1>4, <1>6
<1> QED
  BY <1>8, <1>9 DEF FailsRightly

(* The function that is all right calls functions that exist, and the      *)
(* builder is in it.                                                       *)
LEMMA ValidLasts ==
  ASSUME NEW fs \in Seq(Function), NEW s, NEW f, f = s[Len(s)].fn, f \in 1..Len(fs),
         NEW ns, NEW pos, NEW v, Valid(s, Len(s), ns, fs, pos, v),
         NEW x, NEW hs, Returns(fs, hs, pos, v, x)
  PROVE  pos[1] = f /\ Calls(hs, f) /\ Confined(fs, hs, f)
<1>1. PICK dom : ValidBy(s, Len(s), ns, fs, pos, v, dom)
  BY DEF Valid
<1>2. CodeFine(fs, f, dom) /\ pos \in Places(fs) /\ pos[1] = f
  BY <1>1 DEF ValidBy
<1>3. PICK b : b = pos[2]
  OBVIOUS
<1>4. b \in Blocks(fs, f) /\ Adds(fs, hs, f, b, x) /\ x.op = "ret"
  BY <1>2, <1>3, PlacePair DEF Returns
<1>5. Confined(fs, hs, f)
  BY Zenon, <1>4, AddsConfined
<1>6. Len(hs) = Len(fs) /\ Blocks(hs, f) = Blocks(fs, f)
  BY Zenon, <1>4 DEF Adds, Blocks
<1>7. ASSUME NEW c \in Blocks(fs, f), NEW i \in 1..Len(fs[f].blocks[c]),
             fs[f].blocks[c][i].op = "call"
      PROVE  fs[f].blocks[c][i].callee \in 1..Len(fs)
  <2>1. PICK code, n : code = fs[f].blocks[c] /\ n = Len(code)
    OBVIOUS
  <2>2. InstrFine(fs, f, dom, c, i, n, code[i])
    <3>1. BlockFine(fs, f, dom, c)
      BY Zenon, <1>2 DEF CodeFine
    <3> QED
      BY <2>1, <3>1 DEF BlockFine
  <2> QED
    BY Zenon, <1>7, <2>1, <2>2 DEF InstrFine
<1>8. ASSUME NEW c \in Blocks(hs, f), NEW i \in 1..Len(hs[f].blocks[c]),
             hs[f].blocks[c][i].op = "call"
      PROVE  hs[f].blocks[c][i].callee \in 1..Len(hs)
  <2>1. c \in Blocks(fs, f)
    BY Zenon, <1>6
  <2>2. CASE c # b
    <3>1. hs[f].blocks[c] = fs[f].blocks[c]
      BY Zenon, <1>4, <2>1, <2>2 DEF Adds
    <3> QED
      BY Zenon, <1>6, <1>7, <1>8, <2>1, <3>1
  <2>3. CASE c = b
    <3>1. PICK old, new : old = fs[f].blocks[b] /\ new = hs[f].blocks[b]
      OBVIOUS
    <3>2. old \in Seq(Instr) /\ x \in Instr
      BY Zenon, <1>4, <3>1, CodeFields DEF Returns
    <3>3. new = Append(old, x)
      BY Zenon, <1>4, <3>1 DEF Adds
    <3>4. /\ Len(new) = Len(old) + 1 /\ new[Len(old) + 1] = x
          /\ \A j \in 1..Len(old) : new[j] = old[j]
      BY <3>2, <3>3, AppendType
    <3>5. i \in 1..Len(old) \/ i = Len(old) + 1
      <4>1. i \in 1..Len(new)
        BY <2>3, <3>1
      <4>2. PICK k : k = Len(old) /\ k \in Nat
        BY <3>2
      <4>3. i \in 1..(k + 1)
        BY <3>4, <4>1, <4>2
      <4>4. i \in 1..k \/ i = k + 1
        BY ONLY <4>2, <4>3
      <4> QED
        BY <4>2, <4>4
    <3>6. new[i].op = "call"
      BY <1>8, <2>3, <3>1
    <3>7. i \in 1..Len(old) /\ new[i] = old[i]
      BY Zenon, <1>4, <3>4, <3>5, <3>6
    <3>8. old[i].callee \in 1..Len(fs)
      BY Zenon, <1>7, <2>1, <2>3, <3>1, <3>6, <3>7
    <3> QED
      BY <1>6, <2>3, <3>1, <3>7, <3>8
  <2> QED
    BY <2>2, <2>3
<1>9. Calls(hs, f)
  BY <1>8 DEF Calls
<1> QED
  BY <1>2, <1>5, <1>9

LEMMA FinishedStanding ==
  ASSUME NEW ns, NEW s, NEW fs \in Seq(Function), NEW v, NEW f, NEW t, NEW gs, NEW w,
         Finished(s, fs, v, f, t, gs, w), gs[f].state = "verified", v # NULL,
         Making(s, ns, fs), Verdicts(ns, gs), NEW pos, AllSane(s, ns, fs, pos, v),
         NEW x, NEW hs \in Seq(Function), Returns(fs, hs, pos, v, x), WellFormed(hs, f),
         \A g \in 1..Len(fs) : gs[g].blocks = hs[g].blocks,
         Standing(fs)
  PROVE  Standing(gs)
<1>1. /\ Popped(s, t) /\ f = s[Len(s)].fn /\ f \in 1..Len(fs)
      /\ gs \in Seq(Function) /\ Len(gs) = Len(fs)
      /\ \A g \in 1..Len(fs) : /\ gs[g].arity = fs[g].arity
                               /\ g # f => gs[g].state = fs[g].state
  BY DEF Finished
<1>2. Len(s) \in 1..Len(s) /\ s[Len(s)].pc = "body"
  BY <1>1, PoppedParts DEF Popped
<1>3. ~Nests(ns, s[Len(s)].node)
  BY FinishedNested
<1>4. ~DoomedIn(s, Len(s), v)
  <2>1. (Len(s) + 1)..Len(s) = {}
    BY <1>1 DEF Popped
  <2> QED
    BY <2>1 DEF DoomedIn
<1>5. Valid(s, Len(s), ns, fs, pos, v)
  BY <1>2, <1>3, <1>4 DEF AllSane, Sane
<1>6. pos[1] = f /\ Calls(hs, f) /\ Confined(fs, hs, f)
  BY <1>1, <1>5, ValidLasts
<1>7. /\ Len(hs) = Len(fs)
      /\ \A g \in 1..Len(fs) : /\ hs[g].arity = fs[g].arity /\ hs[g].state = fs[g].state
                               /\ g # f => hs[g].blocks = fs[g].blocks
  BY <1>6 DEF Confined, Heads, SameHead
<1>8. Len(fs) \in Nat /\ Len(fs) <= Len(gs) /\ Len(hs) <= Len(gs)
  BY <1>1, <1>7
<1>9. \A g \in 1..Len(fs) : fs[g].state \in {"open", "verified"} =>
        gs[g].state \in {"open", "verified"}
  BY <1>1
<1>10. Lasting(gs, f)
  <2>1. Lasting(hs, f)
    BY <1>6 DEF Lasting
  <2>2. Alike(hs, gs, f)
    BY <1>1, <1>7, <1>8, <1>9 DEF Alike
  <2> QED
    BY <1>1, <2>1, <2>2, LastingKept
<1>11. ASSUME NEW g \in 1..Len(fs), g # f, gs[g].state = "verified" PROVE Lasting(gs, g)
  <2>1. Lasting(fs, g)
    BY <1>1, <1>11 DEF Standing
  <2>2. gs[g].blocks = fs[g].blocks
    BY <1>7, <1>11
  <2>3. Alike(fs, gs, g)
    BY <1>1, <1>8, <1>9, <2>2 DEF Alike
  <2> QED
    BY <1>1, <2>1, <2>3, LastingKept
<1> QED
  BY <1>1, <1>10, <1>11 DEF Standing

LEMMA FinishedStands ==
  ASSUME NEW ns, NEW s, NEW fs \in Seq(Function), NEW v, NEW f, NEW t, NEW gs, NEW w,
         Finished(s, fs, v, f, t, gs, w), Making(s, ns, fs), Verdicts(ns, gs),
         NEW m, StandsBy(m, s, ns, fs),
         gs[f].state = "verified" /\ Standing(fs) => Standing(gs)
  PROVE  StandsBy(m, t, ns, gs)
<1>1. Stays(gs) <=> Stays(fs) /\ w # NULL
  BY FinishedStays
<1>2. gs[f].state = "verified" /\ NestedIn(s, ns) => NestedIn(t, ns)
  BY FinishedNested
<1>3. w = NULL <=> gs[f].state # "verified"
  BY DEF Finished
<1> QED
  BY <1>1, <1>2, <1>3 DEF StandsBy

LEMMA FinishedProgram ==
  ASSUME VInv, VInv', PInv, status = "running",
         UNCHANGED <<mode, ast, status>>, ub \subseteq ub',
         NEW f, Finished(stack, funcs, ret, f, stack', funcs', ret'),
         funcs \in Seq(Function),
         ub' = {} /\ funcs'[f].state = "verified" /\ Standing(funcs) => Standing(funcs')
  PROVE  PInv'
<1>1. PICK m, ns, gs, t, w : m = mode' /\ ns = ast' /\ gs = funcs' /\ t = stack' /\ w = ret'
  OBVIOUS
<1>2. m = mode /\ ns = ast /\ Finished(stack, funcs, ret, f, t, gs, w)
  BY <1>1
<1>3. Settled(mode, stack, ast, funcs) /\ Declared(stack, ast, funcs, ret)
  BY DEF PInv
<1>4. Settled(m, t, ns, gs) /\ t[Len(t)].pc \in Waiting
  BY <1>2, <1>3, FinishedSettled
<1>5. Declared(t, ns, gs, w)
  BY <1>2, <1>3, <1>4, FinishedDeclared
<1>6. Making(stack, ns, funcs)
  BY <1>2 DEF VInv, Framed
<1>7. ub' = {} => StandsBy(m, t, ns, gs) /\ FailsRightly(t, ns, gs, w)
  <2> SUFFICES ASSUME ub' = {}
               PROVE  StandsBy(m, t, ns, gs) /\ FailsRightly(t, ns, gs, w)
    OBVIOUS
  <2>1. ub = {}
    OBVIOUS
  <2>2. StandsBy(m, stack, ns, funcs) /\ FailsRightly(stack, ns, funcs, ret)
    BY <1>2, <2>1 DEF PInv
  <2>3. Verdicts(ns, gs)
    BY <1>1 DEF VInv, AllSane
  <2>4. gs[f].state = "verified" /\ Standing(funcs) => Standing(gs)
    BY <1>1
  <2>5. StandsBy(m, t, ns, gs)
    BY <1>2, <1>6, <2>2, <2>3, <2>4, FinishedStands
  <2>6. FailsRightly(t, ns, gs, w)
    BY <1>2, <1>4, <1>6, <2>2, <2>3, FinishedFails
  <2> QED
    BY <2>5, <2>6
<1>8. EndsRightly'
  BY DEF EndsRightly
<1> QED
  BY <1>1, <1>4, <1>5, <1>7, <1>8 DEF PInv

(* What the verdict changes. *)
JudgedAs(fs, f, state, gs) ==
  /\ gs \in Seq(Function) /\ Len(gs) = Len(fs) /\ gs[f].state = state
  /\ \A g \in 1..Len(fs) :
       /\ gs[g].name = fs[g].name /\ gs[g].arity = fs[g].arity
       /\ gs[g].def = fs[g].def /\ gs[g].blocks = fs[g].blocks
       /\ g # f => gs[g].state = fs[g].state

LEMMA JudgedHeads ==
  ASSUME NEW fs \in Seq(Function), NEW f \in 1..Len(fs),
         NEW state \in {"verified", "dropped", "rejected"},
         NEW gs, gs = Judged(fs, f, state)
  PROVE  JudgedAs(fs, f, state, gs)
<1>1. /\ gs \in Seq(Function) /\ Len(gs) = Len(fs) /\ gs[f].state = state
      /\ \A g \in 1..Len(fs) : g # f => gs[g] = fs[g]
  <2>1. LET hs == Judged(fs, f, state)
        IN /\ hs \in Seq(Function) /\ Len(hs) = Len(fs) /\ Grown(fs, hs)
           /\ hs[f].state = state
           /\ \A g \in 1..Len(fs) : g # f => hs[g] = fs[g]
    BY JudgedType
  <2> QED
    BY <2>1
<1>2. /\ gs[f].name = fs[f].name /\ gs[f].arity = fs[f].arity
      /\ gs[f].def = fs[f].def /\ gs[f].blocks = fs[f].blocks
  <2>1. PICK x : x = [fs[f] EXCEPT !.state = state]
    OBVIOUS
  <2>2. fs[f] \in Function
    BY FunctionFields
  <2>3. /\ x \in Function /\ x.def = fs[f].def /\ x.blocks = fs[f].blocks
        /\ x.name = fs[f].name /\ x.arity = fs[f].arity
    BY <2>1, <2>2 DEF Function
  <2>4. gs = [fs EXCEPT ![f] = x]
    BY <2>1 DEF Judged
  <2>5. gs[f] = x
    BY <2>3, <2>4, ExceptType
  <2> QED
    BY <2>3, <2>5
<1> QED
  BY <1>1, <1>2 DEF JudgedAs

LEMMA PDropped ==
  ASSUME TypeInv, DoomInv, VInv, VInv', PInv, DefDone, ret = NULL PROVE PInv'
<1>1. /\ Top.pc = "body" /\ Return(NULL) /\ UNCHANGED <<mode, ub, ast, status>>
      /\ funcs' = Judged(funcs, Top.fn, "dropped") /\ status = "running"
  BY DEF DefDone, At, Judged
<1>2. Top.fn \in 1..Len(funcs) /\ funcs \in Seq(Function)
  BY BodyType, SomeFunctions DEF DefDone
<1>3. PICK t, gs, f, w : t = stack' /\ gs = funcs' /\ f = Top.fn /\ w = ret'
  OBVIOUS
<1>4. JudgedAs(funcs, f, "dropped", gs)
  BY <1>1, <1>2, <1>3, JudgedHeads
<1>5. Popped(stack, t) /\ w = NULL
  BY <1>1, <1>3, DonePopped
<1>6. Suspended(stack) /\ f = stack[Len(stack)].fn
  BY <1>3 DEF DoomInv, Top
<1>7. Finished(stack, funcs, ret, f, t, gs, w)
  BY <1>2, <1>3, <1>4, <1>5, <1>6 DEF Finished, JudgedAs
<1>8. Finished(stack, funcs, ret, f, stack', funcs', ret') /\ funcs'[f].state # "verified"
  BY <1>3, <1>4, <1>7 DEF JudgedAs
<1> QED
  BY <1>1, <1>2, <1>8, FinishedProgram

LEMMA PJudged ==
  ASSUME TypeInv, DoomInv, VInv, VInv', PInv, DefDone, ret # NULL PROVE PInv'
<1>1. PICK hs : hs = Insert(funcs, at, "ret", <<ret>>, <<>>, 0)
  OBVIOUS
<1>2. /\ Top.pc = "body" /\ UNCHANGED <<mode, ast, status>> /\ ub \subseteq ub'
      /\ status = "running"
  BY DEF DefDone, At
<1>3. PICK valid \in BOOLEAN :
        /\ funcs' = Judged(hs, Top.fn, IF valid THEN "verified" ELSE "rejected")
        /\ valid <=> WellFormed(hs, Top.fn)
        /\ Return(IF valid THEN Func(Top.fn) ELSE NULL)
  BY <1>1 DEF DefDone, Judged
<1>4. Top.fn \in 1..Len(funcs) /\ funcs \in Seq(Function) /\ Len(funcs) \in Nat
  BY BodyType, SomeFunctions DEF DefDone
<1>5. at \in Places(funcs)
  BY <1>4 DEF TypeInv, Typed, IsPlace
<1>6. ret \in Value
  BY <1>4, ValueMono DEF TypeInv, Typed
<1>7. PICK x : Returns(funcs, hs, at, ret, x)
  BY <1>1, <1>4, <1>5, <1>6, RetReturns
<1>8. PICK t, gs, f, state, w :
        /\ t = stack' /\ gs = funcs' /\ f = Top.fn
        /\ state = IF valid THEN "verified" ELSE "rejected"
        /\ w = IF valid THEN Func(Top.fn) ELSE NULL
  OBVIOUS
<1>9. state \in {"verified", "dropped", "rejected"} /\ gs = Judged(hs, f, state)
      /\ (valid => state = "verified") /\ (~valid => state = "rejected")
  BY <1>3, <1>8
<1>10. Adds(funcs, hs, at[1], at[2], x)
  BY Zenon, <1>7 DEF Returns
<1>11. hs \in Seq(Function) /\ Len(hs) = Len(funcs) /\ f \in 1..Len(hs)
  BY <1>4, <1>8, <1>10 DEF Adds
<1>12. JudgedAs(hs, f, state, gs)
  BY Zenon, <1>9, <1>11, JudgedHeads
<1>13. \A g \in 1..Len(funcs) : /\ hs[g].name = funcs[g].name
                                /\ hs[g].arity = funcs[g].arity
                                /\ hs[g].def = funcs[g].def
                                /\ hs[g].state = funcs[g].state
  BY <1>10 DEF Adds, SameHead
<1>14. Popped(stack, t) /\ ret' = w
  BY <1>2, <1>3, <1>8, DonePopped
<1>15. Suspended(stack) /\ f = stack[Len(stack)].fn /\ f \in 1..Len(funcs)
  BY <1>4, <1>8 DEF DoomInv, Top
<1>16. w = NULL <=> state # "verified"
  <2>1. Func(Top.fn) # NULL
    BY DEF Func, NULL
  <2> QED
    BY <1>8, <1>9, <2>1
<1>17. /\ gs \in Seq(Function) /\ Len(gs) = Len(funcs)
       /\ \A g \in 1..Len(funcs) :
            /\ gs[g].name = funcs[g].name /\ gs[g].arity = funcs[g].arity
            /\ gs[g].def = funcs[g].def
            /\ g # f => gs[g].state = funcs[g].state
  BY <1>11, <1>12, <1>13 DEF JudgedAs
<1>18. gs[f].state = state /\ state \in {"verified", "dropped", "rejected"}
       /\ state # "dropped"
  BY <1>9, <1>12 DEF JudgedAs
<1>19. Finished(stack, funcs, ret, f, t, gs, w)
  BY <1>14, <1>15, <1>16, <1>17, <1>18 DEF Finished
<1>20. ASSUME ub' = {}, gs[f].state = "verified", Standing(funcs) PROVE Standing(gs)
  <2>1. AllSane(stack, ast, funcs, at, ret) /\ Making(stack, ast, funcs)
    <3>1. ub = {}
      BY <1>2, <1>20
    <3> QED
      BY <3>1 DEF VInv, Framed
  <2>2. valid
    BY <1>9, <1>18, <1>20
  <2>3. WellFormed(hs, f)
    BY <1>3, <1>8, <2>2
  <2>4. Verdicts(ast, gs)
    <3>1. AllSane(stack', ast', funcs', at', ret')
      BY <1>20 DEF VInv
    <3> QED
      BY <1>2, <1>8, <3>1 DEF AllSane
  <2>5. \A g \in 1..Len(funcs) : gs[g].blocks = hs[g].blocks
    BY <1>11, <1>12 DEF JudgedAs
  <2> QED
    BY <1>4, <1>7, <1>11, <1>19, <1>20, <2>1, <2>3, <2>4, <2>5, FinishedStanding
<1>21. /\ Finished(stack, funcs, ret, f, stack', funcs', ret')
       /\ ub' = {} /\ funcs'[f].state = "verified" /\ Standing(funcs) => Standing(funcs')
  BY <1>8, <1>14, <1>19, <1>20
<1> QED
  BY <1>2, <1>4, <1>21, FinishedProgram

LEMMA PDefDone ==
  ASSUME TypeInv, DoomInv, VInv, VInv', PInv, DefDone PROVE PInv'
BY PDropped, PJudged

-----------------------------------------------------------------------------
(* The end of the program.                                                 *)

(* A step that leaves the program as it is and does not end it rightly. *)
LEMMA PSame ==
  ASSUME PInv, UNCHANGED <<mode, stack, ast, funcs, ret>>, ub \subseteq ub',
         status' = "killed" \/ (status' = status /\ ub' = ub)
  PROVE  PInv'
<1>1. /\ Settled(mode', stack', ast', funcs') /\ Declared(stack', ast', funcs', ret')
      /\ ub' = {} => /\ StandsBy(mode', stack', ast', funcs')
                     /\ FailsRightly(stack', ast', funcs', ret')
  BY DEF PInv
<1>2. EndsRightly'
  <2>1. CASE status' = "killed"
    BY <2>1 DEF EndsRightly
  <2>2. CASE status' = status /\ ub' = ub
    <3>1. HasMain' <=> HasMain
      BY DEF HasMain, IsDef
    <3> QED
      BY <2>2, <3>1 DEF PInv, EndsRightly, Top
  <2> QED
    BY <2>1, <2>2
<1> QED
  BY <1>1, <1>2 DEF PInv

LEMMA PDies == ASSUME PInv, Killed \/ IfDies PROVE PInv'
<1>1. /\ UNCHANGED <<mode, stack, ast, funcs, ret>> /\ ub' = ub
      /\ status' = "killed"
  BY DEF Killed, IfDies
<1> QED
  BY <1>1, PSame

(* The main that is looked for is there if one was defined. *)
LEMMA MainNamed ==
  ASSUME DoomInv, PInv, status = "running", ~Doomed(stack, ret)
  PROVE  HasMain <=> Named("main") # 0
<1>1. Stays(funcs)
  BY DEF DoomInv, Sound
<1>2. Defs(ast, funcs)
  BY DEF PInv, Settled
<1>3. ASSUME HasMain, Named("main") = 0 PROVE FALSE
  <2>1. PICK d \in 1..Len(ast) : ast[d].type = "FUNCDEF" /\ ast[d].name = "main"
    BY <1>3 DEF HasMain, IsDef
  <2>2. PICK f \in 1..Len(funcs) : funcs[f].def = d
    BY <2>1 DEF PInv, Declared
  <2>3. funcs[f].name = "main"
    BY <1>2, <2>1, <2>2 DEF Defs
  <2>4. funcs[f].state \in {"open", "verified"}
    BY <1>1 DEF Stays
  <2> QED
    BY <1>3, <2>3, <2>4, NoneNamed
<1>4. ASSUME Named("main") # 0 PROVE HasMain
  <2>1. PICK f : f = Named("main")
    OBVIOUS
  <2>2. f \in 1..Len(funcs) /\ funcs[f].name = "main"
    BY <1>4, <2>1, NamedType
  <2>3. PICK d : d = funcs[f].def
    OBVIOUS
  <2>4. d \in 1..Len(ast) /\ ast[d].type = "FUNCDEF" /\ ast[d].name = "main"
    BY <1>2, <2>2, <2>3 DEF Defs
  <2> QED
    BY <2>4 DEF HasMain, IsDef
<1> QED
  BY <1>3, <1>4

LEMMA PCoded == ASSUME TypeInv, DoomInv, PInv, Coded PROVE PInv'
<1>1. /\ status = "running" /\ Top.pc = "coded" /\ ub \subseteq ub'
      /\ UNCHANGED <<mode, stack, ast, funcs, ret>>
  BY DEF Coded, At
<1>2. Len(stack) = 1 /\ stack[1] = Top /\ 1..Len(stack) = {1}
  <2>1. Top.pc \in Base
    BY <1>1 DEF Base
  <2>2. Len(stack) = 1 /\ stack[1] = Top
    BY <2>1, BottomFrame
  <2> QED
    BY ONLY <2>2
<1>3. Doomed(stack, ret) <=> ret = NULL
  BY <1>1, <1>2 DEF Doomed, Waiting
<1>4. ~NestedIn(stack, ast)
  BY <1>1, <1>2 DEF NestedIn
<1>5. ub = {} => FailsRightly(stack, ast, funcs, ret)
  BY DEF PInv
<1>6. ASSUME ret # NULL PROVE Stays(funcs) /\ (HasMain <=> Named("main") # 0)
  BY <1>1, <1>3, <1>6, MainNamed DEF DoomInv, Sound
<1>7. HasMain' <=> HasMain
  BY <1>1 DEF HasMain, IsDef
<1>8. EndsRightly'
  <2>1. CASE ret = NULL \/ (mode = "eval" /\ Named("main") = 0)
    <3>1. status' = "failed" /\ ub' = ub
      BY <2>1 DEF Coded
    <3>2. ub = {} => Bad(ast) \/ (mode = "eval" /\ ~HasMain)
      BY <1>3, <1>5, <1>6, <2>1 DEF FailsRightly
    <3> QED
      BY <1>1, <1>7, <3>1, <3>2 DEF EndsRightly
  <2>2. CASE ~(ret = NULL \/ (mode = "eval" /\ Named("main") = 0))
    <3>1. status' = "done"
      BY <2>2 DEF Coded
    <3>2. ub = {} => OnlyTop(ast)
      BY <1>3, <1>4, <1>5, <1>6, <2>2 DEF FailsRightly
    <3>3. Stays(funcs) /\ (mode = "eval" => HasMain)
      BY <1>6, <2>2
    <3> QED
      BY <1>1, <1>2, <1>7, <3>1, <3>2, <3>3 DEF EndsRightly, Top
  <2> QED
    BY <2>1, <2>2
<1>9. /\ Settled(mode', stack', ast', funcs') /\ Declared(stack', ast', funcs', ret')
      /\ ub' = {} => /\ StandsBy(mode', stack', ast', funcs')
                     /\ FailsRightly(stack', ast', funcs', ret')
  BY <1>1 DEF PInv
<1> QED
  BY <1>8, <1>9 DEF PInv

LEMMA PInvStep ==
  ASSUME TypeInv, DoomInv, ScopeInv, VInv, PInv, [Next]_vars PROVE PInv'
<1>1. TypeInv' /\ VInv'
  BY TypeStep, VInvStep
<1>2. CASE UNCHANGED vars
  BY <1>2, PSame DEF vars
<1>3. CASE EnterDbl \/ EnterVar \/ EnterBin \/ EnterCall \/ EnterIf
  BY <1>1, <1>3, PPlain, PVar, PCall
<1>4. CASE EnterDef \/ EmitStarts \/ DefDone \/ EvalStarts
  BY <1>1, <1>4, PDef, PEmit, PDefDone, PEvalStarts
<1>5. CASE Rhs \/ NextArg \/ StoreArg \/ IfFails \/ NextStmt \/ StmtDone \/ BlockDone
  BY <1>1, <1>5, PPass
<1>6. CASE Bin \/ BuildCall \/ Phi \/ Then \/ Else \/ EmptyBlock
  BY <1>1, <1>6, PBuild, PBranch, PEmptyBlock
<1>7. CASE Coded \/ Killed \/ IfDies
  BY <1>7, PCoded, PDies
<1> QED
  BY <1>2, <1>3, <1>4, <1>5, <1>6, <1>7 DEF Next, Step, Ended

LEMMA InitP == Init => PInv
<1> SUFFICES ASSUME Init PROVE PInv
  OBVIOUS
<1>1. /\ Len(stack) = 1 /\ stack[1].pc = "main" /\ status = "running" /\ ret = NULL
  BY DEF Init, NewFrame
<1>2. Len(funcs) = 0 /\ Len(ast) = 0
  BY EmptyType DEF Init
<1>3. /\ 1..Len(stack) = {1} /\ 2..Len(stack) = {} /\ 1..Len(funcs) = {}
      /\ 1..Len(ast) = {}
  BY <1>1, <1>2
<1>4. Settled(mode, stack, ast, funcs)
  BY <1>1, <1>2, <1>3 DEF Settled, TopLevel, Tended, Filled, Full, Defs
<1>5. Declared(stack, ast, funcs, ret)
  BY <1>3 DEF Declared
<1>6. StandsBy(mode, stack, ast, funcs)
  BY <1>3 DEF StandsBy, Standing
<1>7. Stays(funcs) /\ OnlyTop(ast)
  BY <1>3 DEF Stays, OnlyTop
<1>8. ~Doomed(stack, ret)
  BY <1>1, <1>3 DEF Doomed, Waiting
<1>9. FailsRightly(stack, ast, funcs, ret)
  BY <1>7, <1>8 DEF FailsRightly
<1>10. EndsRightly
  BY <1>1 DEF EndsRightly
<1> QED
  BY <1>4, <1>5, <1>6, <1>9, <1>10 DEF PInv

-----------------------------------------------------------------------------
(* What is promised of a program that has ended.                           *)

LEMMA ScopeNatural == ASSUME TypeInv, NEW n \in 1..Len(ast) PROVE ast[n].scope \in Nat
<1>1. ast \in Seq(Node)
  BY DEF TypeInv, Typed
<1>2. ast[n] \in Node
  BY <1>1, ElementOfSeq
<1> QED
  BY <1>2 DEF Node

LEMMA RulesAgree ==
  ASSUME TypeInv, NEW n \in 1..Len(ast) PROVE WellScoped(n, 0) <=> Ruled(ast, n)
<1>1. DefsBefore(n, 0) = {d \in 1..(n - 1) : ast[d].type = "FUNCDEF"}
  BY DEF DefsBefore, IsDef
<1>2. CASE ast[n].type = "VAR"
  <2>1. Ruled(ast, n) <=>
          /\ ast[n].scope # 0
          /\ \E i \in 1..Len(ast[ast[n].scope].params) :
               ast[ast[n].scope].params[i] = ast[n].name
    BY <1>2 DEF Ruled
  <2> QED
    BY <1>2, <2>1, ScopeNatural DEF WellScoped
<1>3. CASE ast[n].type = "CALL"
  BY <1>1, <1>3 DEF WellScoped, Ruled
<1>4. CASE ast[n].type = "FUNCDEF"
  BY <1>1, <1>4 DEF WellScoped, Ruled
<1>5. CASE ast[n].type \notin {"VAR", "CALL", "FUNCDEF"}
  BY <1>5 DEF WellScoped, Ruled
<1> QED
  BY <1>2, <1>3, <1>4, <1>5

LEMMA InvAccepts == ASSUME TypeInv, PInv PROVE AcceptsWellScoped
<1>1. EndsRightly
  BY DEF PInv
<1>2. \A n \in 1..Len(ast) : WellScoped(n, 0) <=> Ruled(ast, n)
  BY RulesAgree
<1>3. ASSUME ub = {}, status = "done"
      PROVE  /\ mode = "eval" => HasMain
             /\ \A n \in {m \in 1..Len(ast) : ~WellScoped(m, 0)} :
                  ast[n].type = "VAR" /\ ast[n].scope = 0
  BY <1>1, <1>2, <1>3 DEF EndsRightly, OnlyTop, TopVar
<1>4. ASSUME ub = {}, status = "failed"
      PROVE  {m \in 1..Len(ast) : ~WellScoped(m, 0)} # {} \/ ~(mode = "eval" => HasMain)
  BY <1>1, <1>2, <1>4 DEF EndsRightly, Bad
<1>5. ub = {} =>
        /\ status = "done" =>
             /\ mode = "eval" => HasMain
             /\ \A n \in {m \in 1..Len(ast) : ~WellScoped(m, 0)} :
                  ast[n].type = "VAR" /\ ast[n].scope = 0
        /\ status = "failed" =>
             \/ {m \in 1..Len(ast) : ~WellScoped(m, 0)} # {}
             \/ ~(mode = "eval" => HasMain)
  BY <1>3, <1>4
<1> QED
  BY <1>5, Zenon DEF AcceptsWellScoped

(* The definitions are all there is at the top level. *)
LEMMA NoneLoose ==
  ASSUME \A n \in RootKids : IsDef(n), Len(ast) \in Nat, ast = <<>> <=> Len(ast) = 0
  PROVE  ~Loose(ast)
<1> SUFFICES ASSUME NEW n \in 1..Len(ast), NEW i \in 1..Len(ast[1].kids),
                    ast[1].kids[i] = n
             PROVE  ast[n].type = "FUNCDEF"
  BY DEF Loose
<1>1. ast # <<>>
  OBVIOUS
<1>2. n \in RootKids
  BY <1>1 DEF RootKids
<1> QED
  BY <1>2 DEF IsDef

LEMMA InvStays == ASSUME TypeInv, PInv PROVE StaysValid
<1> SUFFICES ASSUME status = "done", ub = {},
                    mode = "eval" => \A n \in RootKids : IsDef(n),
                    NEW f \in 1..Len(funcs)
             PROVE  funcs[f].state = "verified" /\ WellFormed(funcs, f)
  BY DEF StaysValid
<1>1. Len(stack) = 1 /\ stack[1].pc = "coded" /\ Stays(funcs) /\ 1..Len(stack) = {1}
  <2>1. Len(stack) = 1 /\ Top.pc = "coded" /\ Stays(funcs)
    BY DEF PInv, EndsRightly
  <2> QED
    BY <2>1 DEF Top
<1>2. \A g \in 1..Len(funcs) : funcs[g].state = "verified"
  <2>1. Tended(stack, funcs)
    BY DEF PInv, Settled
  <2>2. \A g \in 1..Len(funcs) : funcs[g].state # "open"
    BY <1>1, <2>1 DEF Tended
  <2> QED
    BY <1>1, <2>2 DEF Stays
<1>3. ~NestedIn(stack, ast)
  BY <1>1 DEF NestedIn
<1>4. ~(mode = "eval" /\ Loose(ast))
  <2>1. Len(ast) \in Nat /\ (ast = <<>> <=> Len(ast) = 0)
    <3>1. ast \in Seq(Node)
      BY DEF TypeInv, Typed
    <3> QED
      BY <3>1, EmptySeq, LenProperties
  <2>2. ASSUME mode = "eval" PROVE ~Loose(ast)
    BY <2>1, <2>2, NoneLoose
  <2> QED
    BY <2>2
<1>5. Standing(funcs)
  BY <1>1, <1>3, <1>4 DEF PInv, StandsBy
<1> QED
  BY <1>2, <1>5 DEF Standing, Lasting

(* A function that was verified is still valid when the module is run or   *)
(* written out, as long as no undefined behaviour was met: nothing is      *)
(* added to it, and what it calls is not deleted, although a program goes  *)
(* on after an operand has failed, unless statements of the top level are  *)
(* generated into the last function of lilc_eval.                          *)
THEOREM VerifiedStaysValid == Spec => []StaysValid
<1>1. Init => TypeInv /\ DoomInv /\ ScopeInv /\ VInv /\ PInv
  BY InitType, InitDoom, InitScope, InitV, InitP
<1>2. TypeInv /\ DoomInv /\ ScopeInv /\ VInv /\ PInv /\ [Next]_vars
        => TypeInv' /\ DoomInv' /\ ScopeInv' /\ VInv' /\ PInv'
  BY TypeStep, DoomStep, ScopeStep, VInvStep, PInvStep
<1>3. TypeInv /\ PInv => StaysValid
  BY InvStays
<1> QED
  BY <1>1, <1>2, <1>3, PTL DEF Spec

(* codegen() generates a program if and only if it follows the rules of    *)
(* the language and, to be run, defines a main: every failure reaches      *)
(* lilc_eval and lilc_emit and none is made up.  The one exception is a    *)
(* variable outside of any function, which the table of the last function  *)
(* may know.                                                               *)
THEOREM AcceptsExactly == Spec => []AcceptsWellScoped
<1>1. Init => TypeInv /\ DoomInv /\ ScopeInv /\ VInv /\ PInv
  BY InitType, InitDoom, InitScope, InitV, InitP
<1>2. TypeInv /\ DoomInv /\ ScopeInv /\ VInv /\ PInv /\ [Next]_vars
        => TypeInv' /\ DoomInv' /\ ScopeInv' /\ VInv' /\ PInv'
  BY TypeStep, DoomStep, ScopeStep, VInvStep, PInvStep
<1>3. TypeInv /\ PInv => AcceptsWellScoped
  BY InvAccepts
<1> QED
  BY <1>1, <1>2, <1>3, PTL DEF Spec
=============================================================================
