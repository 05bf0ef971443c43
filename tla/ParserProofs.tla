---------------------------- MODULE ParserProofs ----------------------------
(***************************************************************************)
(* Proofs about Parser, for every Supply, MaxTokens and MAX_FUNC_PARAMS.   *)
(***************************************************************************)
EXTENDS Parser, NatLemmas, SequenceTheorems, TLAPS

(* Frames and nodes whose pointers are NULL or one of the first k nodes. *)
FrameOf(k) == [pc: Labels, rbp: 0..10, op: TokType, left: 0..k,
               kids: Seq(0..k), name: Nat, params: Seq(Nat), first: Nat]
NodeOf(k) == [type: NodeType, op: TokType, name: Nat, kids: Seq(0..k),
              params: Seq(Nat), paren: Nat, first: Nat, last: Nat]

Base == {"program", "parsed"}

TokInv == /\ tok \in TokType
          /\ input \in Seq(TokType)
          /\ input # <<>> => tok = input[Len(input)]
          /\ ub \subseteq {"overread", "vtable", "params", "args", "cast"}
          /\ status \in {"running", "accepted", "died", "killed"}

HeapInv == /\ nodes \in Seq(NodeOf(Len(nodes)))
           /\ ret \in 0..Len(nodes)
           /\ err \in ErrMsg \cup {"unset"}

(* Only the bottom frame, that of parse(), is never returned from. *)
IsStack(s, k) == /\ s \in Seq(FrameOf(k))
                 /\ Len(s) >= 1
                 /\ \A i \in 1..Len(s) : i = 1 <=> s[i].pc \in Base

StackInv == IsStack(stack, Len(nodes))

TypeInv == TokInv /\ HeapInv /\ StackInv

(* The first token is read before anything is called. *)
Started == Top.pc # "program" => Len(input) >= 1

-----------------------------------------------------------------------------
(* Sequences.                                                              *)

LEMMA SeqMono == ASSUME NEW S, NEW T, S \subseteq T PROVE Seq(S) \subseteq Seq(T)
  OBVIOUS

LEMMA FrameMono ==
  ASSUME NEW j \in Nat, NEW k \in Nat, j <= k
  PROVE  FrameOf(j) \subseteq FrameOf(k) /\ NodeOf(j) \subseteq NodeOf(k)
<1>1. 0..j \subseteq 0..k
  OBVIOUS
<1>2. Seq(0..j) \subseteq Seq(0..k)
  BY <1>1, SeqMono
<1> QED
  BY <1>1, <1>2 DEF FrameOf, NodeOf

LEMMA lbpType == lbp \in [TokType -> 0..10]
  BY DEF lbp

(* What Resume, Call and Return make of the stack. *)
LEMMA ResumeType ==
  ASSUME NEW S, stack \in Seq(S), Len(stack) >= 1, NEW f \in S
  PROVE  /\ Resume(f) \in Seq(S)
         /\ Len(Resume(f)) = Len(stack)
         /\ Resume(f)[Len(stack)] = f
         /\ \A i \in 1..(Len(stack) - 1) : Resume(f)[i] = stack[i]
  BY DEF Resume

LEMMA AppendType ==
  ASSUME NEW S, NEW s \in Seq(S), NEW f \in S
  PROVE  /\ Append(s, f) \in Seq(S)
         /\ Len(Append(s, f)) = Len(s) + 1
         /\ Append(s, f)[Len(s) + 1] = f
         /\ \A i \in 1..Len(s) : Append(s, f)[i] = s[i]
  OBVIOUS

LEMMA PopType ==
  ASSUME NEW S, NEW s \in Seq(S), Len(s) >= 2
  PROVE  /\ SubSeq(s, 1, Len(s) - 1) \in Seq(S)
         /\ Len(SubSeq(s, 1, Len(s) - 1)) = Len(s) - 1
         /\ \A i \in 1..(Len(s) - 1) : SubSeq(s, 1, Len(s) - 1)[i] = s[i]
  OBVIOUS
-----------------------------------------------------------------------------
(* What the parts of an action do to the invariant.                        *)

Undefs == {"overread", "vtable", "params", "args", "cast"}

LEMMA ScanType ==
  ASSUME TokInv, NEW undef \in SUBSET Undefs, Scan(undef)
  PROVE  TokInv' /\ Len(input') = Len(input) + 1
<1>1. PICK c \in Available \cup {"EOS"} :
        /\ tok' = c
        /\ input' = Append(input, c)
        /\ status' = IF c = "ERR" THEN "died" ELSE status
        /\ ub' = ub \cup undef \cup (IF tok = "EOS" THEN {"overread"} ELSE {})
  BY DEF Scan
<1>2. c \in TokType
  BY DEF Available, TokType
<1> QED
  BY <1>1, <1>2 DEF TokInv, Undefs

LEMMA NoScanType == ASSUME TokInv, NoScan PROVE TokInv'
  BY DEF TokInv, NoScan

LEMMA NodesLen == ASSUME TypeInv PROVE Len(nodes) \in Nat
<1>1. nodes \in Seq(NodeOf(Len(nodes)))
  BY DEF TypeInv, HeapInv
<1> QED
  BY <1>1, LenProperties

LEMMA StackMono ==
  ASSUME NEW s, NEW j \in Nat, NEW k \in Nat, j <= k, IsStack(s, j)
  PROVE  IsStack(s, k)
  BY FrameMono, SeqMono DEF IsStack

LEMMA StackTop ==
  ASSUME NEW k \in Nat, IsStack(stack, k)
  PROVE  /\ Top \in FrameOf(k)
         /\ Len(stack) \in Nat /\ Len(stack) >= 1
         /\ Top.pc \notin Base => Len(stack) >= 2
  BY DEF IsStack, Top

LEMMA StackResume ==
  ASSUME NEW k \in Nat, IsStack(stack, k), NEW f \in FrameOf(k),
         f.pc \in Base <=> Top.pc \in Base
  PROVE  IsStack(Resume(f), k)
<1>1. stack \in Seq(FrameOf(k)) /\ Len(stack) >= 1
  BY DEF IsStack
<1>2. /\ Resume(f) \in Seq(FrameOf(k))
      /\ Len(Resume(f)) = Len(stack)
      /\ Resume(f)[Len(stack)] = f
      /\ \A i \in 1..(Len(stack) - 1) : Resume(f)[i] = stack[i]
  BY <1>1, ResumeType
<1>3. ASSUME NEW i \in 1..Len(stack)
      PROVE  i = 1 <=> Resume(f)[i].pc \in Base
  <2>1. CASE i = Len(stack)
    BY <1>1, <1>2, <2>1 DEF IsStack, Top
  <2>2. CASE i # Len(stack)
    BY <1>1, <1>2, <2>2 DEF IsStack
  <2> QED
    BY <2>1, <2>2
<1> QED
  BY <1>1, <1>2, <1>3 DEF IsStack

LEMMA StackPush ==
  ASSUME NEW k \in Nat, NEW s, IsStack(s, k), NEW g \in FrameOf(k),
         g.pc \notin Base
  PROVE  IsStack(Append(s, g), k)
<1>1. s \in Seq(FrameOf(k)) /\ Len(s) >= 1
  BY DEF IsStack
<1>2. /\ Append(s, g) \in Seq(FrameOf(k))
      /\ Len(Append(s, g)) = Len(s) + 1
      /\ Append(s, g)[Len(s) + 1] = g
      /\ \A i \in 1..Len(s) : Append(s, g)[i] = s[i]
  BY <1>1, AppendType
<1>3. ASSUME NEW i \in 1..(Len(s) + 1)
      PROVE  i = 1 <=> Append(s, g)[i].pc \in Base
  <2>1. CASE i = Len(s) + 1
    BY <1>1, <1>2, <2>1
  <2>2. CASE i # Len(s) + 1
    BY <1>1, <1>2, <2>2 DEF IsStack
  <2> QED
    BY <2>1, <2>2
<1> QED
  BY <1>1, <1>2, <1>3 DEF IsStack

LEMMA StackPop ==
  ASSUME NEW k \in Nat, IsStack(stack, k), Top.pc \notin Base
  PROVE  IsStack(SubSeq(stack, 1, Len(stack) - 1), k)
<1>1. stack \in Seq(FrameOf(k)) /\ Len(stack) >= 2
  BY StackTop DEF IsStack
<1>2. /\ SubSeq(stack, 1, Len(stack) - 1) \in Seq(FrameOf(k))
      /\ Len(SubSeq(stack, 1, Len(stack) - 1)) = Len(stack) - 1
      /\ \A i \in 1..(Len(stack) - 1) :
           SubSeq(stack, 1, Len(stack) - 1)[i] = stack[i]
  BY <1>1, PopType
<1> QED
  BY <1>1, <1>2 DEF IsStack

LEMMA HeapReturn ==
  ASSUME TypeInv, NEW n \in NodeOf(Len(nodes) + 1), nodes' = Append(nodes, n),
         ret' = Len(nodes) + 1, UNCHANGED err
  PROVE  HeapInv' /\ Len(nodes') = Len(nodes) + 1
<1>1. nodes \in Seq(NodeOf(Len(nodes) + 1)) /\ Len(nodes) \in Nat
  <2>1. Len(nodes) \in Nat /\ nodes \in Seq(NodeOf(Len(nodes)))
    BY NodesLen DEF TypeInv, HeapInv
  <2>2. NodeOf(Len(nodes)) \subseteq NodeOf(Len(nodes) + 1)
    BY <2>1, FrameMono
  <2> QED
    BY <2>1, <2>2, SeqMono
<1> QED
  BY <1>1, AppendType DEF TypeInv, HeapInv

LEMMA EmptyKids == ASSUME NEW S PROVE <<>> \in Seq(S)
  OBVIOUS

LEMMA NewFrameType ==
  ASSUME NEW pc \in Labels, NEW first \in Nat, NEW k \in Nat
  PROVE  NewFrame(pc, first) \in FrameOf(k) /\ NewFrame(pc, first).pc = pc
<1>1. "EOS" \in TokType
  BY DEF TokType
<1> QED
  BY <1>1, EmptyKids DEF NewFrame, FrameOf, NULL

LEMMA ExpressionType ==
  ASSUME NEW rbp \in 0..10, NEW first \in Nat, NEW k \in Nat
  PROVE  /\ Expression(rbp, first) \in FrameOf(k)
         /\ Expression(rbp, first).pc = "expr"
         /\ Expression(rbp, first).rbp = rbp
<1>1. "EOS" \in TokType /\ "expr" \in Labels
  BY DEF TokType, Labels
<1>2. Expression(rbp, first) =
        [pc |-> "expr", rbp |-> rbp, op |-> "EOS", left |-> NULL,
         kids |-> <<>>, name |-> 0, params |-> <<>>, first |-> first]
  BY DEF Expression, NewFrame
<1> QED
  BY <1>1, <1>2, EmptyKids DEF FrameOf, NULL

LEMMA NewNodeType ==
  ASSUME NEW type \in NodeType, NEW op \in TokType, NEW k \in Nat,
         NEW name \in Nat, NEW kids \in Seq(0..k), NEW params \in Seq(Nat),
         NEW first \in Nat, NEW last \in Nat
  PROVE  NewNode(type, op, name, kids, params, first, last) \in NodeOf(k)
  BY DEF NewNode, NodeOf

LEMMA InputLen == ASSUME TokInv PROVE Len(input) \in Nat
  BY DEF TokInv

LEMMA FrameFields ==
  ASSUME NEW k \in Nat, NEW f \in FrameOf(k)
  PROVE  /\ f.pc \in Labels /\ f.rbp \in 0..10 /\ f.op \in TokType
         /\ f.left \in 0..k /\ f.kids \in Seq(0..k) /\ f.name \in Nat
         /\ f.params \in Seq(Nat) /\ f.first \in Nat
  BY DEF FrameOf

LEMMA TopType == ASSUME TypeInv
                 PROVE  /\ Len(nodes) \in Nat
                        /\ IsStack(stack, Len(nodes))
                        /\ Top \in FrameOf(Len(nodes))
  BY NodesLen, StackTop DEF TypeInv, StackInv

LEMMA HeapUnchanged == ASSUME TypeInv, UNCHANGED <<ret, nodes, err>>
                       PROVE  HeapInv'
  BY DEF TypeInv, HeapInv

LEMMA GotoType ==
  ASSUME TypeInv, NEW pc \in Labels, pc \in Base <=> Top.pc \in Base, Goto(pc),
         UNCHANGED nodes
  PROVE  StackInv'
<1>1. [Top EXCEPT !.pc = pc] \in FrameOf(Len(nodes)) /\ [Top EXCEPT !.pc = pc].pc = pc
  BY TopType DEF FrameOf
<1>2. IsStack(Resume([Top EXCEPT !.pc = pc]), Len(nodes))
  BY <1>1, TopType, StackResume
<1> QED
  BY <1>2 DEF Goto, StackInv

LEMMA ResumeTypeInv ==
  ASSUME TypeInv, NEW f \in FrameOf(Len(nodes)), f.pc \notin Base,
         Top.pc \notin Base, stack' = Resume(f), UNCHANGED nodes
  PROVE  StackInv'
<1>1. IsStack(Resume(f), Len(nodes))
  BY TopType, StackResume
<1> QED
  BY <1>1 DEF StackInv

LEMMA CallType ==
  ASSUME TypeInv, NEW f \in FrameOf(Len(nodes)), f.pc \in Base <=> Top.pc \in Base,
         NEW g \in FrameOf(Len(nodes)), g.pc \notin Base, Call(f, g),
         UNCHANGED nodes
  PROVE  StackInv'
<1>1. IsStack(Resume(f), Len(nodes))
  BY TopType, StackResume
<1>2. IsStack(Append(Resume(f), g), Len(nodes))
  BY <1>1, TopType, StackPush
<1> QED
  BY <1>2 DEF Call, StackInv

LEMMA ReturnType ==
  ASSUME TypeInv, Top.pc \notin Base, NEW v, Return(v), UNCHANGED nodes
  PROVE  StackInv'
  BY TopType, StackPop DEF Return, StackInv

LEMMA FailType ==
  ASSUME TypeInv, Top.pc \notin Base, NEW msg \in ErrMsg, Fail(msg),
         UNCHANGED nodes
  PROVE  HeapInv' /\ StackInv'
<1>1. StackInv'
  BY ReturnType DEF Fail
<1>2. HeapInv'
  BY TopType DEF Fail, Return, NULL, TypeInv, HeapInv
<1> QED
  BY <1>1, <1>2

LEMMA ReturnNodeType ==
  ASSUME TypeInv, Top.pc \notin Base, NEW n \in NodeOf(Len(nodes)),
         ReturnNode(n), UNCHANGED err
  PROVE  HeapInv' /\ StackInv'
<1>1. Len(nodes) \in Nat /\ n \in NodeOf(Len(nodes) + 1)
  BY TopType, FrameMono
<1>2. HeapInv' /\ Len(nodes') = Len(nodes) + 1
  BY <1>1, HeapReturn DEF ReturnNode, Return
<1>3. IsStack(SubSeq(stack, 1, Len(stack) - 1), Len(nodes))
  BY TopType, StackPop
<1>4. IsStack(SubSeq(stack, 1, Len(stack) - 1), Len(nodes) + 1)
  BY <1>1, <1>3, StackMono
<1> QED
  BY <1>2, <1>4 DEF ReturnNode, Return, StackInv

LEMMA ConsumeType == ASSUME TypeInv, NEW pc, Consume(pc)
                     PROVE  TokInv' /\ At(pc)
  BY ScanType DEF Consume, TypeInv, Undefs

(* The four ways in which an action goes on, with well-typed arguments.    *)
LEMMA FailStep ==
  ASSUME TypeInv, TokInv', Top.pc \notin Base, NEW msg \in ErrMsg, Fail(msg),
         UNCHANGED nodes
  PROVE  TypeInv'
  BY FailType DEF TypeInv

LEMMA NodeStep ==
  ASSUME TypeInv, TokInv', Top.pc \notin Base, NEW type \in NodeType,
         NEW name \in Nat, NEW kids \in Seq(0..Len(nodes)),
         NEW params \in Seq(Nat), NEW first \in Nat, NEW last \in Nat,
         ReturnNode(NewNode(type, "EOS", name, kids, params, first, last)),
         UNCHANGED err
  PROVE  TypeInv'
<1>1. "EOS" \in TokType
  BY DEF TokType
<1>2. NewNode(type, "EOS", name, kids, params, first, last) \in NodeOf(Len(nodes))
  BY <1>1, TopType, NewNodeType
<1> QED
  BY <1>2, ReturnNodeType DEF TypeInv

LEMMA CallStep ==
  ASSUME TypeInv, TokInv', Top.pc \notin Base, NEW pc \in Labels \ Base,
         NEW g \in FrameOf(Len(nodes)), g.pc \notin Base,
         Call([Top EXCEPT !.pc = pc], g), UNCHANGED <<ret, nodes, err>>
  PROVE  TypeInv'
<1>1. [Top EXCEPT !.pc = pc] \in FrameOf(Len(nodes)) /\ [Top EXCEPT !.pc = pc].pc = pc
  BY TopType DEF FrameOf
<1> QED
  BY <1>1, CallType, HeapUnchanged DEF TypeInv

LEMMA ResumeStep ==
  ASSUME TypeInv, TokInv', Top.pc \notin Base, NEW f \in FrameOf(Len(nodes)),
         f.pc \notin Base, stack' = Resume(f), UNCHANGED <<ret, nodes, err>>
  PROVE  TypeInv'
  BY ResumeTypeInv, HeapUnchanged DEF TypeInv

LEMMA KidsType ==
  ASSUME NEW k \in Nat, NEW kids \in Seq(0..k), NEW kid \in 0..k
  PROVE  Append(kids, kid) \in Seq(0..k)
  BY AppendType

-----------------------------------------------------------------------------
(* Every step of the parser keeps the types: a frame or a node only ever   *)
(* points to nodes that exist, and the frame of parse() is never popped.   *)
LEMMA TypeStep == ASSUME TypeInv, Started, [Next]_vars PROVE TypeInv'
<1> USE DEF At
<1> DEFINE k == Len(nodes)
<1>k. /\ k \in Nat /\ Len(input) \in Nat
      /\ Top \in FrameOf(k)
      /\ TokInv /\ HeapInv /\ IsStack(stack, k)
  BY TopType, InputLen DEF TypeInv
<1>f. /\ Top.pc \in Labels /\ Top.rbp \in 0..10 /\ Top.op \in TokType
      /\ Top.left \in 0..k /\ Top.kids \in Seq(0..k) /\ Top.name \in Nat
      /\ Top.params \in Seq(Nat) /\ Top.first \in Nat
  BY <1>k, FrameFields
<1>e. 0 \in Nat /\ <<>> \in Seq(Nat)
  BY EmptyKids
<1>r. ret \in 0..k /\ tok \in TokType
  BY <1>k DEF HeapInv, TokInv
<1>p. ASSUME NEW pc \in Labels
      PROVE  [Top EXCEPT !.pc = pc] \in FrameOf(k)
             /\ [Top EXCEPT !.pc = pc].pc = pc
  BY <1>k DEF FrameOf
<1>b. ASSUME NEW first \in Nat
      PROVE  /\ NewFrame("stmts", first) \in FrameOf(k)
             /\ NewFrame("stmts", first).pc = "stmts"
  <2>1. "stmts" \in Labels
    BY DEF Labels
  <2> QED
    BY <1>k, <2>1, NewFrameType
<1>1. CASE EnterLeaf
  <2>1. TokInv'
    BY <1>1, <1>k, ScanType DEF EnterLeaf
  <2>2. Leaf(IF tok = "DBL" THEN "DBL" ELSE "VAR") \in NodeOf(k + 1)
    <3> DEFINE type == IF tok = "DBL" THEN "DBL" ELSE "VAR"
    <3>1. type \in NodeType /\ "EOS" \in TokType
      BY DEF NodeType, TokType
    <3>2. /\ k + 1 \in Nat /\ <<>> \in Seq(0..(k + 1))
          /\ (IF type = "VAR" THEN Len(input) ELSE 0) \in Nat
      BY <1>k, EmptyKids
    <3> HIDE DEF type, k
    <3>3. NewNode(type, "EOS", IF type = "VAR" THEN Len(input) ELSE 0, <<>>, <<>>,
                  Len(input), Len(input)) \in NodeOf(k + 1)
      BY <1>k, <1>e, <3>1, <3>2, NewNodeType
    <3> QED
      BY <3>3 DEF Leaf, type
  <2>3. HeapInv' /\ Len(nodes') = k + 1
    BY <1>1, <2>2, HeapReturn DEF EnterLeaf
  <2>4. [Top EXCEPT !.pc = "loop"] \in FrameOf(k)
        /\ [Top EXCEPT !.pc = "loop"].pc = "loop"
    BY <1>p DEF Labels
  <2>5. IsStack(Resume([Top EXCEPT !.pc = "loop"]), k)
    BY <1>1, <1>k, <2>4, StackResume DEF EnterLeaf, Base
  <2>6. IsStack(Resume([Top EXCEPT !.pc = "loop"]), k + 1)
    BY <1>k, <2>5, StackMono
  <2> QED
    BY <1>1, <2>1, <2>3, <2>6 DEF EnterLeaf, Goto, TypeInv, StackInv
<1>2. CASE EnterPrefix
  <2>1. TokInv' /\ HeapInv'
    BY <1>2, <1>k, ScanType, HeapUnchanged DEF EnterPrefix
  <2>2. /\ [Top EXCEPT !.pc = "loop"] \in FrameOf(k)
        /\ [Top EXCEPT !.pc = "loop"].pc = "loop"
    BY <1>p DEF Labels
  <2>3. PICK g \in FrameOf(k) :
          /\ g.pc \in {"if", "def"}
          /\ Call([Top EXCEPT !.pc = "loop"], g)
    <3>1. (IF tok = "IF" THEN "if" ELSE "def") \in Labels
      BY DEF Labels, Waiting
    <3> QED
      BY <1>2, <1>f, <1>k, <3>1, NewFrameType DEF EnterPrefix
  <2>4. StackInv'
    BY <1>2, <2>2, <2>3, CallType DEF EnterPrefix, Base
  <2> QED
    BY <2>1, <2>4 DEF TypeInv
<1>3. CASE EnterParen
  <2>1. TokInv' /\ HeapInv'
    BY <1>3, <1>k, ScanType, HeapUnchanged DEF EnterParen
  <2>2. /\ [Top EXCEPT !.pc = "loop"] \in FrameOf(k)
        /\ [Top EXCEPT !.pc = "loop"].pc = "loop"
    BY <1>p DEF Labels
  <2>3. IsStack(Resume([Top EXCEPT !.pc = "loop"]), k)
    BY <1>3, <1>k, <2>2, StackResume DEF EnterParen, Base
  <2>4. /\ NewFrame("paren", Top.first) \in FrameOf(k)
        /\ NewFrame("paren", Top.first).pc = "paren"
    BY <1>k, <1>f, NewFrameType DEF Labels, Waiting
  <2>5. /\ Expression(0, Len(input) + 1) \in FrameOf(k)
        /\ Expression(0, Len(input) + 1).pc = "expr"
    BY <1>k, ExpressionType
  <2>6. IsStack(Append(Append(Resume([Top EXCEPT !.pc = "loop"]),
                              NewFrame("paren", Top.first)),
                       Expression(0, Len(input) + 1)), k)
    BY <1>k, <2>3, <2>4, <2>5, StackPush DEF Base
  <2>7. stack' = Append(Append(Resume([Top EXCEPT !.pc = "loop"]),
                               NewFrame("paren", Top.first)),
                        Expression(0, Len(input) + 1))
    BY <1>3, <2>3, <2>4, <2>5 DEF EnterParen, CallParen, IsStack
  <2> QED
    BY <1>3, <2>1, <2>6, <2>7 DEF EnterParen, TypeInv, StackInv
<1>4. CASE NoPrefix
  <2>1. TokInv'
    BY <1>4, <1>k, ScanType DEF NoPrefix, ScanThenFail, Undef, Undefs
  <2>2. CASE UNCHANGED <<stack, ret, err>>
    BY <1>4, <1>k, <2>1, <2>2 DEF NoPrefix, TypeInv, HeapInv, StackInv
  <2>3. CASE ~UNCHANGED <<stack, ret, err>>
    <3>1. HeapInv' /\ StackInv'
      BY <1>4, <2>3, FailType DEF NoPrefix, ScanThenFail, Base, ErrMsg
    <3> QED
      BY <2>1, <3>1 DEF TypeInv
  <2> QED
    BY <2>2, <2>3
<1>5. CASE Infix
  <2> DEFINE f == [NewFrame("right", Top.first) EXCEPT !.op = tok, !.left = ret]
  <2>1. TokInv' /\ HeapInv'
    BY <1>5, <1>k, ScanType, HeapUnchanged DEF Infix
  <2>2. /\ f \in FrameOf(k) /\ f.pc = "right"
        /\ [f EXCEPT !.pc = "args"] \in FrameOf(k)
        /\ [f EXCEPT !.pc = "args"].pc = "args"
    <3>1. "right" \in Labels /\ "args" \in Labels
      BY DEF Labels
    <3>2. NewFrame("right", Top.first) \in FrameOf(k)
          /\ NewFrame("right", Top.first).pc = "right"
      BY <1>k, <1>f, <3>1, NewFrameType
    <3> HIDE DEF k
    <3>3. f \in FrameOf(k) /\ f.pc = "right"
      BY <1>r, <3>2 DEF FrameOf
    <3>4. ASSUME NEW g \in FrameOf(k)
          PROVE  [g EXCEPT !.pc = "args"] \in FrameOf(k)
                 /\ [g EXCEPT !.pc = "args"].pc = "args"
      BY <3>1 DEF FrameOf
    <3> HIDE DEF f
    <3> QED
      BY <3>3, <3>4
  <2>3. CASE stack' = stack \o <<f, Expression(lbp[tok], Len(input) + 1)>>
    <3>1. /\ Expression(lbp[tok], Len(input) + 1) \in FrameOf(k)
          /\ Expression(lbp[tok], Len(input) + 1).pc = "expr"
      <4>1. lbp[tok] \in 0..10
        BY <1>r, lbpType
      <4> QED
        BY <1>k, <4>1, ExpressionType
    <3>2. IsStack(Append(Append(stack, f), Expression(lbp[tok], Len(input) + 1)), k)
      BY <1>k, <2>2, <3>1, StackPush DEF Base
    <3>3. stack' = Append(Append(stack, f), Expression(lbp[tok], Len(input) + 1))
      BY <2>3, <1>k, <2>2, <3>1 DEF IsStack
    <3> QED
      BY <1>5, <3>2, <3>3, <2>1 DEF Infix, TypeInv, StackInv
  <2>4. CASE stack' = Append(stack, [f EXCEPT !.pc = "args"])
    <3>1. IsStack(Append(stack, [f EXCEPT !.pc = "args"]), k)
      BY <1>k, <2>2, StackPush DEF Base
    <3> QED
      BY <1>5, <3>1, <2>4, <2>1 DEF Infix, TypeInv, StackInv
  <2> QED
    BY <1>5, <2>3, <2>4 DEF Infix
<1>6. CASE LoopEnds
  <2>1. TokInv'
    BY <1>6, <1>k DEF LoopEnds, TokInv, Undef, Undefs
  <2>2. StackInv'
    BY <1>6, ReturnType DEF LoopEnds, Base
  <2>3. HeapInv'
    BY <1>6, <1>k, HeapUnchanged DEF LoopEnds, Return
  <2> QED
    BY <2>1, <2>2, <2>3 DEF TypeInv
<1>7. CASE LoopPastTable
  <2>1. TokInv'
    BY <1>7, <1>k, ScanType DEF LoopPastTable, ScanThenFail, Undef, Undefs
  <2>2. CASE UNCHANGED <<stack, ret, err>>
    BY <1>7, <1>k, <2>1, <2>2 DEF LoopPastTable, TypeInv, HeapInv, StackInv
  <2>3. CASE ~UNCHANGED <<stack, ret, err>>
    <3>1. HeapInv' /\ StackInv'
      BY <1>7, <2>3, FailType DEF LoopPastTable, ScanThenFail, Base, ErrMsg
    <3> QED
      BY <2>1, <3>1 DEF TypeInv
  <2> QED
    BY <2>2, <2>3
<1>8. CASE BinOp
  <2>1. TokInv'
    BY <1>8, <1>k, NoScanType DEF BinOp
  <2>2. CASE ret = NULL
    <3>1. HeapInv' /\ StackInv'
      BY <1>8, <2>2, FailType DEF BinOp, Base, ErrMsg
    <3> QED
      BY <2>1, <3>1 DEF TypeInv
  <2>3. CASE ret # NULL
    <3>1. BinNode(Top.left, ret) \in NodeOf(k)
      <4>1. <<Top.left, ret>> \in Seq(0..k)
        BY <1>f, <1>r
      <4>2. Len(input) - 1 \in Nat
        BY <1>8, <1>k DEF BinOp, Started
      <4>3. "BIN" \in NodeType
        BY DEF NodeType
      <4> HIDE DEF k
      <4>4. NewNode("BIN", Top.op, 0, <<Top.left, ret>>, <<>>, Top.first,
                    Len(input) - 1) \in NodeOf(k)
        BY <1>k, <1>f, <1>e, <4>1, <4>2, <4>3, NewNodeType
      <4> QED
        BY <4>4 DEF BinNode, Bin
    <3>2. HeapInv' /\ StackInv'
      BY <1>8, <2>3, <3>1, ReturnNodeType DEF BinOp, Base
    <3> QED
      BY <2>1, <3>2 DEF TypeInv
  <2> QED
    BY <2>2, <2>3
<1>9. CASE NextArg
  <2>1. TokInv'
    BY <1>9, <1>k, NoScanType DEF NextArg
  <2>2. /\ Expression(0, Len(input)) \in FrameOf(k)
        /\ Expression(0, Len(input)).pc = "expr"
    BY <1>k, ExpressionType
  <2>3. "arg" \in Labels \ Base
    BY DEF Labels, Base
  <2> QED
    BY <1>9, <2>1, <2>2, <2>3, CallStep DEF NextArg, Base
<1>10. CASE StoreArg
  <2>1. TokInv'
    BY <1>10, <1>k DEF StoreArg, TokInv
  <2>2. CASE ret = NULL
    BY <1>10, <2>1, <2>2, FailStep DEF StoreArg, Base, ErrMsg
  <2>3. CASE ret # NULL
    <3>1. "more_args" \in Labels /\ Append(Top.kids, ret) \in Seq(0..k)
      BY <1>k, <1>f, <1>r, KidsType DEF Labels
    <3>2. stack' = Resume([Top EXCEPT !.pc = "more_args",
                                      !.kids = Append(Top.kids, ret)])
      BY <1>10, <2>3, <1>k DEF StoreArg, FrameOf
    <3> HIDE DEF k
    <3>3. /\ [Top EXCEPT !.pc = "more_args", !.kids = Append(Top.kids, ret)]
               \in FrameOf(k)
          /\ [Top EXCEPT !.pc = "more_args", !.kids = Append(Top.kids, ret)].pc
               = "more_args"
      BY <1>k, <3>1 DEF FrameOf
    <3> QED
      BY <1>10, <2>1, <2>3, <3>2, <3>3, ResumeStep DEF StoreArg, Base, k
  <2> QED
    BY <2>2, <2>3
<1>11. CASE OptionalComma
  <2>1. TokInv'
    BY <1>11, <1>k, ScanType, NoScanType DEF OptionalComma, Undefs
  <2>2. StackInv'
    BY <1>11, GotoType DEF OptionalComma, Labels, Base
  <2> QED
    BY <1>11, <2>1, <2>2, HeapUnchanged DEF OptionalComma, TypeInv
<1>12. CASE CloseCall
  <2>1. TokInv'
    BY <1>12, <1>k, ScanType DEF CloseCall, Undefs
  <2>2. "CALL" \in NodeType
    BY DEF NodeType
  <2> DEFINE name == IF HasName(Top.left) THEN nodes[Top.left].name ELSE 0
  <2>3. name \in Nat
    <3>1. Top.left \in 1..k
      BY <1>12, <1>k, <1>f DEF CloseCall, NULL
    <3>2. nodes[Top.left] \in NodeOf(k)
      BY <1>k, <3>1 DEF HeapInv
    <3> QED
      BY <3>2 DEF NodeOf
  <2>4. ReturnNode(NewNode("CALL", "EOS", name, Top.kids, <<>>, Top.first, Len(input)))
    BY <1>12 DEF CloseCall
  <2> HIDE DEF name
  <2> QED
    BY <1>12, <1>k, <1>f, <1>e, <2>1, <2>2, <2>3, <2>4, NodeStep DEF CloseCall, Base
<1>13. CASE CallDies
  BY <1>13, <1>k DEF CallDies, TypeInv, TokInv, HeapInv, StackInv
<1>14. CASE CloseParen
  <2>1. TokInv' /\ Top.pc = "paren"
    BY <1>14, ConsumeType DEF CloseParen
  <2>2. nodes' \in Seq(NodeOf(k)) /\ Len(nodes') = k
    <3>1. CASE ret = NULL
      BY <1>14, <1>k, <3>1 DEF CloseParen, HeapInv
    <3>2. CASE ret # NULL
      <4> DEFINE n == [nodes[ret] EXCEPT !.paren = @ + 1, !.first = Top.first,
                                         !.last = Len(input)]
      <4>1. nodes \in Seq(NodeOf(k)) /\ ret \in 1..k
        BY <1>k, <3>2 DEF HeapInv, NULL
      <4>2. nodes[ret] \in NodeOf(k)
        BY <4>1
      <4>3. n \in NodeOf(k)
        <5> HIDE DEF k
        <5>1. ASSUME NEW m \in NodeOf(k), NEW p \in Nat
              PROVE  [m EXCEPT !.paren = p, !.first = Top.first,
                               !.last = Len(input)] \in NodeOf(k)
          BY <1>k, <1>f DEF NodeOf
        <5>2. nodes[ret].paren + 1 \in Nat
          BY <4>2 DEF NodeOf
        <5>3. n = [nodes[ret] EXCEPT !.paren = nodes[ret].paren + 1,
                                     !.first = Top.first, !.last = Len(input)]
          BY <4>2 DEF NodeOf
        <5> QED
          BY <4>2, <5>1, <5>2, <5>3
      <4>4. nodes' = [nodes EXCEPT ![ret] = n]
        BY <1>14, <3>2, <4>1, <4>2 DEF CloseParen, NodeOf
      <4> HIDE DEF n
      <4> QED
        BY <4>1, <4>3, <4>4
    <3> QED
      BY <3>1, <3>2
  <2>3. HeapInv'
    BY <1>14, <1>k, <2>2 DEF CloseParen, Return, HeapInv
  <2>4. IsStack(SubSeq(stack, 1, Len(stack) - 1), k)
    BY <1>k, <2>1, StackPop DEF Base
  <2>5. StackInv'
    BY <1>14, <2>2, <2>4 DEF CloseParen, Return, StackInv
  <2> QED
    BY <2>1, <2>3, <2>5 DEF TypeInv
<1>15. CASE IfOpen
  <2>1. TokInv' /\ Top.pc = "if"
    BY <1>15, ConsumeType DEF IfOpen
  <2>2. /\ Expression(0, Len(input) + 1) \in FrameOf(k)
        /\ Expression(0, Len(input) + 1).pc = "expr"
    BY <1>k, ExpressionType
  <2>3. "cond" \in Labels \ Base
    BY DEF Labels, Waiting, Base
  <2> QED
    BY <1>15, <2>1, <2>2, <2>3, CallStep DEF IfOpen, Base
<1>16. CASE IfCond
  <2>1. TokInv' /\ Top.pc = "cond"
    BY <1>16, ConsumeType DEF IfCond
  <2>2. "then_open" \in Labels /\ <<ret>> \in Seq(0..k)
    BY <1>r DEF Labels, Waiting
  <2> HIDE DEF k
  <2>3. /\ [Top EXCEPT !.pc = "then_open", !.kids = <<ret>>] \in FrameOf(k)
        /\ [Top EXCEPT !.pc = "then_open", !.kids = <<ret>>].pc = "then_open"
    BY <1>k, <2>2 DEF FrameOf
  <2> QED
    BY <1>16, <2>1, <2>3, ResumeStep DEF IfCond, Base, k
<1>17. CASE IfThenOpen
  <2>1. TokInv' /\ Top.pc = "then_open"
    BY <1>17, ConsumeType DEF IfThenOpen
  <2>2. /\ NewFrame("stmts", Len(input) + 1) \in FrameOf(k)
        /\ NewFrame("stmts", Len(input) + 1).pc = "stmts"
    BY <1>k, <1>b
  <2>3. "then" \in Labels \ Base
    BY DEF Labels, Waiting, Base
  <2> QED
    BY <1>17, <2>1, <2>2, <2>3, CallStep DEF IfThenOpen, Base
<1>18. CASE IfThen
  <2>1. TokInv' /\ Top.pc = "then"
    BY <1>18, ConsumeType DEF IfThen
  <2>2. "else?" \in Labels /\ Append(Top.kids, ret) \in Seq(0..k)
    BY <1>k, <1>f, <1>r, KidsType DEF Labels
  <2>3. stack' = Resume([Top EXCEPT !.pc = "else?",
                                    !.kids = Append(Top.kids, ret)])
    BY <1>18, <1>k DEF IfThen, FrameOf
  <2> HIDE DEF k
  <2>4. /\ [Top EXCEPT !.pc = "else?", !.kids = Append(Top.kids, ret)] \in FrameOf(k)
        /\ [Top EXCEPT !.pc = "else?", !.kids = Append(Top.kids, ret)].pc = "else?"
    BY <1>k, <2>2 DEF FrameOf
  <2> QED
    BY <1>18, <2>1, <2>3, <2>4, ResumeStep DEF IfThen, Base, k
<1>19. CASE IfElse
  <2>1. TokInv'
    BY <1>19, <1>k, ScanType, NoScanType DEF IfElse, Undefs
  <2>2. CASE tok = "ELSE"
    <3>1. StackInv'
      BY <1>19, <2>2, GotoType DEF IfElse, Labels, Waiting, Base
    <3> QED
      BY <1>19, <2>1, <2>2, <3>1, HeapUnchanged DEF IfElse, TypeInv
  <2>3. CASE tok # "ELSE"
    <3>1. /\ "IF" \in NodeType /\ Append(Top.kids, NULL) \in Seq(0..k)
          /\ Len(input) - 1 \in Nat
      BY <1>19, <1>k, <1>f, KidsType DEF IfElse, Started, NodeType, NULL
    <3>2. ReturnNode(NewNode("IF", "EOS", 0, Append(Top.kids, NULL), <<>>,
                             Top.first, Len(input) - 1))
      BY <1>19, <2>3 DEF IfElse, IfNode, If
    <3> QED
      BY <1>19, <1>k, <1>f, <1>e, <2>1, <3>1, <3>2, NodeStep DEF IfElse, Base
  <2> QED
    BY <2>2, <2>3
<1>20. CASE IfElseOpen
  <2>1. TokInv' /\ Top.pc = "else_open"
    BY <1>20, ConsumeType DEF IfElseOpen
  <2>2. /\ NewFrame("stmts", Len(input) + 1) \in FrameOf(k)
        /\ NewFrame("stmts", Len(input) + 1).pc = "stmts"
    BY <1>k, <1>b
  <2>3. "else" \in Labels \ Base
    BY DEF Labels, Base
  <2> QED
    BY <1>20, <2>1, <2>2, <2>3, CallStep DEF IfElseOpen, Base
<1>21. CASE IfElseAgain
  <2>1. TokInv'
    BY <1>21, <1>k, NoScanType DEF IfElseAgain
  <2>2. /\ NewFrame("stmts", Len(input)) \in FrameOf(k)
        /\ NewFrame("stmts", Len(input)).pc = "stmts"
    BY <1>k, <1>b
  <2>3. "else_again" \in Labels
    BY DEF Labels, Waiting
  <2> HIDE DEF k
  <2>4. /\ [Top EXCEPT !.pc = "else_again", !.left = ret] \in FrameOf(k)
        /\ [Top EXCEPT !.pc = "else_again", !.left = ret].pc = "else_again"
    BY <1>k, <1>r, <2>3 DEF FrameOf
  <2>5. StackInv'
    BY <1>21, <2>2, <2>4, CallType DEF IfElseAgain, Base, k
  <2> QED
    BY <1>21, <2>1, <2>5, HeapUnchanged DEF IfElseAgain, TypeInv
<1>22. CASE IfElseFails
  <2>1. TokInv'
    BY <1>22, <1>k, NoScanType DEF IfElseFails
  <2> QED
    BY <1>22, <2>1, FailStep DEF IfElseFails, Base, ErrMsg
<1>23. CASE IfElseClose
  <2>1. TokInv' /\ Top.pc = "else_again"
    BY <1>23, ConsumeType DEF IfElseClose
  <2>2. "IF" \in NodeType /\ Append(Top.kids, Top.left) \in Seq(0..k)
    BY <1>k, <1>f, KidsType DEF NodeType
  <2>3. ReturnNode(NewNode("IF", "EOS", 0, Append(Top.kids, Top.left), <<>>,
                           Top.first, Len(input)))
    BY <1>23 DEF IfElseClose, IfNode, If
  <2> QED
    BY <1>23, <1>k, <1>f, <1>e, <2>1, <2>2, <2>3, NodeStep DEF IfElseClose, Base
<1>24. CASE DefOpen
  <2>1. TokInv' /\ Top.pc \in {"def", "def_open"}
    BY <1>24, ConsumeType DEF DefOpen
  <2>2. CASE Top.pc = "def"
    <3>1. stack' = Resume([Top EXCEPT !.pc = "def_open", !.name = Len(input)])
      BY <1>24, <2>2 DEF DefOpen, Consume
    <3>2. "def_open" \in Labels
      BY DEF Labels, Waiting
    <3> HIDE DEF k
    <3>3. /\ [Top EXCEPT !.pc = "def_open", !.name = Len(input)] \in FrameOf(k)
          /\ [Top EXCEPT !.pc = "def_open", !.name = Len(input)].pc = "def_open"
      BY <1>k, <3>2 DEF FrameOf
    <3> QED
      BY <1>24, <2>1, <3>1, <3>3, ResumeStep DEF DefOpen, Base, k
  <2>3. CASE Top.pc = "def_open"
    <3>1. Goto("params")
      BY <1>24, <2>3 DEF DefOpen, Consume
    <3>2. StackInv'
      BY <1>24, <2>1, <3>1, GotoType DEF DefOpen, Labels, Base
    <3> QED
      BY <1>24, <2>1, <3>2, HeapUnchanged DEF DefOpen, TypeInv
  <2> QED
    BY <2>1, <2>2, <2>3
<1>25. CASE NextParam
  <2>1. TokInv'
    BY <1>25, <1>k, ScanType DEF NextParam, Undefs
  <2>2. "more_params" \in Labels
    BY DEF Labels
  <2> DEFINE params == Append(Top.params, Len(input))
  <2>3. stack' = Resume([Top EXCEPT !.pc = "more_params", !.params = params])
    BY <1>25, <1>k DEF NextParam, FrameOf
  <2> HIDE DEF k
  <2>4. /\ [Top EXCEPT !.pc = "more_params", !.params = params] \in FrameOf(k)
        /\ [Top EXCEPT !.pc = "more_params", !.params = params].pc = "more_params"
    <3>1. params \in Seq(Nat)
      BY <1>f, <1>k
    <3> HIDE DEF params
    <3>2. ASSUME NEW n \in Seq(Nat)
          PROVE  /\ [Top EXCEPT !.pc = "more_params", !.params = n] \in FrameOf(k)
                 /\ [Top EXCEPT !.pc = "more_params", !.params = n].pc = "more_params"
      BY <1>k, <2>2 DEF FrameOf
    <3> QED
      BY <3>1, <3>2
  <2> QED
    BY <1>25, <2>1, <2>3, <2>4, ResumeStep DEF NextParam, Base, k
<1>26. CASE NotAParam
  <2>1. TokInv'
    BY <1>26, <1>k, NoScanType DEF NotAParam
  <2> QED
    BY <1>26, <2>1, FailStep DEF NotAParam, Base, ErrMsg
<1>27. CASE ParamsEnd
  <2>1. CASE Len(Top.params) = MAX_FUNC_PARAMS
    <3>1. TokInv'
      BY <1>27, <2>1, <1>k, NoScanType DEF ParamsEnd
    <3> QED
      BY <1>27, <2>1, <3>1, FailStep DEF ParamsEnd, Base, ErrMsg
  <2>2. CASE Len(Top.params) # MAX_FUNC_PARAMS /\ tok = "RPAREN"
    <3>1. TokInv'
      BY <1>27, <2>2, <1>k, ScanType DEF ParamsEnd, Undefs
    <3>2. StackInv'
      BY <1>27, <2>2, GotoType DEF ParamsEnd, Labels, Waiting, Base
    <3> QED
      BY <1>27, <2>2, <3>1, <3>2, HeapUnchanged DEF ParamsEnd, TypeInv
  <2>3. CASE Len(Top.params) # MAX_FUNC_PARAMS /\ tok # "RPAREN"
    BY <1>27, <2>3, <1>k DEF ParamsEnd, TypeInv, TokInv, HeapInv, StackInv
  <2> QED
    BY <2>1, <2>2, <2>3
<1>28. CASE DefBody
  <2>1. TokInv' /\ Top.pc = "body_open"
    BY <1>28, ConsumeType DEF DefBody
  <2>2. /\ NewFrame("stmts", Len(input) + 1) \in FrameOf(k)
        /\ NewFrame("stmts", Len(input) + 1).pc = "stmts"
    BY <1>k, <1>b
  <2>3. "body" \in Labels \ Base
    BY DEF Labels, Waiting, Base
  <2> QED
    BY <1>28, <2>1, <2>2, <2>3, CallStep DEF DefBody, Base
<1>29. CASE DefClose
  <2>1. TokInv' /\ Top.pc = "body"
    BY <1>29, ConsumeType DEF DefClose
  <2>2. "FUNCDEF" \in NodeType /\ <<ret>> \in Seq(0..k)
    BY <1>k, <1>r DEF NodeType
  <2> QED
    BY <1>29, <1>k, <1>f, <2>1, <2>2, NodeStep DEF DefClose, Base
<1>30. CASE NextStmt
  <2>1. TokInv'
    BY <1>30, <1>k, NoScanType DEF NextStmt
  <2>2. CASE tok \in {"EOS", "RCURL"}
    <3>1. "BLOCK" \in NodeType /\ Len(input) - 1 \in Nat
      BY <1>30, <1>k DEF NextStmt, Started, NodeType
    <3> QED
      BY <1>30, <2>1, <2>2, <1>k, <1>f, <1>e, <3>1, NodeStep DEF NextStmt, Base
  <2>3. CASE tok \notin {"EOS", "RCURL"}
    <3>1. /\ Expression(0, Len(input)) \in FrameOf(k)
          /\ Expression(0, Len(input)).pc = "expr"
      BY <1>k, ExpressionType
    <3>2. "stmt" \in Labels \ Base
      BY DEF Labels, Waiting, Base
    <3> QED
      BY <1>30, <2>1, <2>3, <3>1, <3>2, CallStep DEF NextStmt, Base
  <2> QED
    BY <2>2, <2>3
<1>31. CASE EndStmt
  <2>1. TokInv' /\ Top.pc = "stmt"
    BY <1>31, ConsumeType DEF EndStmt
  <2>2. CASE ret = NULL
    <3>1. StackInv'
      BY <1>31, <2>1, <2>2, ReturnType DEF EndStmt, Base
    <3>2. HeapInv'
      BY <1>31, <2>2, <1>k DEF EndStmt, Return, HeapInv
    <3> QED
      BY <2>1, <3>1, <3>2 DEF TypeInv
  <2>3. CASE ret # NULL
    <3>1. "stmts" \in Labels /\ Append(Top.kids, ret) \in Seq(0..k)
      BY <1>k, <1>f, <1>r, KidsType DEF Labels
    <3>2. stack' = Resume([Top EXCEPT !.pc = "stmts",
                                      !.kids = Append(Top.kids, ret)])
      BY <1>31, <2>3, <1>k DEF EndStmt, FrameOf
    <3> HIDE DEF k
    <3>3. /\ [Top EXCEPT !.pc = "stmts", !.kids = Append(Top.kids, ret)] \in FrameOf(k)
          /\ [Top EXCEPT !.pc = "stmts", !.kids = Append(Top.kids, ret)].pc = "stmts"
      BY <1>k, <3>1 DEF FrameOf
    <3> QED
      BY <1>31, <2>1, <2>3, <3>2, <3>3, ResumeStep DEF EndStmt, Base, k
  <2> QED
    BY <2>2, <2>3
<1>32. CASE Program
  <2>1. TokInv' /\ HeapInv'
    BY <1>32, <1>k, ScanType, HeapUnchanged DEF Program, Undefs
  <2>2. /\ [Top EXCEPT !.pc = "parsed"] \in FrameOf(k)
        /\ [Top EXCEPT !.pc = "parsed"].pc = "parsed"
    BY <1>p DEF Labels
  <2>3. NewFrame("stmts", 1) \in FrameOf(k) /\ NewFrame("stmts", 1).pc = "stmts"
    BY <1>k, <1>b
  <2>4. StackInv'
    BY <1>32, <2>2, <2>3, CallType DEF Program, Base
  <2> QED
    BY <2>1, <2>4 DEF TypeInv
<1>33. CASE Parse \/ ConsumeDies \/ Killed \/ Ended \/ UNCHANGED vars
  BY <1>33, <1>k DEF Parse, ConsumeDies, Killed, Ended, vars, TypeInv, TokInv,
     HeapInv, StackInv
<1> QED
  BY <1>1, <1>2, <1>3, <1>4, <1>5, <1>6, <1>7, <1>8, <1>9, <1>10, <1>11,
     <1>12, <1>13, <1>14, <1>15, <1>16, <1>17, <1>18, <1>19, <1>20, <1>21,
     <1>22, <1>23, <1>24, <1>25, <1>26, <1>27, <1>28, <1>29, <1>30, <1>31,
     <1>32, <1>33 DEF Next, Step

(* Nothing but program() runs before the first token is read. *)
LEMMA StartedStep == ASSUME TypeInv, Started, [Next]_vars PROVE Started'
<1>1. Len(input) \in Nat
  BY InputLen DEF TypeInv
<1>2. CASE UNCHANGED <<input, stack>>
  BY <1>2 DEF Started, Top
<1>3. CASE input' = input /\ Top.pc # "program"
  BY <1>3 DEF Started
<1>4. CASE \E undef : Scan(undef)
  BY <1>1, <1>4 DEF Scan, Started, TypeInv, TokInv
<1>5. UNCHANGED <<input, stack>>
      \/ (input' = input /\ Top.pc # "program")
      \/ \E undef : Scan(undef)
  BY DEF Next, Step, vars, Ended, At, Consume, NoScan, Goto,
     EnterLeaf, EnterPrefix, EnterParen, NoPrefix, ScanThenFail, Infix, LoopEnds,
     LoopPastTable, BinOp, NextArg, StoreArg, OptionalComma, CloseCall,
     CallDies, CloseParen, IfOpen, IfCond, IfThenOpen, IfThen, IfElse,
     IfElseOpen, IfElseAgain, IfElseFails, IfElseClose, DefOpen, NextParam,
     NotAParam, ParamsEnd, DefBody, DefClose, NextStmt, EndStmt, Program,
     Parse, ConsumeDies, Killed
<1> QED
  BY <1>2, <1>3, <1>4, <1>5

-----------------------------------------------------------------------------
LEMMA InitType == ASSUME Init PROVE TypeInv /\ Started
<1>1. NewFrame("program", 0) \in FrameOf(0) /\ NewFrame("program", 0).pc = "program"
  BY NewFrameType DEF Labels
<1>2. Len(nodes) = 0 /\ nodes \in Seq(NodeOf(0))
  BY DEF Init
<1>3. TokInv /\ HeapInv
  BY <1>2 DEF Init, TokInv, HeapInv, TokType, NULL
<1>4. IsStack(<<NewFrame("program", 0)>>, 0)
  BY <1>1 DEF IsStack, Base
<1>5. Started
  BY <1>1 DEF Init, Started, Top
<1> QED
  BY <1>2, <1>3, <1>4, <1>5 DEF Init, TypeInv, StackInv

LEMMA TypeImplies == ASSUME TypeInv PROVE TypeOK
<1> DEFINE k == Len(nodes)
<1>1. k \in Nat /\ 0..k \subseteq Nat
  BY NodesLen
<1>2. FrameOf(k) \subseteq Frame /\ NodeOf(k) \subseteq Node
  <2>1. Seq(0..k) \subseteq Seq(Nat)
    BY <1>1, SeqMono
  <2> HIDE DEF k
  <2> QED
    BY <1>1, <2>1 DEF FrameOf, Frame, NodeOf, Node
<1>3. stack \in Seq(FrameOf(k)) /\ nodes \in Seq(NodeOf(k)) /\ stack # <<>>
  BY DEF TypeInv, StackInv, IsStack, HeapInv
<1>4. stack \in Seq(Frame) /\ nodes \in Seq(Node)
  BY <1>2, <1>3, SeqMono
<1>5. \A i \in 1..Len(stack) : stack[i].left \in Ptr /\ stack[i].kids \in Seq(Ptr)
  <2>1. \A i \in 1..Len(stack) : stack[i] \in FrameOf(k)
    BY <1>3
  <2> QED
    BY <1>1, <2>1, FrameFields DEF Ptr
<1>6. \A n \in 1..Len(nodes) : nodes[n].kids \in Seq(Ptr)
  <2>1. \A n \in 1..Len(nodes) : nodes[n] \in NodeOf(k)
    BY <1>3
  <2> QED
    BY <2>1 DEF Ptr, NodeOf
<1> QED
  BY <1>3, <1>4, <1>5, <1>6 DEF TypeInv, TokInv, HeapInv, TypeOK, Ptr

(* Every variable keeps its type; in particular no frame of the C stack    *)
(* and no AST node ever holds a pointer to a node that was not allocated,  *)
(* and parse.c never returns from parse()'s own frame.                     *)
THEOREM TypeCorrect == Spec => []TypeOK
<1>1. Init => TypeInv /\ Started
  BY InitType
<1>2. TypeInv /\ Started /\ [Next]_vars => (TypeInv /\ Started)'
  BY TypeStep, StartedStep
<1>3. TypeInv => TypeOK
  BY TypeImplies
<1> QED
  BY <1>1, <1>2, <1>3, PTL DEF Spec

-----------------------------------------------------------------------------
(***************************************************************************)
(* Proofs that no NULL pointer gets into the AST and that no message is    *)
(* lost: the parser checks some results of its calls and not others        *)
(* (lparen_infix, lparen_prefix, if_prefix and funcdef_prefix do not       *)
(* check), so that this rests on how the checks work together.             *)
(***************************************************************************)

(* The places where a call has just returned and `ret' is its value. *)
Returned == {"loop", "right", "arg", "stmt", "paren", "cond", "then", "else",
             "else_again", "body", "parsed"}

NodeComplete(x) ==
  \A i \in 1..Len(x.kids) : (x.type = "IF" /\ i = 3) \/ x.kids[i] # NULL

(* What a frame will put into a node is not NULL, and if_prefix() has its  *)
(* condition and its then block when it comes to the else block.           *)
FrameComplete(f) ==
  /\ \A i \in 1..Len(f.kids) : f.kids[i] # NULL
  /\ f.pc \in {"right", "args", "arg", "more_args", "else_again"} =>
       f.left # NULL
  /\ f.pc \in {"then_open", "then"} => Len(f.kids) = 1
  /\ f.pc \in {"else?", "else_open", "else", "else_again"} => Len(f.kids) = 2

Complete ==
  err = "unset" =>
    /\ Top.pc \in Returned => ret # NULL
    /\ \A i \in 1..Len(stack) : FrameComplete(stack[i])
    /\ \A n \in 1..Len(nodes) : NodeComplete(nodes[n])

-----------------------------------------------------------------------------
(* The ways in which an action goes on while no error is on record.        *)

LEMMA FailComplete ==
  ASSUME NEW msg \in ErrMsg, Fail(msg)
  PROVE  Complete'
  BY DEF Fail, Complete, ErrMsg

LEMMA ScanFailComplete ==
  ASSUME Complete, NEW before, NEW after, NEW msg \in ErrMsg,
         ScanThenFail(before, after, msg), UNCHANGED nodes
  PROVE  Complete'
<1>1. CASE Fail(msg)
  BY <1>1, FailComplete
<1>2. CASE UNCHANGED <<stack, ret, err>>
  BY <1>2 DEF Complete, Top
<1> QED
  BY <1>1, <1>2 DEF ScanThenFail

LEMMA ReturnComplete ==
  ASSUME TypeInv, Complete, err = "unset", Top.pc \notin Base,
         NEW v, v # NULL, Return(v), UNCHANGED nodes
  PROVE  Complete'
<1>1. stack \in Seq(FrameOf(Len(nodes))) /\ Len(stack) >= 2
  BY TopType, StackTop DEF IsStack
<1>2. /\ Len(stack') = Len(stack) - 1
      /\ \A i \in 1..Len(stack') : stack'[i] = stack[i]
  BY <1>1, PopType DEF Return
<1>3. \A i \in 1..Len(stack') : FrameComplete(stack'[i])
  BY <1>1, <1>2 DEF Complete
<1> QED
  BY <1>3 DEF Complete, Return

LEMMA ReturnNodeComplete ==
  ASSUME TypeInv, Complete, err = "unset", Top.pc \notin Base,
         NEW n, NodeComplete(n), ReturnNode(n)
  PROVE  Complete'
<1>1. stack \in Seq(FrameOf(Len(nodes))) /\ Len(stack) >= 2 /\ Len(nodes) \in Nat
  BY TopType, StackTop DEF IsStack
<1>2. /\ Len(stack') = Len(stack) - 1
      /\ \A i \in 1..Len(stack') : stack'[i] = stack[i]
  BY <1>1, PopType DEF ReturnNode, Return
<1>3. \A i \in 1..Len(stack') : FrameComplete(stack'[i])
  BY <1>1, <1>2 DEF Complete
<1>4. \A m \in 1..Len(nodes') : NodeComplete(nodes'[m])
  <2>1. nodes \in Seq(NodeOf(Len(nodes)))
    BY DEF TypeInv, HeapInv
  <2>2. ASSUME NEW m \in 1..Len(nodes') PROVE nodes'[m] = n \/ m \in 1..Len(nodes)
    BY <2>1, <2>2 DEF ReturnNode
  <2>3. \A m \in 1..Len(nodes) : nodes'[m] = nodes[m]
    BY <2>1 DEF ReturnNode
  <2> QED
    BY <2>2, <2>3 DEF Complete
<1>5. ret' # NULL
  BY <1>1 DEF ReturnNode, Return, NULL
<1> QED
  BY <1>3, <1>4, <1>5 DEF Complete

LEMMA ResumeComplete ==
  ASSUME TypeInv, Complete, err = "unset", NEW f \in FrameOf(Len(nodes)),
         FrameComplete(f), f.pc \in Returned => ret' # NULL,
         stack' = Resume(f), UNCHANGED nodes
  PROVE  Complete'
<1>1. stack \in Seq(FrameOf(Len(nodes))) /\ Len(stack) >= 1
  BY TopType DEF IsStack
<1>2. /\ Len(stack') = Len(stack)
      /\ stack'[Len(stack)] = f
      /\ \A i \in 1..(Len(stack) - 1) : stack'[i] = stack[i]
  BY <1>1, ResumeType
<1>3. ASSUME NEW i \in 1..Len(stack') PROVE FrameComplete(stack'[i])
  BY <1>1, <1>2, <1>3 DEF Complete
<1>4. Top' = f
  BY <1>2 DEF Top
<1> QED
  BY <1>3, <1>4 DEF Complete

LEMMA PushComplete ==
  ASSUME NEW S, NEW s \in Seq(S), NEW g \in S,
         \A i \in 1..Len(s) : FrameComplete(s[i]), FrameComplete(g)
  PROVE  \A i \in 1..Len(Append(s, g)) : FrameComplete(Append(s, g)[i])
<1>1. ASSUME NEW i \in 1..Len(Append(s, g)) PROVE FrameComplete(Append(s, g)[i])
  BY <1>1, AppendType
<1> QED
  BY <1>1

LEMMA CallComplete ==
  ASSUME TypeInv, Complete, err = "unset", NEW f \in FrameOf(Len(nodes)),
         FrameComplete(f), NEW g \in FrameOf(Len(nodes)), FrameComplete(g),
         g.pc \notin Returned, Call(f, g), UNCHANGED nodes
  PROVE  Complete'
<1>1. stack \in Seq(FrameOf(Len(nodes))) /\ Len(stack) >= 1
  BY TopType DEF IsStack
<1>2. /\ Resume(f) \in Seq(FrameOf(Len(nodes)))
      /\ Len(Resume(f)) = Len(stack)
      /\ Resume(f)[Len(stack)] = f
      /\ \A i \in 1..(Len(stack) - 1) : Resume(f)[i] = stack[i]
  BY <1>1, ResumeType
<1>3. ASSUME NEW i \in 1..Len(Resume(f)) PROVE FrameComplete(Resume(f)[i])
  BY <1>1, <1>2, <1>3 DEF Complete
<1>4. \A i \in 1..Len(stack') : FrameComplete(stack'[i])
  BY <1>2, <1>3, PushComplete DEF Call
<1>5. Top' = g
  BY <1>2, AppendType DEF Top, Call
<1> QED
  BY <1>4, <1>5 DEF Complete

LEMMA NewFrameComplete ==
  ASSUME NEW pc \in {"expr", "stmts", "if", "def", "paren"}, NEW first
  PROVE  FrameComplete(NewFrame(pc, first))
  BY DEF NewFrame, FrameComplete

LEMMA ExpressionComplete ==
  ASSUME NEW rbp, NEW first PROVE FrameComplete(Expression(rbp, first))
  BY DEF Expression, NewFrame, FrameComplete

LEMMA PushTwoComplete ==
  ASSUME TypeInv, Complete, err = "unset", NEW f \in FrameOf(Len(nodes)),
         FrameComplete(f), NEW s \in {stack, Resume(f)},
         NEW g \in FrameOf(Len(nodes)), FrameComplete(g),
         NEW h \in FrameOf(Len(nodes)), FrameComplete(h), h.pc \notin Returned,
         stack' = Append(Append(s, g), h), UNCHANGED nodes
  PROVE  Complete'
<1>1. stack \in Seq(FrameOf(Len(nodes))) /\ Len(stack) >= 1
  BY TopType DEF IsStack
<1>2. /\ Resume(f) \in Seq(FrameOf(Len(nodes)))
      /\ Len(Resume(f)) = Len(stack)
      /\ Resume(f)[Len(stack)] = f
      /\ \A i \in 1..(Len(stack) - 1) : Resume(f)[i] = stack[i]
  BY <1>1, ResumeType
<1>3. s \in Seq(FrameOf(Len(nodes)))
  BY <1>1, <1>2
<1>4. ASSUME NEW i \in 1..Len(s) PROVE FrameComplete(s[i])
  BY <1>1, <1>2, <1>4 DEF Complete
<1>5. Append(s, g) \in Seq(FrameOf(Len(nodes)))
  BY <1>3, AppendType
<1>6. \A i \in 1..Len(Append(s, g)) : FrameComplete(Append(s, g)[i])
  BY <1>3, <1>4, PushComplete
<1>7. \A i \in 1..Len(stack') : FrameComplete(stack'[i])
  BY <1>5, <1>6, PushComplete
<1>8. Top' = h
  BY <1>5, AppendType DEF Top
<1> QED
  BY <1>7, <1>8 DEF Complete

(* The top frame goes on at pc. *)
LEMMA PcComplete ==
  ASSUME NEW k \in Nat, NEW f \in FrameOf(k), FrameComplete(f), NEW pc \in Labels,
         pc \in {"right", "args", "arg", "more_args", "else_again"} =>
           f.left # NULL,
         pc \in {"then_open", "then"} => Len(f.kids) = 1,
         pc \in {"else?", "else_open", "else", "else_again"} => Len(f.kids) = 2
  PROVE  /\ [f EXCEPT !.pc = pc] \in FrameOf(k)
         /\ FrameComplete([f EXCEPT !.pc = pc])
         /\ [f EXCEPT !.pc = pc].pc = pc
<1>1. [f EXCEPT !.pc = pc] \in FrameOf(k)
  BY DEF FrameOf
<1>2. /\ [f EXCEPT !.pc = pc].pc = pc
      /\ [f EXCEPT !.pc = pc].kids = f.kids
      /\ [f EXCEPT !.pc = pc].left = f.left
  BY DEF FrameOf
<1>3. ASSUME NEW g, g.pc = pc, g.kids = f.kids, g.left = f.left
      PROVE  FrameComplete(g)
  BY <1>3 DEF FrameComplete
<1> QED
  BY <1>1, <1>2, <1>3

LEMMA AppendKid ==
  ASSUME NEW k \in Nat, NEW kids \in Seq(0..k), NEW kid \in 0..k, kid # NULL,
         \A i \in 1..Len(kids) : kids[i] # NULL
  PROVE  /\ Append(kids, kid) \in Seq(0..k)
         /\ Len(Append(kids, kid)) = Len(kids) + 1
         /\ \A i \in 1..Len(Append(kids, kid)) : Append(kids, kid)[i] # NULL
  OBVIOUS

(* Only the third kid, the else block, may be NULL. *)
LEMMA IfKids ==
  ASSUME NEW S, NEW kids \in Seq(S), NEW k \in S
  PROVE  Len(kids) = 2 /\ (\A i \in 1..Len(kids) : kids[i] # NULL) =>
           \A i \in 1..Len(Append(kids, k)) :
             i = 3 \/ Append(kids, k)[i] # NULL
<1>1. /\ Len(Append(kids, k)) = Len(kids) + 1
      /\ \A i \in 1..Len(kids) : Append(kids, k)[i] = kids[i]
  BY AppendType
<1> HIDE DEF NULL
<1> SUFFICES ASSUME Len(kids) = 2, \A i \in 1..Len(kids) : kids[i] # NULL,
                    NEW i \in 1..Len(Append(kids, k)), i # 3
             PROVE  Append(kids, k)[i] # NULL
  OBVIOUS
<1>2. i \in 1..Len(kids)
  BY <1>1
<1> QED
  BY <1>1, <1>2

(* err() is never undone. *)
LEMMA ErrStays == ASSUME [Next]_vars, err' = "unset" PROVE err = "unset"
  BY DEF Next, Step, vars, Ended, Fail, ErrMsg,
     EnterLeaf, EnterPrefix, EnterParen, NoPrefix, ScanThenFail, Infix, LoopEnds,
     LoopPastTable, BinOp, NextArg, StoreArg, OptionalComma, CloseCall,
     CallDies, CloseParen, IfOpen, IfCond, IfThenOpen, IfThen, IfElse,
     IfElseOpen, IfElseAgain, IfElseFails, IfElseClose, DefOpen, NextParam,
     NotAParam, ParamsEnd, DefBody, DefClose, NextStmt, EndStmt, Program,
     Parse, ConsumeDies, Killed

(* Each conjunct of Complete survives each action: what is stored is what  *)
(* a call has just returned without an error.                              *)
LEMMA CompleteStep ==
  ASSUME TypeInv, TypeInv', Complete, [Next]_vars PROVE Complete'
<1> SUFFICES ASSUME err' = "unset" PROVE Complete'
  BY DEF Complete
<1>e. err = "unset"
  BY ErrStays
<1> USE DEF At
<1> DEFINE k == Len(nodes)
<1>k. k \in Nat /\ Len(input) \in Nat /\ Top \in FrameOf(k)
  BY TopType, InputLen DEF TypeInv
<1>f. /\ Top.kids \in Seq(0..k) /\ Top.params \in Seq(Nat) /\ Top.first \in Nat
      /\ Top.left \in 0..k /\ ret \in 0..k /\ Top.pc \in Labels
  BY <1>k, FrameFields DEF TypeInv, HeapInv
<1>c. FrameComplete(Top) /\ (Top.pc \in Returned => ret # NULL)
  BY <1>e, TopType DEF Complete, Top, IsStack
<1>b. ASSUME NEW first \in Nat
      PROVE  /\ NewFrame("stmts", first) \in FrameOf(k)
             /\ FrameComplete(NewFrame("stmts", first))
             /\ NewFrame("stmts", first).pc = "stmts"
  BY <1>k, NewFrameType, NewFrameComplete DEF Labels
<1>1. CASE EnterLeaf
  <2> DEFINE n == Leaf(IF tok = "DBL" THEN "DBL" ELSE "VAR")
             f == [Top EXCEPT !.pc = "loop"]
  <2>1. NodeComplete(n)
    BY DEF Leaf, NewNode, NodeComplete
  <2>2. f \in FrameOf(k) /\ FrameComplete(f) /\ f.pc = "loop"
    BY <1>k, <1>c, PcComplete DEF Labels
  <2>3. IsStack(stack, k) /\ nodes \in Seq(NodeOf(k))
    BY TopType DEF TypeInv, HeapInv
  <2> HIDE DEF n, f
  <2>4. /\ Len(Resume(f)) = Len(stack)
        /\ Resume(f)[Len(stack)] = f
        /\ \A i \in 1..(Len(stack) - 1) : Resume(f)[i] = stack[i]
    BY <2>2, <2>3, ResumeType DEF IsStack
  <2>5. stack' = Resume(f) /\ nodes' = Append(nodes, n) /\ ret' = k + 1
    BY <1>1 DEF EnterLeaf, Goto, f, n
  <2>6. ASSUME NEW i \in 1..Len(stack') PROVE FrameComplete(stack'[i])
    BY <1>e, <2>2, <2>3, <2>4, <2>5, <2>6 DEF Complete, IsStack
  <2>7. ASSUME NEW m \in 1..Len(nodes') PROVE NodeComplete(nodes'[m])
    BY <1>e, <2>1, <2>3, <2>5, <2>7 DEF Complete
  <2> QED
    BY <1>k, <2>5, <2>6, <2>7 DEF Complete, NULL
<1>2. CASE EnterPrefix
  <2>1. /\ [Top EXCEPT !.pc = "loop"] \in FrameOf(k)
        /\ FrameComplete([Top EXCEPT !.pc = "loop"])
    BY <1>k, <1>c DEF FrameOf, FrameComplete, Labels
  <2>2. PICK pc \in {"if", "def"} :
          Call([Top EXCEPT !.pc = "loop"], NewFrame(pc, Top.first))
    BY <1>2 DEF EnterPrefix
  <2>3. NewFrame(pc, Top.first) \in FrameOf(k) /\ NewFrame(pc, Top.first).pc = pc
    BY <1>k, <1>f, NewFrameType DEF Labels, Waiting
  <2> QED
    BY <1>2, <1>e, <2>1, <2>2, <2>3, NewFrameComplete, CallComplete
    DEF EnterPrefix, Returned
<1>4. CASE NoPrefix
  BY <1>4, ScanFailComplete DEF NoPrefix, ErrMsg
<1>6. CASE LoopEnds
  BY <1>6, <1>c, <1>e, ReturnComplete DEF LoopEnds, Returned, Base
<1>7. CASE LoopPastTable
  BY <1>7, ScanFailComplete DEF LoopPastTable, ErrMsg
<1>8. CASE BinOp
  <2>1. NodeComplete(BinNode(Top.left, ret))
    BY <1>8, <1>c DEF BinOp, BinNode, Bin, NewNode, NodeComplete, FrameComplete, Returned
  <2>2. ReturnNode(BinNode(Top.left, ret))
    BY <1>8, <1>c DEF BinOp, Returned
  <2> QED
    BY <1>8, <1>e, <2>1, <2>2, ReturnNodeComplete DEF BinOp, Base
<1>9. CASE NextArg
  <2>1. /\ [Top EXCEPT !.pc = "arg"] \in FrameOf(k)
        /\ FrameComplete([Top EXCEPT !.pc = "arg"])
    BY <1>9, <1>k, <1>c DEF NextArg, FrameOf, FrameComplete, Labels
  <2>2. Expression(0, Len(input)) \in FrameOf(k) /\ Expression(0, Len(input)).pc = "expr"
    BY <1>k, ExpressionType
  <2> QED
    BY <1>9, <1>e, <2>1, <2>2, ExpressionComplete, CallComplete DEF NextArg, Returned
<1>10. CASE StoreArg
  <2> DEFINE kids == Append(Top.kids, ret)
             f == [Top EXCEPT !.pc = "more_args", !.kids = kids]
  <2>1. ret # NULL
    BY <1>10, <1>c DEF StoreArg, Returned
  <2>2. stack' = Resume(f)
    BY <1>10, <2>1, <1>k DEF StoreArg, FrameOf
  <2>3. kids \in Seq(0..k) /\ \A i \in 1..Len(kids) : kids[i] # NULL
    BY <1>k, <1>f, <1>c, <2>1, AppendKid DEF FrameComplete
  <2>4. Top.left # NULL /\ "more_args" \in Labels
    BY <1>10, <1>c DEF StoreArg, FrameComplete, Labels
  <2> HIDE DEF kids, k
  <2>5. f \in FrameOf(k) /\ f.pc = "more_args" /\ f.kids = kids /\ f.left = Top.left
    BY <1>k, <2>3, <2>4 DEF FrameOf
  <2> HIDE DEF f
  <2>6. FrameComplete(f)
    BY <2>3, <2>4, <2>5 DEF FrameComplete
  <2> QED
    BY <1>10, <1>e, <2>1, <2>2, <2>5, <2>6, ResumeComplete DEF StoreArg, Returned, k
<1>3. CASE EnterParen
  <2> DEFINE f == [Top EXCEPT !.pc = "loop"]
             g == NewFrame("paren", Top.first)
             h == Expression(0, Len(input) + 1)
  <2>1. f \in FrameOf(k) /\ FrameComplete(f)
    BY <1>k, <1>c, PcComplete DEF Labels
  <2>2. g \in FrameOf(k) /\ FrameComplete(g)
    BY <1>k, <1>f, NewFrameType, NewFrameComplete DEF Labels, Waiting
  <2>3. h \in FrameOf(k) /\ FrameComplete(h) /\ h.pc = "expr"
    BY <1>k, ExpressionType, ExpressionComplete
  <2>4. IsStack(stack, k)
    BY TopType
  <2>5. stack' = Resume(f) \o <<g, h>>
    BY <1>3 DEF EnterParen, CallParen
  <2> HIDE DEF f, g, h
  <2>6. Resume(f) \in Seq(FrameOf(k))
    BY <2>1, <2>4, ResumeType DEF IsStack
  <2>7. stack' = Append(Append(Resume(f), g), h)
    BY <2>2, <2>3, <2>5, <2>6
  <2> QED
    BY <1>3, <1>e, <2>1, <2>2, <2>3, <2>7, PushTwoComplete DEF EnterParen, Returned
<1>5. CASE Infix
  <2> DEFINE f == [NewFrame("right", Top.first) EXCEPT !.op = tok, !.left = ret]
             a == [f EXCEPT !.pc = "args"]
             h == Expression(lbp[tok], Len(input) + 1)
  <2>1. ret # NULL
    BY <1>5, <1>c DEF Infix, Returned
  <2>2. tok \in TokType /\ lbp[tok] \in 0..10
    BY lbpType DEF TypeInv, TokInv
  <2>3. h \in FrameOf(k) /\ FrameComplete(h) /\ h.pc = "expr"
    BY <1>k, <2>2, ExpressionType, ExpressionComplete
  <2>4. /\ f \in FrameOf(k) /\ a \in FrameOf(k)
        /\ f.pc = "right" /\ f.left = ret /\ f.kids = <<>>
        /\ a.pc = "args" /\ a.left = ret /\ a.kids = <<>>
    <3>1. "right" \in Labels /\ "args" \in Labels
      BY DEF Labels
    <3>2. /\ NewFrame("right", Top.first) \in FrameOf(k)
          /\ NewFrame("right", Top.first).pc = "right"
          /\ NewFrame("right", Top.first).kids = <<>>
      BY <1>k, <1>f, <3>1, NewFrameType DEF NewFrame
    <3> HIDE DEF k
    <3>3. f \in FrameOf(k) /\ f.pc = "right" /\ f.left = ret /\ f.kids = <<>>
      BY <1>f, <2>2, <3>2 DEF FrameOf
    <3>4. ASSUME NEW x \in FrameOf(k)
          PROVE  /\ [x EXCEPT !.pc = "args"] \in FrameOf(k)
                 /\ [x EXCEPT !.pc = "args"].pc = "args"
                 /\ [x EXCEPT !.pc = "args"].left = x.left
                 /\ [x EXCEPT !.pc = "args"].kids = x.kids
      BY <3>1 DEF FrameOf
    <3> HIDE DEF f
    <3> QED
      BY <3>3, <3>4
  <2>5. IsStack(stack, k)
    BY TopType
  <2> HIDE DEF f, a, h
  <2>6. FrameComplete(f) /\ FrameComplete(a)
    BY <2>1, <2>4 DEF FrameComplete
  <2>7. CASE stack' = stack \o <<f, h>>
    <3>1. stack' = Append(Append(stack, f), h)
      BY <2>3, <2>4, <2>5, <2>7 DEF IsStack
    <3> QED
      BY <1>5, <1>e, <2>3, <2>4, <2>6, <3>1, PushTwoComplete DEF Infix, Returned
  <2>8. CASE stack' = Append(stack, a)
    <3>1. stack \in Seq(FrameOf(k)) /\ \A i \in 1..Len(stack) : FrameComplete(stack[i])
      BY <1>e, <2>5 DEF IsStack, Complete
    <3>2. \A i \in 1..Len(stack') : FrameComplete(stack'[i])
      BY <2>4, <2>6, <2>8, <3>1, PushComplete
    <3>3. Top' = a
      BY <2>4, <2>8, <3>1 DEF Top
    <3> QED
      BY <1>5, <1>e, <2>4, <3>2, <3>3 DEF Infix, Complete, Returned
  <2> QED
    BY <1>5, <2>7, <2>8 DEF Infix, f, a, h
<1>11. CASE OptionalComma
  <2>1. PICK pc \in {"args", "params"} :
          Goto(pc) /\ (pc = "args" => Top.pc = "more_args")
    BY <1>11 DEF OptionalComma
  <2> DEFINE f == [Top EXCEPT !.pc = pc]
  <2>2. (pc = "args" => Top.left # NULL) /\ pc \in Labels
    BY <2>1, <1>c DEF FrameComplete, Labels
  <2>3. f \in FrameOf(k) /\ FrameComplete(f) /\ f.pc = pc
    BY <1>k, <1>c, <2>2, PcComplete
  <2> QED
    BY <1>11, <1>e, <2>1, <2>3, ResumeComplete DEF OptionalComma, Goto, Returned
<1>12. CASE CloseCall
  <2> DEFINE n == NewNode("CALL", "EOS",
                          IF HasName(Top.left) THEN nodes[Top.left].name ELSE 0,
                          Top.kids, <<>>, Top.first, Len(input))
  <2>1. NodeComplete(n)
    BY <1>12, <1>c DEF CloseCall, NewNode, NodeComplete, FrameComplete
  <2> QED
    BY <1>12, <1>e, <2>1, ReturnNodeComplete DEF CloseCall, Base
<1>14. CASE CloseParen
  <2>1. ret # NULL /\ ret \in 1..k /\ nodes \in Seq(NodeOf(k)) /\ Top.pc = "paren"
    BY <1>14, <1>c, <1>f DEF CloseParen, Consume, Returned, NULL, TypeInv, HeapInv
  <2> DEFINE n == [nodes[ret] EXCEPT !.paren = @ + 1, !.first = Top.first,
                                     !.last = Len(input)]
  <2>2. n.type = nodes[ret].type /\ n.kids = nodes[ret].kids
    <3>1. nodes[ret] \in NodeOf(k)
      BY <2>1
    <3> QED
      BY <3>1 DEF NodeOf
  <2>3. nodes' = [nodes EXCEPT ![ret] = n]
    BY <1>14, <2>1 DEF CloseParen, NodeOf
  <2> HIDE DEF n
  <2>4. NodeComplete(nodes[ret]) /\ \A m \in 1..Len(nodes) : NodeComplete(nodes[m])
    BY <1>e, <2>1 DEF Complete
  <2>5. NodeComplete(n)
    BY <2>2, <2>4 DEF NodeComplete
  <2>6. \A m \in 1..Len(nodes') : NodeComplete(nodes'[m])
    BY <2>1, <2>3, <2>4, <2>5
  <2>7. stack \in Seq(FrameOf(k)) /\ Len(stack) >= 2
    BY <2>1, TopType, StackTop DEF IsStack, Base
  <2>8. /\ Len(stack') = Len(stack) - 1
        /\ \A i \in 1..Len(stack') : stack'[i] = stack[i]
    BY <1>14, <2>7, PopType DEF CloseParen, Return
  <2>9. \A i \in 1..Len(stack') : FrameComplete(stack'[i])
    BY <1>e, <2>7, <2>8 DEF Complete
  <2>10. ret' = ret
    BY <1>14 DEF CloseParen, Return
  <2> QED
    BY <2>1, <2>6, <2>9, <2>10 DEF Complete
<1>15. CASE IfOpen
  <2> DEFINE f == [Top EXCEPT !.pc = "cond"]
  <2>1. Top.pc = "if" /\ "cond" \in Labels
    BY <1>15 DEF IfOpen, Consume, Labels, Waiting
  <2>2. f \in FrameOf(k) /\ FrameComplete(f)
    BY <1>k, <1>c, <2>1, PcComplete DEF FrameComplete
  <2>3. /\ Expression(0, Len(input) + 1) \in FrameOf(k)
        /\ FrameComplete(Expression(0, Len(input) + 1))
        /\ Expression(0, Len(input) + 1).pc = "expr"
    BY <1>k, ExpressionType, ExpressionComplete
  <2> QED
    BY <1>15, <1>e, <2>2, <2>3, CallComplete DEF IfOpen, Returned
<1>16. CASE IfCond
  <2> DEFINE kids == <<ret>>
             f == [Top EXCEPT !.pc = "then_open", !.kids = kids]
  <2>1. Top.pc = "cond" /\ "then_open" \in Labels /\ ret # NULL
    BY <1>16, <1>c DEF IfCond, Consume, Labels, Waiting, Returned
  <2>2. stack' = Resume(f)
    BY <1>16, <2>1, <1>k DEF IfCond, FrameOf
  <2>3. kids \in Seq(0..k) /\ \A i \in 1..Len(kids) : kids[i] # NULL
    BY <1>k, <1>f, <2>1
  <2>4. Len(kids) = 1
    OBVIOUS
  <2> HIDE DEF kids, k
  <2>5. f \in FrameOf(k) /\ f.pc = "then_open" /\ f.kids = kids /\ f.left = Top.left
    BY <1>k, <2>1, <2>3 DEF FrameOf
  <2> HIDE DEF f
  <2>6. FrameComplete(f)
    BY <2>3, <2>4, <2>5 DEF FrameComplete
  <2> QED
    BY <1>16, <1>e, <2>1, <2>2, <2>5, <2>6, ResumeComplete DEF IfCond, Returned, k
<1>17. CASE IfThenOpen
  <2> DEFINE f == [Top EXCEPT !.pc = "then"]
  <2>1. Top.pc = "then_open" /\ "then" \in Labels
    BY <1>17 DEF IfThenOpen, Consume, Labels, Waiting
  <2>2. f \in FrameOf(k) /\ FrameComplete(f)
    BY <1>k, <1>c, <2>1, PcComplete DEF FrameComplete
  <2>3. /\ NewFrame("stmts", Len(input) + 1) \in FrameOf(k)
        /\ FrameComplete(NewFrame("stmts", Len(input) + 1))
        /\ NewFrame("stmts", Len(input) + 1).pc = "stmts"
    BY <1>k, <1>b
  <2> QED
    BY <1>17, <1>e, <2>2, <2>3, CallComplete DEF IfThenOpen, Returned
<1>18. CASE IfThen
  <2> DEFINE kids == Append(Top.kids, ret)
             f == [Top EXCEPT !.pc = "else?", !.kids = kids]
  <2>1. Top.pc = "then" /\ "else?" \in Labels /\ ret # NULL
    BY <1>18, <1>c DEF IfThen, Consume, Labels, Waiting, Returned
  <2>2. stack' = Resume(f)
    BY <1>18, <2>1, <1>k DEF IfThen, FrameOf
  <2>3. kids \in Seq(0..k) /\ \A i \in 1..Len(kids) : kids[i] # NULL
    BY <1>k, <1>f, <1>c, <2>1, AppendKid DEF FrameComplete
  <2>4. Len(kids) = 2
    <3>1. Len(Top.kids) = 1
      BY <1>f, <1>c, <2>1 DEF FrameComplete
    <3>2. Len(kids) = Len(Top.kids) + 1
      BY <1>k, <1>f, <1>c, <2>1, AppendKid DEF FrameComplete
    <3> QED
      BY ONLY <3>1, <3>2
  <2> HIDE DEF kids, k
  <2>5. f \in FrameOf(k) /\ f.pc = "else?" /\ f.kids = kids /\ f.left = Top.left
    BY <1>k, <2>1, <2>3 DEF FrameOf
  <2> HIDE DEF f
  <2>6. FrameComplete(f)
    BY <2>3, <2>4, <2>5 DEF FrameComplete
  <2> QED
    BY <1>18, <1>e, <2>1, <2>2, <2>5, <2>6, ResumeComplete DEF IfThen, Returned, k
<1>19. CASE IfElse
  <2>1. CASE tok = "ELSE"
    <3> DEFINE f == [Top EXCEPT !.pc = "else_open"]
    <3>1. Top.pc = "else?" /\ "else_open" \in Labels
      BY <1>19 DEF IfElse, Labels, Waiting
    <3>2. f \in FrameOf(k) /\ FrameComplete(f) /\ f.pc = "else_open"
      BY <1>k, <1>c, <3>1, PcComplete DEF FrameComplete
    <3> QED
      BY <1>19, <1>e, <2>1, <3>2, ResumeComplete DEF IfElse, Goto, Returned
  <2>2. CASE tok # "ELSE"
    <3> DEFINE n == IfNode(Len(input) - 1, NULL)
    <3>1. Len(Top.kids) = 2 /\ \A i \in 1..Len(Top.kids) : Top.kids[i] # NULL
      BY <1>19, <1>c DEF IfElse, FrameComplete
    <3>2. n.type = "IF" /\ n.kids = Append(Top.kids, NULL)
      BY DEF IfNode, If, NewNode
    <3> HIDE DEF n
    <3>3. NULL \in 0..k
      BY <1>k DEF NULL
    <3>4. \A i \in 1..Len(n.kids) : i = 3 \/ n.kids[i] # NULL
      BY <1>f, <3>1, <3>2, <3>3, IfKids
    <3>5. NodeComplete(n)
      BY <3>2, <3>4 DEF NodeComplete
    <3> QED
      BY <1>19, <1>e, <2>2, <3>5, ReturnNodeComplete DEF IfElse, Base, n
  <2> QED
    BY <2>1, <2>2
<1>20. CASE IfElseOpen
  <2> DEFINE f == [Top EXCEPT !.pc = "else"]
  <2>1. Top.pc = "else_open" /\ "else" \in Labels
    BY <1>20 DEF IfElseOpen, Consume, Labels, Waiting
  <2>2. f \in FrameOf(k) /\ FrameComplete(f)
    BY <1>k, <1>c, <2>1, PcComplete DEF FrameComplete
  <2>3. /\ NewFrame("stmts", Len(input) + 1) \in FrameOf(k)
        /\ FrameComplete(NewFrame("stmts", Len(input) + 1))
        /\ NewFrame("stmts", Len(input) + 1).pc = "stmts"
    BY <1>k, <1>b
  <2> QED
    BY <1>20, <1>e, <2>2, <2>3, CallComplete DEF IfElseOpen, Returned
<1>21. CASE IfElseAgain
  <2> DEFINE f == [Top EXCEPT !.pc = "else_again", !.left = ret]
  <2>1. ret # NULL /\ Len(Top.kids) = 2 /\ "else_again" \in Labels
    BY <1>21, <1>c DEF IfElseAgain, FrameComplete, Returned, Labels, Waiting
  <2>2. /\ NewFrame("stmts", Len(input)) \in FrameOf(k)
        /\ FrameComplete(NewFrame("stmts", Len(input)))
        /\ NewFrame("stmts", Len(input)).pc = "stmts"
    BY <1>k, <1>b
  <2> HIDE DEF k
  <2>3. /\ f \in FrameOf(k) /\ f.pc = "else_again" /\ f.left = ret
        /\ f.kids = Top.kids
    BY <1>k, <1>f, <2>1 DEF FrameOf
  <2> HIDE DEF f
  <2>4. FrameComplete(f)
    BY <1>c, <2>1, <2>3 DEF FrameComplete
  <2> QED
    BY <1>21, <1>e, <2>2, <2>3, <2>4, CallComplete DEF IfElseAgain, Returned, f, k
<1>22. CASE IfElseFails
  BY <1>22, FailComplete DEF IfElseFails, ErrMsg
<1>23. CASE IfElseClose
  <2> DEFINE n == IfNode(Len(input), Top.left)
  <2>1. Top.pc = "else_again" /\ Top.left # NULL /\ Len(Top.kids) = 2
        /\ \A i \in 1..Len(Top.kids) : Top.kids[i] # NULL
    BY <1>23, <1>c DEF IfElseClose, Consume, FrameComplete
  <2>2. n.type = "IF" /\ n.kids = Append(Top.kids, Top.left)
    BY DEF IfNode, If, NewNode
  <2> HIDE DEF n
  <2>3. NodeComplete(n)
    BY <1>f, <2>1, <2>2, IfKids DEF NodeComplete
  <2> QED
    BY <1>23, <1>e, <2>1, <2>3, ReturnNodeComplete DEF IfElseClose, Base, n
<1>24. CASE DefOpen
  <2>1. CASE Goto("params")
    <3> DEFINE f == [Top EXCEPT !.pc = "params"]
    <3>1. f \in FrameOf(k) /\ FrameComplete(f) /\ f.pc = "params"
      BY <1>k, <1>c, PcComplete DEF Labels
    <3> QED
      BY <1>24, <1>e, <2>1, <3>1, ResumeComplete DEF DefOpen, Goto, Returned
  <2>2. CASE stack' = Resume([Top EXCEPT !.pc = "def_open", !.name = Len(input)])
    <3> DEFINE f == [Top EXCEPT !.pc = "def_open", !.name = Len(input)]
    <3>1. "def_open" \in Labels
      BY DEF Labels, Waiting
    <3> HIDE DEF k
    <3>2. /\ f \in FrameOf(k) /\ f.pc = "def_open" /\ f.left = Top.left
          /\ f.kids = Top.kids
      BY <1>k, <3>1 DEF FrameOf
    <3> HIDE DEF f
    <3>3. FrameComplete(f)
      BY <1>c, <3>2 DEF FrameComplete
    <3> QED
      BY <1>24, <1>e, <2>2, <3>2, <3>3, ResumeComplete DEF DefOpen, Returned, f, k
  <2> QED
    BY <1>24, <2>1, <2>2 DEF DefOpen
<1>25. CASE NextParam
  <2> DEFINE params == Append(Top.params, Len(input))
             f == [Top EXCEPT !.pc = "more_params", !.params = params]
  <2>1. params \in Seq(Nat) /\ "more_params" \in Labels
    BY <1>f, <1>k DEF Labels
  <2>2. stack' = Resume(f)
    BY <1>25, <1>k DEF NextParam, FrameOf
  <2> HIDE DEF params, k
  <2>3. /\ f \in FrameOf(k) /\ f.pc = "more_params" /\ f.left = Top.left
        /\ f.kids = Top.kids
    BY <1>k, <2>1 DEF FrameOf
  <2> HIDE DEF f
  <2>4. FrameComplete(f)
    BY <1>c, <2>3 DEF FrameComplete
  <2> QED
    BY <1>25, <1>e, <2>2, <2>3, <2>4, ResumeComplete DEF NextParam, Returned, k
<1>26. CASE NotAParam
  BY <1>26, FailComplete DEF NotAParam, ErrMsg
<1>27. CASE ParamsEnd
  <2>1. CASE Goto("body_open") /\ UNCHANGED <<ret, err>>
    <3>1. /\ [Top EXCEPT !.pc = "body_open"] \in FrameOf(k)
          /\ FrameComplete([Top EXCEPT !.pc = "body_open"])
          /\ [Top EXCEPT !.pc = "body_open"].pc = "body_open"
      BY <1>k, <1>c, PcComplete DEF Labels, Waiting
    <3> QED
      BY <1>27, <1>e, <2>1, <3>1, ResumeComplete DEF ParamsEnd, Goto, Returned
  <2>2. CASE Fail("toomany")
    BY <2>2, FailComplete DEF ErrMsg
  <2>3. CASE UNCHANGED <<stack, ret, err>>
    BY <1>27, <2>3 DEF ParamsEnd, Complete, Top
  <2> QED
    BY <1>27, <2>1, <2>2, <2>3 DEF ParamsEnd
<1>28. CASE DefBody
  <2> DEFINE f == [Top EXCEPT !.pc = "body"]
  <2>1. Top.pc = "body_open" /\ "body" \in Labels
    BY <1>28 DEF DefBody, Consume, Labels, Waiting
  <2>2. f \in FrameOf(k) /\ FrameComplete(f)
    BY <1>k, <1>c, <2>1, PcComplete DEF FrameComplete
  <2>3. /\ NewFrame("stmts", Len(input) + 1) \in FrameOf(k)
        /\ FrameComplete(NewFrame("stmts", Len(input) + 1))
        /\ NewFrame("stmts", Len(input) + 1).pc = "stmts"
    BY <1>k, <1>b
  <2> QED
    BY <1>28, <1>e, <2>2, <2>3, CallComplete DEF DefBody, Returned
<1>29. CASE DefClose
  <2>1. Top.pc = "body" /\ ret # NULL
    BY <1>29, <1>c DEF DefClose, Consume, Returned
  <2> DEFINE n == NewNode("FUNCDEF", "EOS", Top.name, <<ret>>, Top.params,
                          Top.first, Len(input))
  <2>2. NodeComplete(n)
    BY <2>1 DEF NewNode, NodeComplete
  <2> QED
    BY <1>29, <1>e, <2>1, <2>2, ReturnNodeComplete DEF DefClose, Base
<1>30. CASE NextStmt
  <2>1. CASE tok \in {"EOS", "RCURL"}
    <3> DEFINE n == NewNode("BLOCK", "EOS", 0, Top.kids, <<>>, Top.first,
                            Len(input) - 1)
    <3>1. NodeComplete(n)
      BY <1>c DEF NewNode, NodeComplete, FrameComplete
    <3> QED
      BY <1>30, <1>e, <2>1, <3>1, ReturnNodeComplete DEF NextStmt, Base
  <2>2. CASE tok \notin {"EOS", "RCURL"}
    <3>1. /\ [Top EXCEPT !.pc = "stmt"] \in FrameOf(k)
          /\ FrameComplete([Top EXCEPT !.pc = "stmt"])
      BY <1>k, <1>c, PcComplete DEF Labels, Waiting
    <3>2. /\ Expression(0, Len(input)) \in FrameOf(k)
          /\ Expression(0, Len(input)).pc = "expr"
      BY <1>k, ExpressionType
    <3> QED
      BY <1>30, <1>e, <2>2, <3>1, <3>2, ExpressionComplete, CallComplete
      DEF NextStmt, Returned
  <2> QED
    BY <2>1, <2>2
<1>31. CASE EndStmt
  <2> DEFINE kids == Append(Top.kids, ret)
             f == [Top EXCEPT !.pc = "stmts", !.kids = kids]
  <2>1. Top.pc = "stmt" /\ "stmts" \in Labels /\ ret # NULL
    BY <1>31, <1>c DEF EndStmt, Consume, Labels, Waiting, Returned
  <2>2. stack' = Resume(f)
    BY <1>31, <2>1, <1>k DEF EndStmt, FrameOf
  <2>3. kids \in Seq(0..k) /\ \A i \in 1..Len(kids) : kids[i] # NULL
    BY <1>k, <1>f, <1>c, <2>1, AppendKid DEF FrameComplete
  <2> HIDE DEF kids, k
  <2>5. f \in FrameOf(k) /\ f.pc = "stmts" /\ f.kids = kids /\ f.left = Top.left
    BY <1>k, <2>1, <2>3 DEF FrameOf
  <2> HIDE DEF f
  <2>6. FrameComplete(f)
    BY <2>3, <2>5 DEF FrameComplete
  <2> QED
    BY <1>31, <1>e, <2>1, <2>2, <2>5, <2>6, ResumeComplete DEF EndStmt, Returned, k
<1>32. CASE Program
  <2>1. Top.pc = "program" /\ "parsed" \in Labels
    BY <1>32 DEF Program, Labels
  <2>2. /\ [Top EXCEPT !.pc = "parsed"] \in FrameOf(k)
        /\ FrameComplete([Top EXCEPT !.pc = "parsed"])
    BY <1>k, <1>c, <2>1, PcComplete
  <2>3. /\ NewFrame("stmts", 1) \in FrameOf(k) /\ FrameComplete(NewFrame("stmts", 1))
        /\ NewFrame("stmts", 1).pc = "stmts"
    BY <1>b
  <2> QED
    BY <1>32, <1>e, <2>2, <2>3, CallComplete DEF Program, Returned
<1>33. CASE CallDies \/ Parse \/ ConsumeDies \/ Killed \/ Ended \/ UNCHANGED vars
  BY <1>33 DEF CallDies, Parse, ConsumeDies, Killed, Ended, vars, Complete, Top
<1> QED
  BY <1>1, <1>2, <1>3, <1>4, <1>5, <1>6, <1>7, <1>8, <1>9, <1>10, <1>11,
     <1>12, <1>14, <1>15, <1>16, <1>17, <1>18, <1>19, <1>20, <1>21, <1>22,
     <1>23, <1>24, <1>25, <1>26, <1>27, <1>28, <1>29, <1>30, <1>31, <1>32,
     <1>33 DEF Next, Step

-----------------------------------------------------------------------------
LEMMA InitComplete == ASSUME Init PROVE Complete
<1>1. stack = <<NewFrame("program", 0)>> /\ nodes = <<>>
  BY DEF Init
<1>2. FrameComplete(NewFrame("program", 0)) /\ NewFrame("program", 0).pc = "program"
  BY DEF NewFrame, FrameComplete
<1> QED
  BY <1>1, <1>2 DEF Complete, Top, Returned

LEMMA CompleteInvariant == Spec => [](TypeInv /\ Started /\ Complete)
<1>1. Init => TypeInv /\ Started /\ Complete
  BY InitType, InitComplete
<1>2. TypeInv /\ Started /\ Complete /\ [Next]_vars
        => (TypeInv /\ Started /\ Complete)'
  BY TypeStep, StartedStep, CompleteStep
<1> QED
  BY <1>1, <1>2, PTL DEF Spec

(* As long as err() was not called the AST has no NULL pointer but for a   *)
(* missing else block: whatever lparen_infix, lparen_prefix, if_prefix and *)
(* funcdef_prefix store unchecked was checked before or cannot be NULL.    *)
THEOREM AstIsComplete == Spec => []AstComplete
<1>1. Complete => AstComplete
  BY DEF Complete, NodeComplete, AstComplete
<1> QED
  BY <1>1, CompleteInvariant, PTL

(* parse() dies of a NULL result only after err() has set the message it   *)
(* prints.                                                                 *)
THEOREM DyingHasMessage == Spec => []DieHasMessage
<1>1. Complete => DieHasMessage
  BY DEF Complete, Returned, DieHasMessage
<1> QED
  BY <1>1, CompleteInvariant, PTL

-----------------------------------------------------------------------------
(***************************************************************************)
(* Proofs about the C stack of the parser: which function may call which,  *)
(* how deep the calls nest and what their local variables hold.  From them *)
(* follow the bounds of params[] and args[], the bound of the recursion,   *)
(* the grouping of operators and that reading past the end is reported.    *)
(***************************************************************************)

(* The top frame is replaced by the frames fs; the ones below stay.        *)
Replaced(fs) ==
  /\ Len(stack') = Len(stack) - 1 + Len(fs)
  /\ \A i \in 1..(Len(stack) - 1) : stack'[i] = stack[i]
  /\ \A j \in 1..Len(fs) : stack'[Len(stack) - 1 + j] = fs[j]

(* The frames an action leaves in the place of the top frame. *)
GoOn(pc) == [Top EXCEPT !.pc = pc]
GoOnWith(pc, kids) == [Top EXCEPT !.pc = pc, !.kids = kids]
GoOnNamed == [Top EXCEPT !.pc = "def_open", !.name = Len(input)]
GoOnParam ==
  [Top EXCEPT !.pc = "more_params", !.params = Append(Top.params, Len(input))]
Operand == [NewFrame("right", Top.first) EXCEPT !.op = tok, !.left = ret]
InfixFrame(pc) == [Operand EXCEPT !.pc = pc]

Returning == \/ NoPrefix /\ Fail("prefix")
             \/ LoopPastTable /\ Fail("infix")
             \/ LoopEnds \/ BinOp \/ CloseCall \/ CloseParen
             \/ IfElseFails \/ IfElseClose \/ NotAParam \/ DefClose

Resuming ==
  \/ EnterLeaf /\ Replaced(<<GoOn("loop")>>)
  \/ OptionalComma /\ Top.pc = "more_args" /\ Replaced(<<GoOn("args")>>)
  \/ OptionalComma /\ Top.pc = "more_params" /\ Replaced(<<GoOn("params")>>)
  \/ IfCond /\ Replaced(<<GoOnWith("then_open", <<ret>>)>>)
  \/ IfThen /\ Replaced(<<GoOnWith("else?", Append(Top.kids, ret))>>)
  \/ DefOpen /\ Top.pc = "def" /\ Replaced(<<GoOnNamed>>)
  \/ DefOpen /\ Top.pc = "def_open" /\ Replaced(<<GoOn("params")>>)
  \/ NextParam /\ Replaced(<<GoOnParam>>)

Calling ==
  \/ /\ EnterPrefix
     /\ \E pc \in {"if", "def"} :
          /\ pc = "if" <=> tok = "IF"
          /\ Replaced(<<GoOn("loop"), NewFrame(pc, Top.first)>>)
  \/ /\ EnterParen
     /\ Replaced(<<GoOn("loop"), NewFrame("paren", Top.first),
                   Expression(0, Len(input) + 1)>>)
  \/ /\ Infix /\ tok \in BinOps
     /\ Replaced(<<Top, InfixFrame("right"), Expression(lbp[tok], Len(input) + 1)>>)
  \/ Infix /\ tok = "LPAREN" /\ Replaced(<<Top, InfixFrame("args")>>)
  \/ NextArg /\ Replaced(<<GoOn("arg"), Expression(0, Len(input))>>)
  \/ IfOpen /\ Replaced(<<GoOn("cond"), Expression(0, Len(input) + 1)>>)
  \/ IfThenOpen /\ Replaced(<<GoOn("then"), NewFrame("stmts", Len(input) + 1)>>)
  \/ IfElseOpen /\ Replaced(<<GoOn("else"), NewFrame("stmts", Len(input) + 1)>>)
  \/ /\ IfElseAgain
     /\ Replaced(<<[Top EXCEPT !.pc = "else_again", !.left = ret],
                   NewFrame("stmts", Len(input))>>)
  \/ DefBody /\ Replaced(<<GoOn("body"), NewFrame("stmts", Len(input) + 1)>>)
  \/ Program /\ Replaced(<<GoOn("parsed"), NewFrame("stmts", 1)>>)

(* What remains depends on the token or on the value returned.             *)
Choosing ==
  \/ StoreArg /\ ret = NULL /\ Replaced(<<>>)
  \/ /\ StoreArg /\ ret # NULL
     /\ Replaced(<<GoOnWith("more_args", Append(Top.kids, ret))>>)
  \/ IfElse /\ tok = "ELSE" /\ Replaced(<<GoOn("else_open")>>)
  \/ IfElse /\ tok # "ELSE" /\ Replaced(<<>>)
  \/ ParamsEnd /\ Fail("toomany") /\ NoScan /\ Replaced(<<>>)
  \/ ParamsEnd /\ Scan({}) /\ UNCHANGED ret /\ Replaced(<<GoOn("body_open")>>)
  \/ NextStmt /\ tok \in {"EOS", "RCURL"} /\ Replaced(<<>>)
  \/ /\ NextStmt /\ tok \notin {"EOS", "RCURL"}
     /\ Replaced(<<GoOn("stmt"), Expression(0, Len(input))>>)
  \/ EndStmt /\ ret = NULL /\ Replaced(<<>>)
  \/ /\ EndStmt /\ ret # NULL
     /\ Replaced(<<GoOnWith("stmts", Append(Top.kids, ret))>>)

(* The program ends, or has ended. *)
Stopping == /\ Next \/ UNCHANGED vars
            /\ UNCHANGED <<tok, input, stack, ret, nodes, err, ub>>

(* The scan before an err() comes upon a character that ends the program.  *)
Dying == /\ (NoPrefix \/ LoopPastTable)
         /\ UNCHANGED <<stack, ret, nodes, err>>
         /\ status' = "died"
         /\ \E undef \in SUBSET Undefs : Scan(undef)

-----------------------------------------------------------------------------
LEMMA StackSeq ==
  ASSUME TypeInv
  PROVE  /\ stack \in Seq(FrameOf(Len(nodes)))
         /\ Len(stack) \in Nat /\ Len(stack) >= 1
         /\ Top = stack[Len(stack)]
         /\ Top.pc \notin Base => Len(stack) >= 2
  BY TopType, StackTop DEF IsStack, Top

LEMMA ReturnReplaced ==
  ASSUME TypeInv, Top.pc \notin Base, NEW v, Return(v)
  PROVE  Replaced(<<>>)
<1>1. /\ Len(stack') = Len(stack) - 1
      /\ \A i \in 1..(Len(stack) - 1) : stack'[i] = stack[i]
  BY StackSeq, PopType DEF Return
<1> QED
  BY <1>1, StackSeq DEF Replaced

LEMMA ResumeReplaced ==
  ASSUME TypeInv, NEW f \in FrameOf(Len(nodes)), stack' = Resume(f)
  PROVE  Replaced(<<f>>)
<1>1. /\ Len(stack') = Len(stack)
      /\ stack'[Len(stack)] = f
      /\ \A i \in 1..(Len(stack) - 1) : stack'[i] = stack[i]
  BY StackSeq, ResumeType
<1> QED
  BY <1>1, StackSeq DEF Replaced

LEMMA PushReplaced ==
  ASSUME TypeInv, NEW f \in FrameOf(Len(nodes)), NEW s, s = Resume(f),
         NEW g \in FrameOf(Len(nodes)), stack' = Append(s, g)
  PROVE  Replaced(<<f, g>>)
<1>1. /\ s \in Seq(FrameOf(Len(nodes))) /\ Len(s) = Len(stack)
      /\ s[Len(stack)] = f
      /\ \A i \in 1..(Len(stack) - 1) : s[i] = stack[i]
  BY StackSeq, ResumeType
<1>2. /\ Len(stack') = Len(stack) + 1 /\ stack'[Len(stack) + 1] = g
      /\ \A i \in 1..Len(stack) : stack'[i] = s[i]
  BY <1>1, StackSeq, AppendType
<1>3. PICK k : k = Len(stack)
  OBVIOUS
<1>4. k \in Nat /\ k >= 1
  BY <1>3, StackSeq
<1>5. Len(<<f, g>>) = 2 /\ <<f, g>>[1] = f /\ <<f, g>>[2] = g
  OBVIOUS
<1>6. Len(stack') = k - 1 + Len(<<f, g>>)
  BY <1>2, <1>3, <1>4, <1>5
<1>7. \A i \in 1..(k - 1) : stack'[i] = stack[i]
  BY <1>1, <1>2, <1>3, <1>4
<1>8. stack'[k - 1 + 1] = f /\ stack'[k - 1 + 2] = g
  <2>1. k - 1 + 1 = k /\ k - 1 + 2 = k + 1 /\ k \in 1..k
    BY <1>4
  <2> QED
    BY <1>1, <1>2, <1>3, <2>1
<1>9. \A j \in 1..Len(<<f, g>>) : stack'[k - 1 + j] = <<f, g>>[j]
  <2>1. \A j \in 1..2 : j = 1 \/ j = 2
    OBVIOUS
  <2> QED
    BY <1>5, <1>8, <2>1
<1> QED
  BY <1>3, <1>6, <1>7, <1>9 DEF Replaced

LEMMA PushTwoReplaced ==
  ASSUME TypeInv, NEW f \in FrameOf(Len(nodes)), NEW s, s = Resume(f),
         NEW g \in FrameOf(Len(nodes)), NEW h \in FrameOf(Len(nodes)),
         stack' = s \o <<g, h>>
  PROVE  Replaced(<<f, g, h>>)
<1>1. /\ s \in Seq(FrameOf(Len(nodes))) /\ Len(s) = Len(stack)
      /\ s[Len(stack)] = f
      /\ \A i \in 1..(Len(stack) - 1) : s[i] = stack[i]
  BY StackSeq, ResumeType
<1>2. stack' = Append(Append(s, g), h)
  BY <1>1
<1>3. /\ Append(s, g) \in Seq(FrameOf(Len(nodes)))
      /\ Len(Append(s, g)) = Len(stack) + 1 /\ Append(s, g)[Len(stack) + 1] = g
      /\ \A i \in 1..Len(stack) : Append(s, g)[i] = s[i]
  BY <1>1, StackSeq, AppendType
<1>4. /\ Len(stack') = Len(stack) + 2 /\ stack'[Len(stack) + 2] = h
      /\ \A i \in 1..(Len(stack) + 1) : stack'[i] = Append(s, g)[i]
  BY <1>2, <1>3, StackSeq, AppendType
<1> QED
  BY <1>1, <1>3, <1>4, StackSeq DEF Replaced

LEMMA ResumeTop == ASSUME TypeInv PROVE stack = Resume(Top)
<1>1. stack \in Seq(FrameOf(Len(nodes))) /\ Len(stack) >= 1
  BY StackSeq
<1> QED
  BY <1>1 DEF Resume, Top

(* The fields of the frames an action makes. *)
LEMMA GoOnFields ==
  ASSUME TypeInv, NEW pc \in Labels
  PROVE  /\ GoOn(pc) \in FrameOf(Len(nodes))
         /\ GoOn(pc).pc = pc /\ GoOn(pc).kids = Top.kids
         /\ GoOn(pc).name = Top.name /\ GoOn(pc).params = Top.params
         /\ GoOn(pc).op = Top.op /\ GoOn(pc).left = Top.left
         /\ GoOn(pc).rbp = Top.rbp /\ GoOn(pc).first = Top.first
  BY TopType DEF GoOn, FrameOf

LEMMA GoOnWithFields ==
  ASSUME TypeInv, NEW pc \in Labels, NEW kids \in Seq(0..Len(nodes))
  PROVE  /\ GoOnWith(pc, kids) \in FrameOf(Len(nodes))
         /\ GoOnWith(pc, kids).pc = pc
         /\ GoOnWith(pc, kids).name = Top.name
         /\ GoOnWith(pc, kids).params = Top.params
         /\ GoOnWith(pc, kids).kids = kids /\ GoOnWith(pc, kids).op = Top.op
         /\ GoOnWith(pc, kids).left = Top.left
         /\ GoOnWith(pc, kids).rbp = Top.rbp
         /\ GoOnWith(pc, kids).first = Top.first
<1> DEFINE k == Len(nodes)
<1>1. Top \in FrameOf(k) /\ kids \in Seq(0..k)
  BY TopType
<1> HIDE DEF k
<1>2. /\ GoOnWith(pc, kids) \in FrameOf(k)
      /\ GoOnWith(pc, kids).pc = pc
      /\ GoOnWith(pc, kids).name = Top.name
      /\ GoOnWith(pc, kids).params = Top.params
      /\ GoOnWith(pc, kids).kids = kids /\ GoOnWith(pc, kids).op = Top.op
      /\ GoOnWith(pc, kids).left = Top.left
      /\ GoOnWith(pc, kids).rbp = Top.rbp
      /\ GoOnWith(pc, kids).first = Top.first
  BY <1>1 DEF GoOnWith, FrameOf
<1> QED
  BY <1>2 DEF k

LEMMA GoOnNamedFields ==
  ASSUME TypeInv
  PROVE  /\ GoOnNamed \in FrameOf(Len(nodes))
         /\ GoOnNamed.pc = "def_open" /\ GoOnNamed.name = Len(input)
         /\ GoOnNamed.params = Top.params
         /\ GoOnNamed.kids = Top.kids /\ GoOnNamed.op = Top.op
         /\ GoOnNamed.left = Top.left /\ GoOnNamed.rbp = Top.rbp
         /\ GoOnNamed.first = Top.first
<1>1. Top \in FrameOf(Len(nodes)) /\ Len(input) \in Nat /\ "def_open" \in Labels
  BY TopType, InputLen DEF TypeInv, Labels, Waiting
<1> QED
  BY ONLY <1>1 DEF GoOnNamed, FrameOf

LEMMA GoOnParamFields ==
  ASSUME TypeInv
  PROVE  /\ GoOnParam \in FrameOf(Len(nodes))
         /\ GoOnParam.pc = "more_params" /\ GoOnParam.name = Top.name
         /\ GoOnParam.params = Append(Top.params, Len(input))
         /\ GoOnParam.kids = Top.kids /\ GoOnParam.op = Top.op
         /\ GoOnParam.left = Top.left /\ GoOnParam.rbp = Top.rbp
         /\ GoOnParam.first = Top.first
<1> DEFINE params == Append(Top.params, Len(input))
<1>1. Top \in FrameOf(Len(nodes)) /\ "more_params" \in Labels
  BY TopType DEF Labels
<1>2. params \in Seq(Nat)
  BY <1>1, FrameFields, InputLen DEF TypeInv
<1>3. GoOnParam = [Top EXCEPT !.pc = "more_params", !.params = params]
  BY DEF GoOnParam
<1> HIDE DEF params
<1>4. /\ GoOnParam \in FrameOf(Len(nodes))
      /\ GoOnParam.pc = "more_params" /\ GoOnParam.name = Top.name
      /\ GoOnParam.params = params
      /\ GoOnParam.kids = Top.kids /\ GoOnParam.op = Top.op
      /\ GoOnParam.left = Top.left /\ GoOnParam.rbp = Top.rbp
      /\ GoOnParam.first = Top.first
  BY ONLY <1>1, <1>2, <1>3 DEF FrameOf
<1> QED
  BY <1>4 DEF params

LEMMA InfixFields ==
  ASSUME TypeInv, NEW pc \in Labels
  PROVE  /\ InfixFrame(pc) \in FrameOf(Len(nodes))
         /\ InfixFrame(pc).pc = pc /\ InfixFrame(pc).op = tok
         /\ InfixFrame(pc).left = ret /\ InfixFrame(pc).kids = <<>>
         /\ InfixFrame(pc).params = <<>> /\ InfixFrame(pc).first = Top.first
<1> DEFINE k == Len(nodes)
<1>1. /\ ret \in 0..k /\ tok \in TokType /\ Top.first \in Nat
      /\ <<>> \in Seq(0..k)
  BY TopType, FrameFields, EmptyKids DEF TypeInv, HeapInv, TokInv
<1>2. /\ NewFrame("right", Top.first) \in FrameOf(k)
      /\ NewFrame("right", Top.first).kids = <<>>
      /\ NewFrame("right", Top.first).params = <<>>
      /\ NewFrame("right", Top.first).first = Top.first
  BY <1>1, TopType, NewFrameType DEF NewFrame, Labels
<1>3. k \in Nat
  BY TopType
<1> HIDE DEF k
<1>4. /\ Operand \in FrameOf(k)
      /\ Operand.op = tok /\ Operand.left = ret /\ Operand.kids = <<>>
      /\ Operand.params = <<>> /\ Operand.first = Top.first
  <2> DEFINE f == NewFrame("right", Top.first)
  <2> HIDE DEF f
  <2>1. f \in FrameOf(k)
    BY <1>2 DEF f
  <2>2. /\ [f EXCEPT !.op = tok, !.left = ret] \in FrameOf(k)
        /\ [f EXCEPT !.op = tok, !.left = ret].op = tok
        /\ [f EXCEPT !.op = tok, !.left = ret].left = ret
        /\ [f EXCEPT !.op = tok, !.left = ret].kids = f.kids
        /\ [f EXCEPT !.op = tok, !.left = ret].params = f.params
        /\ [f EXCEPT !.op = tok, !.left = ret].first = f.first
    BY <1>1, <1>3, <2>1 DEF FrameOf
  <2> QED
    BY <1>2, <2>2 DEF Operand, f
<1>5. /\ InfixFrame(pc) \in FrameOf(k)
      /\ InfixFrame(pc).pc = pc /\ InfixFrame(pc).op = Operand.op
      /\ InfixFrame(pc).left = Operand.left /\ InfixFrame(pc).kids = Operand.kids
      /\ InfixFrame(pc).params = Operand.params
      /\ InfixFrame(pc).first = Operand.first
  BY <1>3, <1>4 DEF InfixFrame, FrameOf
<1> QED
  BY <1>4, <1>5 DEF k

LEMMA NewFrameFields ==
  ASSUME NEW pc \in Labels, NEW first \in Nat
  PROVE  /\ NewFrame(pc, first).pc = pc /\ NewFrame(pc, first).params = <<>>
         /\ NewFrame(pc, first).kids = <<>>
         /\ NewFrame(pc, first).first = first
         /\ \A k \in Nat : NewFrame(pc, first) \in FrameOf(k)
<1>1. \A k \in Nat : NewFrame(pc, first) \in FrameOf(k)
  BY NewFrameType
<1> QED
  BY <1>1 DEF NewFrame

LEMMA ExpressionFields ==
  ASSUME NEW rbp \in 0..10, NEW first \in Nat
  PROVE  /\ Expression(rbp, first).pc = "expr"
         /\ Expression(rbp, first).rbp = rbp
         /\ Expression(rbp, first).params = <<>>
         /\ Expression(rbp, first).kids = <<>>
         /\ Expression(rbp, first).first = first
         /\ \A k \in Nat : Expression(rbp, first) \in FrameOf(k)
<1>1. \A k \in Nat : Expression(rbp, first) \in FrameOf(k)
  BY ExpressionType
<1> QED
  BY <1>1 DEF Expression, NewFrame

-----------------------------------------------------------------------------
(* Every step is one of those: the whole control of the parser.            *)

LEMMA ReturningMoves ==
  ASSUME TypeInv, Returning
  PROVE  Returning /\ Replaced(<<>>)
<1>1. Top.pc \notin Base /\ \E v : Return(v)
  BY DEF Returning, NoPrefix, LoopEnds, LoopPastTable, BinOp, CloseCall, CloseParen,
     IfElseFails, IfElseClose, NotAParam, DefClose, Consume, At, Fail, ReturnNode, Base
<1> QED
  BY <1>1, ReturnReplaced

LEMMA ResumingMoves ==
  ASSUME TypeInv,
         \/ EnterLeaf \/ OptionalComma \/ IfCond \/ IfThen \/ DefOpen \/ NextParam
  PROVE  Resuming
<1> DEFINE k == Len(nodes)
<1>f. /\ Top \in FrameOf(k) /\ Top.kids \in Seq(0..k)
      /\ ret \in 0..k /\ k \in Nat
  BY TopType, FrameFields DEF TypeInv, HeapInv
<1>g. \A pc \in Labels : Goto(pc) => Replaced(<<GoOn(pc)>>)
  BY GoOnFields, ResumeReplaced DEF Goto, GoOn
<1>1. CASE EnterLeaf
  BY <1>1, <1>g DEF EnterLeaf, Resuming, Labels
<1>2. CASE OptionalComma
  BY <1>2, <1>g DEF OptionalComma, Resuming, Labels, At
<1>3. CASE IfCond
  <2>1. <<ret>> \in Seq(0..k) /\ "then_open" \in Labels
    BY <1>f DEF Labels, Waiting
  <2>2. GoOnWith("then_open", <<ret>>) \in FrameOf(k)
    BY <2>1, GoOnWithFields
  <2>3. stack' = Resume(GoOnWith("then_open", <<ret>>))
    BY <1>3 DEF IfCond, GoOnWith
  <2> QED
    BY <1>3, <2>2, <2>3, ResumeReplaced DEF Resuming
<1>4. CASE IfThen
  <2>1. Append(Top.kids, ret) \in Seq(0..k)
    BY <1>f, KidsType
  <2>2. GoOnWith("else?", Append(Top.kids, ret)) \in FrameOf(k)
    BY <2>1, GoOnWithFields DEF Labels
  <2>3. stack' = Resume(GoOnWith("else?", Append(Top.kids, ret)))
    BY <1>4, <1>f DEF IfThen, GoOnWith, FrameOf
  <2> QED
    BY <1>4, <2>2, <2>3, ResumeReplaced DEF Resuming
<1>5. CASE DefOpen
  <2>1. CASE Consume("def_open") /\ Goto("params")
    BY <1>5, <2>1, <1>g DEF Resuming, Labels, Consume, At
  <2>2. CASE Consume("def") /\ stack' = Resume(GoOnNamed)
    BY <1>5, <2>2, GoOnNamedFields, ResumeReplaced DEF Resuming, Consume, At
  <2> QED
    BY <1>5, <2>1, <2>2 DEF DefOpen, GoOnNamed
<1>6. CASE NextParam
  <2>1. stack' = Resume(GoOnParam)
    BY <1>6, <1>f DEF NextParam, GoOnParam, FrameOf
  <2> QED
    BY <1>6, <2>1, GoOnParamFields, ResumeReplaced DEF Resuming
<1> QED
  BY <1>1, <1>2, <1>3, <1>4, <1>5, <1>6

LEMMA CallReplaced ==
  ASSUME TypeInv, NEW f \in FrameOf(Len(nodes)), NEW g \in FrameOf(Len(nodes)),
         Call(f, g)
  PROVE  Replaced(<<f, g>>)
  BY PushReplaced DEF Call

LEMMA CallingMoves ==
  ASSUME TypeInv,
         \/ EnterPrefix \/ EnterParen \/ Infix \/ NextArg \/ IfOpen \/ IfThenOpen
         \/ IfElseOpen \/ IfElseAgain \/ DefBody \/ Program
  PROVE  Calling
<1> DEFINE k == Len(nodes)
<1>f. /\ Top \in FrameOf(k) /\ Top.first \in Nat /\ Len(input) \in Nat
      /\ ret \in 0..k /\ k \in Nat /\ tok \in TokType
  BY TopType, FrameFields, InputLen DEF TypeInv, HeapInv, TokInv
<1>n. \A pc \in Labels, first \in Nat : NewFrame(pc, first) \in FrameOf(k)
  BY <1>f, NewFrameFields
<1>x. \A rbp \in 0..10, first \in Nat : Expression(rbp, first) \in FrameOf(k)
  BY <1>f, ExpressionFields
<1>g. \A pc \in Labels : GoOn(pc) \in FrameOf(k)
  BY GoOnFields
<1>c. ASSUME NEW pc \in Labels, NEW g \in FrameOf(k), Call([Top EXCEPT !.pc = pc], g)
      PROVE  Replaced(<<GoOn(pc), g>>)
  BY <1>c, <1>g, CallReplaced DEF GoOn
<1>1. CASE EnterPrefix
  <2>1. PICK pc \in {"if", "def"} :
          /\ pc = "if" <=> tok = "IF"
          /\ Call(GoOn("loop"), NewFrame(pc, Top.first))
    BY <1>1 DEF EnterPrefix, GoOn
  <2>2. Replaced(<<GoOn("loop"), NewFrame(pc, Top.first)>>)
    BY <2>1, <1>f, <1>n, <1>g, CallReplaced DEF Labels, Waiting
  <2> QED
    BY <1>1, <2>1, <2>2 DEF Calling
<1>2. CASE EnterParen
  <2> DEFINE f == GoOn("loop")
             g == NewFrame("paren", Top.first)
             h == Expression(0, Len(input) + 1)
  <2>1. f \in FrameOf(k) /\ g \in FrameOf(k) /\ h \in FrameOf(k)
    BY <1>f, <1>n, <1>x, <1>g DEF Labels, Waiting
  <2>2. stack' = Resume(f) \o <<g, h>>
    BY <1>2 DEF EnterParen, CallParen, GoOn
  <2> HIDE DEF f, g, h
  <2>3. Replaced(<<f, g, h>>)
    BY <2>1, <2>2, PushTwoReplaced
  <2> QED
    BY <1>2, <2>3 DEF Calling, f, g, h
<1>3. CASE Infix
  <2> DEFINE f == InfixFrame("right")
             a == InfixFrame("args")
             h == Expression(lbp[tok], Len(input) + 1)
  <2>1. f \in FrameOf(k) /\ a \in FrameOf(k) /\ h \in FrameOf(k)
    BY <1>f, <1>x, InfixFields, lbpType DEF Labels
  <2>2. \/ tok \in BinOps /\ stack' = stack \o <<f, h>>
        \/ tok = "LPAREN" /\ stack' = Append(stack, a)
    <3>1. f = Operand
      <4>1. Operand.pc = "right"
        BY DEF Operand, NewFrame
      <4> QED
        BY <4>1 DEF InfixFrame, Operand, NewFrame
    <3> QED
      BY <1>3, <3>1 DEF Infix, Operand, InfixFrame
  <2> HIDE DEF f, a, h
  <2>3. CASE tok \in BinOps /\ stack' = stack \o <<f, h>>
    <3>1. Replaced(<<Top, f, h>>)
      BY <1>f, <2>1, <2>3, ResumeTop, PushTwoReplaced
    <3> QED
      BY <1>3, <2>3, <3>1 DEF Calling, f, h
  <2>4. CASE tok = "LPAREN" /\ stack' = Append(stack, a)
    <3>1. Replaced(<<Top, a>>)
      BY <1>f, <2>1, <2>4, ResumeTop, PushReplaced
    <3> QED
      BY <1>3, <2>4, <3>1 DEF Calling, a
  <2> QED
    BY <2>2, <2>3, <2>4
<1>4. CASE NextArg
  <2>1. Expression(0, Len(input)) \in FrameOf(k) /\ "arg" \in Labels
    BY <1>f, <1>x DEF Labels
  <2>2. Replaced(<<GoOn("arg"), Expression(0, Len(input))>>)
    BY <1>4, <1>c, <2>1 DEF NextArg
  <2> QED
    BY <1>4, <2>2 DEF Calling
<1>5. CASE IfOpen
  <2>1. Expression(0, Len(input) + 1) \in FrameOf(k) /\ "cond" \in Labels
    BY <1>f, <1>x DEF Labels, Waiting
  <2>2. Replaced(<<GoOn("cond"), Expression(0, Len(input) + 1)>>)
    BY <1>5, <1>c, <2>1 DEF IfOpen
  <2> QED
    BY <1>5, <2>2 DEF Calling
<1>6. CASE IfThenOpen
  <2>1. NewFrame("stmts", Len(input) + 1) \in FrameOf(k) /\ "then" \in Labels
    BY <1>f, <1>n DEF Labels, Waiting
  <2>2. Replaced(<<GoOn("then"), NewFrame("stmts", Len(input) + 1)>>)
    BY <1>6, <1>c, <2>1 DEF IfThenOpen
  <2> QED
    BY <1>6, <2>2 DEF Calling
<1>7. CASE IfElseOpen
  <2>1. NewFrame("stmts", Len(input) + 1) \in FrameOf(k) /\ "else" \in Labels
    BY <1>f, <1>n DEF Labels, Waiting
  <2>2. Replaced(<<GoOn("else"), NewFrame("stmts", Len(input) + 1)>>)
    BY <1>7, <1>c, <2>1 DEF IfElseOpen
  <2> QED
    BY <1>7, <2>2 DEF Calling
<1>8. CASE IfElseAgain
  <2> DEFINE f == [Top EXCEPT !.pc = "else_again", !.left = ret]
             g == NewFrame("stmts", Len(input))
  <2>1. f \in FrameOf(k)
    <3>1. "else_again" \in Labels
      BY DEF Labels, Waiting
    <3> HIDE DEF k
    <3> QED
      BY <1>f, <3>1 DEF FrameOf
  <2>2. g \in FrameOf(k) /\ Call(f, g)
    BY <1>8, <1>f, <1>n DEF IfElseAgain, Labels
  <2> HIDE DEF f, g
  <2>3. Replaced(<<f, g>>)
    BY <2>1, <2>2, CallReplaced
  <2> QED
    BY <1>8, <2>3 DEF Calling, f, g
<1>9. CASE DefBody
  <2>1. NewFrame("stmts", Len(input) + 1) \in FrameOf(k) /\ "body" \in Labels
    BY <1>f, <1>n DEF Labels, Waiting
  <2>2. Replaced(<<GoOn("body"), NewFrame("stmts", Len(input) + 1)>>)
    BY <1>9, <1>c, <2>1 DEF DefBody
  <2> QED
    BY <1>9, <2>2 DEF Calling
<1>10. CASE Program
  <2>1. NewFrame("stmts", 1) \in FrameOf(k) /\ "parsed" \in Labels
    BY <1>f, <1>n DEF Labels, Waiting
  <2>2. Replaced(<<GoOn("parsed"), NewFrame("stmts", 1)>>)
    BY <1>10, <1>c, <2>1 DEF Program
  <2> QED
    BY <1>10, <2>2 DEF Calling
<1> QED
  BY <1>1, <1>2, <1>3, <1>4, <1>5, <1>6, <1>7, <1>8, <1>9, <1>10

LEMMA ChoosingMoves ==
  ASSUME TypeInv,
         \/ StoreArg \/ IfElse \/ NextStmt \/ EndStmt
         \/ ParamsEnd /\ ~(UNCHANGED <<tok, input, stack, ret, err, ub>>)
  PROVE  Choosing
<1> DEFINE k == Len(nodes)
<1>f. /\ Top \in FrameOf(k) /\ Top.kids \in Seq(0..k) /\ Len(input) \in Nat
      /\ ret \in 0..k /\ k \in Nat
      /\ Append(Top.kids, ret) \in Seq(0..k)
  BY TopType, FrameFields, InputLen, KidsType DEF TypeInv, HeapInv
<1>g. \A pc \in Labels : GoOn(pc) \in FrameOf(k) /\ (Goto(pc) => Replaced(<<GoOn(pc)>>))
  BY GoOnFields, ResumeReplaced DEF Goto, GoOn
<1>w. \A pc \in Labels : GoOnWith(pc, Append(Top.kids, ret)) \in FrameOf(k)
  BY <1>f, GoOnWithFields
<1>1. CASE StoreArg /\ ret = NULL
  BY <1>1, ReturnReplaced DEF StoreArg, At, Fail, Base, Choosing
<1>2. CASE StoreArg /\ ret # NULL
  <2>1. stack' = Resume(GoOnWith("more_args", Append(Top.kids, ret)))
    BY <1>2, <1>f DEF StoreArg, GoOnWith, FrameOf
  <2> QED
    BY <1>2, <1>w, <2>1, ResumeReplaced DEF Choosing, Labels
<1>3. CASE IfElse /\ tok = "ELSE"
  BY <1>3, <1>g DEF IfElse, Choosing, Labels, Waiting
<1>4. CASE IfElse /\ tok # "ELSE"
  BY <1>4, ReturnReplaced DEF IfElse, At, ReturnNode, Base, Choosing
<1>5. CASE ParamsEnd /\ Fail("toomany") /\ NoScan
  BY <1>5, ReturnReplaced DEF ParamsEnd, At, Fail, Base, Choosing
<1>6. CASE ParamsEnd /\ Goto("body_open") /\ Scan({}) /\ UNCHANGED ret
  BY <1>6, <1>g DEF Choosing, Labels, Waiting
<1>7. CASE NextStmt /\ tok \in {"EOS", "RCURL"}
  BY <1>7, ReturnReplaced DEF NextStmt, At, ReturnNode, Base, Choosing
<1>8. CASE NextStmt /\ tok \notin {"EOS", "RCURL"}
  <2>1. Expression(0, Len(input)) \in FrameOf(k) /\ GoOn("stmt") \in FrameOf(k)
    BY <1>f, <1>g, ExpressionFields DEF Labels, Waiting
  <2>2. Call(GoOn("stmt"), Expression(0, Len(input)))
    BY <1>8 DEF NextStmt, GoOn
  <2>3. Replaced(<<GoOn("stmt"), Expression(0, Len(input))>>)
    BY <2>1, <2>2, CallReplaced
  <2> QED
    BY <1>8, <2>3 DEF Choosing
<1>9. CASE EndStmt /\ ret = NULL
  BY <1>9, ReturnReplaced DEF EndStmt, Consume, At, Base, Choosing
<1>10. CASE EndStmt /\ ret # NULL
  <2>1. stack' = Resume(GoOnWith("stmts", Append(Top.kids, ret)))
    BY <1>10, <1>f DEF EndStmt, GoOnWith, FrameOf
  <2> QED
    BY <1>10, <1>w, <2>1, ResumeReplaced DEF Choosing, Labels
<1>11. ASSUME ParamsEnd, ~(UNCHANGED <<tok, input, stack, ret, err, ub>>)
       PROVE  \/ Fail("toomany") /\ NoScan
              \/ Goto("body_open") /\ Scan({}) /\ UNCHANGED ret
  BY <1>11 DEF ParamsEnd
<1> QED
  BY <1>1, <1>2, <1>3, <1>4, <1>5, <1>6, <1>7, <1>8, <1>9, <1>10, <1>11

LEMMA DyingMoves ==
  ASSUME NoPrefix \/ LoopPastTable
  PROVE  \/ Dying
         \/ NoPrefix /\ Fail("prefix")
         \/ LoopPastTable /\ Fail("infix")
<1>1. Undef(tok) \in SUBSET Undefs /\ {} \in SUBSET Undefs
  BY DEF Undef, Undefs
<1>2. ASSUME NEW before \in SUBSET Undefs, NEW after, NEW msg, UNCHANGED nodes,
             NoPrefix \/ LoopPastTable, ScanThenFail(before, after, msg)
      PROVE  Dying \/ Fail(msg)
  BY <1>2 DEF ScanThenFail, Dying
<1>3. ASSUME NoPrefix PROVE Dying \/ Fail("prefix")
  <2>1. ScanThenFail({}, Undef(tok), "prefix") /\ UNCHANGED nodes
    BY <1>3 DEF NoPrefix
  <2> QED
    BY ONLY <1>1, <1>2, <1>3, <2>1
<1>4. ASSUME LoopPastTable PROVE Dying \/ Fail("infix")
  <2>1. ScanThenFail(Undef(tok), {}, "infix") /\ UNCHANGED nodes
    BY <1>4 DEF LoopPastTable
  <2> QED
    BY ONLY <1>1, <1>2, <1>4, <2>1
<1> QED
  BY <1>3, <1>4, Zenon

LEMMA Moves ==
  ASSUME TypeInv, [Next]_vars
  PROVE  \/ Returning /\ Replaced(<<>>)
         \/ Resuming \/ Calling \/ Choosing \/ Stopping \/ Dying
<1>1. CASE CallDies \/ Parse \/ ConsumeDies \/ Killed \/ Ended \/ UNCHANGED vars
  BY <1>1 DEF CallDies, Parse, ConsumeDies, Killed, Ended, vars, Stopping
<1>2. CASE ParamsEnd /\ UNCHANGED <<tok, input, stack, ret, err, ub>>
  BY <1>2 DEF ParamsEnd, Stopping
<1> QED
  BY <1>1, <1>2, ReturningMoves, ResumingMoves, CallingMoves, ChoosingMoves,
     DyingMoves DEF Next, Step, Returning

(* The fields of the top frame, and what an action reads besides it.       *)
LEMMA TopFacts ==
  ASSUME TypeInv
  PROVE  /\ Len(nodes) \in Nat /\ Len(input) \in Nat
         /\ Len(stack) \in Nat /\ Len(stack) >= 1 /\ Top = stack[Len(stack)]
         /\ Top \in FrameOf(Len(nodes)) /\ Top.pc \in Labels
         /\ Top.kids \in Seq(0..Len(nodes)) /\ Top.first \in Nat
         /\ Top.params \in Seq(Nat) /\ Top.name \in Nat
         /\ Top.left \in 0..Len(nodes) /\ ret \in 0..Len(nodes)
         /\ Top.op \in TokType /\ tok \in TokType
         /\ Append(Top.kids, ret) \in Seq(0..Len(nodes))
         /\ Len(Append(Top.kids, ret)) = Len(Top.kids) + 1
         /\ <<ret>> \in Seq(0..Len(nodes))
<1>1. /\ Len(nodes) \in Nat /\ Top \in FrameOf(Len(nodes)) /\ Len(input) \in Nat
      /\ ret \in 0..Len(nodes) /\ tok \in TokType
  BY TopType, InputLen DEF TypeInv, HeapInv, TokInv
<1>2. /\ Top.kids \in Seq(0..Len(nodes)) /\ Top.first \in Nat
      /\ Top.params \in Seq(Nat) /\ Top.name \in Nat
      /\ Top.left \in 0..Len(nodes) /\ Top.op \in TokType /\ Top.pc \in Labels
  BY <1>1, FrameFields
<1>3. /\ Append(Top.kids, ret) \in Seq(0..Len(nodes))
      /\ Len(Append(Top.kids, ret)) = Len(Top.kids) + 1
      /\ <<ret>> \in Seq(0..Len(nodes))
  BY <1>1, <1>2
<1> QED
  BY <1>1, <1>2, <1>3, StackSeq

(* A frame that stays in the stack stays well-typed. *)
LEMMA ReplacedFrames ==
  ASSUME TypeInv, NEW fs \in Seq(FrameOf(Len(nodes))), Replaced(fs),
         NEW i \in 1..Len(stack')
  PROVE  \/ i \in 1..(Len(stack) - 1) /\ stack'[i] = stack[i]
         \/ \E j \in 1..Len(fs) : i = Len(stack) - 1 + j /\ stack'[i] = fs[j]
<1>1. CASE i <= Len(stack) - 1
  BY <1>1, StackSeq DEF Replaced
<1>2. CASE i > Len(stack) - 1
  <2> DEFINE j == i - (Len(stack) - 1)
  <2>1. j \in 1..Len(fs) /\ i = Len(stack) - 1 + j
    BY <1>2, StackSeq DEF Replaced
  <2> HIDE DEF j
  <2>2. stack'[i] = fs[j]
    BY <2>1 DEF Replaced
  <2> QED
    BY <2>1, <2>2
<1> QED
  BY <1>1, <1>2, StackSeq

(* What lex_scan reads is never taken back. *)
LEMMA InputGrows ==
  ASSUME TypeInv, [Next]_vars
  PROVE  UNCHANGED <<tok, input>> \/ Len(input') = Len(input) + 1
<1>1. \A undef : Scan(undef) => Len(input') = Len(input) + 1
  BY DEF Scan, TypeInv, TokInv
<1> QED
  BY <1>1 DEF Next, Step, vars, Ended, At, Consume, NoScan,
     EnterLeaf, EnterPrefix, EnterParen, NoPrefix, ScanThenFail, Infix, LoopEnds,
     LoopPastTable, BinOp, NextArg, StoreArg, OptionalComma, CloseCall,
     CallDies, CloseParen, IfOpen, IfCond, IfThenOpen, IfThen, IfElse,
     IfElseOpen, IfElseAgain, IfElseFails, IfElseClose, DefOpen, NextParam,
     NotAParam, ParamsEnd, DefBody, DefClose, NextStmt, EndStmt, Program,
     Parse, ConsumeDies, Killed

-----------------------------------------------------------------------------
(* How far the parser may still descend from pc before it reads a token:   *)
(* block() and the argument loop make one call, the code behind an else    *)
(* block calls block(), which makes one.                                   *)
Room(pc) == IF pc = "else" THEN 2
            ELSE IF pc \in {"stmts", "args", "arg", "more_args"} THEN 1 ELSE 0

(* What holds of the i-th frame after len tokens. *)
Fits(i, f, len) ==
  /\ Len(f.params) <= MAX_FUNC_PARAMS + 1
  /\ f.pc \in {"args", "more_args"} => Len(f.kids) <= MAX_FUNC_PARAMS + 1
  /\ f.pc = "arg" => Len(f.kids) <= MAX_FUNC_PARAMS
  /\ i + Room(f.pc) <= 2 * len + 1

StackFits == \A i \in 1..Len(stack) : Fits(i, stack[i], Len(input))

LEMMA FitsMono ==
  ASSUME NEW i \in Nat, NEW f, NEW j \in Nat, NEW k \in Nat, j <= k, Fits(i, f, j)
  PROVE  Fits(i, f, k)
  BY DEF Fits, Room

LEMMA FitsMove ==
  ASSUME TypeInv, [Next]_vars, StackFits,
         NEW fs \in Seq(FrameOf(Len(nodes))), Replaced(fs),
         \A j \in 1..Len(fs) : Fits(Len(stack) - 1 + j, fs[j], Len(input'))
  PROVE  StackFits'
<1>1. Len(input) \in Nat /\ Len(input') \in Nat /\ Len(input) <= Len(input')
  BY InputGrows, TopFacts
<1>2. ASSUME NEW i \in 1..Len(stack') PROVE Fits(i, stack'[i], Len(input'))
  <2>1. CASE i \in 1..(Len(stack) - 1) /\ stack'[i] = stack[i]
    BY <1>1, <2>1, FitsMono, TopFacts, SMTT(20) DEF StackFits
  <2> QED
    BY <2>1, ReplacedFrames
<1> QED
  BY <1>2 DEF StackFits

(* The same for the numbers of frames that occur. *)
LEMMA FitsMoves ==
  ASSUME TypeInv, [Next]_vars, StackFits,
         NEW f \in FrameOf(Len(nodes)), NEW g \in FrameOf(Len(nodes)),
         NEW h \in FrameOf(Len(nodes)), NEW len, len = Len(input')
  PROVE  /\ Replaced(<<>>) => StackFits'
         /\ Replaced(<<f>>) /\ Fits(Len(stack), f, len) => StackFits'
         /\ Replaced(<<f, g>>) /\ Fits(Len(stack), f, len)
              /\ Fits(Len(stack) + 1, g, len) => StackFits'
         /\ Replaced(<<f, g, h>>) /\ Fits(Len(stack), f, len)
              /\ Fits(Len(stack) + 1, g, len) /\ Fits(Len(stack) + 2, h, len)
              => StackFits'
<1>1. Len(stack) \in Nat
  BY TopFacts
<1>2. ASSUME Replaced(<<>>) PROVE StackFits'
  <2>1. \A j \in 1..Len(<<>>) : Fits(Len(stack) - 1 + j, <<>>[j], len)
    OBVIOUS
  <2> QED
    BY <1>2, <2>1, EmptyKids, FitsMove
<1>3. ASSUME Replaced(<<f>>), Fits(Len(stack), f, len) PROVE StackFits'
  <2>1. \A j \in 1..Len(<<f>>) : Fits(Len(stack) - 1 + j, <<f>>[j], len)
    BY <1>1, <1>3
  <2>2. <<f>> \in Seq(FrameOf(Len(nodes)))
    OBVIOUS
  <2> QED
    BY <1>3, <2>1, <2>2, FitsMove
<1>4. ASSUME Replaced(<<f, g>>), Fits(Len(stack), f, len),
             Fits(Len(stack) + 1, g, len)
      PROVE  StackFits'
  <2>1. \A j \in 1..Len(<<f, g>>) : Fits(Len(stack) - 1 + j, <<f, g>>[j], len)
    BY <1>1, <1>4
  <2>2. <<f, g>> \in Seq(FrameOf(Len(nodes)))
    OBVIOUS
  <2> QED
    BY <1>4, <2>1, <2>2, FitsMove
<1>5. ASSUME Replaced(<<f, g, h>>), Fits(Len(stack), f, len),
             Fits(Len(stack) + 1, g, len), Fits(Len(stack) + 2, h, len)
      PROVE  StackFits'
  <2>1. \A j \in 1..Len(<<f, g, h>>) :
          Fits(Len(stack) - 1 + j, <<f, g, h>>[j], len)
    BY <1>1, <1>5
  <2>2. <<f, g, h>> \in Seq(FrameOf(Len(nodes)))
    OBVIOUS
  <2> QED
    BY <1>5, <2>1, <2>2, FitsMove
<1> QED
  BY <1>2, <1>3, <1>4, <1>5

LEMMA FitsStep ==
  ASSUME TypeInv, StackFits, [Next]_vars
  PROVE  StackFits'
<1> DEFINE k == Len(nodes)
           d == Len(stack)
           l == Len(input)
           F(i, f) == Fits(i, f, Len(input'))
<1>k. /\ k \in Nat /\ d \in Nat /\ d >= 1 /\ l \in Nat /\ Top \in FrameOf(k)
      /\ Top.params \in Seq(Nat) /\ Len(Top.kids) \in Nat /\ Top.first \in Nat
      /\ Append(Top.kids, ret) \in Seq(0..k)
      /\ Len(Append(Top.kids, ret)) = Len(Top.kids) + 1
      /\ <<ret>> \in Seq(0..k) /\ tok \in TokType /\ MAX_FUNC_PARAMS \in Nat
  BY TopFacts, ParserAssumption
<1>t. Fits(d, Top, l)
  BY TopFacts DEF StackFits
<1>s. /\ \A undef : Scan(undef) => Len(input') = l + 1
      /\ NoScan => Len(input') = l
  BY DEF Scan, NoScan, TypeInv, TokInv
<1>i. Len(input') \in Nat /\ Len(input') >= l
  BY <1>k, InputGrows
<1>g. ASSUME NEW pc \in Labels,
             Len(input') = l + 1 \/ Room(pc) = 0 \/ Room(pc) <= Room(Top.pc),
             pc \in {"args", "more_args"} => Top.pc \in {"args", "more_args"},
             pc = "arg" => Len(Top.kids) <= MAX_FUNC_PARAMS
      PROVE  GoOn(pc) \in FrameOf(k) /\ F(d, GoOn(pc))
  <2>1. /\ GoOn(pc) \in FrameOf(k) /\ GoOn(pc).pc = pc
        /\ GoOn(pc).params = Top.params /\ GoOn(pc).kids = Top.kids
    BY GoOnFields
  <2>2. d + Room(pc) <= 2 * Len(input') + 1
    BY <1>k, <1>t, <1>i, <1>g DEF Fits, Room
  <2> QED
    BY <1>t, <1>g, <2>1, <2>2 DEF Fits
<1>e. Len(<<>>) = 0 /\ 0 <= MAX_FUNC_PARAMS + 1 /\ 0 <= MAX_FUNC_PARAMS
  BY <1>k
<1>n. ASSUME NEW pc \in Labels, NEW first \in Nat, NEW i \in Nat,
             i + Room(pc) <= 2 * Len(input') + 1
      PROVE  NewFrame(pc, first) \in FrameOf(k) /\ F(i, NewFrame(pc, first))
  BY <1>k, <1>e, <1>n, NewFrameFields DEF Fits
<1>x. ASSUME NEW rbp \in 0..10, NEW first \in Nat, NEW i \in Nat,
             i <= 2 * Len(input') + 1
      PROVE  Expression(rbp, first) \in FrameOf(k) /\ F(i, Expression(rbp, first))
  <2>1. /\ Expression(rbp, first).pc = "expr"
        /\ Expression(rbp, first).params = <<>>
        /\ Expression(rbp, first) \in FrameOf(k)
    <3>1. k \in Nat
      BY <1>k
    <3> HIDE DEF k, F, d, l
    <3> QED
      BY <3>1, ExpressionFields
  <2>2. i + Room("expr") <= 2 * Len(input') + 1
    BY <1>k, <1>x DEF Room
  <2> QED
    BY <1>e, <2>1, <2>2 DEF Fits
<1>w. ASSUME NEW pc \in Labels, NEW kids \in Seq(0..k),
             d + Room(pc) <= 2 * Len(input') + 1,
             pc \in {"args", "arg"} => FALSE,
             pc = "more_args" => Len(kids) <= MAX_FUNC_PARAMS + 1
      PROVE  GoOnWith(pc, kids) \in FrameOf(k) /\ F(d, GoOnWith(pc, kids))
  BY <1>t, <1>w, GoOnWithFields DEF Fits
<1> HIDE DEF F
<1>m. ASSUME NEW f \in FrameOf(k), NEW g \in FrameOf(k), NEW h \in FrameOf(k)
      PROVE  /\ Replaced(<<>>) => StackFits'
             /\ Replaced(<<f>>) /\ F(d, f) => StackFits'
             /\ Replaced(<<f, g>>) /\ F(d, f) /\ F(d + 1, g) => StackFits'
             /\ Replaced(<<f, g, h>>) /\ F(d, f) /\ F(d + 1, g) /\ F(d + 2, h)
                  => StackFits'
  BY FitsMoves DEF F
<1>0. Replaced(<<>>) => StackFits'
  BY <1>k, <1>m
<1> HIDE DEF k, d, l
<1>1. CASE Resuming
  <2>1. CASE EnterLeaf /\ Replaced(<<GoOn("loop")>>)
    BY <2>1, <1>g, <1>m DEF Labels, Room
  <2>2. CASE OptionalComma /\ Top.pc = "more_args" /\ Replaced(<<GoOn("args")>>)
    <3>1. Room("args") <= Room(Top.pc) /\ "args" \in Labels
      BY <2>2 DEF Labels, Room
    <3>2. GoOn("args") \in FrameOf(k) /\ F(d, GoOn("args"))
      BY <2>2, <3>1, <1>g
    <3> QED
      BY <2>2, <3>2, <1>m
  <2>3. CASE OptionalComma /\ Top.pc = "more_params" /\ Replaced(<<GoOn("params")>>)
    BY <2>3, <1>g, <1>m DEF Labels, Room
  <2>4. CASE IfCond /\ Replaced(<<GoOnWith("then_open", <<ret>>)>>)
    <3>1. d + Room("then_open") <= 2 * Len(input') + 1
      BY <1>k, <1>t, <1>i DEF Fits, Room
    <3>2. /\ GoOnWith("then_open", <<ret>>) \in FrameOf(k)
          /\ F(d, GoOnWith("then_open", <<ret>>))
      BY <1>k, <1>w, <3>1 DEF Labels, Waiting
    <3> QED
      BY <2>4, <3>2, <1>m
  <2>5. CASE IfThen /\ Replaced(<<GoOnWith("else?", Append(Top.kids, ret))>>)
    <3>1. d + Room("else?") <= 2 * Len(input') + 1
      BY <1>k, <1>t, <1>i DEF Fits, Room
    <3>2. /\ GoOnWith("else?", Append(Top.kids, ret)) \in FrameOf(k)
          /\ F(d, GoOnWith("else?", Append(Top.kids, ret)))
      BY <1>k, <1>w, <3>1 DEF Labels
    <3> QED
      BY <2>5, <3>2, <1>m
  <2>6. CASE DefOpen /\ Top.pc = "def" /\ Replaced(<<GoOnNamed>>)
    <3>1. /\ GoOnNamed \in FrameOf(k) /\ GoOnNamed.pc = "def_open"
          /\ GoOnNamed.params = Top.params
      BY GoOnNamedFields DEF k
    <3>2. d + Room("def_open") <= 2 * Len(input') + 1
      BY <1>k, <1>t, <1>i DEF Fits, Room
    <3>3. F(d, GoOnNamed)
      BY <1>t, <3>1, <3>2 DEF F, Fits
    <3> QED
      BY <2>6, <3>1, <3>3, <1>m
  <2>7. CASE DefOpen /\ Top.pc = "def_open" /\ Replaced(<<GoOn("params")>>)
    BY <2>7, <1>g, <1>m DEF Labels, Room
  <2>8. CASE NextParam /\ Replaced(<<GoOnParam>>)
    <3>1. /\ GoOnParam \in FrameOf(k) /\ GoOnParam.pc = "more_params"
          /\ GoOnParam.params = Append(Top.params, Len(input))
      BY GoOnParamFields DEF k
    <3>2. d + Room("more_params") <= 2 * Len(input') + 1
      BY <1>k, <1>t, <1>i DEF Fits, Room
    <3>3. Len(Append(Top.params, Len(input))) <= MAX_FUNC_PARAMS + 1
      <4>1. Len(Top.params) <= MAX_FUNC_PARAMS /\ Top.params \in Seq(Nat)
        BY <2>8, <1>k DEF NextParam, MoreParams
      <4>2. Len(Append(Top.params, Len(input))) = Len(Top.params) + 1
        BY <4>1
      <4> QED
        BY <4>1, <4>2, <1>k
    <3>4. F(d, GoOnParam)
      BY <3>1, <3>2, <3>3 DEF F, Fits
    <3> QED
      BY <2>8, <3>1, <3>4, <1>m
  <2> QED
    BY <1>1, <2>1, <2>2, <2>3, <2>4, <2>5, <2>6, <2>7, <2>8 DEF Resuming
<1>2. CASE Calling
  <2>a. ASSUME NEW pc \in Labels, NEW g \in FrameOf(k), Len(input') = l + 1,
               F(d + 1, g), pc \notin {"args", "arg", "more_args"},
               Replaced(<<GoOn(pc), g>>)
        PROVE  StackFits'
    BY <2>a, <1>g, <1>m
  <2>b. /\ Len(input') = l + 1 => d + 2 <= 2 * Len(input') + 1
        /\ d <= 2 * Len(input') + 1
    BY <1>k, <1>t, <1>i DEF Fits, Room
  <2>s. ASSUME NEW first \in Nat, Len(input') = l + 1
        PROVE  NewFrame("stmts", first) \in FrameOf(k)
               /\ F(d + 1, NewFrame("stmts", first))
    <3>1. (d + 1) + Room("stmts") <= 2 * Len(input') + 1 /\ "stmts" \in Labels
      BY <2>b, <2>s, <1>k DEF Labels, Room
    <3> QED
      BY <3>1, <1>k, <1>n
  <2>1. CASE EnterPrefix /\ \E pc \in {"if", "def"} :
                Replaced(<<GoOn("loop"), NewFrame(pc, Top.first)>>)
    <3>1. Len(input') = l + 1
      BY <2>1, <1>s DEF EnterPrefix
    <3>2. PICK pc \in {"if", "def"} : Replaced(<<GoOn("loop"), NewFrame(pc, Top.first)>>)
      BY <2>1
    <3>3. NewFrame(pc, Top.first) \in FrameOf(k) /\ F(d + 1, NewFrame(pc, Top.first))
      BY <2>b, <3>1, <1>k, <1>n DEF Labels, Waiting, Room
    <3> QED
      BY <2>a, <3>1, <3>2, <3>3 DEF Labels
  <2>2. CASE EnterParen
             /\ Replaced(<<GoOn("loop"), NewFrame("paren", Top.first),
                           Expression(0, Len(input) + 1)>>)
    <3>1. Len(input') = l + 1
      BY <2>2, <1>s DEF EnterParen
    <3>2. GoOn("loop") \in FrameOf(k) /\ F(d, GoOn("loop"))
      BY <3>1, <1>g DEF Labels
    <3>3. /\ NewFrame("paren", Top.first) \in FrameOf(k)
          /\ F(d + 1, NewFrame("paren", Top.first))
      BY <2>b, <3>1, <1>k, <1>n DEF Labels, Waiting, Room
    <3>4. Expression(0, Len(input) + 1) \in FrameOf(k)
          /\ F(d + 2, Expression(0, Len(input) + 1))
      BY <2>b, <3>1, <1>k, <1>x DEF l
    <3> QED
      BY <2>2, <3>2, <3>3, <3>4, <1>m
  <2>c. CASE Infix
    <3> DEFINE e == Expression(lbp[tok], Len(input) + 1)
    <3>1. Len(input') = l + 1 /\ F(d, Top)
      BY <2>c, <1>s, <1>k, <1>t, FitsMono DEF Infix, F
    <3>2. InfixFrame("right") \in FrameOf(k) /\ InfixFrame("args") \in FrameOf(k)
      BY InfixFields DEF k, Labels
    <3>3. F(d + 1, InfixFrame("right")) /\ F(d + 1, InfixFrame("args"))
      <4>1. /\ InfixFrame("right").pc = "right" /\ InfixFrame("args").pc = "args"
            /\ InfixFrame("right").params = <<>> /\ InfixFrame("args").params = <<>>
            /\ InfixFrame("args").kids = <<>>
        BY InfixFields DEF Labels
      <4> QED
        BY <4>1, <2>b, <3>1, <1>k, <1>e DEF F, Fits, Room
    <3>4. e \in FrameOf(k) /\ F(d + 2, e)
      <4>1. lbp[tok] \in 0..10 /\ Len(input) + 1 \in Nat /\ d + 2 \in Nat
        BY <1>k, lbpType DEF l
      <4> QED
        BY <2>b, <3>1, <4>1, <1>x
    <3> HIDE DEF e
    <3>5. CASE Replaced(<<Top, InfixFrame("right"), e>>)
      BY <3>1, <3>2, <3>3, <3>4, <3>5, <1>k, <1>m
    <3>6. CASE Replaced(<<Top, InfixFrame("args")>>)
      BY <3>1, <3>2, <3>3, <3>6, <1>k, <1>m
    <3> QED
      BY <2>c, <1>2, <3>5, <3>6 DEF Calling, e, Infix, At, EnterPrefix, EnterParen,
         NextArg, IfOpen, IfThenOpen, IfElseOpen, IfElseAgain, DefBody, Program, Consume
  <2>4. CASE NextArg /\ Replaced(<<GoOn("arg"), Expression(0, Len(input))>>)
    <3>1. Top.pc = "args" /\ Len(Top.kids) <= MAX_FUNC_PARAMS /\ Len(input') = l
      BY <2>4, <1>s DEF NextArg, At, MoreArgs
    <3>2. GoOn("arg") \in FrameOf(k) /\ F(d, GoOn("arg"))
      BY <3>1, <1>g DEF Labels, Room
    <3>3. /\ Expression(0, Len(input)) \in FrameOf(k)
          /\ F(d + 1, Expression(0, Len(input)))
      <4>1. d + 1 <= 2 * Len(input') + 1
        BY <3>1, <1>t DEF Fits, Room
      <4> QED
        BY <4>1, <1>k, <1>x DEF l
    <3> QED
      BY <2>4, <3>2, <3>3, <1>m
  <2>5. CASE IfOpen /\ Replaced(<<GoOn("cond"), Expression(0, Len(input) + 1)>>)
    <3>1. Len(input') = l + 1
      BY <2>5, <1>s DEF IfOpen, Consume
    <3>2. /\ Expression(0, Len(input) + 1) \in FrameOf(k)
          /\ F(d + 1, Expression(0, Len(input) + 1))
      BY <2>b, <3>1, <1>k, <1>x DEF l
    <3> QED
      BY <2>5, <2>a, <3>1, <3>2 DEF Labels, Waiting
  <2>6. CASE IfThenOpen /\ Replaced(<<GoOn("then"), NewFrame("stmts", Len(input) + 1)>>)
    <3>1. Len(input') = l + 1 /\ Len(input) + 1 \in Nat
      BY <2>6, <1>s, <1>k DEF IfThenOpen, Consume, l
    <3> QED
      BY <2>6, <2>a, <2>s, <3>1 DEF Labels, Waiting
  <2>7. CASE IfElseOpen /\ Replaced(<<GoOn("else"), NewFrame("stmts", Len(input) + 1)>>)
    <3>1. Len(input') = l + 1 /\ Len(input) + 1 \in Nat
      BY <2>7, <1>s, <1>k DEF IfElseOpen, Consume, l
    <3> QED
      BY <2>7, <2>a, <2>s, <3>1 DEF Labels
  <2>8. CASE IfElseAgain
             /\ Replaced(<<[Top EXCEPT !.pc = "else_again", !.left = ret],
                           NewFrame("stmts", Len(input))>>)
    <3> DEFINE f == [Top EXCEPT !.pc = "else_again", !.left = ret]
    <3>1. d + 2 <= 2 * Len(input') + 1
      BY <2>8, <1>s, <1>t DEF IfElseAgain, At, Fits, Room
    <3>2. /\ NewFrame("stmts", Len(input)) \in FrameOf(k)
          /\ F(d + 1, NewFrame("stmts", Len(input)))
      <4>1. (d + 1) + Room("stmts") <= 2 * Len(input') + 1 /\ "stmts" \in Labels
        BY <3>1, <1>k DEF Labels, Room
      <4> QED
        BY <4>1, <1>k, <1>n DEF l
    <3>3. f \in FrameOf(k) /\ f.pc = "else_again" /\ f.params = Top.params
      <4>1. ret \in 0..k /\ "else_again" \in Labels
        BY TopFacts DEF k, Labels, Waiting
      <4> QED
        BY <1>k, <4>1 DEF FrameOf
    <3> HIDE DEF f
    <3>4. F(d, f)
      BY <1>k, <1>t, <3>1, <3>3 DEF F, Fits, Room
    <3> QED
      BY <2>8, <3>2, <3>3, <3>4, <1>m DEF f
  <2>9. CASE DefBody /\ Replaced(<<GoOn("body"), NewFrame("stmts", Len(input) + 1)>>)
    <3>1. Len(input') = l + 1 /\ Len(input) + 1 \in Nat
      BY <2>9, <1>s, <1>k DEF DefBody, Consume, l
    <3> QED
      BY <2>9, <2>a, <2>s, <3>1 DEF Labels, Waiting
  <2>10. CASE Program /\ Replaced(<<GoOn("parsed"), NewFrame("stmts", 1)>>)
    <3>1. Len(input') = l + 1
      BY <2>10, <1>s DEF Program
    <3> QED
      BY <2>10, <2>a, <2>s, <3>1 DEF Labels
  <2> QED
    BY <1>2, <2>1, <2>2, <2>c, <2>4, <2>5, <2>6, <2>7, <2>8, <2>9, <2>10 DEF Calling
<1>3. CASE Choosing
  <2>1. CASE Replaced(<<>>)
    BY <2>1, <1>0
  <2>2. CASE StoreArg /\ Replaced(<<GoOnWith("more_args", Append(Top.kids, ret))>>)
    <3> DEFINE kids == Append(Top.kids, ret)
    <3>1. Len(kids) <= MAX_FUNC_PARAMS + 1 /\ Room(Top.pc) = 1
      BY <2>2, <1>k, <1>t DEF StoreArg, At, Fits, Room
    <3>2. kids \in Seq(0..k) /\ d + Room("more_args") <= 2 * Len(input') + 1
      BY <1>k, <1>t, <1>i, <3>1 DEF Fits, Room
    <3> HIDE DEF kids
    <3>3. GoOnWith("more_args", kids) \in FrameOf(k) /\ F(d, GoOnWith("more_args", kids))
      BY <1>w, <3>1, <3>2 DEF Labels
    <3> QED
      BY <2>2, <3>3, <1>m DEF kids
  <2>3. CASE Replaced(<<GoOn("else_open")>>)
    BY <2>3, <1>g, <1>m DEF Labels, Waiting, Room
  <2>4. CASE Replaced(<<GoOn("body_open")>>)
    BY <2>4, <1>g, <1>m DEF Labels, Waiting, Room
  <2>5. CASE NextStmt /\ Replaced(<<GoOn("stmt"), Expression(0, Len(input))>>)
    <3>1. d + 1 <= 2 * Len(input') + 1
      BY <2>5, <1>s, <1>t DEF NextStmt, At, Fits, Room
    <3>2. GoOn("stmt") \in FrameOf(k) /\ F(d, GoOn("stmt"))
      BY <1>g DEF Labels, Waiting, Room
    <3>3. /\ Expression(0, Len(input)) \in FrameOf(k)
          /\ F(d + 1, Expression(0, Len(input)))
      BY <3>1, <1>k, <1>x DEF l
    <3> QED
      BY <2>5, <3>2, <3>3, <1>m
  <2>6. CASE EndStmt /\ Replaced(<<GoOnWith("stmts", Append(Top.kids, ret))>>)
    <3>1. d + Room("stmts") <= 2 * Len(input') + 1
      BY <2>6, <1>s, <1>k, <1>t DEF EndStmt, Consume, Fits, Room
    <3>2. /\ GoOnWith("stmts", Append(Top.kids, ret)) \in FrameOf(k)
          /\ F(d, GoOnWith("stmts", Append(Top.kids, ret)))
      BY <1>k, <1>w, <3>1 DEF Labels
    <3> QED
      BY <2>6, <3>2, <1>m
  <2> QED
    BY <1>3, <2>1, <2>2, <2>3, <2>4, <2>5, <2>6 DEF Choosing
<1>4. CASE Stopping
  BY <1>4 DEF Stopping, StackFits
<1>5. CASE Dying
  <2>1. ASSUME NEW i \in 1..d PROVE Fits(i, stack[i], Len(input'))
    BY <1>k, <1>i, <2>1, FitsMono DEF StackFits, d, l
  <2> QED
    BY <1>5, <2>1 DEF Dying, StackFits, d
<1> QED
  BY <1>0, <1>1, <1>2, <1>3, <1>4, <1>5, Moves

LEMMA FitsInit == ASSUME Init PROVE StackFits
<1>1. stack = <<NewFrame("program", 0)>> /\ Len(input) = 0
  BY DEF Init
<1>2. /\ NewFrame("program", 0).pc = "program"
      /\ Len(NewFrame("program", 0).params) = 0 /\ MAX_FUNC_PARAMS \in Nat
  BY ParserAssumption DEF NewFrame
<1>3. Fits(1, NewFrame("program", 0), 0)
  BY <1>2 DEF Fits, Room
<1> QED
  BY <1>1, <1>3 DEF StackFits

LEMMA FitsInvariant == Spec => [](TypeInv /\ StackFits)
<1>1. Init => TypeInv /\ Started /\ StackFits
  BY InitType, FitsInit
<1>2. TypeInv /\ Started /\ StackFits /\ [Next]_vars
        => (TypeInv /\ Started /\ StackFits)'
  BY TypeStep, StartedStep, FitsStep
<1> QED
  BY <1>1, <1>2, PTL DEF Spec

(* params[] and args[] are overrun by one element at most, whatever        *)
(* MAX_FUNC_PARAMS is: the loops of funcdef_prefix and lparen_infix admit  *)
(* one element too many, and nothing else adds one.                        *)
THEOREM ListsAreBounded == Spec => []ListsBounded
<1>1. TypeInv /\ StackFits => ListsBounded
  <2> SUFFICES ASSUME TypeInv, StackFits, NEW i \in 1..Len(stack)
               PROVE  /\ Len(stack[i].params) <= MAX_FUNC_PARAMS + 1
                      /\ stack[i].pc \in {"args", "arg", "more_args"} =>
                           Len(stack[i].kids) <= MAX_FUNC_PARAMS + 1
    BY DEF ListsBounded
  <2>1. Fits(i, stack[i], Len(input))
    BY DEF StackFits
  <2>2. Len(stack[i].kids) \in Nat
    <3>1. stack[i] \in FrameOf(Len(nodes))
      BY StackSeq
    <3> QED
      BY <3>1, TopFacts, FrameFields
  <2> QED
    BY <2>1, <2>2, ParserAssumption DEF Fits
<1> QED
  BY <1>1, FitsInvariant, PTL

(* The recursion is at most two calls deep for a token, so that the depth  *)
(* of the C stack is bounded by the length of the text.                    *)
THEOREM DepthIsBounded == Spec => []DepthBounded
<1>1. TypeInv /\ StackFits => DepthBounded
  <2> SUFFICES ASSUME TypeInv, StackFits PROVE DepthBounded
    OBVIOUS
  <2>1. Fits(Len(stack), Top, Len(input)) /\ Len(stack) \in Nat /\ Len(input) \in Nat
    BY TopFacts DEF StackFits
  <2>2. Room(Top.pc) >= 0 /\ Room(Top.pc) \in Nat
    BY DEF Room
  <2> QED
    BY <2>1, <2>2 DEF Fits, DepthBounded
<1> QED
  BY <1>1, FitsInvariant, PTL

-----------------------------------------------------------------------------
(* program() runs once, before anything is read, and parse() is at the     *)
(* bottom ever after.                                                      *)
Begins == /\ Top.pc = "program" => input = <<>> /\ tok = "ERR"
          /\ Len(stack) >= 2 => stack[1].pc = "parsed"

LEMMA BeginsStep ==
  ASSUME TypeInv, TypeInv', Begins, [Next]_vars
  PROVE  Begins'
<1>k. Len(stack) \in Nat /\ Len(stack) >= 1 /\ Top = stack[Len(stack)]
  BY TopFacts
<1>p. /\ Len(stack') \in Nat /\ Len(stack') >= 1 /\ Top' = stack'[Len(stack')]
      /\ Top'.pc = "program" => Len(stack') = 1
  <2>1. /\ Len(stack') \in Nat /\ Len(stack') >= 1
        /\ \A i \in 1..Len(stack') : i = 1 <=> stack'[i].pc \in Base
    BY DEF TypeInv, StackInv, IsStack
  <2>2. Top' = stack'[Len(stack')]
    BY DEF Top
  <2>3. Len(stack') \in 1..Len(stack') /\ "program" \in Base
    BY <2>1 DEF Base
  <2> QED
    BY <2>1, <2>2, <2>3
<1>1. CASE Stopping
  BY <1>1 DEF Stopping, Begins, Top
<1>5. CASE Dying
  BY <1>5 DEF Dying, NoPrefix, LoopPastTable, At, Begins, Top
<1>2. CASE Program /\ Replaced(<<GoOn("parsed"), NewFrame("stmts", 1)>>)
  <2>1. Len(stack) = 1
    <3>1. Top.pc \in Base /\ \A i \in 1..Len(stack) : i = 1 <=> stack[i].pc \in Base
      BY <1>2 DEF Program, At, Base, TypeInv, StackInv, IsStack
    <3>2. Len(stack) \in 1..Len(stack)
      BY <1>k
    <3> QED
      BY <3>1, <3>2, <1>k
  <2>2. Len(stack') = 2 /\ stack'[1] = GoOn("parsed")
    BY <1>2, <2>1 DEF Replaced
  <2>3. GoOn("parsed").pc = "parsed"
    BY GoOnFields DEF Labels
  <2> QED
    BY <1>p, <2>2, <2>3 DEF Begins
<1>3. ASSUME Top.pc \notin Base, NEW fs, Replaced(fs) PROVE Begins'
  <2>1. Len(stack) >= 2
    BY <1>3, StackSeq
  <2>2. stack'[1] = stack[1]
    BY <1>k, <1>3, <2>1 DEF Replaced
  <2>3. stack'[1].pc = "parsed"
    BY <2>1, <2>2 DEF Begins
  <2> QED
    BY <1>p, <2>3 DEF Begins
<1>4. CASE Returning \/ Resuming \/ Calling \/ Choosing
  <2>1. \/ Program
        \/ Top.pc \notin Base
    BY <1>4 DEF Returning, Resuming, Calling, Choosing, Base, At, Consume,
       EnterLeaf, EnterPrefix, EnterParen, NoPrefix, Infix, LoopEnds,
       LoopPastTable, BinOp, NextArg, StoreArg, OptionalComma, CloseCall,
       CloseParen, IfOpen, IfCond, IfThenOpen, IfThen, IfElse,
       IfElseOpen, IfElseAgain, IfElseFails, IfElseClose, DefOpen, NextParam,
       NotAParam, ParamsEnd, DefBody, DefClose, NextStmt, EndStmt
  <2>2. \E fs : Replaced(fs)
    <3>1. CASE Returning
      BY <3>1, ReturningMoves
    <3> QED
      BY <1>4, <3>1 DEF Resuming, Calling, Choosing
  <2>3. Program => Replaced(<<GoOn("parsed"), NewFrame("stmts", 1)>>)
    BY CallingMoves DEF Calling, Program, At, Consume, EnterPrefix, EnterParen, Infix,
       NextArg, IfOpen, IfThenOpen, IfElseOpen, IfElseAgain, DefBody
  <2> QED
    BY <1>2, <1>3, <2>1, <2>2, <2>3
<1> QED
  BY <1>1, <1>4, <1>5, Moves

(* lex_scan is called at the end of the source only by expression(), where *)
(* no operand starts: every other call follows a test of the token.        *)
LEMMA OverreadStep ==
  ASSUME TypeInv, Begins, OverreadReported, [Next]_vars
  PROVE  OverreadReported'
<1>1. CASE err' # "unset"
  BY <1>1 DEF OverreadReported
<1>4. CASE status' = "died"
  BY <1>4 DEF OverreadReported
<1>5. CASE Dying
  BY <1>4, <1>5 DEF Dying
<1>6. CASE status = "died"
  <2>1. UNCHANGED <<ub, status>>
    BY <1>6 DEF Next, Step, vars, Ended, At, Consume, Killed, ConsumeDies, CallDies, Parse,
     EnterLeaf, EnterPrefix, EnterParen, NoPrefix, Infix, LoopEnds,
     LoopPastTable, BinOp, NextArg, StoreArg, OptionalComma, CloseCall,
     CloseParen, IfOpen, IfCond, IfThenOpen, IfThen, IfElse,
     IfElseOpen, IfElseAgain, IfElseFails, IfElseClose, DefOpen, NextParam,
     NotAParam, ParamsEnd, DefBody, DefClose, NextStmt, EndStmt, Program
  <2> QED
    BY <1>4, <1>6, <2>1
<1>2. CASE err' = err /\ status # "died" /\ ~Dying
  <2>1. \A undef \in SUBSET (Undefs \ {"overread"}) :
          tok # "EOS" /\ Scan(undef) => OverreadReported'
    BY <1>2 DEF Scan, OverreadReported
  <2>2. UNCHANGED ub => OverreadReported'
    BY <1>2 DEF OverreadReported
  <2>3. \A pc \in Waiting : Consume(pc) => tok # "EOS" /\ Scan({})
    BY DEF Consume, Expected, Waiting
  <2>4. lbp["EOS"] = 0
    BY DEF lbp, TokType
  <2>5. Program => tok # "EOS" /\ Scan({})
    BY DEF Program, Begins, At
  <2>6. Infix => tok # "EOS" /\ Scan({})
    <3>1. tok = "EOS" => ~(Top.rbp < lbp[tok])
      <4>1. Top.rbp \in 0..10
        BY TopFacts, FrameFields
      <4> QED
        BY <2>4, <4>1
    <3> QED
      BY <3>1 DEF Infix
  <2>7. Undefs \ {"overread"} = {"vtable", "params", "args", "cast"}
    BY DEF Undefs
  <2>9. NoPrefix \/ LoopPastTable => err' # "unset"
    BY <1>2, DyingMoves DEF Fail
  <2>8. \/ \E undef \in SUBSET {"vtable", "params", "args", "cast"} :
             tok # "EOS" /\ Scan(undef)
        \/ UNCHANGED ub
        \/ "overread" \in ub' => "overread" \in ub
        \/ err' # "unset"
    BY <2>3, <2>5, <2>6, <2>9 DEF Next, Step, vars, Ended, At, NoScan, Waiting,
       Undef, Fail, EnterLeaf, EnterPrefix, EnterParen, LoopEnds, BinOp,
       NextArg, StoreArg, OptionalComma, CloseCall,
       CallDies, CloseParen, IfOpen, IfCond, IfThenOpen, IfThen, IfElse,
       IfElseOpen, IfElseAgain, IfElseFails, IfElseClose, DefOpen, NextParam,
       NotAParam, ParamsEnd, DefBody, DefClose, NextStmt, EndStmt,
       Parse, ConsumeDies, Killed
  <2> QED
    BY <1>1, <1>2, <2>1, <2>2, <2>7, <2>8 DEF OverreadReported
<1>3. err' = err \/ err' # "unset"
  BY DEF Next, Step, vars, Ended, Fail,
     EnterLeaf, EnterPrefix, EnterParen, NoPrefix, ScanThenFail, Infix, LoopEnds,
     LoopPastTable, BinOp, NextArg, StoreArg, OptionalComma, CloseCall,
     CallDies, CloseParen, IfOpen, IfCond, IfThenOpen, IfThen, IfElse,
     IfElseOpen, IfElseAgain, IfElseFails, IfElseClose, DefOpen, NextParam,
     NotAParam, ParamsEnd, DefBody, DefClose, NextStmt, EndStmt, Program,
     Parse, ConsumeDies, Killed
<1> QED
  BY <1>1, <1>2, <1>3, <1>5, <1>6

(* A character beyond the end of the source is read only where an operand  *)
(* is missing at its end, and the error is then on record, unless what was *)
(* read ended the program: lex_scan comes before err().  The test of the   *)
(* token before every other call of lex_scan excludes the end of source.   *)
THEOREM OverreadsAreReported == Spec => []OverreadReported
<1> DEFINE I == TypeInv /\ Started /\ Begins /\ OverreadReported
<1>1. Init => I
  <2>1. Init => Begins /\ OverreadReported
    BY DEF Init, Begins, OverreadReported
  <2> QED
    BY <2>1, InitType
<1>2. I /\ [Next]_vars => I'
  BY TypeStep, StartedStep, BeginsStep, OverreadStep
<1> QED
  BY <1>1, <1>2, PTL DEF Spec

-----------------------------------------------------------------------------
(* The call graph: which function's frame lies on which.  PartPc are the   *)
(* prefix and infix functions, which expression() calls through vtables.   *)
ExprPc == {"expr", "loop"}
BlockPc == {"stmts", "stmt"}
PartPc == Labels \ (ExprPc \cup BlockPc \cup Base)

Calls(f, g) ==
  /\ f.pc \in {"loop", "right", "arg", "paren", "cond", "stmt", "then", "else",
               "else_again", "body", "parsed"}
  /\ f.pc = "loop" =>
       g.pc \in PartPc /\ (g.pc = "right" => f.rbp < lbp[g.op])
  /\ f.pc \in {"right", "arg", "paren", "cond", "stmt"} => g.pc \in ExprPc
  /\ f.pc = "right" => g.rbp = lbp[f.op]
  /\ f.pc \in {"then", "else", "else_again", "body", "parsed"} => g.pc \in BlockPc

CallGraph == \A i \in 1..(Len(stack) - 1) : Calls(stack[i], stack[i + 1])

(* The caller of f may have called g as well: g is f later on. *)
Later(f, g) ==
  \/ f = g
  \/ f.pc \in ExprPc /\ g.pc \in ExprPc /\ f.rbp = g.rbp
  \/ f.pc \in BlockPc /\ g.pc \in BlockPc
  \/ f.pc \in PartPc /\ g.pc \in PartPc \ {"right"}
  \/ f.pc \in Base /\ g.pc \in Base

LEMMA LaterCalls ==
  ASSUME NEW e, NEW f, NEW g, Calls(e, f), Later(f, g)
  PROVE  Calls(e, g)
  BY DEF Calls, Later, ExprPc, BlockPc, PartPc, Base

LEMMA CallsMove ==
  ASSUME TypeInv, CallGraph, NEW fs \in Seq(FrameOf(Len(nodes))), Replaced(fs),
         Len(fs) >= 1 => Later(Top, fs[1]),
         \A j \in 1..(Len(fs) - 1) : Calls(fs[j], fs[j + 1])
  PROVE  CallGraph'
<1> DEFINE d == Len(stack)
<1>k. d \in Nat /\ d >= 1 /\ Top = stack[d] /\ Len(fs) \in Nat
      /\ Len(stack') = d - 1 + Len(fs)
  BY StackSeq DEF Replaced
<1>b. /\ \A i \in 1..(d - 1) : stack'[i] = stack[i]
      /\ \A j \in 1..Len(fs) : stack'[d - 1 + j] = fs[j]
  BY DEF Replaced
<1>c. \A i \in 1..(d - 1) : Calls(stack[i], stack[i + 1])
  BY DEF CallGraph
<1> HIDE DEF d
<1>1. ASSUME NEW i \in 1..(Len(stack') - 1)
      PROVE  Calls(stack'[i], stack'[i + 1])
  <2>1. CASE i < d - 1
    BY <1>k, <1>b, <1>c, <2>1
  <2>2. CASE i = d - 1
    <3>1. Len(fs) >= 1 /\ stack'[i] = stack[i] /\ stack'[i + 1] = fs[1]
      <4>1. Len(fs) >= 1 /\ i \in 1..(d - 1) /\ 1 \in 1..Len(fs) /\ d - 1 + 1 = i + 1
        BY <1>k, <2>2
      <4> QED
        BY <4>1, <1>b
    <3>2. Calls(stack[i], Top)
      BY <1>k, <1>c, <2>2
    <3> QED
      BY <3>1, <3>2, LaterCalls
  <2>3. CASE i > d - 1
    <3> DEFINE j == i - (d - 1)
    <3>1. j \in 1..(Len(fs) - 1) /\ i = d - 1 + j /\ i + 1 = d - 1 + (j + 1)
          /\ j \in 1..Len(fs) /\ j + 1 \in 1..Len(fs)
      BY <1>k, <2>3
    <3> HIDE DEF j
    <3>2. stack'[i] = fs[j] /\ stack'[i + 1] = fs[j + 1]
      BY <1>b, <3>1
    <3> QED
      BY <3>1, <3>2
  <2> QED
    BY <1>k, <2>1, <2>2, <2>3
<1> QED
  BY <1>1 DEF CallGraph

LEMMA CallsMoves ==
  ASSUME TypeInv, CallGraph, NEW f \in FrameOf(Len(nodes)),
         NEW g \in FrameOf(Len(nodes)), NEW h \in FrameOf(Len(nodes))
  PROVE  /\ Replaced(<<>>) => CallGraph'
         /\ Replaced(<<f>>) /\ Later(Top, f) => CallGraph'
         /\ Replaced(<<f, g>>) /\ Later(Top, f) /\ Calls(f, g) => CallGraph'
         /\ Replaced(<<f, g, h>>) /\ Later(Top, f) /\ Calls(f, g)
              /\ Calls(g, h) => CallGraph'
<1> DEFINE S == FrameOf(Len(nodes))
<1>2. ASSUME Replaced(<<>>) PROVE CallGraph'
  <2>1. ~(Len(<<>>) >= 1) /\ 1..(Len(<<>>) - 1) = {} /\ <<>> \in Seq(S)
    OBVIOUS
  <2>2. \A j \in 1..(Len(<<>>) - 1) : Calls(<<>>[j], <<>>[j + 1])
    BY <2>1
  <2> QED
    BY <1>2, <2>1, <2>2, CallsMove
<1>3. ASSUME Replaced(<<f>>), Later(Top, f) PROVE CallGraph'
  <2>1. <<f>> \in Seq(S) /\ 1..(Len(<<f>>) - 1) = {} /\ <<f>>[1] = f
    OBVIOUS
  <2>2. \A j \in 1..(Len(<<f>>) - 1) : Calls(<<f>>[j], <<f>>[j + 1])
    BY <2>1
  <2> QED
    BY <1>3, <2>1, <2>2, CallsMove
<1>4. ASSUME Replaced(<<f, g>>), Later(Top, f), Calls(f, g) PROVE CallGraph'
  <2>1. <<f, g>> \in Seq(S) /\ Len(<<f, g>>) = 2 /\ <<f, g>>[1] = f
        /\ <<f, g>>[2] = g
    OBVIOUS
  <2>2. \A j \in 1..(Len(<<f, g>>) - 1) : Calls(<<f, g>>[j], <<f, g>>[j + 1])
    BY <1>4, <2>1
  <2> QED
    BY <1>4, <2>1, <2>2, CallsMove
<1>5. ASSUME Replaced(<<f, g, h>>), Later(Top, f), Calls(f, g), Calls(g, h)
      PROVE  CallGraph'
  <2>1. <<f, g, h>> \in Seq(S) /\ Len(<<f, g, h>>) = 3 /\ <<f, g, h>>[1] = f
        /\ <<f, g, h>>[2] = g /\ <<f, g, h>>[3] = h
    OBVIOUS
  <2>2. \A j \in 1..(Len(<<f, g, h>>) - 1) :
          Calls(<<f, g, h>>[j], <<f, g, h>>[j + 1])
    <3> SUFFICES ASSUME NEW j \in {1, 2}
                 PROVE  Calls(<<f, g, h>>[j], <<f, g, h>>[j + 1])
      BY <2>1
    <3> QED
      BY <1>5, <2>1
  <2> QED
    BY <1>5, <2>1, <2>2, CallsMove
<1> QED
  BY <1>2, <1>3, <1>4, <1>5

LEMMA CallsStep ==
  ASSUME TypeInv, CallGraph, [Next]_vars
  PROVE  CallGraph'
<1> DEFINE k == Len(nodes)
<1>k. /\ k \in Nat /\ Len(input) \in Nat /\ Top \in FrameOf(k) /\ Top.pc \in Labels
      /\ Top.first \in Nat /\ Append(Top.kids, ret) \in Seq(0..k)
      /\ <<ret>> \in Seq(0..k) /\ tok \in TokType
  BY TopFacts
<1>g. ASSUME NEW pc \in Labels,
             \/ Top.pc \in ExprPc /\ pc \in ExprPc
             \/ Top.pc \in BlockPc /\ pc \in BlockPc
             \/ Top.pc \in PartPc /\ pc \in PartPc \ {"right"}
             \/ Top.pc \in Base /\ pc \in Base
      PROVE  GoOn(pc) \in FrameOf(k) /\ GoOn(pc).pc = pc /\ Later(Top, GoOn(pc))
  BY <1>g, GoOnFields DEF Later
<1>w. ASSUME NEW pc \in Labels, NEW kids \in Seq(0..k),
             \/ Top.pc \in BlockPc /\ pc \in BlockPc
             \/ Top.pc \in PartPc /\ pc \in PartPc \ {"right"}
      PROVE  GoOnWith(pc, kids) \in FrameOf(k) /\ Later(Top, GoOnWith(pc, kids))
  BY <1>w, GoOnWithFields DEF Later
<1>x. ASSUME NEW first \in Nat
      PROVE  /\ Expression(0, first) \in FrameOf(k)
             /\ \A f : f.pc \in {"arg", "paren", "cond", "stmt"} =>
                         Calls(f, Expression(0, first))
  <2>1. Expression(0, first) \in FrameOf(k) /\ Expression(0, first).pc = "expr"
    BY <1>k, ExpressionFields
  <2> QED
    BY <2>1 DEF Calls, ExprPc
<1>s. ASSUME NEW first \in Nat
      PROVE  /\ NewFrame("stmts", first) \in FrameOf(k)
             /\ \A f : f.pc \in {"then", "else", "else_again", "body", "parsed"}
                         => Calls(f, NewFrame("stmts", first))
  <2>1. NewFrame("stmts", first) \in FrameOf(k) /\ NewFrame("stmts", first).pc = "stmts"
    BY <1>k, NewFrameFields DEF Labels
  <2> QED
    BY <2>1 DEF Calls, BlockPc
<1>m. ASSUME NEW f \in FrameOf(k), NEW g \in FrameOf(k), NEW h \in FrameOf(k)
      PROVE  /\ Replaced(<<>>) => CallGraph'
             /\ Replaced(<<f>>) /\ Later(Top, f) => CallGraph'
             /\ Replaced(<<f, g>>) /\ Later(Top, f) /\ Calls(f, g) => CallGraph'
             /\ Replaced(<<f, g, h>>) /\ Later(Top, f) /\ Calls(f, g)
                  /\ Calls(g, h) => CallGraph'
  BY CallsMoves
<1>0. Replaced(<<>>) => CallGraph'
  BY <1>k, <1>m
<1> HIDE DEF k
<1>1. CASE Resuming
  <2>1. CASE EnterLeaf /\ Replaced(<<GoOn("loop")>>)
    <3>1. Top.pc = "expr"
      BY <2>1 DEF EnterLeaf, At
    <3> QED
      BY <2>1, <3>1, <1>g, <1>m DEF Labels, ExprPc
  <2>2. CASE OptionalComma /\ Top.pc = "more_args" /\ Replaced(<<GoOn("args")>>)
    BY <2>2, <1>g, <1>m DEF Labels, PartPc, ExprPc, BlockPc, Base
  <2>3. CASE OptionalComma /\ Top.pc = "more_params" /\ Replaced(<<GoOn("params")>>)
    BY <2>3, <1>g, <1>m DEF Labels, PartPc, ExprPc, BlockPc, Base
  <2>4. CASE IfCond /\ Replaced(<<GoOnWith("then_open", <<ret>>)>>)
    <3>1. Top.pc = "cond"
      BY <2>4 DEF IfCond, Consume, At
    <3> QED
      BY <2>4, <3>1, <1>k, <1>w, <1>m DEF Labels, Waiting, PartPc, ExprPc, BlockPc, Base
  <2>5. CASE IfThen /\ Replaced(<<GoOnWith("else?", Append(Top.kids, ret))>>)
    <3>1. Top.pc = "then"
      BY <2>5 DEF IfThen, Consume, At
    <3> QED
      BY <2>5, <3>1, <1>k, <1>w, <1>m DEF Labels, Waiting, PartPc, ExprPc, BlockPc, Base
  <2>6. CASE DefOpen /\ Top.pc = "def" /\ Replaced(<<GoOnNamed>>)
    <3>1. GoOnNamed \in FrameOf(k) /\ GoOnNamed.pc = "def_open"
      BY GoOnNamedFields DEF k
    <3>2. Later(Top, GoOnNamed)
      BY <2>6, <3>1 DEF Later, Labels, Waiting, PartPc, ExprPc, BlockPc, Base
    <3> QED
      BY <2>6, <3>1, <3>2, <1>m
  <2>7. CASE DefOpen /\ Top.pc = "def_open" /\ Replaced(<<GoOn("params")>>)
    BY <2>7, <1>g, <1>m DEF Labels, Waiting, PartPc, ExprPc, BlockPc, Base
  <2>8. CASE NextParam /\ Replaced(<<GoOnParam>>)
    <3>1. /\ GoOnParam \in FrameOf(k) /\ GoOnParam.pc = "more_params"
          /\ Top.pc = "params"
      BY <2>8, GoOnParamFields DEF k, NextParam, At
    <3>2. Later(Top, GoOnParam)
      BY <3>1 DEF Later, Labels, PartPc, ExprPc, BlockPc, Base
    <3> QED
      BY <2>8, <3>1, <3>2, <1>m
  <2> QED
    BY <1>1, <2>1, <2>2, <2>3, <2>4, <2>5, <2>6, <2>7, <2>8 DEF Resuming
<1>2. CASE Calling
  <2>a. ASSUME NEW pc \in Labels, NEW g \in FrameOf(k), Replaced(<<GoOn(pc), g>>),
               \/ Top.pc \in ExprPc /\ pc \in ExprPc
               \/ Top.pc \in BlockPc /\ pc \in BlockPc
               \/ Top.pc \in PartPc /\ pc \in PartPc \ {"right"}
               \/ Top.pc \in Base /\ pc \in Base,
               \A f : f.pc = pc => Calls(f, g)
        PROVE  CallGraph'
    <3>1. GoOn(pc) \in FrameOf(k) /\ GoOn(pc).pc = pc /\ Later(Top, GoOn(pc))
      BY <2>a, <1>g
    <3> QED
      BY <2>a, <3>1, <1>m
  <2>b. Len(input) + 1 \in Nat
    BY <1>k
  <2>1. CASE EnterPrefix /\ \E pc \in {"if", "def"} :
                Replaced(<<GoOn("loop"), NewFrame(pc, Top.first)>>)
    <3>1. PICK pc \in {"if", "def"} : Replaced(<<GoOn("loop"), NewFrame(pc, Top.first)>>)
      BY <2>1
    <3>2. /\ NewFrame(pc, Top.first) \in FrameOf(k)
          /\ NewFrame(pc, Top.first).pc = pc
      BY <1>k, NewFrameFields DEF Labels, Waiting
    <3>3. \A f : f.pc = "loop" => Calls(f, NewFrame(pc, Top.first))
      BY <3>2 DEF Calls, Labels, Waiting, PartPc, ExprPc, BlockPc, Base
    <3>4. Top.pc = "expr"
      BY <2>1 DEF EnterPrefix, At
    <3> QED
      BY <2>a, <3>1, <3>2, <3>3, <3>4 DEF Labels, ExprPc
  <2>2. CASE EnterParen
             /\ Replaced(<<GoOn("loop"), NewFrame("paren", Top.first),
                           Expression(0, Len(input) + 1)>>)
    <3> DEFINE g == NewFrame("paren", Top.first)
    <3>1. Top.pc = "expr"
      BY <2>2 DEF EnterParen, At
    <3>2. GoOn("loop") \in FrameOf(k) /\ GoOn("loop").pc = "loop"
          /\ Later(Top, GoOn("loop"))
      BY <3>1, <1>g DEF Labels, ExprPc
    <3>3. g \in FrameOf(k) /\ g.pc = "paren"
      BY <1>k, NewFrameFields DEF Labels, Waiting
    <3>4. Calls(GoOn("loop"), g)
      BY <3>2, <3>3 DEF Calls, Labels, Waiting, PartPc, ExprPc, BlockPc, Base
    <3>5. /\ Expression(0, Len(input) + 1) \in FrameOf(k)
          /\ Calls(g, Expression(0, Len(input) + 1))
      BY <2>b, <3>3, <1>x
    <3> QED
      BY <2>2, <3>2, <3>3, <3>4, <3>5, <1>m
  <2>3. CASE Infix /\ tok \in BinOps
             /\ Replaced(<<Top, InfixFrame("right"), Expression(lbp[tok], Len(input) + 1)>>)
    <3> DEFINE g == InfixFrame("right")
               h == Expression(lbp[tok], Len(input) + 1)
    <3>1. g \in FrameOf(k) /\ g.pc = "right" /\ g.op = tok
      BY InfixFields DEF Labels, k
    <3>2. h \in FrameOf(k) /\ h.pc = "expr" /\ h.rbp = lbp[tok]
      <4>1. lbp[tok] \in 0..10
        BY <1>k, lbpType
      <4>2. PICK r, q : r = lbp[tok] /\ q = Len(input) + 1
        OBVIOUS
      <4>3. /\ Expression(r, q).pc = "expr" /\ Expression(r, q).rbp = r
            /\ \A j \in Nat : Expression(r, q) \in FrameOf(j)
        BY ONLY <2>b, <4>1, <4>2, ExpressionFields
      <4>4. k \in Nat
        BY <1>k
      <4> QED
        BY ONLY <4>2, <4>3, <4>4
    <3>3. Calls(Top, g)
      BY <2>3, <3>1 DEF Infix, At, Calls, Labels, Waiting, PartPc, ExprPc, BlockPc, Base
    <3>4. Calls(g, h)
      BY <3>1, <3>2 DEF Calls, ExprPc
    <3>5. Later(Top, Top)
      BY DEF Later
    <3> QED
      BY <2>3, <3>1, <3>2, <3>3, <3>4, <3>5, <1>k, <1>m
  <2>4. CASE Infix /\ Replaced(<<Top, InfixFrame("args")>>)
    <3>1. InfixFrame("args") \in FrameOf(k) /\ InfixFrame("args").pc = "args"
      BY InfixFields DEF Labels, k
    <3>2. Calls(Top, InfixFrame("args"))
      BY <2>4, <3>1 DEF Infix, At, Calls, Labels, Waiting, PartPc, ExprPc, BlockPc, Base
    <3>3. Later(Top, Top)
      BY DEF Later
    <3> QED
      BY <2>4, <3>1, <3>2, <3>3, <1>k, <1>m
  <2>5. CASE NextArg /\ Replaced(<<GoOn("arg"), Expression(0, Len(input))>>)
    <3>1. Top.pc = "args"
      BY <2>5 DEF NextArg, At
    <3> QED
      BY <2>5, <2>a, <3>1, <1>k, <1>x DEF Labels, PartPc, ExprPc, BlockPc, Base
  <2>6. CASE IfOpen /\ Replaced(<<GoOn("cond"), Expression(0, Len(input) + 1)>>)
    <3>1. Top.pc = "if"
      BY <2>6 DEF IfOpen, Consume, At
    <3> QED
      BY <2>6, <2>a, <2>b, <3>1, <1>x DEF Labels, Waiting, PartPc, ExprPc, BlockPc, Base
  <2>7. CASE IfThenOpen /\ Replaced(<<GoOn("then"), NewFrame("stmts", Len(input) + 1)>>)
    <3>1. Top.pc = "then_open"
      BY <2>7 DEF IfThenOpen, Consume, At
    <3> QED
      BY <2>7, <2>a, <2>b, <3>1, <1>s DEF Labels, Waiting, PartPc, ExprPc, BlockPc, Base
  <2>8. CASE IfElseOpen /\ Replaced(<<GoOn("else"), NewFrame("stmts", Len(input) + 1)>>)
    <3>1. Top.pc = "else_open"
      BY <2>8 DEF IfElseOpen, Consume, At
    <3> QED
      BY <2>8, <2>a, <2>b, <3>1, <1>s DEF Labels, Waiting, PartPc, ExprPc, BlockPc, Base
  <2>9. CASE IfElseAgain
             /\ Replaced(<<[Top EXCEPT !.pc = "else_again", !.left = ret],
                           NewFrame("stmts", Len(input))>>)
    <3> DEFINE f == [Top EXCEPT !.pc = "else_again", !.left = ret]
    <3>1. Top.pc = "else"
      BY <2>9 DEF IfElseAgain, At
    <3>2. f \in FrameOf(k) /\ f.pc = "else_again"
      <4>1. ret \in 0..k /\ "else_again" \in Labels
        BY TopFacts DEF k, Labels, Waiting
      <4> QED
        BY <1>k, <4>1 DEF FrameOf
    <3> HIDE DEF f
    <3>3. Later(Top, f)
      BY <3>1, <3>2 DEF Later, Labels, Waiting, PartPc, ExprPc, BlockPc, Base
    <3>4. /\ NewFrame("stmts", Len(input)) \in FrameOf(k)
          /\ Calls(f, NewFrame("stmts", Len(input)))
      BY <3>2, <1>k, <1>s
    <3>5. Replaced(<<f, NewFrame("stmts", Len(input))>>)
      BY <2>9 DEF f
    <3> QED
      BY <3>2, <3>3, <3>4, <3>5, <1>m
  <2>10. CASE DefBody /\ Replaced(<<GoOn("body"), NewFrame("stmts", Len(input) + 1)>>)
    <3>1. Top.pc = "body_open"
      BY <2>10 DEF DefBody, Consume, At
    <3> QED
      BY <2>10, <2>a, <2>b, <3>1, <1>s DEF Labels, Waiting, PartPc, ExprPc, BlockPc, Base
  <2>11. CASE Program /\ Replaced(<<GoOn("parsed"), NewFrame("stmts", 1)>>)
    <3>1. Top.pc = "program"
      BY <2>11 DEF Program, At
    <3> QED
      BY <2>11, <2>a, <3>1, <1>s DEF Labels, Base
  <2> QED
    BY <1>2, <2>1, <2>2, <2>3, <2>4, <2>5, <2>6, <2>7, <2>8, <2>9, <2>10, <2>11
    DEF Calling
<1>3. CASE Choosing
  <2>1. CASE Replaced(<<>>)
    BY <2>1, <1>0
  <2>2. CASE StoreArg /\ Replaced(<<GoOnWith("more_args", Append(Top.kids, ret))>>)
    <3>1. Top.pc = "arg"
      BY <2>2 DEF StoreArg, At
    <3> QED
      BY <2>2, <3>1, <1>k, <1>w, <1>m DEF Labels, PartPc, ExprPc, BlockPc, Base
  <2>3. CASE IfElse /\ Replaced(<<GoOn("else_open")>>)
    <3>1. Top.pc = "else?"
      BY <2>3 DEF IfElse, At
    <3> QED
      BY <2>3, <3>1, <1>g, <1>m DEF Labels, Waiting, PartPc, ExprPc, BlockPc, Base
  <2>4. CASE ParamsEnd /\ Replaced(<<GoOn("body_open")>>)
    <3>1. Top.pc = "params"
      BY <2>4 DEF ParamsEnd, At
    <3> QED
      BY <2>4, <3>1, <1>g, <1>m DEF Labels, Waiting, PartPc, ExprPc, BlockPc, Base
  <2>5. CASE NextStmt /\ Replaced(<<GoOn("stmt"), Expression(0, Len(input))>>)
    <3>1. Top.pc = "stmts"
      BY <2>5 DEF NextStmt, At
    <3>2. /\ GoOn("stmt") \in FrameOf(k) /\ GoOn("stmt").pc = "stmt"
          /\ Later(Top, GoOn("stmt"))
      BY <3>1, <1>g DEF Labels, Waiting, BlockPc
    <3>3. /\ Expression(0, Len(input)) \in FrameOf(k)
          /\ Calls(GoOn("stmt"), Expression(0, Len(input)))
      BY <3>2, <1>k, <1>x
    <3> QED
      BY <2>5, <3>2, <3>3, <1>m
  <2>6. CASE EndStmt /\ Replaced(<<GoOnWith("stmts", Append(Top.kids, ret))>>)
    <3>1. Top.pc = "stmt"
      BY <2>6 DEF EndStmt, Consume, At
    <3> QED
      BY <2>6, <3>1, <1>k, <1>w, <1>m DEF Labels, BlockPc
  <2> QED
    BY <1>3, <2>1, <2>2, <2>3, <2>4, <2>5, <2>6 DEF Choosing
<1>4. CASE Stopping \/ Dying
  BY <1>4 DEF Stopping, Dying, CallGraph
<1> QED
  BY <1>0, <1>1, <1>2, <1>3, <1>4, Moves

LEMMA CallGraphInit == ASSUME Init PROVE CallGraph
<1>1. Len(stack) = 1
  BY DEF Init
<1> QED
  BY <1>1 DEF CallGraph

(* What a function returns to. *)
LEMMA ReturnsTo ==
  ASSUME TypeInv, CallGraph, Top.pc \notin Base, Replaced(<<>>)
  PROVE  /\ Top' \in FrameOf(Len(nodes))
         /\ Calls(Top', Top)
         /\ Top' = stack[Len(stack) - 1]
         /\ Len(stack') = Len(stack) - 1
         /\ \A i \in 1..Len(stack') : stack'[i] = stack[i]
<1>1. Len(stack) \in Nat /\ Len(stack) >= 2 /\ Top = stack[Len(stack)]
  BY StackSeq
<1>2. Len(stack') = Len(stack) - 1
      /\ \A i \in 1..(Len(stack) - 1) : stack'[i] = stack[i]
  BY <1>1 DEF Replaced
<1>3. Top' = stack[Len(stack) - 1]
  BY <1>1, <1>2 DEF Top
<1>4. Calls(stack[Len(stack) - 1], stack[Len(stack)])
  BY <1>1 DEF CallGraph
<1> QED
  BY <1>1, <1>2, <1>3, <1>4, StackSeq

(* A node keeps what it stands for; parentheses around it are added only.  *)
LEMMA NodesKept ==
  ASSUME TypeInv, [Next]_vars
  PROVE  \/ UNCHANGED nodes
         \/ \E x : nodes' = Append(nodes, x) /\ ~CloseParen
         \/ /\ CloseParen /\ ret \in 1..Len(nodes)
            /\ Len(nodes') = Len(nodes)
            /\ \A n \in 1..Len(nodes) : n # ret => nodes'[n] = nodes[n]
            /\ nodes'[ret] = [nodes[ret] EXCEPT !.paren = nodes[ret].paren + 1,
                                                !.first = Top.first,
                                                !.last = Len(input)]
<1>1. CASE CloseParen
  <2>1. CASE ret = NULL
    BY <1>1, <2>1 DEF CloseParen
  <2>2. CASE ret # NULL
    <3>1. ret \in 1..Len(nodes) /\ nodes \in Seq(NodeOf(Len(nodes)))
      BY <2>2, TopFacts DEF TypeInv, HeapInv, NULL
    <3>2. nodes[ret] \in NodeOf(Len(nodes))
      BY <3>1
    <3> DEFINE x == [nodes[ret] EXCEPT !.paren = nodes[ret].paren + 1,
                                       !.first = Top.first, !.last = Len(input)]
    <3>3. nodes' = [nodes EXCEPT ![ret] = x]
      BY <1>1, <2>2, <3>1, <3>2 DEF CloseParen, NodeOf
    <3> HIDE DEF x
    <3>4. /\ Len(nodes') = Len(nodes) /\ nodes'[ret] = x
          /\ \A n \in 1..Len(nodes) : n # ret => nodes'[n] = nodes[n]
      BY <3>1, <3>3
    <3> QED
      BY <1>1, <3>1, <3>4 DEF x
  <2> QED
    BY <2>1, <2>2
<1>2. ASSUME ~CloseParen
      PROVE  UNCHANGED nodes \/ \E x : nodes' = Append(nodes, x)
  BY <1>2 DEF Next, Step, vars, Ended, ReturnNode,
     EnterLeaf, EnterPrefix, EnterParen, NoPrefix, ScanThenFail, Infix, LoopEnds,
     LoopPastTable, BinOp, NextArg, StoreArg, OptionalComma, CloseCall,
     CallDies, IfOpen, IfCond, IfThenOpen, IfThen, IfElse,
     IfElseOpen, IfElseAgain, IfElseFails, IfElseClose, DefOpen, NextParam,
     NotAParam, ParamsEnd, DefBody, DefClose, NextStmt, EndStmt, Program,
     Parse, ConsumeDies, Killed
<1> QED
  BY <1>1, <1>2

LEMMA NodeFields ==
  ASSUME TypeInv, NEW n \in 1..Len(nodes)
  PROVE  /\ nodes[n] \in NodeOf(Len(nodes)) /\ nodes[n].type \in NodeType
         /\ nodes[n].paren \in Nat /\ nodes[n].op \in TokType
         /\ nodes[n].kids \in Seq(0..Len(nodes))
         /\ nodes[n].name \in Nat /\ nodes[n].params \in Seq(Nat)
         /\ nodes[n].first \in Nat /\ nodes[n].last \in Nat
<1>1. nodes[n] \in NodeOf(Len(nodes))
  BY DEF TypeInv, HeapInv
<1> QED
  BY <1>1 DEF NodeOf

LEMMA NodesKeptFields ==
  ASSUME TypeInv, [Next]_vars, NEW n \in 1..Len(nodes)
  PROVE  /\ n \in 1..Len(nodes') /\ Len(nodes') >= Len(nodes)
         /\ nodes'[n].type = nodes[n].type /\ nodes'[n].op = nodes[n].op
         /\ nodes'[n].kids = nodes[n].kids /\ nodes'[n].name = nodes[n].name
         /\ nodes'[n].params = nodes[n].params
         /\ \/ nodes'[n] = nodes[n]
            \/ CloseParen /\ n = ret /\ nodes'[n].paren > 0
<1>1. nodes[n] \in NodeOf(Len(nodes)) /\ nodes[n].paren \in Nat
      /\ nodes \in Seq(NodeOf(Len(nodes))) /\ Len(nodes) \in Nat
  BY NodeFields, TopFacts DEF TypeInv, HeapInv
<1>2. CASE UNCHANGED nodes
  BY <1>2
<1>3. CASE \E x : nodes' = Append(nodes, x)
  BY <1>1, <1>3
<1>4. CASE /\ CloseParen /\ ret \in 1..Len(nodes)
           /\ Len(nodes') = Len(nodes)
           /\ \A m \in 1..Len(nodes) : m # ret => nodes'[m] = nodes[m]
           /\ nodes'[ret] = [nodes[ret] EXCEPT !.paren = nodes[ret].paren + 1,
                                               !.first = Top.first,
                                               !.last = Len(input)]
  <2>1. CASE n = ret
    <3>1. nodes'[n] = [nodes[n] EXCEPT !.paren = nodes[n].paren + 1,
                                       !.first = Top.first, !.last = Len(input)]
      BY <1>4, <2>1
    <3>2. /\ nodes'[n].type = nodes[n].type /\ nodes'[n].op = nodes[n].op
          /\ nodes'[n].kids = nodes[n].kids /\ nodes'[n].name = nodes[n].name
          /\ nodes'[n].params = nodes[n].params
          /\ nodes'[n].paren = nodes[n].paren + 1
      BY <1>1, <3>1 DEF NodeOf
    <3> QED
      BY <1>1, <1>4, <2>1, <3>2
  <2>2. CASE n # ret
    BY <1>4, <2>2
  <2> QED
    BY <2>1, <2>2
<1> QED
  BY <1>2, <1>3, <1>4, NodesKept

(* IsOpen, of the nodes of a heap. *)
OpenIn(heap, n) == n # NULL /\ heap[n].type = "BIN" /\ heap[n].paren = 0

LEMMA OpenKept ==
  ASSUME TypeInv, [Next]_vars, NEW n \in 0..Len(nodes), OpenIn(nodes', n)
  PROVE  OpenIn(nodes, n) /\ nodes'[n].op = nodes[n].op
<1>1. n # NULL /\ nodes'[n].type = "BIN" /\ nodes'[n].paren = 0
  BY DEF OpenIn
<1>2. n \in 1..Len(nodes)
  BY <1>1, TopFacts DEF NULL
<1>3. nodes'[n] = nodes[n]
  BY <1>1, <1>2, NodesKeptFields
<1> QED
  BY <1>1, <1>2, <1>3 DEF OpenIn

-----------------------------------------------------------------------------
(* How the operators group while they are read.  At `right' the operand    *)
(* parsed with the operator's binding power is complete, at `loop' the     *)
(* left operand of what may follow is.                                     *)
GroupsLeft(heap, op, n) == OpenIn(heap, n) => lbp[heap[n].op] >= lbp[op]
GroupsRight(heap, op, n) == OpenIn(heap, n) => lbp[heap[n].op] > lbp[op]

FrameGroups(heap, f) == f.pc = "right" => GroupsLeft(heap, f.op, f.left)
FramesGroup == \A i \in 1..Len(stack) : FrameGroups(nodes, stack[i])

TopGroups ==
  /\ Top.pc = "loop" /\ OpenIn(nodes, ret) =>
       lbp[nodes[ret].op] >= lbp[tok] /\ lbp[nodes[ret].op] > Top.rbp
  /\ Top.pc = "right" =>
       /\ ret # NULL => lbp[Top.op] >= lbp[tok]
       /\ GroupsRight(nodes, Top.op, ret)

NodeGroups(heap, n) ==
  heap[n].type = "BIN" =>
    /\ Len(heap[n].kids) = 2
    /\ GroupsLeft(heap, heap[n].op, heap[n].kids[1])
    /\ GroupsRight(heap, heap[n].op, heap[n].kids[2])
NodesGroup == \A n \in 1..Len(nodes) : NodeGroups(nodes, n)

Grouping == FramesGroup /\ TopGroups /\ NodesGroup

LEMMA GroupsKept ==
  ASSUME TypeInv, [Next]_vars, NEW op, NEW n \in 0..Len(nodes)
  PROVE  /\ GroupsLeft(nodes, op, n) => GroupsLeft(nodes', op, n)
         /\ GroupsRight(nodes, op, n) => GroupsRight(nodes', op, n)
  BY OpenKept DEF GroupsLeft, GroupsRight

(* The last node after a step that makes one. *)
LEMMA NewNodeIs ==
  ASSUME TypeInv, NEW x, nodes' = Append(nodes, x)
  PROVE  Len(nodes') = Len(nodes) + 1 /\ nodes'[Len(nodes) + 1] = x
<1>1. nodes \in Seq(NodeOf(Len(nodes)))
  BY DEF TypeInv, HeapInv
<1> QED
  BY <1>1

(* The only step that makes a node of an operator. *)
LEMMA NodesGroupStep ==
  ASSUME TypeInv, Grouping, [Next]_vars
  PROVE  NodesGroup'
<1> SUFFICES ASSUME NEW n \in 1..Len(nodes') PROVE NodeGroups(nodes', n)
  BY DEF NodesGroup
<1>1. CASE n \in 1..Len(nodes)
  <2>1. /\ nodes'[n].type = nodes[n].type /\ nodes'[n].kids = nodes[n].kids
        /\ nodes'[n].op = nodes[n].op
    BY <1>1, NodesKeptFields
  <2> SUFFICES ASSUME nodes[n].type = "BIN"
               PROVE  NodeGroups(nodes', n)
    BY <2>1 DEF NodeGroups
  <2>2. /\ Len(nodes[n].kids) = 2
        /\ GroupsLeft(nodes, nodes[n].op, nodes[n].kids[1])
        /\ GroupsRight(nodes, nodes[n].op, nodes[n].kids[2])
    BY <1>1, <2>1 DEF Grouping, NodesGroup, NodeGroups
  <2>3. /\ nodes[n].kids[1] \in 0..Len(nodes) /\ nodes[n].kids[2] \in 0..Len(nodes)
    <3>1. nodes[n].kids \in Seq(0..Len(nodes))
      BY <1>1, NodeFields
    <3> QED
      BY <2>2, <3>1
  <2>4. /\ GroupsLeft(nodes', nodes[n].op, nodes[n].kids[1])
        /\ GroupsRight(nodes', nodes[n].op, nodes[n].kids[2])
    BY <2>2, <2>3, GroupsKept
  <2> QED
    BY <2>1, <2>2, <2>4 DEF NodeGroups
<1>2. CASE n \notin 1..Len(nodes)
  <2>1. PICK x : nodes' = Append(nodes, x) /\ ~CloseParen
    BY <1>2, NodesKept, TopFacts
  <2>2. x = nodes'[n]
    BY <1>2, <2>1, TopFacts, NewNodeIs
  <2> SUFFICES ASSUME x.type = "BIN" PROVE NodeGroups(nodes', n)
    BY <2>2 DEF NodeGroups
  <2>3. BinOp /\ x = BinNode(Top.left, ret)
    <3>1. ASSUME NEW y, nodes' = Append(nodes, y) PROVE y = x
      <4>1. nodes'[Len(nodes) + 1] = x
        BY <2>1, NewNodeIs
      <4>2. nodes'[Len(nodes) + 1] = y
        BY <3>1, NewNodeIs
      <4> QED
        BY <4>1, <4>2
    <3>2. nodes' # nodes
      BY <2>1, NewNodeIs, TopFacts
    <3>3. BinOp
      <4>1. ASSUME NEW type, NEW op, NEW name, NEW kids, NEW params, NEW first, NEW last,
                   nodes' = Append(nodes, NewNode(type, op, name, kids, params, first, last))
            PROVE  type = "BIN"
        BY <3>1, <4>1 DEF NewNode
      <4>2. ~EnterLeaf
        BY <4>1 DEF EnterLeaf, Leaf
      <4>3. ~CloseCall /\ ~DefClose /\ ~(NextStmt /\ nodes' # nodes)
        BY <4>1 DEF CloseCall, DefClose, NextStmt, ReturnNode
      <4>4. ~(IfElse /\ nodes' # nodes) /\ ~IfElseClose
        BY <4>1 DEF IfElse, IfElseClose, ReturnNode, IfNode, If
      <4> QED
        BY <2>1, <3>2, <4>2, <4>3, <4>4 DEF Next, Step, vars, Ended,
           EnterPrefix, EnterParen, NoPrefix, ScanThenFail, Infix, LoopEnds,
           LoopPastTable, NextArg, StoreArg, OptionalComma,
           CallDies, IfOpen, IfCond, IfThenOpen, IfThen,
           IfElseOpen, IfElseAgain, IfElseFails, DefOpen, NextParam,
           NotAParam, ParamsEnd, DefBody, EndStmt, Program,
           Parse, ConsumeDies, Killed
    <3> QED
      BY <3>1, <3>2, <3>3 DEF BinOp, ReturnNode
  <2>4. x.kids = <<Top.left, ret>> /\ x.op = Top.op
    BY <2>3 DEF BinNode, Bin, NewNode
  <2>5. /\ Top.left \in 0..Len(nodes)
        /\ ret \in 0..Len(nodes) /\ Top = stack[Len(stack)]
        /\ Len(stack) \in 1..Len(stack)
    BY TopFacts
  <2>6. GroupsLeft(nodes, Top.op, Top.left) /\ GroupsRight(nodes, Top.op, ret)
    BY <2>3, <2>5 DEF BinOp, At, Grouping, FramesGroup, FrameGroups, TopGroups
  <2>7. GroupsLeft(nodes', Top.op, Top.left) /\ GroupsRight(nodes', Top.op, ret)
    BY <2>5, <2>6, GroupsKept
  <2> QED
    BY <2>2, <2>4, <2>7 DEF NodeGroups
<1> QED
  BY <1>1, <1>2

LEMMA FramesGroupMove ==
  ASSUME TypeInv, FramesGroup, [Next]_vars,
         NEW fs \in Seq(FrameOf(Len(nodes))), Replaced(fs),
         \A j \in 1..Len(fs) : FrameGroups(nodes', fs[j])
  PROVE  FramesGroup'
<1>1. ASSUME NEW i \in 1..Len(stack') PROVE FrameGroups(nodes', stack'[i])
  <2>1. CASE i \in 1..(Len(stack) - 1) /\ stack'[i] = stack[i]
    <3>1. i \in 1..Len(stack) /\ stack[i] \in FrameOf(Len(nodes))
      BY <2>1, StackSeq
    <3>2. stack[i].left \in 0..Len(nodes)
      BY <3>1, TopFacts, FrameFields
    <3> QED
      BY <2>1, <3>1, <3>2, GroupsKept DEF FramesGroup, FrameGroups
  <2> QED
    BY <2>1, ReplacedFrames
<1> QED
  BY <1>1 DEF FramesGroup

LEMMA FramesGroupMoves ==
  ASSUME TypeInv, FramesGroup, [Next]_vars, NEW f \in FrameOf(Len(nodes)),
         NEW g \in FrameOf(Len(nodes)), NEW h \in FrameOf(Len(nodes)),
         f.pc # "right", h.pc # "right"
  PROVE  /\ Replaced(<<>>) => FramesGroup'
         /\ Replaced(<<f>>) => FramesGroup'
         /\ Replaced(<<f, g>>) /\ FrameGroups(nodes', g) => FramesGroup'
         /\ Replaced(<<f, g, h>>) /\ FrameGroups(nodes', g) => FramesGroup'
<1> DEFINE S == FrameOf(Len(nodes))
<1>1. FrameGroups(nodes', f) /\ FrameGroups(nodes', h)
  BY DEF FrameGroups
<1>2. ASSUME Replaced(<<>>) PROVE FramesGroup'
  <2>1. \A j \in 1..Len(<<>>) : FrameGroups(nodes', <<>>[j])
    OBVIOUS
  <2> QED
    BY <1>2, <2>1, EmptyKids, FramesGroupMove
<1>3. ASSUME Replaced(<<f>>) PROVE FramesGroup'
  <2>1. \A j \in 1..Len(<<f>>) : FrameGroups(nodes', <<f>>[j])
    BY <1>1
  <2>2. <<f>> \in Seq(S)
    OBVIOUS
  <2> QED
    BY <1>3, <2>1, <2>2, FramesGroupMove
<1>4. ASSUME Replaced(<<f, g>>), FrameGroups(nodes', g) PROVE FramesGroup'
  <2>1. \A j \in 1..Len(<<f, g>>) : FrameGroups(nodes', <<f, g>>[j])
    BY <1>1, <1>4
  <2>2. <<f, g>> \in Seq(S)
    OBVIOUS
  <2> QED
    BY <1>4, <2>1, <2>2, FramesGroupMove
<1>5. ASSUME Replaced(<<f, g, h>>), FrameGroups(nodes', g) PROVE FramesGroup'
  <2>1. \A j \in 1..Len(<<f, g, h>>) : FrameGroups(nodes', <<f, g, h>>[j])
    BY <1>1, <1>5
  <2>2. <<f, g, h>> \in Seq(S)
    OBVIOUS
  <2> QED
    BY <1>5, <2>1, <2>2, FramesGroupMove
<1> QED
  BY <1>2, <1>3, <1>4, <1>5

LEMMA FramesGroupStep ==
  ASSUME TypeInv, Grouping, [Next]_vars
  PROVE  FramesGroup'
<1> DEFINE k == Len(nodes)
<1>k. /\ k \in Nat /\ Len(input) \in Nat /\ Top \in FrameOf(k)
      /\ Top.first \in Nat /\ Append(Top.kids, ret) \in Seq(0..k)
      /\ <<ret>> \in Seq(0..k) /\ tok \in TokType /\ ret \in 0..k
  BY TopFacts
<1>g. ASSUME NEW pc \in Labels \ {"right"}
      PROVE  GoOn(pc) \in FrameOf(k) /\ GoOn(pc).pc # "right"
  BY GoOnFields
<1>w. ASSUME NEW pc \in Labels \ {"right"}, NEW kids \in Seq(0..k)
      PROVE  GoOnWith(pc, kids) \in FrameOf(k) /\ GoOnWith(pc, kids).pc # "right"
  BY GoOnWithFields
<1>n. ASSUME NEW pc \in Labels \ {"right"}, NEW first \in Nat
      PROVE  /\ NewFrame(pc, first) \in FrameOf(k)
             /\ FrameGroups(nodes', NewFrame(pc, first))
  BY <1>k, NewFrameFields DEF FrameGroups
<1>x. ASSUME NEW rbp \in 0..10, NEW first \in Nat
      PROVE  /\ Expression(rbp, first) \in FrameOf(k)
             /\ Expression(rbp, first).pc # "right"
             /\ FrameGroups(nodes', Expression(rbp, first))
  BY <1>k, ExpressionFields DEF FrameGroups
<1>m. ASSUME NEW f \in FrameOf(k), NEW g \in FrameOf(k), NEW h \in FrameOf(k),
             f.pc # "right", h.pc # "right"
      PROVE  /\ Replaced(<<>>) => FramesGroup'
             /\ Replaced(<<f>>) => FramesGroup'
             /\ Replaced(<<f, g>>) /\ FrameGroups(nodes', g) => FramesGroup'
             /\ Replaced(<<f, g, h>>) /\ FrameGroups(nodes', g) => FramesGroup'
  BY <1>m, FramesGroupMoves DEF Grouping
<1>o. "loop" \in Labels \ {"right"} /\ "paren" \in Labels \ {"right"}
      /\ Len(input) + 1 \in Nat
  BY <1>k DEF Labels, Waiting
<1>l. GoOn("loop") \in FrameOf(k) /\ GoOn("loop").pc # "right"
  BY <1>g, <1>o
<1>0. Replaced(<<>>) => FramesGroup'
  BY <1>l, <1>m
<1>1. ASSUME NEW pc \in Labels \ {"right"}, Replaced(<<GoOn(pc)>>) PROVE FramesGroup'
  BY <1>1, <1>g, <1>m
<1>2. ASSUME NEW pc \in Labels \ {"right"}, NEW kids \in Seq(0..k),
             Replaced(<<GoOnWith(pc, kids)>>)
      PROVE  FramesGroup'
  BY <1>2, <1>w, <1>m
<1>3. ASSUME NEW pc \in Labels \ {"right"}, NEW q \in Labels \ {"right"},
             NEW first \in Nat, Replaced(<<GoOn(pc), NewFrame(q, first)>>)
      PROVE  FramesGroup'
  BY <1>3, <1>g, <1>n, <1>m
<1>4. ASSUME NEW pc \in Labels \ {"right"}, NEW first \in Nat,
             Replaced(<<GoOn(pc), Expression(0, first)>>)
      PROVE  FramesGroup'
  <2>1. GoOn(pc) \in FrameOf(k) /\ GoOn(pc).pc # "right"
    BY <1>g
  <2>2. /\ Expression(0, first) \in FrameOf(k)
        /\ FrameGroups(nodes', Expression(0, first))
    <3>1. 0 \in 0..10
      OBVIOUS
    <3> QED
      BY <3>1, <1>x
  <2> QED
    BY <1>4, <2>1, <2>2, <1>m
<1>5. CASE NextParam /\ Replaced(<<GoOnParam>>)
  BY <1>5, <1>m, GoOnParamFields
<1>13. CASE DefOpen /\ Top.pc = "def" /\ Replaced(<<GoOnNamed>>)
  BY <1>13, <1>m, GoOnNamedFields
<1>6. CASE Replaced(<<GoOn("loop"), NewFrame("paren", Top.first),
                      Expression(0, Len(input) + 1)>>)
  <2>1. /\ NewFrame("paren", Top.first) \in FrameOf(k)
        /\ FrameGroups(nodes', NewFrame("paren", Top.first))
    BY <1>k, <1>o, <1>n
  <2>2. /\ Expression(0, Len(input) + 1) \in FrameOf(k)
        /\ Expression(0, Len(input) + 1).pc # "right"
    <3>1. 0 \in 0..10
      OBVIOUS
    <3> QED
      BY <3>1, <1>o, <1>x
  <2> QED
    BY <1>6, <1>l, <2>1, <2>2, <1>m
<1>7. CASE Infix /\ tok \in BinOps
           /\ Replaced(<<Top, InfixFrame("right"), Expression(lbp[tok], Len(input) + 1)>>)
  <2> DEFINE g == InfixFrame("right")
             h == Expression(lbp[tok], Len(input) + 1)
  <2>1. g \in FrameOf(k) /\ g.op = tok /\ g.left = ret
    BY InfixFields DEF Labels
  <2>2. h \in FrameOf(k) /\ h.pc # "right"
    <3>1. lbp[tok] \in 0..10
      BY <1>k, lbpType
    <3> QED
      BY <3>1, <1>o, <1>x
  <2>3. Top.pc = "loop"
    BY <1>7 DEF Infix, At
  <2>4. GroupsLeft(nodes, tok, ret)
    BY <2>3 DEF Grouping, TopGroups, GroupsLeft
  <2>5. GroupsLeft(nodes', tok, ret)
    BY <1>k, <2>4, GroupsKept
  <2>6. FrameGroups(nodes', g)
    BY <2>1, <2>5 DEF FrameGroups
  <2> QED
    BY <1>7, <1>k, <2>1, <2>2, <2>3, <2>6, <1>m
<1>8. CASE Infix /\ Replaced(<<Top, InfixFrame("args")>>)
  <2>1. InfixFrame("args") \in FrameOf(k) /\ InfixFrame("args").pc = "args"
    BY InfixFields DEF Labels
  <2> QED
    BY <1>8, <1>k, <2>1, <1>m DEF Infix, At, FrameGroups
<1>9. CASE IfElseAgain
           /\ Replaced(<<[Top EXCEPT !.pc = "else_again", !.left = ret],
                         NewFrame("stmts", Len(input))>>)
  <2> DEFINE f == [Top EXCEPT !.pc = "else_again", !.left = ret]
  <2>1. NewFrame("stmts", Len(input)) \in FrameOf(k)
        /\ FrameGroups(nodes', NewFrame("stmts", Len(input)))
    BY <1>k, <1>n DEF Labels
  <2>2. "else_again" \in Labels
    BY DEF Labels, Waiting
  <2> HIDE DEF k
  <2>3. f \in FrameOf(k) /\ f.pc = "else_again"
    BY <1>k, <2>2 DEF FrameOf
  <2> HIDE DEF f
  <2> QED
    BY <1>9, <2>1, <2>3, <1>m DEF f
<1>10. CASE Stopping \/ Dying
  BY <1>10 DEF Stopping, Dying, Grouping, FramesGroup
<1> HIDE DEF k
<1>11. CASE Resuming
  BY <1>11, <1>k, <1>1, <1>2, <1>5, <1>13 DEF Resuming, Labels, Waiting
<1>12. CASE Calling
  <2>1. CASE \E pc \in {"if", "def"} :
               Replaced(<<GoOn("loop"), NewFrame(pc, Top.first)>>)
    BY <2>1, <1>k, <1>o, <1>3 DEF Labels, Waiting
  <2> QED
    BY <1>12, <2>1, <1>k, <1>o, <1>3, <1>4, <1>6, <1>7, <1>8, <1>9
    DEF Calling, Labels, Waiting
<1>14. CASE Choosing
  BY <1>14, <1>k, <1>0, <1>1, <1>2, <1>4 DEF Choosing, Labels, Waiting
<1> QED
  BY <1>0, <1>10, <1>11, <1>12, <1>14, Moves

-----------------------------------------------------------------------------
(* The steps that leave the top frame, and those of Choosing that do not.  *)
Leaving ==
  \/ Returning
  \/ StoreArg /\ ret = NULL
  \/ IfElse /\ tok # "ELSE"
  \/ ParamsEnd /\ Fail("toomany") /\ NoScan
  \/ NextStmt /\ tok \in {"EOS", "RCURL"}
  \/ EndStmt /\ ret = NULL

Staying ==
  \/ /\ StoreArg /\ ret # NULL
     /\ Replaced(<<GoOnWith("more_args", Append(Top.kids, ret))>>)
  \/ IfElse /\ tok = "ELSE" /\ Replaced(<<GoOn("else_open")>>)
  \/ ParamsEnd /\ Scan({}) /\ UNCHANGED ret /\ Replaced(<<GoOn("body_open")>>)
  \/ /\ NextStmt /\ tok \notin {"EOS", "RCURL"}
     /\ Replaced(<<GoOn("stmt"), Expression(0, Len(input))>>)
  \/ /\ EndStmt /\ ret # NULL
     /\ Replaced(<<GoOnWith("stmts", Append(Top.kids, ret))>>)

LEMMA Steps ==
  ASSUME TypeInv, [Next]_vars
  PROVE  \/ Leaving /\ Replaced(<<>>)
         \/ Resuming \/ Calling \/ Staying \/ Stopping \/ Dying
  BY Moves DEF Choosing, Leaving, Staying

LEMMA TopAfter ==
  ASSUME TypeInv, NEW f, NEW g, NEW h
  PROVE  /\ Replaced(<<f>>) => Top' = f
         /\ Replaced(<<f, g>>) => Top' = g
         /\ Replaced(<<f, g, h>>) => Top' = h
<1>1. Len(stack) \in Nat
  BY StackSeq
<1>2. ASSUME Replaced(<<f>>) PROVE Top' = f
  BY <1>1, <1>2 DEF Replaced, Top
<1>3. ASSUME Replaced(<<f, g>>) PROVE Top' = g
  BY <1>1, <1>3 DEF Replaced, Top
<1>4. ASSUME Replaced(<<f, g, h>>) PROVE Top' = h
  BY <1>1, <1>4 DEF Replaced, Top
<1> QED
  BY <1>2, <1>3, <1>4

(* Only the end of a function, or of a leaf, completes an operand. *)
LEMMA StillBusy ==
  ASSUME TypeInv, Resuming \/ Calling \/ Staying, ~EnterLeaf
  PROVE  Top'.pc \notin {"loop", "right"}
<1>k. /\ Len(input) \in Nat /\ Top.first \in Nat /\ <<ret>> \in Seq(0..Len(nodes))
      /\ Append(Top.kids, ret) \in Seq(0..Len(nodes))
      /\ Top \in FrameOf(Len(nodes)) /\ tok \in TokType
  BY TopFacts
<1>g. ASSUME NEW pc \in Labels, Replaced(<<GoOn(pc)>>) PROVE Top'.pc = pc
  BY <1>g, TopAfter, GoOnFields
<1>w. ASSUME NEW pc \in Labels, NEW kids \in Seq(0..Len(nodes)),
             Replaced(<<GoOnWith(pc, kids)>>)
      PROVE  Top'.pc = pc
  <2>1. Top' = GoOnWith(pc, kids)
    BY <1>w, TopAfter
  <2> QED
    BY <2>1, GoOnWithFields
<1>n. ASSUME NEW f, NEW pc \in Labels, NEW first \in Nat,
             Replaced(<<f, NewFrame(pc, first)>>)
      PROVE  Top'.pc = pc
  <2>1. Top' = NewFrame(pc, first)
    BY <1>n, TopAfter
  <2> QED
    BY <2>1, NewFrameFields
<1>x. ASSUME NEW f, NEW first \in Nat, Replaced(<<f, Expression(0, first)>>)
      PROVE  Top'.pc = "expr"
  <2>1. 0 \in 0..10
    OBVIOUS
  <2>2. Top' = Expression(0, first)
    BY <1>x, TopAfter
  <2> QED
    BY <1>x, <2>1, <2>2, ExpressionFields
<1>1. Len(input) + 1 \in Nat
  BY <1>k
<1>2. CASE Replaced(<<GoOnParam>>) \/ Replaced(<<GoOnNamed>>)
  BY <1>2, TopAfter, GoOnParamFields, GoOnNamedFields
<1>3. CASE Replaced(<<GoOn("loop"), NewFrame("paren", Top.first),
                      Expression(0, Len(input) + 1)>>)
  <2>1. 0 \in 0..10
    OBVIOUS
  <2>2. Top' = Expression(0, Len(input) + 1)
    BY <1>3, TopAfter
  <2> QED
    BY <1>1, <2>1, <2>2, ExpressionFields
<1>4. CASE Replaced(<<Top, InfixFrame("right"), Expression(lbp[tok], Len(input) + 1)>>)
  <2>1. lbp[tok] \in 0..10
    BY <1>k, lbpType
  <2>2. Top' = Expression(lbp[tok], Len(input) + 1)
    BY <1>4, TopAfter
  <2> QED
    BY <1>1, <2>1, <2>2, ExpressionFields
<1>5. CASE Replaced(<<Top, InfixFrame("args")>>)
  <2>1. Top' = InfixFrame("args")
    BY <1>5, TopAfter
  <2> QED
    BY <2>1, InfixFields DEF Labels
<1>6. CASE Resuming
  BY <1>6, <1>k, <1>g, <1>w, <1>2 DEF Resuming, Labels, Waiting
<1>7. CASE Calling
  <2>1. CASE \E pc \in {"if", "def"} :
               Replaced(<<GoOn("loop"), NewFrame(pc, Top.first)>>)
    BY <2>1, <1>k, <1>n DEF Labels, Waiting
  <2>2. CASE Replaced(<<[Top EXCEPT !.pc = "else_again", !.left = ret],
                        NewFrame("stmts", Len(input))>>)
    BY <2>2, <1>k, <1>n DEF Labels
  <2> QED
    BY <1>7, <2>1, <2>2, <1>k, <1>1, <1>n, <1>x, <1>3, <1>4, <1>5
    DEF Calling, Labels, Waiting
<1>8. CASE Staying
  BY <1>8, <1>k, <1>g, <1>w, <1>x DEF Staying, Labels, Waiting
<1> QED
  BY <1>6, <1>7, <1>8

(* What a function returns is an operator without parentheses only where   *)
(* bin_op_infix made it or expression() hands it on.                       *)
LEMMA ReturnsOpen ==
  ASSUME TypeInv, Leaving, OpenIn(nodes', ret')
  PROVE  LoopEnds \/ (BinOp /\ ret # NULL)
<1>1. ret' # NULL /\ nodes'[ret'].type = "BIN" /\ nodes'[ret'].paren = 0
  BY DEF OpenIn
<1>2. ASSUME NEW type, NEW op, NEW name, NEW kids, NEW params, NEW first, NEW last,
             ReturnNode(NewNode(type, op, name, kids, params, first, last))
      PROVE  type = "BIN"
  <2> DEFINE x == NewNode(type, op, name, kids, params, first, last)
  <2>1. x.type = type
    BY DEF NewNode
  <2> HIDE DEF x
  <2>2. nodes' = Append(nodes, x) /\ ret' = Len(nodes) + 1
    BY <1>2 DEF ReturnNode, Return, x
  <2>3. nodes'[ret'] = x
    BY <2>2, NewNodeIs
  <2> QED
    BY <1>1, <2>1, <2>3
<1>3. ~CloseParen
  <2> SUFFICES ASSUME CloseParen PROVE FALSE
    OBVIOUS
  <2>1. ret' = ret /\ ret \in 0..Len(nodes) /\ ret # NULL
    BY <1>1, TopFacts DEF CloseParen, Return
  <2>2. ret \in 1..Len(nodes) /\ [Next]_vars
    BY <2>1, TopFacts DEF NULL, Next, Step
  <2>3. nodes'[ret].paren > 0 \/ nodes'[ret] = nodes[ret]
    BY <2>2, NodesKeptFields
  <2>4. nodes[ret].paren \in Nat /\ nodes[ret] \in NodeOf(Len(nodes))
        /\ nodes \in Seq(NodeOf(Len(nodes)))
    BY <2>2, NodeFields DEF TypeInv, HeapInv
  <2> DEFINE p == nodes[ret].paren + 1
             x == [nodes[ret] EXCEPT !.paren = p, !.first = Top.first,
                                     !.last = Len(input)]
  <2>5. nodes' = [nodes EXCEPT ![ret] = x]
    BY <2>1, <2>2, <2>4 DEF CloseParen, NodeOf
  <2> HIDE DEF p
  <2>6. x.paren = p
    BY <2>4 DEF NodeOf
  <2> HIDE DEF x
  <2>7. nodes'[ret] = x
    BY <2>2, <2>4, <2>5
  <2>8. p > 0
    BY <2>4 DEF p
  <2> QED
    BY <1>1, <2>1, <2>6, <2>7, <2>8
<1>4. ~CloseCall /\ ~DefClose /\ ~(NextStmt /\ tok \in {"EOS", "RCURL"})
  BY <1>2 DEF CloseCall, DefClose, NextStmt
<1>5. ~IfElseClose /\ ~(IfElse /\ tok # "ELSE")
  BY <1>2 DEF IfElseClose, IfElse, IfNode, If
<1>6. /\ ~(NoPrefix /\ Fail("prefix")) /\ ~(LoopPastTable /\ Fail("infix"))
      /\ ~IfElseFails /\ ~NotAParam
      /\ ~(StoreArg /\ ret = NULL) /\ ~Fail("toomany") /\ ~(BinOp /\ ret = NULL)
      /\ ~(EndStmt /\ ret = NULL)
  BY <1>1 DEF IfElseFails, NotAParam, StoreArg, BinOp, EndStmt, Fail, Return
<1> QED
  BY <1>3, <1>4, <1>5, <1>6 DEF Leaving, Returning

LEMMA TopGroupsReturn ==
  ASSUME TypeInv, CallGraph, Grouping, Leaving, Replaced(<<>>)
  PROVE  TopGroups'
<1>1. Top.pc \notin Base
  BY DEF Leaving, Returning, NoPrefix, LoopEnds, LoopPastTable, BinOp, CloseCall,
     CloseParen, IfElseFails, IfElseClose, NotAParam, DefClose, StoreArg, IfElse,
     ParamsEnd, NextStmt, EndStmt, Consume, At, Base
<1>2. /\ Calls(Top', Top) /\ Top' \in FrameOf(Len(nodes))
      /\ Top \in FrameOf(Len(nodes)) /\ ret \in 0..Len(nodes) /\ tok \in TokType
      /\ Top.op \in TokType
  BY <1>1, ReturnsTo, TopFacts
<1>3. lbp[tok] \in 0..10 /\ Top.rbp \in 0..10
  BY <1>2, lbpType, FrameFields
<1>4. ASSUME BinOp, ret # NULL
      PROVE  /\ tok' = tok /\ nodes'[ret'].op = Top.op
             /\ Top.pc = "right" /\ lbp[Top.op] >= lbp[tok]
  <2>1. nodes' = Append(nodes, BinNode(Top.left, ret)) /\ ret' = Len(nodes) + 1
        /\ tok' = tok /\ Top.pc = "right"
    BY <1>4 DEF BinOp, ReturnNode, Return, NoScan, At
  <2>2. nodes'[ret'] = BinNode(Top.left, ret)
    BY <2>1, NewNodeIs
  <2>3. BinNode(Top.left, ret).op = Top.op
    BY DEF BinNode, Bin, NewNode
  <2>4. lbp[Top.op] >= lbp[tok]
    BY <1>4, <2>1 DEF Grouping, TopGroups
  <2> QED
    BY <2>1, <2>2, <2>3, <2>4
<1>5. ASSUME LoopEnds
      PROVE  /\ tok' = tok /\ nodes' = nodes /\ ret' = ret /\ Top.pc = "loop"
             /\ Top.rbp >= lbp[tok]
             /\ OpenIn(nodes, ret) => lbp[nodes[ret].op] > Top.rbp
  BY <1>5 DEF LoopEnds, At, Return, Grouping, TopGroups
<1>6. ASSUME Top'.pc = "loop", OpenIn(nodes', ret')
      PROVE  /\ lbp[nodes'[ret'].op] >= lbp[tok']
             /\ lbp[nodes'[ret'].op] > Top'.rbp
  <2>1. Top.pc \in PartPc /\ (Top.pc = "right" => Top'.rbp < lbp[Top.op])
    BY <1>2, <1>6 DEF Calls
  <2>2. ~LoopEnds
    BY <2>1 DEF LoopEnds, At, PartPc, ExprPc
  <2>3. BinOp /\ ret # NULL
    BY <1>6, <2>2, ReturnsOpen
  <2>4. /\ tok' = tok /\ nodes'[ret'].op = Top.op
        /\ Top.pc = "right" /\ lbp[Top.op] >= lbp[tok]
    BY <1>4, <2>3
  <2>5. lbp[Top.op] \in 0..10 /\ Top'.rbp \in 0..10
    BY <1>2, lbpType, FrameFields
  <2>6. lbp[Top.op] > Top'.rbp
    BY <2>1, <2>4, <2>5
  <2> QED
    BY <2>4, <2>6
<1>7. ASSUME Top'.pc = "right"
      PROVE  /\ ret' # NULL => lbp[Top'.op] >= lbp[tok']
             /\ GroupsRight(nodes', Top'.op, ret')
  <2>1. Top.pc \in ExprPc /\ Top.rbp = lbp[Top'.op]
    BY <1>2, <1>7 DEF Calls
  <2>2. \/ NoPrefix /\ Fail("prefix")
        \/ LoopPastTable /\ Fail("infix")
        \/ LoopEnds
    BY <2>1 DEF Leaving, Returning, BinOp, CloseCall, CloseParen, IfElseFails,
       IfElseClose, NotAParam, DefClose, StoreArg, IfElse, ParamsEnd, NextStmt,
       EndStmt, Consume, At, ExprPc
  <2>3. CASE LoopEnds
    <3>1. OpenIn(nodes', ret') => lbp[nodes'[ret'].op] > lbp[Top'.op]
      BY <1>5, <2>1, <2>3
    <3>2. lbp[Top'.op] >= lbp[tok']
      BY <1>5, <2>1, <2>3
    <3> QED
      BY <3>1, <3>2 DEF GroupsRight
  <2>4. CASE Fail("prefix") \/ Fail("infix")
    <3>1. ret' = NULL
      BY <2>4 DEF Fail, Return
    <3>2. ~OpenIn(nodes', ret')
      BY <3>1 DEF OpenIn
    <3> QED
      BY <3>1, <3>2 DEF GroupsRight
  <2> QED
    BY <2>2, <2>3, <2>4
<1> QED
  BY <1>6, <1>7 DEF TopGroups

LEMMA TopGroupsStep ==
  ASSUME TypeInv, CallGraph, Grouping, [Next]_vars
  PROVE  TopGroups'
<1>1. CASE Leaving /\ Replaced(<<>>)
  BY <1>1, TopGroupsReturn
<1>2. CASE EnterLeaf
  <2> DEFINE x == Leaf(IF tok = "DBL" THEN "DBL" ELSE "VAR")
  <2>1. nodes' = Append(nodes, x) /\ ret' = Len(nodes) + 1 /\ stack' = Resume(GoOn("loop"))
    BY <1>2 DEF EnterLeaf, Goto, GoOn
  <2>2. x.type # "BIN"
    BY DEF Leaf, NewNode
  <2> HIDE DEF x
  <2>3. nodes'[ret'] = x
    BY <2>1, NewNodeIs
  <2>4. ~OpenIn(nodes', ret')
    BY <2>2, <2>3 DEF OpenIn
  <2>5. Top'.pc = "loop"
    <3>1. GoOn("loop") \in FrameOf(Len(nodes)) /\ GoOn("loop").pc = "loop"
      BY GoOnFields DEF Labels
    <3>2. Replaced(<<GoOn("loop")>>)
      BY <2>1, <3>1, ResumeReplaced
    <3>3. Top' = GoOn("loop")
      BY <3>2, TopAfter
    <3> QED
      BY <3>1, <3>3
  <2> QED
    BY <2>4, <2>5 DEF TopGroups
<1>3. CASE ~EnterLeaf /\ (Resuming \/ Calling \/ Staying)
  BY <1>3, StillBusy DEF TopGroups
<1>4. CASE Stopping
  BY <1>4 DEF Stopping, Grouping, TopGroups, Top
<1>5. CASE Dying
  <2>1. tok' = "ERR" /\ Top' = Top /\ nodes' = nodes /\ ret' = ret /\ Top.pc # "right"
    BY <1>5 DEF Dying, Scan, NoPrefix, LoopPastTable, At, Top
  <2>2. OpenIn(nodes, ret) => lbp[nodes[ret].op] >= lbp["ERR"]
    <3>1. lbp["ERR"] = 0
      BY DEF lbp, TokType
    <3>2. ret # NULL => lbp[nodes[ret].op] \in 0..10
      BY TopFacts, NodeFields, lbpType DEF NULL
    <3> QED
      BY <3>1, <3>2 DEF OpenIn
  <2> QED
    BY <2>1, <2>2 DEF Grouping, TopGroups
<1> QED
  BY <1>1, <1>2, <1>3, <1>4, <1>5, Steps

LEMMA GroupingInit == ASSUME Init PROVE Grouping
<1>1. stack = <<NewFrame("program", 0)>> /\ nodes = <<>>
  BY DEF Init
<1>2. Len(stack) = 1 /\ stack[1] = NewFrame("program", 0) /\ Len(nodes) = 0
  BY <1>1
<1>3. stack[1].pc = "program" /\ Top = stack[1]
  BY <1>2 DEF NewFrame, Top
<1>4. FramesGroup
  BY <1>2, <1>3 DEF FramesGroup, FrameGroups
<1>5. TopGroups
  BY <1>3 DEF TopGroups
<1> QED
  BY <1>2, <1>4, <1>5 DEF Grouping, NodesGroup

LEMMA GroupingInvariant == Spec => [](TypeInv /\ CallGraph /\ Grouping)
<1> DEFINE I == TypeInv /\ Started /\ CallGraph /\ Grouping
<1>1. Init => I
  BY InitType, CallGraphInit, GroupingInit
<1>2. I /\ [Next]_vars => I'
  <2> SUFFICES ASSUME I, [Next]_vars PROVE I'
    OBVIOUS
  <2>1. TypeInv' /\ Started' /\ CallGraph'
    BY TypeStep, StartedStep, CallsStep
  <2>2. FramesGroup' /\ TopGroups' /\ NodesGroup'
    BY FramesGroupStep, TopGroupsStep, NodesGroupStep
  <2> QED
    BY <2>1, <2>2 DEF Grouping
<1> QED
  BY <1>1, <1>2, PTL DEF Spec

(* Operators group by their binding power and to the left, whatever        *)
(* surrounds them: the loop of expression() hands a left operand only to   *)
(* an operator that binds no tighter than the operator in it, and the call *)
(* of bin_op_infix for a right operand only returns what binds tighter.    *)
THEOREM OperatorsGroup == Spec => []Precedence
<1>1. ASSUME TypeInv, Grouping PROVE Precedence
  <2> SUFFICES ASSUME NEW n \in 1..Len(nodes), nodes[n].type = "BIN"
               PROVE  LET op == nodes[n].op
                          left == nodes[n].kids[1]
                          right == nodes[n].kids[2]
                      IN /\ IsOpen(left) => lbp[nodes[left].op] >= lbp[op]
                         /\ IsOpen(right) => lbp[nodes[right].op] > lbp[op]
    BY DEF Precedence
  <2>1. /\ GroupsLeft(nodes, nodes[n].op, nodes[n].kids[1])
        /\ GroupsRight(nodes, nodes[n].op, nodes[n].kids[2])
    BY <1>1 DEF Grouping, NodesGroup, NodeGroups
  <2> QED
    BY <2>1 DEF GroupsLeft, GroupsRight, OpenIn, IsOpen
<1> QED
  BY <1>1, GroupingInvariant, PTL

-----------------------------------------------------------------------------
(***************************************************************************)
(* Proof that the AST says what the source said: nothing that is read is   *)
(* dropped, duplicated or moved, as long as no error is on record.  Every  *)
(* frame of the C stack knows where the construct it reads began and what  *)
(* of it is read; what a call returns begins where the caller waits for it *)
(* and ends just before the lookahead.                                     *)
(*                                                                         *)
(* Behind that, that what the parser takes for brackets is balanced: the   *)
(* frames know which brackets are open.                                    *)
(*                                                                         *)
(* The operators below speak of a heap h of nodes and of the tokens u that *)
(* are read, so that they can be compared between two states.              *)
(***************************************************************************)

TokIn(u, i) == IF i \in 1..Len(u) THEN u[i] ELSE "ERR"

TiledIn(h, u, kids, from, to, sep, optional) ==
  /\ kids = <<>> => from = to
  /\ kids # <<>> => from = h[kids[1]].first
  /\ \A i \in 1..Len(kids) :
       LET next == IF i = Len(kids) THEN to ELSE h[kids[i + 1]].first
           end == h[kids[i]].last
       IN \/ next = end + 2 /\ TokIn(u, end + 1) = sep
          \/ optional /\ next = end + 1

Parens(u, x) ==
  \A i \in 0..(x.paren - 1) :
    TokIn(u, x.first + i) = "LPAREN" /\ TokIn(u, x.last - i) = "RPAREN"

(* The parts of `def name(params) {', for a list that goes up to token to. *)
Named(u, first, name) == name = first + 1 /\ TokIn(u, first + 1) = "ID"
Listed(u, first, params) ==
  /\ TokIn(u, first + 2) = "LPAREN"
  /\ \A i \in 1..Len(params) : TokIn(u, params[i]) = "ID"
ParamsTo(u, first, params, to) ==
  TiledIn(Place, u, params, first + 3, to, "COMMA", TRUE)
Heads(u, first, name, params, close) ==
  /\ TokIn(u, first) = "DEF"
  /\ Named(u, first, name) /\ Listed(u, first, params)
  /\ ParamsTo(u, first, params, close)
  /\ TokIn(u, close) = "RPAREN" /\ TokIn(u, close + 1) = "LCURL"

(* What a call of node y takes for its name. *)
NameOf(y) == IF y.type \in {"VAR", "CALL"} THEN y.name ELSE 0

(* Spans, without the parentheses, of node m + 1, which is x and stands    *)
(* for tokens from..to: a call knows of node c, which it calls, only that  *)
(* there is one.                                                           *)
Shape(h, u, x, m, from, to) ==
  /\ x.type = "DBL" => from = to /\ TokIn(u, from) = "DBL"
  /\ x.type = "VAR" => from = to /\ TokIn(u, from) = "ID" /\ x.name = from
  /\ x.type = "BIN" =>
       /\ x.op \in BinOps /\ Len(x.kids) = 2
       /\ h[x.kids[1]].first = from
       /\ TokIn(u, h[x.kids[1]].last + 1) = x.op
       /\ h[x.kids[2]].first = h[x.kids[1]].last + 2
       /\ h[x.kids[2]].last = to
  /\ x.type = "CALL" => \E c \in 1..m :
       /\ h[c].first = from /\ from <= h[c].last
       /\ x.name = NameOf(h[c])
       /\ TokIn(u, h[c].last + 1) = "LPAREN"
       /\ TokIn(u, to) = "RPAREN"
       /\ TiledIn(h, u, x.kids, h[c].last + 2, to, "COMMA", TRUE)
  /\ x.type = "IF" =>
       /\ Len(x.kids) = 3
       /\ TokIn(u, from) = "IF"
       /\ h[x.kids[1]].first = from + 2
       /\ h[x.kids[2]].first = h[x.kids[1]].last + 3
       /\ x.kids[3] = NULL => to = h[x.kids[2]].last + 1
       /\ x.kids[3] # NULL => /\ h[x.kids[3]].first = h[x.kids[2]].last + 4
                              /\ to = h[x.kids[3]].last + 1
  /\ x.type = "FUNCDEF" =>
       /\ Len(x.kids) = 1
       /\ Heads(u, from, x.name, x.params, h[x.kids[1]].first - 2)
       /\ to = h[x.kids[1]].last + 1
  /\ x.type = "BLOCK" =>
       TiledIn(h, u, x.kids, from, to + 1, "SEMI", FALSE)

Covers(h, u, x, m) ==
  Parens(u, x) /\ Shape(h, u, x, m, x.first + x.paren, x.last - x.paren)

(* The functions a frame may belong to, by its pc. *)
CallPc == {"args", "arg", "more_args"}
IfPc == {"if", "cond", "then_open", "then", "else?", "else_open", "else", "else_again"}
DefPc == {"def", "def_open", "params", "more_params", "body_open", "body"}
NamedPc == {"def_open", "params", "more_params", "body_open"}
ListPc == {"params", "more_params", "body_open"}
ThenPc == {"then_open", "then", "else?", "else_open", "else", "else_again"}
ElsePc == {"else?", "else_open", "else", "else_again"}
BlockCaller == {"then", "else", "else_again", "body", "parsed"}

(* What frame f has read of its construct. *)
Own(h, u, f) ==
  /\ f.pc = "loop" => f.first < Len(u)
  /\ f.pc = "right" =>
       /\ h[f.left].first = f.first
       /\ f.op \in BinOps /\ TokIn(u, h[f.left].last + 1) = f.op
  /\ f.pc \in CallPc =>
       /\ h[f.left].first = f.first /\ f.first <= h[f.left].last
       /\ TokIn(u, h[f.left].last + 1) = "LPAREN"
  /\ f.pc = "paren" => TokIn(u, f.first) = "LPAREN"
  /\ f.pc \in IfPc => TokIn(u, f.first) = "IF"
  /\ f.pc \in DefPc => TokIn(u, f.first) = "DEF"
  /\ f.pc \in {"def", "def_open"} => f.params = <<>>
  /\ f.pc \in NamedPc => Named(u, f.first, f.name)
  /\ f.pc \in ListPc => Listed(u, f.first, f.params)
  /\ f.pc \in ThenPc => h[f.kids[1]].first = f.first + 2
  /\ f.pc \in ElsePc => h[f.kids[2]].first = h[f.kids[1]].last + 3
  /\ f.pc = "else_again" => h[f.left].first = h[f.kids[2]].last + 4

ArgsTo(h, u, f, to) ==
  TiledIn(h, u, f.kids, h[f.left].last + 2, to, "COMMA", TRUE)
StmtsTo(h, u, f, to) == TiledIn(h, u, f.kids, f.first, to, "SEMI", FALSE)

(* The token at which begins what frame f has called for. *)
Starts(h, u, f, at) ==
  /\ f.pc = "loop" => at = f.first
  /\ f.pc = "right" => at = h[f.left].last + 2
  /\ f.pc = "arg" => ArgsTo(h, u, f, at)
  /\ f.pc = "stmt" => StmtsTo(h, u, f, at)
  /\ f.pc = "paren" => at = f.first + 1
  /\ f.pc = "cond" => at = f.first + 2
  /\ f.pc = "then" => at = h[f.kids[1]].last + 3
  /\ f.pc = "else" => at = h[f.kids[2]].last + 4
  /\ f.pc = "body" => Heads(u, f.first, f.name, f.params, at - 2)
  /\ f.pc = "parsed" => at = 1

(* How far the top frame f has come when the lookahead is token l. *)
Reaches(h, u, f, l) ==
  /\ f.pc = "expr" => f.first = l
  /\ f.pc = "args" => ArgsTo(h, u, f, l)
  /\ f.pc = "more_args" =>
       /\ ArgsTo(h, u, f, l)
       /\ f.kids # <<>> /\ h[f.kids[Len(f.kids)]].last = l - 1
  /\ f.pc = "stmts" => StmtsTo(h, u, f, l)
  /\ f.pc = "if" => l = f.first + 1
  /\ f.pc = "then_open" => l = h[f.kids[1]].last + 2
  /\ f.pc = "else?" => l = h[f.kids[2]].last + 2
  /\ f.pc = "else_open" => l = h[f.kids[2]].last + 3
  /\ f.pc = "def" => l = f.first + 1
  /\ f.pc = "def_open" => l = f.first + 2
  /\ f.pc = "params" => ParamsTo(u, f.first, f.params, l)
  /\ f.pc = "more_params" =>
       /\ ParamsTo(u, f.first, f.params, l)
       /\ f.params # <<>> /\ Place[f.params[Len(f.params)]].last = l - 1
  /\ f.pc = "body_open" =>
       /\ ParamsTo(u, f.first, f.params, l - 1)
       /\ TokIn(u, l - 1) = "RPAREN"

-----------------------------------------------------------------------------
(* The invariant.                                                          *)

(* A node is made after the nodes it points to, and what a call returns is *)
(* the last node made: no frame and no other node points to it.            *)
Fresh == \A n \in 1..Len(nodes) : nodes[n] \in NodeOf(n - 1)

Answered ==
  Top.pc \in Returned =>
    /\ ret = Len(nodes)
    /\ \A i \in 1..Len(stack) : stack[i] \in FrameOf(Len(nodes) - 1)
    /\ Starts(nodes, input, Top, nodes[ret].first)
    /\ nodes[ret].last = Len(input) - 1
    /\ Top.pc \in BlockCaller => tok \in {"EOS", "RCURL"}

NodesCover == \A n \in 1..Len(nodes) : Covers(nodes, input, nodes[n], n - 1)
FramesOwn == \A i \in 1..Len(stack) : Own(nodes, input, stack[i])
Chained == \A i \in 1..(Len(stack) - 1) :
             Starts(nodes, input, stack[i], stack[i + 1].first)
Reached == Reaches(nodes, input, Top, Len(input))

(* The second call of block() for an else branch returns at once. *)
AgainEmpty ==
  \A i \in 1..Len(stack) : stack[i].pc = "else_again" =>
    /\ i >= Len(stack) - 1
    /\ i = Len(stack) - 1 => Top.pc = "stmts"
    /\ tok \in {"EOS", "RCURL"}
    /\ nodes[stack[i].left].last = Len(input) - 1

(* Where a scan has ended the program the lookahead is no longer the token *)
(* the top frame stopped at.                                               *)
Sourced == err = "unset" =>
             /\ Fresh /\ NodesCover /\ FramesOwn /\ Chained /\ AgainEmpty
             /\ status # "died" => Answered /\ Reached

Accepted == status = "accepted" => Top.pc = "parsed"

-----------------------------------------------------------------------------
(* What was true of a heap and a text stays true when both grow.           *)

KeepsUpTo(g, h, m) == \A n \in 1..m : g[n] = h[n]
ReadsOn(v, u) == Len(v) >= Len(u) /\ \A i \in 1..Len(u) : v[i] = u[i]

LEMMA TokKept ==
  ASSUME NEW S, NEW u \in Seq(S), NEW v \in Seq(S), ReadsOn(v, u),
         NEW i, NEW t, TokIn(u, i) = t, t # "ERR"
  PROVE  TokIn(v, i) = t
<1>1. i \in 1..Len(u) /\ u[i] = t
  BY DEF TokIn
<1>2. i \in 1..Len(v) /\ v[i] = t
  BY <1>1 DEF ReadsOn
<1> QED
  BY <1>2 DEF TokIn

LEMMA TiledSame ==
  ASSUME NEW S, NEW u \in Seq(S), NEW v \in Seq(S), ReadsOn(v, u),
         NEW h, NEW g, NEW T, NEW kids \in Seq(T),
         \A i \in 1..Len(kids) : g[kids[i]] = h[kids[i]],
         NEW from, NEW to, NEW sep, sep # "ERR", NEW optional,
         TiledIn(h, u, kids, from, to, sep, optional)
  PROVE  TiledIn(g, v, kids, from, to, sep, optional)
<1>1. ASSUME NEW i \in 1..Len(kids) PROVE g[kids[i]] = h[kids[i]]
  OBVIOUS
<1>2. kids # <<>> => 1 \in 1..Len(kids)
  OBVIOUS
<1>3. ASSUME NEW i \in 1..Len(kids), i # Len(kids) PROVE i + 1 \in 1..Len(kids)
  BY <1>3
<1>4. ASSUME NEW i \in 1..Len(kids)
      PROVE  LET next == IF i = Len(kids) THEN to ELSE g[kids[i + 1]].first
                 end == g[kids[i]].last
             IN \/ next = end + 2 /\ TokIn(v, end + 1) = sep
                \/ optional /\ next = end + 1
  <2> DEFINE next == IF i = Len(kids) THEN to ELSE h[kids[i + 1]].first
             end == h[kids[i]].last
  <2>1. \/ next = end + 2 /\ TokIn(u, end + 1) = sep
        \/ optional /\ next = end + 1
    BY DEF TiledIn
  <2>2. TokIn(u, end + 1) = sep => TokIn(v, end + 1) = sep
    BY TokKept
  <2>3. /\ g[kids[i]].last = end
        /\ (IF i = Len(kids) THEN to ELSE g[kids[i + 1]].first) = next
    BY <1>1, <1>3
  <2> QED
    BY <2>1, <2>2, <2>3
<1> QED
  BY <1>1, <1>2, <1>4 DEF TiledIn

LEMMA TiledKept ==
  ASSUME NEW S, NEW u \in Seq(S), NEW v \in Seq(S), ReadsOn(v, u),
         NEW h, NEW g, NEW m \in Nat, KeepsUpTo(g, h, m),
         NEW kids \in Seq(0..m), \A i \in 1..Len(kids) : kids[i] # NULL,
         NEW from, NEW to, NEW sep, sep # "ERR", NEW optional,
         TiledIn(h, u, kids, from, to, sep, optional)
  PROVE  TiledIn(g, v, kids, from, to, sep, optional)
<1>1. ASSUME NEW i \in 1..Len(kids) PROVE g[kids[i]] = h[kids[i]]
  <2>1. kids[i] \in 1..m
    BY DEF NULL
  <2> QED
    BY <2>1 DEF KeepsUpTo
<1>2. PICK T : T = 0..m
  OBVIOUS
<1>3. kids \in Seq(T)
  BY <1>2
<1> QED
  BY <1>1, <1>3, TiledSame

(* What was read of the head of a definition. *)
LEMMA HeadKept ==
  ASSUME NEW S, NEW u \in Seq(S), NEW v \in Seq(S), ReadsOn(v, u),
         NEW first, NEW name, NEW params \in Seq(Nat)
  PROVE  /\ Named(u, first, name) => Named(v, first, name)
         /\ Listed(u, first, params) => Listed(v, first, params)
         /\ \A to : ParamsTo(u, first, params, to) => ParamsTo(v, first, params, to)
         /\ \A close : Heads(u, first, name, params, close)
                        => Heads(v, first, name, params, close)
<1>1. ASSUME Named(u, first, name) PROVE Named(v, first, name)
  BY <1>1, TokKept DEF Named
<1>2. ASSUME Listed(u, first, params) PROVE Listed(v, first, params)
  <2>1. TokIn(v, first + 2) = "LPAREN"
    BY <1>2, TokKept DEF Listed
  <2>2. ASSUME NEW i \in 1..Len(params) PROVE TokIn(v, params[i]) = "ID"
    <3>1. TokIn(u, params[i]) = "ID"
      BY <1>2 DEF Listed
    <3> QED
      BY <3>1, TokKept
  <2> QED
    BY <2>1, <2>2 DEF Listed
<1>3. ASSUME NEW to, ParamsTo(u, first, params, to) PROVE ParamsTo(v, first, params, to)
  <2>1. PICK from : from = first + 3
    OBVIOUS
  <2>2. TiledIn(Place, u, params, from, to, "COMMA", TRUE)
    BY <1>3, <2>1 DEF ParamsTo
  <2>3. TiledIn(Place, v, params, from, to, "COMMA", TRUE)
    BY <2>2, TiledSame
  <2> QED
    BY <2>1, <2>3 DEF ParamsTo
<1>4. ASSUME NEW close, Heads(u, first, name, params, close)
      PROVE  Heads(v, first, name, params, close)
  <2>1. /\ TokIn(u, first) = "DEF" /\ TokIn(u, close) = "RPAREN"
        /\ TokIn(u, close + 1) = "LCURL"
        /\ Named(u, first, name) /\ Listed(u, first, params)
        /\ ParamsTo(u, first, params, close)
    BY <1>4 DEF Heads
  <2>2. TokIn(v, first) = "DEF"
    BY <2>1, TokKept
  <2>3. TokIn(v, close) = "RPAREN"
    BY <2>1, TokKept
  <2>4. TokIn(v, close + 1) = "LCURL"
    BY <2>1, TokKept
  <2> QED
    BY <1>1, <1>2, <1>3, <2>1, <2>2, <2>3, <2>4 DEF Heads
<1> QED
  BY <1>1, <1>2, <1>3, <1>4

(* An empty list ends where it begins. *)
LEMMA TiledEmpty ==
  ASSUME NEW h, NEW u, NEW at, NEW sep, NEW optional
  PROVE  TiledIn(h, u, <<>>, at, at, sep, optional)
<1>1. Len(<<>>) = 0 /\ 1..Len(<<>>) = {}
  OBVIOUS
<1> QED
  BY <1>1 DEF TiledIn

LEMMA OneMore ==
  ASSUME NEW T, NEW kids \in Seq(T), NEW kid \in T
  PROVE  /\ Append(kids, kid) \in Seq(T) /\ Append(kids, kid) # <<>>
         /\ Len(Append(kids, kid)) = Len(kids) + 1 /\ Len(kids) \in Nat
         /\ Append(kids, kid)[Len(kids) + 1] = kid
         /\ \A i \in 1..Len(kids) : Append(kids, kid)[i] = kids[i]
  OBVIOUS

(* One more kid. *)
LEMMA TiledAppend ==
  ASSUME NEW u, NEW h, NEW T, NEW kids \in Seq(T), NEW kid \in T,
         NEW from, NEW to, NEW sep, NEW optional,
         TiledIn(h, u, kids, from, h[kid].first, sep, optional),
         \/ to = h[kid].last + 2 /\ TokIn(u, h[kid].last + 1) = sep
         \/ optional /\ to = h[kid].last + 1
  PROVE  TiledIn(h, u, Append(kids, kid), from, to, sep, optional)
<1> DEFINE more == Append(kids, kid)
<1>1. /\ more \in Seq(T) /\ Len(more) = Len(kids) + 1 /\ more # <<>>
      /\ more[Len(kids) + 1] = kid /\ Len(kids) \in Nat
      /\ \A i \in 1..Len(kids) : more[i] = kids[i]
  BY OneMore
<1> HIDE DEF more
<1>2. from = h[more[1]].first
  <2>1. CASE kids = <<>>
    <3>1. from = h[kid].first
      BY <2>1 DEF TiledIn
    <3>2. more[1] = kid
      BY <1>1, <2>1
    <3> QED
      BY <3>1, <3>2
  <2>2. CASE kids # <<>>
    <3>1. from = h[kids[1]].first
      BY <2>2 DEF TiledIn
    <3>2. 1 \in 1..Len(kids)
      BY <1>1, <2>2
    <3> QED
      BY <1>1, <3>1, <3>2
  <2> QED
    BY <2>1, <2>2
<1>3. ASSUME NEW i \in 1..Len(more)
      PROVE  LET next == IF i = Len(more) THEN to ELSE h[more[i + 1]].first
                 end == h[more[i]].last
             IN \/ next = end + 2 /\ TokIn(u, end + 1) = sep
                \/ optional /\ next = end + 1
  <2>1. CASE i = Len(kids) + 1
    BY <1>1, <2>1
  <2>2. CASE i = Len(kids)
    <3>1. i \in 1..Len(kids) /\ i # Len(more) /\ more[i] = kids[i] /\ more[i + 1] = kid
      BY <1>1, <2>2
    <3> DEFINE end == h[kids[i]].last
    <3>2. \/ h[kid].first = end + 2 /\ TokIn(u, end + 1) = sep
          \/ optional /\ h[kid].first = end + 1
      BY <2>2, <3>1 DEF TiledIn
    <3> QED
      BY <3>1, <3>2
  <2>3. CASE i < Len(kids)
    <3>1. /\ i \in 1..Len(kids) /\ i # Len(more) /\ i # Len(kids)
          /\ more[i] = kids[i] /\ more[i + 1] = kids[i + 1]
      <4>1. i \in 1..Len(kids) /\ i + 1 \in 1..Len(kids)
        BY <1>1, <2>3
      <4>2. i # Len(more) /\ i # Len(kids)
        BY <1>1, <2>3
      <4> QED
        BY <1>1, <4>1, <4>2
    <3> DEFINE end == h[kids[i]].last
    <3>2. \/ h[kids[i + 1]].first = end + 2 /\ TokIn(u, end + 1) = sep
          \/ optional /\ h[kids[i + 1]].first = end + 1
      BY <3>1 DEF TiledIn
    <3> QED
      BY <3>1, <3>2
  <2> QED
    BY <1>1, <2>1, <2>2, <2>3
<1> QED
  BY <1>1, <1>2, <1>3 DEF TiledIn, more

(* The separator after the last kid is read. *)
LEMMA TiledFurther ==
  ASSUME NEW S, NEW u \in Seq(S), NEW h, NEW T, NEW kids \in Seq(T),
         kids # <<>>, NEW from, NEW to, NEW further, NEW sep, NEW optional,
         TiledIn(h, u, kids, from, to, sep, optional),
         NEW end, end = h[kids[Len(kids)]].last,
         further = end + 2, TokIn(u, end + 1) = sep
  PROVE  TiledIn(h, u, kids, from, further, sep, optional)
<1>1. from = h[kids[1]].first
  BY DEF TiledIn
<1>2. ASSUME NEW i \in 1..Len(kids), i # Len(kids)
      PROVE  \/ h[kids[i + 1]].first = h[kids[i]].last + 2
                /\ TokIn(u, h[kids[i]].last + 1) = sep
             \/ optional /\ h[kids[i + 1]].first = h[kids[i]].last + 1
  BY <1>2 DEF TiledIn
<1>3. ASSUME NEW i \in 1..Len(kids)
      PROVE  LET next == IF i = Len(kids) THEN further ELSE h[kids[i + 1]].first
                 last == h[kids[i]].last
             IN \/ next = last + 2 /\ TokIn(u, last + 1) = sep
                \/ optional /\ next = last + 1
  BY <1>2
<1> QED
  BY <1>1, <1>3 DEF TiledIn

(* What a frame points to is there before ret is. *)
LEMMA FrameRefs ==
  ASSUME NEW m \in Nat, NEW f \in FrameOf(m), FrameComplete(f),
         NEW h, NEW g, KeepsUpTo(g, h, m)
  PROVE  /\ f.pc \in CallPc \cup {"right", "else_again"} => g[f.left] = h[f.left]
         /\ f.pc \in ThenPc => g[f.kids[1]] = h[f.kids[1]]
         /\ f.pc \in ElsePc => g[f.kids[2]] = h[f.kids[2]]
         /\ f.kids \in Seq(0..m) /\ \A i \in 1..Len(f.kids) : f.kids[i] # NULL
<1>1. f.kids \in Seq(0..m) /\ f.left \in 0..m
  BY DEF FrameOf
<1>2. \A i \in 1..Len(f.kids) : f.kids[i] # NULL /\ f.kids[i] \in 1..m
  BY <1>1 DEF FrameComplete, NULL
<1>3. ASSUME f.pc \in CallPc \cup {"right", "else_again"}
      PROVE  g[f.left] = h[f.left]
  <2>1. f.left \in 1..m
    BY <1>1, <1>3 DEF FrameComplete, NULL, CallPc
  <2> QED
    BY <2>1 DEF KeepsUpTo
<1>4. ASSUME f.pc \in ThenPc PROVE g[f.kids[1]] = h[f.kids[1]]
  <2>1. PICK n \in 1..2 : n = Len(f.kids) /\ n >= 1
    <3>1. Len(f.kids) = 1 \/ Len(f.kids) = 2
      BY <1>4, Zenon DEF FrameComplete, ThenPc
    <3> QED
      BY <3>1
  <2>2. 1 \in 1..Len(f.kids)
    BY <2>1
  <2> QED
    BY <1>2, <2>2 DEF KeepsUpTo
<1>5. ASSUME f.pc \in ElsePc PROVE g[f.kids[2]] = h[f.kids[2]]
  <2>1. PICK n \in 1..2 : n = Len(f.kids) /\ n >= 2
    <3>1. Len(f.kids) = 2
      BY <1>5, Zenon DEF FrameComplete, ElsePc
    <3> QED
      BY <3>1
  <2>2. 2 \in 1..Len(f.kids)
    BY <2>1
  <2> QED
    BY <1>2, <2>2 DEF KeepsUpTo
<1> QED
  BY <1>1, <1>2, <1>3, <1>4, <1>5

LEMMA OwnKept ==
  ASSUME NEW S, NEW u \in Seq(S), NEW v \in Seq(S), ReadsOn(v, u),
         NEW h, NEW g, NEW m \in Nat, KeepsUpTo(g, h, m),
         NEW f \in FrameOf(m), FrameComplete(f), Own(h, u, f)
  PROVE  Own(g, v, f)
<1>1. /\ f.pc \in CallPc \cup {"right", "else_again"} => g[f.left] = h[f.left]
      /\ f.pc \in ThenPc => g[f.kids[1]] = h[f.kids[1]]
      /\ f.pc \in ElsePc => g[f.kids[2]] = h[f.kids[2]]
  BY FrameRefs
<1>0. f.pc = "loop" => f.first < Len(v)
  <2>1. Len(v) >= Len(u) /\ Len(v) \in Nat /\ Len(u) \in Nat /\ f.first \in Nat
    BY DEF ReadsOn, FrameOf
  <2>2. f.pc = "loop" => f.first < Len(u)
    BY DEF Own
  <2> QED
    BY <2>1, <2>2
<1>2. ASSUME f.pc = "right"
      PROVE  /\ g[f.left].first = f.first
             /\ f.op \in BinOps /\ TokIn(v, g[f.left].last + 1) = f.op
  <2>1. /\ h[f.left].first = f.first /\ f.op \in BinOps
        /\ TokIn(u, h[f.left].last + 1) = f.op
    BY <1>2 DEF Own
  <2>2. f.op # "ERR"
    BY <2>1 DEF BinOps
  <2>3. TokIn(v, h[f.left].last + 1) = f.op
    BY <2>1, <2>2, TokKept
  <2> QED
    BY <1>1, <1>2, <2>1, <2>3
<1>3. ASSUME f.pc \in CallPc
      PROVE  /\ g[f.left].first = f.first /\ f.first <= g[f.left].last
             /\ TokIn(v, g[f.left].last + 1) = "LPAREN"
  <2>1. /\ h[f.left].first = f.first /\ f.first <= h[f.left].last
        /\ TokIn(u, h[f.left].last + 1) = "LPAREN"
    BY <1>3 DEF Own
  <2>2. TokIn(v, h[f.left].last + 1) = "LPAREN"
    BY <2>1, TokKept
  <2> QED
    BY <1>1, <1>3, <2>1, <2>2
<1>4. /\ f.pc = "paren" => TokIn(v, f.first) = "LPAREN"
      /\ f.pc \in IfPc => TokIn(v, f.first) = "IF"
      /\ f.pc \in DefPc => TokIn(v, f.first) = "DEF"
  BY TokKept DEF Own
<1>5. /\ f.pc \in ThenPc => g[f.kids[1]].first = f.first + 2
      /\ f.pc \in ElsePc => g[f.kids[2]].first = g[f.kids[1]].last + 3
      /\ f.pc = "else_again" => g[f.left].first = g[f.kids[2]].last + 4
  BY <1>1 DEF Own, ThenPc, ElsePc
<1>6. f.pc \in {"def", "def_open"} => f.params = <<>>
  BY DEF Own
<1>7. /\ f.pc \in NamedPc => Named(v, f.first, f.name)
      /\ f.pc \in ListPc => Listed(v, f.first, f.params)
  <2>1. f.params \in Seq(Nat)
    BY DEF FrameOf
  <2>2. /\ Named(u, f.first, f.name) => Named(v, f.first, f.name)
        /\ Listed(u, f.first, f.params) => Listed(v, f.first, f.params)
    BY <2>1, HeadKept
  <2> QED
    BY <2>2 DEF Own
<1> QED
  BY <1>0, <1>2, <1>3, <1>4, <1>5, <1>6, <1>7 DEF Own

LEMMA StartsKept ==
  ASSUME NEW S, NEW u \in Seq(S), NEW v \in Seq(S), ReadsOn(v, u),
         NEW h, NEW g, NEW m \in Nat, KeepsUpTo(g, h, m),
         NEW f \in FrameOf(m), FrameComplete(f), NEW at, Starts(h, u, f, at)
  PROVE  Starts(g, v, f, at)
<1>1. /\ f.pc \in CallPc \cup {"right", "else_again"} => g[f.left] = h[f.left]
      /\ f.pc \in ThenPc => g[f.kids[1]] = h[f.kids[1]]
      /\ f.pc \in ElsePc => g[f.kids[2]] = h[f.kids[2]]
      /\ f.kids \in Seq(0..m) /\ \A i \in 1..Len(f.kids) : f.kids[i] # NULL
  BY FrameRefs
<1>2. ASSUME f.pc = "arg" PROVE ArgsTo(g, v, f, at)
  <2> DEFINE start == h[f.left].last + 2
  <2>1. TiledIn(h, u, f.kids, start, at, "COMMA", TRUE)
    BY <1>2 DEF Starts, ArgsTo
  <2> HIDE DEF start
  <2>2. TiledIn(g, v, f.kids, start, at, "COMMA", TRUE)
    BY <1>1, <2>1, TiledKept
  <2> QED
    BY <1>1, <1>2, <2>2 DEF ArgsTo, CallPc, start
<1>3. ASSUME f.pc = "stmt" PROVE StmtsTo(g, v, f, at)
  <2>1. TiledIn(h, u, f.kids, f.first, at, "SEMI", FALSE)
    BY <1>3 DEF Starts, StmtsTo
  <2> QED
    BY <1>1, <2>1, TiledKept DEF StmtsTo
<1>4. /\ f.pc = "right" => at = g[f.left].last + 2
      /\ f.pc = "then" => at = g[f.kids[1]].last + 3
      /\ f.pc = "else" => at = g[f.kids[2]].last + 4
  BY <1>1 DEF Starts, CallPc, ThenPc, ElsePc
<1>5. ASSUME f.pc = "body" PROVE Heads(v, f.first, f.name, f.params, at - 2)
  <2>1. f.params \in Seq(Nat)
    BY DEF FrameOf
  <2>2. Heads(u, f.first, f.name, f.params, at - 2)
    BY <1>5 DEF Starts
  <2> QED
    BY <2>1, <2>2, HeadKept
<1> QED
  BY <1>2, <1>3, <1>4, <1>5 DEF Starts

LEMMA CoversKept ==
  ASSUME NEW S, NEW u \in Seq(S), NEW v \in Seq(S), ReadsOn(v, u),
         NEW h, NEW g, NEW m \in Nat, KeepsUpTo(g, h, m),
         NEW x \in NodeOf(m), NodeComplete(x)
  PROVE  /\ Parens(u, x) => Parens(v, x)
         /\ \A from, to : Shape(h, u, x, m, from, to) => Shape(g, v, x, m, from, to)
<1>1. x.kids \in Seq(0..m) /\ x.params \in Seq(Nat)
  BY DEF NodeOf
<1>2. \A c \in 1..m : g[c] = h[c]
  BY DEF KeepsUpTo
<1>3. ASSUME NEW i \in 1..Len(x.kids), x.kids[i] # NULL
      PROVE  g[x.kids[i]] = h[x.kids[i]]
  <2>1. x.kids[i] \in 1..m
    BY <1>1, <1>3 DEF NULL
  <2> QED
    BY <2>1 DEF KeepsUpTo
<1>4. ASSUME NEW i \in 1..Len(x.kids), ~(x.type = "IF" /\ i = 3)
      PROVE  x.kids[i] # NULL
  BY <1>4 DEF NodeComplete
<1>5. ASSUME Parens(u, x) PROVE Parens(v, x)
  <2>1. ASSUME NEW i \in 0..(x.paren - 1)
        PROVE  TokIn(v, x.first + i) = "LPAREN" /\ TokIn(v, x.last - i) = "RPAREN"
    <3>1. TokIn(u, x.first + i) = "LPAREN" /\ TokIn(u, x.last - i) = "RPAREN"
      BY <1>5 DEF Parens
    <3>2. TokIn(v, x.first + i) = "LPAREN"
      BY <3>1, TokKept
    <3>3. TokIn(v, x.last - i) = "RPAREN"
      BY <3>1, TokKept
    <3> QED
      BY <3>2, <3>3
  <2> QED
    BY <2>1 DEF Parens
<1>6. ASSUME NEW from, NEW to, Shape(h, u, x, m, from, to) PROVE Shape(g, v, x, m, from, to)
  <2>1. ASSUME x.type \in {"DBL", "VAR"} PROVE Shape(g, v, x, m, from, to)
    <3>1. /\ x.type = "DBL" => from = to /\ TokIn(v, from) = "DBL"
          /\ x.type = "VAR" => from = to /\ TokIn(v, from) = "ID" /\ x.name = from
      BY <1>6, TokKept DEF Shape
    <3> QED
      BY <2>1, <3>1 DEF Shape
  <2>2. ASSUME x.type = "BIN" PROVE Shape(g, v, x, m, from, to)
    <3>1. /\ x.op \in BinOps /\ Len(x.kids) = 2
          /\ h[x.kids[1]].first = from
          /\ TokIn(u, h[x.kids[1]].last + 1) = x.op
          /\ h[x.kids[2]].first = h[x.kids[1]].last + 2
          /\ h[x.kids[2]].last = to
      BY <1>6, <2>2 DEF Shape
    <3>2. 1 \in 1..Len(x.kids) /\ 2 \in 1..Len(x.kids)
      BY <3>1
    <3>3. g[x.kids[1]] = h[x.kids[1]] /\ g[x.kids[2]] = h[x.kids[2]]
      BY <1>3, <1>4, <2>2, <3>2
    <3>4. x.op # "ERR"
      BY <3>1 DEF BinOps
    <3>5. TokIn(v, h[x.kids[1]].last + 1) = x.op
      BY <3>1, <3>4, TokKept
    <3> QED
      BY <2>2, <3>1, <3>3, <3>5 DEF Shape
  <2>3. ASSUME x.type = "CALL" PROVE Shape(g, v, x, m, from, to)
    <3>1. PICK c \in 1..m :
            /\ h[c].first = from /\ from <= h[c].last
            /\ x.name = NameOf(h[c])
            /\ TokIn(u, h[c].last + 1) = "LPAREN"
            /\ TokIn(u, to) = "RPAREN"
            /\ TiledIn(h, u, x.kids, h[c].last + 2, to, "COMMA", TRUE)
      BY <1>6, <2>3 DEF Shape
    <3>2. TokIn(v, h[c].last + 1) = "LPAREN"
      BY <3>1, TokKept
    <3>3. TokIn(v, to) = "RPAREN"
      BY <3>1, TokKept
    <3>4. \A i \in 1..Len(x.kids) : x.kids[i] # NULL
      BY <1>4, <2>3
    <3>5. PICK start : start = h[c].last + 2
      OBVIOUS
    <3>6. TiledIn(h, u, x.kids, start, to, "COMMA", TRUE)
      BY <3>1, <3>5
    <3>7. TiledIn(g, v, x.kids, start, to, "COMMA", TRUE)
      BY <1>1, <3>4, <3>6, TiledKept
    <3>8. TiledIn(g, v, x.kids, h[c].last + 2, to, "COMMA", TRUE)
      BY <3>5, <3>7
    <3>9. g[c] = h[c]
      BY <1>2
    <3>10. /\ g[c].first = from /\ from <= g[c].last
           /\ x.name = NameOf(g[c])
           /\ TokIn(v, g[c].last + 1) = "LPAREN"
           /\ TokIn(v, to) = "RPAREN"
           /\ TiledIn(g, v, x.kids, g[c].last + 2, to, "COMMA", TRUE)
      BY <3>1, <3>2, <3>3, <3>8, <3>9
    <3> QED
      BY <2>3, <3>10 DEF Shape
  <2>4. ASSUME x.type = "IF" PROVE Shape(g, v, x, m, from, to)
    <3>1. /\ Len(x.kids) = 3
          /\ TokIn(u, from) = "IF"
          /\ h[x.kids[1]].first = from + 2
          /\ h[x.kids[2]].first = h[x.kids[1]].last + 3
          /\ x.kids[3] = NULL => to = h[x.kids[2]].last + 1
          /\ x.kids[3] # NULL => /\ h[x.kids[3]].first = h[x.kids[2]].last + 4
                                 /\ to = h[x.kids[3]].last + 1
      BY <1>6, <2>4 DEF Shape
    <3>2. /\ 1 \in 1..Len(x.kids) /\ 2 \in 1..Len(x.kids) /\ 3 \in 1..Len(x.kids)
      BY <3>1
    <3>3. /\ g[x.kids[1]] = h[x.kids[1]] /\ g[x.kids[2]] = h[x.kids[2]]
          /\ x.kids[3] # NULL => g[x.kids[3]] = h[x.kids[3]]
      BY <1>3, <1>4, <3>2
    <3>4. TokIn(v, from) = "IF"
      BY <3>1, TokKept
    <3> QED
      BY <2>4, <3>1, <3>3, <3>4 DEF Shape
  <2>5. ASSUME x.type = "FUNCDEF" PROVE Shape(g, v, x, m, from, to)
    <3>1. /\ Len(x.kids) = 1 /\ to = h[x.kids[1]].last + 1
          /\ Heads(u, from, x.name, x.params, h[x.kids[1]].first - 2)
      BY <1>6, <2>5 DEF Shape
    <3>2. g[x.kids[1]] = h[x.kids[1]]
      BY <1>3, <1>4, <2>5, <3>1
    <3>3. Heads(v, from, x.name, x.params, h[x.kids[1]].first - 2)
      BY <1>1, <3>1, HeadKept
    <3> QED
      BY <2>5, <3>1, <3>2, <3>3 DEF Shape
  <2>6. ASSUME x.type = "BLOCK" PROVE Shape(g, v, x, m, from, to)
    <3>1. TiledIn(h, u, x.kids, from, to + 1, "SEMI", FALSE)
      BY <1>6, <2>6 DEF Shape
    <3>2. \A i \in 1..Len(x.kids) : x.kids[i] # NULL
      BY <1>4, <2>6
    <3>3. TiledIn(g, v, x.kids, from, to + 1, "SEMI", FALSE)
      BY <1>1, <3>1, <3>2, TiledKept
    <3> QED
      BY <2>6, <3>3 DEF Shape
  <2>7. x.type \in NodeType
    BY DEF NodeOf
  <2> QED
    BY <2>1, <2>2, <2>3, <2>4, <2>5, <2>6, <2>7 DEF NodeType
<1> QED
  BY <1>5, <1>6

LEMMA ReachesKept ==
  ASSUME NEW S, NEW u \in Seq(S), NEW v \in Seq(S), ReadsOn(v, u),
         NEW h, NEW g, NEW m \in Nat, KeepsUpTo(g, h, m),
         NEW f \in FrameOf(m), FrameComplete(f), NEW l, Reaches(h, u, f, l)
  PROVE  Reaches(g, v, f, l)
<1>1. /\ f.pc \in CallPc \cup {"right", "else_again"} => g[f.left] = h[f.left]
      /\ f.pc \in ThenPc => g[f.kids[1]] = h[f.kids[1]]
      /\ f.pc \in ElsePc => g[f.kids[2]] = h[f.kids[2]]
      /\ f.kids \in Seq(0..m) /\ \A i \in 1..Len(f.kids) : f.kids[i] # NULL
  BY FrameRefs
<1>2. ASSUME f.pc \in {"args", "more_args"} PROVE ArgsTo(g, v, f, l)
  <2> DEFINE start == h[f.left].last + 2
  <2>1. TiledIn(h, u, f.kids, start, l, "COMMA", TRUE)
    BY <1>2 DEF Reaches, ArgsTo
  <2> HIDE DEF start
  <2>2. TiledIn(g, v, f.kids, start, l, "COMMA", TRUE)
    BY <1>1, <2>1, TiledKept
  <2> QED
    BY <1>1, <1>2, <2>2 DEF ArgsTo, CallPc, start
<1>3. ASSUME f.pc = "stmts" PROVE StmtsTo(g, v, f, l)
  <2>1. TiledIn(h, u, f.kids, f.first, l, "SEMI", FALSE)
    BY <1>3 DEF Reaches, StmtsTo
  <2> QED
    BY <1>1, <2>1, TiledKept DEF StmtsTo
<1>4. ASSUME f.pc = "more_args"
      PROVE  f.kids # <<>> /\ g[f.kids[Len(f.kids)]].last = l - 1
  <2>1. f.kids # <<>> /\ h[f.kids[Len(f.kids)]].last = l - 1
    BY <1>4 DEF Reaches
  <2>2. Len(f.kids) \in 1..Len(f.kids) /\ f.kids[Len(f.kids)] \in 1..m
    BY <1>1, <2>1 DEF NULL
  <2> QED
    BY <2>1, <2>2 DEF KeepsUpTo
<1>5. /\ f.pc = "expr" => f.first = l
      /\ f.pc = "if" => l = f.first + 1
      /\ f.pc = "then_open" => l = g[f.kids[1]].last + 2
      /\ f.pc = "else?" => l = g[f.kids[2]].last + 2
      /\ f.pc = "else_open" => l = g[f.kids[2]].last + 3
      /\ f.pc = "def" => l = f.first + 1
      /\ f.pc = "def_open" => l = f.first + 2
  BY <1>1 DEF Reaches, ThenPc, ElsePc
<1>6. /\ f.pc = "params" => ParamsTo(v, f.first, f.params, l)
      /\ f.pc = "more_params" =>
           /\ ParamsTo(v, f.first, f.params, l)
           /\ f.params # <<>> /\ Place[f.params[Len(f.params)]].last = l - 1
      /\ f.pc = "body_open" => ParamsTo(v, f.first, f.params, l - 1)
  <2>1. f.params \in Seq(Nat)
    BY DEF FrameOf
  <2>2. \A to : ParamsTo(u, f.first, f.params, to) => ParamsTo(v, f.first, f.params, to)
    BY <2>1, HeadKept
  <2> QED
    BY <2>2 DEF Reaches
<1>7. f.pc = "body_open" => TokIn(v, l - 1) = "RPAREN"
  <2>1. f.pc = "body_open" => TokIn(u, l - 1) = "RPAREN"
    BY DEF Reaches
  <2> QED
    BY <2>1, TokKept
<1> QED
  BY <1>2, <1>3, <1>4, <1>5, <1>6, <1>7 DEF Reaches

-----------------------------------------------------------------------------
(* The parts of the invariant in a step that goes on without an error.     *)

LEMMA InputKept ==
  ASSUME TypeInv, TypeInv', [Next]_vars
  PROVE  /\ ReadsOn(input', input)
         /\ input \in Seq(TokType) /\ input' \in Seq(TokType)
<1>1. \A undef : Scan(undef) => \E c : input' = Append(input, c)
  BY DEF Scan
<1>2. input' = input \/ \E c : input' = Append(input, c)
  BY <1>1 DEF Next, Step, vars, Ended, At, Consume, NoScan,
     EnterLeaf, EnterPrefix, EnterParen, NoPrefix, ScanThenFail, Infix, LoopEnds,
     LoopPastTable, BinOp, NextArg, StoreArg, OptionalComma, CloseCall,
     CallDies, CloseParen, IfOpen, IfCond, IfThenOpen, IfThen, IfElse,
     IfElseOpen, IfElseAgain, IfElseFails, IfElseClose, DefOpen, NextParam,
     NotAParam, ParamsEnd, DefBody, DefClose, NextStmt, EndStmt, Program,
     Parse, ConsumeDies, Killed
<1>3. input \in Seq(TokType) /\ input' \in Seq(TokType)
  BY DEF TypeInv, TokInv
<1> QED
  BY <1>2, <1>3 DEF ReadsOn

(* The lookahead is the last token. *)
LEMMA Lookahead ==
  ASSUME TypeInv, Len(input) >= 1
  PROVE  TokIn(input, Len(input)) = tok
<1>1. input \in Seq(TokType) /\ input # <<>>
  BY DEF TypeInv, TokInv
<1>2. Len(input) \in 1..Len(input) /\ tok = input[Len(input)]
  BY <1>1 DEF TypeInv, TokInv
<1> QED
  BY <1>2 DEF TokIn

LEMMA AllComplete ==
  ASSUME TypeInv, Complete, err = "unset"
  PROVE  /\ \A i \in 1..Len(stack) : FrameComplete(stack[i])
         /\ FrameComplete(Top) /\ (Top.pc \in Returned => ret # NULL)
         /\ \A n \in 1..Len(nodes) : NodeComplete(nodes[n])
<1>1. Len(stack) \in 1..Len(stack) /\ Top = stack[Len(stack)]
  BY TopFacts
<1> QED
  BY <1>1 DEF Complete

LEMMA FramesMove ==
  ASSUME TypeInv, TypeInv', Complete, Sourced, err = "unset",
         status # "died", [Next]_vars,
         NEW m \in Nat, KeepsUpTo(nodes', nodes, m),
         \A i \in 1..(Len(stack) - 1) : stack[i] \in FrameOf(m),
         NEW fs \in Seq(FrameOf(Len(nodes))), Replaced(fs),
         \A j \in 1..Len(fs) : Own(nodes', input', fs[j]),
         Len(fs) >= 1 => fs[1].first = Top.first,
         \A j \in 1..(Len(fs) - 1) : Starts(nodes', input', fs[j], fs[j + 1].first)
  PROVE  FramesOwn' /\ Chained'
<1> DEFINE d == Len(stack)
<1>k. d \in Nat /\ d >= 1 /\ Len(fs) \in Nat /\ Len(stack') = d - 1 + Len(fs)
      /\ Top = stack[d]
  BY StackSeq DEF Replaced
<1>b. /\ \A i \in 1..(d - 1) : stack'[i] = stack[i]
      /\ \A j \in 1..Len(fs) : stack'[d - 1 + j] = fs[j]
  BY DEF Replaced
<1>i. ReadsOn(input', input) /\ input \in Seq(TokType) /\ input' \in Seq(TokType)
  BY InputKept
<1>c. ASSUME NEW i \in 1..(d - 1)
      PROVE  /\ stack[i] \in FrameOf(m) /\ FrameComplete(stack[i])
             /\ Own(nodes, input, stack[i])
             /\ Starts(nodes, input, stack[i], stack[i + 1].first)
  <2>1. i \in 1..Len(stack)
    BY <1>k
  <2> QED
    BY <2>1, AllComplete DEF Sourced, FramesOwn, Chained
<1>o. ASSUME NEW i \in 1..(d - 1) PROVE Own(nodes', input', stack[i])
  BY <1>c, <1>i, OwnKept
<1>s. ASSUME NEW i \in 1..(d - 1)
      PROVE  Starts(nodes', input', stack[i], stack[i + 1].first)
  BY <1>c, <1>i, StartsKept
<1> HIDE DEF d
<1>1. ASSUME NEW i \in 1..Len(stack') PROVE Own(nodes', input', stack'[i])
  <2>1. CASE i \in 1..(d - 1)
    BY <2>1, <1>b, <1>o
  <2>2. CASE i \notin 1..(d - 1)
    <3> DEFINE j == i - (d - 1)
    <3>1. j \in 1..Len(fs) /\ i = d - 1 + j
      BY <1>k, <2>2
    <3> HIDE DEF j
    <3>2. stack'[i] = fs[j]
      BY <1>b, <3>1
    <3> QED
      BY <3>1, <3>2
  <2> QED
    BY <2>1, <2>2
<1>2. ASSUME NEW i \in 1..(Len(stack') - 1)
      PROVE  Starts(nodes', input', stack'[i], stack'[i + 1].first)
  <2>1. CASE i < d - 1
    <3>1. i \in 1..(d - 1) /\ i + 1 \in 1..(d - 1)
      BY <1>k, <2>1
    <3> QED
      BY <1>b, <1>s, <3>1
  <2>2. CASE i = d - 1
    <3>6. Len(fs) >= 1
      BY <1>k, <2>2
    <3>7. i \in 1..(d - 1) /\ 1 \in 1..Len(fs)
      BY <1>k, <2>2, <3>6
    <3>1. /\ Len(fs) >= 1 /\ i \in 1..(d - 1) /\ 1 \in 1..Len(fs)
          /\ d - 1 + 1 = i + 1 /\ i + 1 = d
      BY <1>k, <2>2, <3>6, <3>7
    <3>5. \A j \in 1..Len(fs) : stack'[i + j] = fs[j]
      BY <1>b, <2>2
    <3>4. stack'[i + 1] = fs[1] /\ stack'[i] = stack[i]
      BY <1>b, <3>1, <3>5
    <3>2. stack'[i] = stack[i] /\ stack'[i + 1] = fs[1] /\ stack[i + 1] = Top
      BY <1>k, <3>1, <3>4
    <3>3. Starts(nodes', input', stack[i], Top.first)
      BY <1>s, <3>1, <3>2
    <3> QED
      BY <3>1, <3>2, <3>3
  <2>3. CASE i > d - 1
    <3> DEFINE j == i - (d - 1)
    <3>1. j \in 1..(Len(fs) - 1) /\ i = d - 1 + j /\ i + 1 = d - 1 + (j + 1)
          /\ j \in 1..Len(fs) /\ j + 1 \in 1..Len(fs)
      BY <1>k, <2>3
    <3> HIDE DEF j
    <3>2. stack'[i] = fs[j] /\ stack'[i + 1] = fs[j + 1]
      BY <1>b, <3>1
    <3> QED
      BY <3>1, <3>2
  <2> QED
    BY <1>k, <2>1, <2>2, <2>3
<1> QED
  BY <1>1, <1>2 DEF FramesOwn, Chained

(* No frame is in the way of the second call of block(). *)
LEMMA AgainMove ==
  ASSUME TypeInv, Sourced, err = "unset", status # "died",
         Top.pc # "stmts" \/ tok \notin {"EOS", "RCURL"},
         NEW fs \in Seq(FrameOf(Len(nodes))), Replaced(fs),
         \A j \in 1..Len(fs) : fs[j].pc # "else_again"
  PROVE  AgainEmpty'
<1>1. ASSUME NEW i \in 1..Len(stack') PROVE stack'[i].pc # "else_again"
  <2>1. CASE i \in 1..(Len(stack) - 1) /\ stack'[i] = stack[i]
    <3>1. i \in 1..Len(stack)
      BY <2>1, StackSeq
    <3>2. ASSUME stack[i].pc = "else_again" PROVE FALSE
      <4>1. i >= Len(stack) - 1 /\ (i = Len(stack) - 1 => Top.pc = "stmts")
            /\ tok \in {"EOS", "RCURL"}
        BY <3>1, <3>2 DEF Sourced, AgainEmpty
      <4>2. i = Len(stack) - 1
        BY <2>1, <4>1, StackSeq
      <4> QED
        BY <4>1, <4>2
    <3> QED
      BY <2>1, <3>2
  <2>2. CASE \E j \in 1..Len(fs) : stack'[i] = fs[j]
    BY <2>2
  <2>3. \/ i \in 1..(Len(stack) - 1) /\ stack'[i] = stack[i]
        \/ \E j \in 1..Len(fs) : i = Len(stack) - 1 + j /\ stack'[i] = fs[j]
    BY ReplacedFrames
  <2> QED
    BY <2>1, <2>2, <2>3
<1> QED
  BY <1>1 DEF AgainEmpty

LEMMA CoverMove ==
  ASSUME TypeInv, TypeInv', Complete, Sourced, err = "unset",
         status # "died", [Next]_vars,
         NEW m \in 0..Len(nodes), KeepsUpTo(nodes', nodes, m), NEW n \in 1..m
  PROVE  nodes'[n] \in NodeOf(n - 1) /\ Covers(nodes', input', nodes'[n], n - 1)
<1>0. Len(nodes) \in Nat /\ nodes'[n] = nodes[n]
  BY TopFacts DEF KeepsUpTo
<1>1. Len(nodes) \in Nat /\ n \in 1..Len(nodes) /\ nodes'[n] = nodes[n]
      /\ n - 1 \in Nat
  BY <1>0
<1>2. nodes[n] \in NodeOf(n - 1) /\ Covers(nodes, input, nodes[n], n - 1)
      /\ NodeComplete(nodes[n])
  BY <1>1, AllComplete DEF Sourced, Fresh, NodesCover
<1>3. KeepsUpTo(nodes', nodes, n - 1)
  BY <1>1 DEF KeepsUpTo
<1>4. ReadsOn(input', input) /\ input \in Seq(TokType) /\ input' \in Seq(TokType)
  BY InputKept
<1> DEFINE x == nodes[n]
           from == x.first + x.paren
           to == x.last - x.paren
<1>5. Parens(input, x) /\ Shape(nodes, input, x, n - 1, from, to)
  BY <1>2 DEF Covers
<1> HIDE DEF x, from, to
<1>6. x \in NodeOf(n - 1) /\ NodeComplete(x)
  BY <1>2 DEF x
<1>7. Parens(input', x) /\ Shape(nodes', input', x, n - 1, from, to)
  BY <1>1, <1>3, <1>4, <1>5, <1>6, CoversKept
<1> QED
  BY <1>1, <1>2, <1>7 DEF Covers, x, from, to

(* The step leaves the AST alone and f, at a place where no call returns,  *)
(* is the top frame after it.                                              *)
LEMMA Proceeding ==
  ASSUME TypeInv, TypeInv', Complete, Sourced, err = "unset",
         status # "died", [Next]_vars,
         UNCHANGED nodes, Top.pc # "stmts" \/ tok \notin {"EOS", "RCURL"},
         NEW fs \in Seq(FrameOf(Len(nodes))), Replaced(fs), Len(fs) >= 1,
         \A j \in 1..Len(fs) : Own(nodes, input', fs[j]) /\ fs[j].pc # "else_again",
         fs[1].first = Top.first,
         \A j \in 1..(Len(fs) - 1) : Starts(nodes, input', fs[j], fs[j + 1].first),
         NEW f, f = Top', f.pc \notin Returned, Reaches(nodes, input', f, Len(input'))
  PROVE  Sourced'
<1>1. Len(nodes) \in Nat /\ KeepsUpTo(nodes', nodes, Len(nodes))
  BY TopFacts DEF KeepsUpTo
<1>2. \A i \in 1..(Len(stack) - 1) : stack[i] \in FrameOf(Len(nodes))
  BY StackSeq
<1>3. FramesOwn' /\ Chained'
  BY <1>1, <1>2, FramesMove
<1>4. AgainEmpty'
  BY AgainMove
<1>5. Fresh'
  BY DEF Sourced, Fresh
<1>6. NodesCover'
  <2>1. Len(nodes) \in 0..Len(nodes)
    BY <1>1
  <2>2. \A n \in 1..Len(nodes) : Covers(nodes', input', nodes'[n], n - 1)
    BY <1>1, <2>1, CoverMove
  <2> QED
    BY <2>2 DEF NodesCover
<1>7. Answered' /\ Reached'
  BY DEF Answered, Reached
<1> QED
  BY <1>3, <1>4, <1>5, <1>6, <1>7 DEF Sourced

LEMMA ProceedMoves ==
  ASSUME TypeInv, TypeInv', Complete, Sourced, err = "unset",
         status # "died", [Next]_vars,
         UNCHANGED nodes, Top.pc # "stmts" \/ tok \notin {"EOS", "RCURL"},
         NEW f \in FrameOf(Len(nodes)), f.first = Top.first, f.pc # "else_again",
         Own(nodes, input', f),
         NEW g \in FrameOf(Len(nodes)), g.pc # "else_again",
         NEW h \in FrameOf(Len(nodes))
  PROVE  /\ /\ Replaced(<<f>>) /\ f.pc \notin Returned
            /\ Reaches(nodes, input', f, Len(input'))
            => Sourced'
         /\ /\ Replaced(<<f, g>>) /\ Own(nodes, input', g) /\ g.pc \notin Returned
            /\ Starts(nodes, input', f, g.first)
            /\ Reaches(nodes, input', g, Len(input'))
            => Sourced'
         /\ /\ Replaced(<<f, g, h>>) /\ Own(nodes, input', g) /\ h.pc = "expr"
            /\ Starts(nodes, input', f, g.first) /\ Starts(nodes, input', g, h.first)
            /\ Reaches(nodes, input', h, Len(input'))
            => Sourced'
<1> DEFINE S == FrameOf(Len(nodes))
<1>1. ASSUME Replaced(<<f>>), f.pc \notin Returned,
             Reaches(nodes, input', f, Len(input'))
      PROVE  Sourced'
  <2>1. <<f>> \in Seq(S) /\ 1..(Len(<<f>>) - 1) = {} /\ <<f>>[1] = f
        /\ Len(<<f>>) >= 1
    OBVIOUS
  <2>2. /\ \A j \in 1..Len(<<f>>) :
             Own(nodes, input', <<f>>[j]) /\ <<f>>[j].pc # "else_again"
        /\ \A j \in 1..(Len(<<f>>) - 1) :
             Starts(nodes, input', <<f>>[j], <<f>>[j + 1].first)
    BY <2>1
  <2>3. f = Top'
    BY <1>1, TopAfter
  <2> QED
    BY <1>1, <2>1, <2>2, <2>3, Proceeding
<1>2. ASSUME Replaced(<<f, g>>), Own(nodes, input', g), g.pc \notin Returned,
             Starts(nodes, input', f, g.first),
             Reaches(nodes, input', g, Len(input'))
      PROVE  Sourced'
  <2>1. <<f, g>> \in Seq(S) /\ Len(<<f, g>>) = 2 /\ <<f, g>>[1] = f
        /\ <<f, g>>[2] = g /\ Len(<<f, g>>) >= 1
    OBVIOUS
  <2>2. /\ \A j \in 1..Len(<<f, g>>) :
             Own(nodes, input', <<f, g>>[j]) /\ <<f, g>>[j].pc # "else_again"
        /\ \A j \in 1..(Len(<<f, g>>) - 1) :
             Starts(nodes, input', <<f, g>>[j], <<f, g>>[j + 1].first)
    BY <1>2, <2>1
  <2>3. g = Top'
    BY <1>2, TopAfter
  <2> QED
    BY <1>2, <2>1, <2>2, <2>3, Proceeding
<1>3. ASSUME Replaced(<<f, g, h>>), Own(nodes, input', g), h.pc = "expr",
             Starts(nodes, input', f, g.first), Starts(nodes, input', g, h.first),
             Reaches(nodes, input', h, Len(input'))
      PROVE  Sourced'
  <2>1. <<f, g, h>> \in Seq(S) /\ Len(<<f, g, h>>) = 3 /\ <<f, g, h>>[1] = f
        /\ <<f, g, h>>[2] = g /\ <<f, g, h>>[3] = h /\ Len(<<f, g, h>>) >= 1
    OBVIOUS
  <2>2. Own(nodes, input', h) /\ h.pc # "else_again" /\ h.pc \notin Returned
    BY <1>3 DEF Own, CallPc, IfPc, DefPc, NamedPc, ListPc, ThenPc, ElsePc, Returned
  <2>3. \A j \in 1..Len(<<f, g, h>>) :
          Own(nodes, input', <<f, g, h>>[j]) /\ <<f, g, h>>[j].pc # "else_again"
    <3> SUFFICES ASSUME NEW j \in {1, 2, 3}
                 PROVE  Own(nodes, input', <<f, g, h>>[j])
                        /\ <<f, g, h>>[j].pc # "else_again"
      BY <2>1
    <3> QED
      BY <1>3, <2>1, <2>2
  <2>4. \A j \in 1..(Len(<<f, g, h>>) - 1) :
          Starts(nodes, input', <<f, g, h>>[j], <<f, g, h>>[j + 1].first)
    <3> SUFFICES ASSUME NEW j \in {1, 2}
                 PROVE  Starts(nodes, input', <<f, g, h>>[j], <<f, g, h>>[j + 1].first)
      BY <2>1
    <3> QED
      BY <1>3, <2>1
  <2>5. h = Top'
    BY <1>3, TopAfter
  <2> QED
    BY <1>3, <2>1, <2>2, <2>3, <2>4, <2>5, Proceeding
<1> QED
  BY <1>1, <1>2, <1>3

(* The step answers a call: the last node begins where the caller waits    *)
(* for it.                                                                 *)
LEMMA Answering ==
  ASSUME TypeInv, TypeInv', Complete, Sourced, err = "unset",
         status # "died", [Next]_vars,
         NEW m \in 0..Len(nodes), KeepsUpTo(nodes', nodes, m),
         Len(nodes') = m + 1, ret' = m + 1,
         \A i \in 1..Len(stack') : stack'[i] \in FrameOf(m),
         FramesOwn', Chained', AgainEmpty',
         NEW x, x = nodes'[m + 1], x \in NodeOf(m), Covers(nodes', input', x, m),
         x.last = Len(input') - 1,
         Top'.pc \in Returned, Starts(nodes', input', Top', x.first),
         Top'.pc \in BlockCaller => tok' \in {"EOS", "RCURL"}
  PROVE  Sourced'
<1>1. m \in Nat
  BY TopFacts
<1>2. ASSUME NEW n \in 1..Len(nodes')
      PROVE  nodes'[n] \in NodeOf(n - 1) /\ Covers(nodes', input', nodes'[n], n - 1)
  <2>1. CASE n \in 1..m
    BY <2>1, CoverMove
  <2>2. CASE n = m + 1
    <3>1. n - 1 = m
      BY <1>1, <2>2
    <3> QED
      BY <2>2, <3>1
  <2> QED
    BY <1>1, <1>2, <2>1, <2>2
<1>3. Fresh' /\ NodesCover'
  BY <1>2 DEF Fresh, NodesCover
<1>4. Answered'
  <2>1. Len(nodes') - 1 = m
    BY <1>1
  <2> QED
    BY <2>1 DEF Answered
<1>5. Reached'
  BY DEF Reached, Reaches, Returned
<1> QED
  BY <1>3, <1>4, <1>5 DEF Sourced

(* The top frame returns the last node. *)
LEMMA Returning1 ==
  ASSUME TypeInv, TypeInv', Complete, CallGraph, Sourced, err = "unset",
         status # "died", [Next]_vars,
         Top.pc \notin Base, Replaced(<<>>),
         NEW m \in 0..Len(nodes), KeepsUpTo(nodes', nodes, m),
         Len(nodes') = m + 1, ret' = m + 1,
         \A i \in 1..(Len(stack) - 1) : stack[i] \in FrameOf(m),
         AgainEmpty',
         NEW x, x = nodes'[m + 1], x \in NodeOf(m), Covers(nodes', input', x, m),
         x.first = Top.first, x.last = Len(input') - 1,
         Top.pc \in BlockPc => tok' \in {"EOS", "RCURL"}
  PROVE  Sourced'
<1>1. /\ Calls(Top', Top) /\ Top' = stack[Len(stack) - 1]
      /\ Len(stack') = Len(stack) - 1
      /\ \A i \in 1..Len(stack') : stack'[i] = stack[i]
  BY ReturnsTo
<1>2. m \in Nat /\ Len(stack) - 1 \in 1..(Len(stack) - 1)
  BY TopFacts, StackSeq
<1>3. FramesOwn' /\ Chained'
  <2>1. <<>> \in Seq(FrameOf(Len(nodes))) /\ 1..Len(<<>>) = {}
        /\ ~(Len(<<>>) >= 1) /\ 1..(Len(<<>>) - 1) = {}
    BY EmptyKids
  <2>2. /\ \A j \in 1..Len(<<>>) : Own(nodes', input', <<>>[j])
        /\ \A j \in 1..(Len(<<>>) - 1) :
             Starts(nodes', input', <<>>[j], <<>>[j + 1].first)
    BY <2>1
  <2> QED
    BY <1>2, <2>1, <2>2, FramesMove
<1>4. \A i \in 1..Len(stack') : stack'[i] \in FrameOf(m)
  BY <1>1
<1>5. Starts(nodes', input', Top', x.first)
  <2>1. stack[Len(stack) - 1 + 1] = Top
    BY StackSeq
  <2>2. Starts(nodes, input, Top', Top.first)
    BY <1>1, <1>2, <2>1 DEF Sourced, Chained
  <2>3. Top' \in FrameOf(m) /\ FrameComplete(Top')
    <3>1. Len(stack) - 1 \in 1..Len(stack)
      BY <1>2, StackSeq
    <3> QED
      BY <1>1, <1>2, <3>1, AllComplete
  <2>4. ReadsOn(input', input) /\ input \in Seq(TokType) /\ input' \in Seq(TokType)
    BY InputKept
  <2> QED
    BY <1>2, <2>2, <2>3, <2>4, StartsKept
<1>6. Top'.pc \in Returned /\ (Top'.pc \in BlockCaller => Top.pc \in BlockPc)
  BY <1>1 DEF Calls, Returned, BlockCaller
<1> QED
  BY <1>3, <1>4, <1>5, <1>6, Answering

LEMMA NewNodeFields ==
  ASSUME NEW type, NEW op, NEW name, NEW kids, NEW params, NEW first, NEW last
  PROVE  LET x == NewNode(type, op, name, kids, params, first, last)
         IN /\ x.type = type /\ x.op = op /\ x.name = name /\ x.kids = kids
            /\ x.params = params
            /\ x.paren = 0 /\ x.first = first /\ x.last = last
  BY DEF NewNode

(* The top frame returns a new node. *)
LEMMA ReturningNode ==
  ASSUME TypeInv, TypeInv', Complete, CallGraph, Sourced, err = "unset",
         status # "died", [Next]_vars,
         Top.pc \notin Base,
         NEW type \in NodeType, NEW op \in TokType, NEW name \in Nat,
         NEW kids \in Seq(0..Len(nodes)), NEW params \in Seq(Nat), NEW last \in Nat,
         NEW x, x = NewNode(type, op, name, kids, params, Top.first, last),
         ReturnNode(x), last = Len(input') - 1,
         Shape(nodes', input', x, Len(nodes), Top.first, last), AgainEmpty',
         Top.pc \in BlockPc => tok' \in {"EOS", "RCURL"}
  PROVE  Sourced'
<1> DEFINE k == Len(nodes)
<1>1. k \in Nat /\ k \in 0..k /\ Top.first \in Nat
      /\ \A i \in 1..(Len(stack) - 1) : stack[i] \in FrameOf(k)
  BY TopFacts, StackSeq
<1>2. x \in NodeOf(k)
  BY <1>1, NewNodeType
<1>3. x.first = Top.first /\ x.last = last /\ x.paren = 0
  BY NewNodeFields
<1>4. /\ nodes' = Append(nodes, x) /\ ret' = k + 1 /\ Replaced(<<>>)
  BY ReturnReplaced DEF ReturnNode, Return
<1>5. Len(nodes') = k + 1 /\ nodes'[k + 1] = x
  BY <1>4, NewNodeIs
<1>6. KeepsUpTo(nodes', nodes, k)
  <2>1. nodes \in Seq(NodeOf(Len(nodes)))
    BY DEF TypeInv, HeapInv
  <2> QED
    BY <1>4, <2>1 DEF KeepsUpTo
<1>7. Covers(nodes', input', x, k)
  <2>1. Parens(input', x)
    BY <1>3 DEF Parens
  <2>2. x.first + x.paren = Top.first /\ x.last - x.paren = last
    BY <1>1, <1>3
  <2> QED
    BY <2>1, <2>2 DEF Covers
<1> HIDE DEF k
<1> QED
  BY <1>1, <1>2, <1>3, <1>4, <1>5, <1>6, <1>7, Returning1 DEF k

(* What is known of the top frame, when the new state is reached. *)
LEMMA TopKept ==
  ASSUME TypeInv, TypeInv', Complete, Sourced, err = "unset",
         status # "died", [Next]_vars,
         KeepsUpTo(nodes', nodes, Len(nodes))
  PROVE  /\ Own(nodes', input', Top)
         /\ Reaches(nodes', input', Top, Len(input))
         /\ Top.pc \in Returned =>
              /\ Starts(nodes', input', Top, nodes'[ret].first)
              /\ nodes'[ret].last = Len(input) - 1 /\ nodes'[ret] = nodes[ret]
              /\ ret # NULL
         /\ Len(input) >= 1 /\ tok # "ERR" => TokIn(input', Len(input)) = tok
<1>1. ReadsOn(input', input) /\ input \in Seq(TokType) /\ input' \in Seq(TokType)
  BY InputKept
<1>2. Top \in FrameOf(Len(nodes)) /\ FrameComplete(Top) /\ Len(nodes) \in Nat
      /\ Len(stack) \in 1..Len(stack) /\ Top = stack[Len(stack)]
  BY TopFacts, AllComplete
<1>3. Own(nodes, input, Top) /\ Reaches(nodes, input, Top, Len(input))
  BY <1>2 DEF Sourced, FramesOwn, Reached
<1>4. Own(nodes', input', Top)
  BY <1>1, <1>2, <1>3, OwnKept
<1>5. Reaches(nodes', input', Top, Len(input))
  BY <1>1, <1>2, <1>3, ReachesKept
<1>6. ASSUME Top.pc \in Returned
      PROVE  /\ Starts(nodes', input', Top, nodes'[ret].first)
             /\ nodes'[ret].last = Len(input) - 1 /\ nodes'[ret] = nodes[ret]
             /\ ret # NULL
  <2>1. /\ Starts(nodes, input, Top, nodes[ret].first)
        /\ nodes[ret].last = Len(input) - 1 /\ ret # NULL
    BY <1>6, AllComplete DEF Sourced, Answered
  <2>2. Starts(nodes', input', Top, nodes[ret].first)
    BY <1>1, <1>2, <2>1, StartsKept
  <2>3. ret \in 1..Len(nodes)
    BY <2>1, TopFacts DEF NULL
  <2>4. nodes'[ret] = nodes[ret]
    BY <2>3 DEF KeepsUpTo
  <2> QED
    BY <2>1, <2>2, <2>4
<1>7. Len(input) >= 1 /\ tok # "ERR" => TokIn(input', Len(input)) = tok
  BY <1>1, Lookahead, TokKept
<1> QED
  BY <1>4, <1>5, <1>6, <1>7

LEMMA KeepsAppend ==
  ASSUME TypeInv, NEW x, nodes' = Append(nodes, x)
  PROVE  KeepsUpTo(nodes', nodes, Len(nodes))
<1>1. nodes \in Seq(NodeOf(Len(nodes)))
  BY DEF TypeInv, HeapInv
<1> QED
  BY <1>1 DEF KeepsUpTo

LEMMA AgainReturns ==
  ASSUME TypeInv, Sourced, err = "unset", status # "died", Replaced(<<>>),
         Top.pc # "stmts" \/ tok \notin {"EOS", "RCURL"}
  PROVE  AgainEmpty'
<1>1. <<>> \in Seq(FrameOf(Len(nodes))) /\ 1..Len(<<>>) = {}
  BY EmptyKids
<1>2. \A j \in 1..Len(<<>>) : <<>>[j].pc # "else_again"
  BY <1>1
<1> QED
  BY <1>1, <1>2, AgainMove

LEMMA ScanLen == ASSUME TypeInv, NEW undef, Scan(undef)
                 PROVE  Len(input') = Len(input) + 1
  BY DEF Scan, TypeInv, TokInv

-----------------------------------------------------------------------------
(* The actions that return a node.                                         *)

LEMMA BinOpSourced ==
  ASSUME TypeInv, TypeInv', Complete, CallGraph, Started, Sourced, err = "unset",
         status # "died", err' = "unset", [Next]_vars, BinOp
  PROVE  Sourced'
<1>1. Top.pc = "right" /\ Top.pc \notin Base /\ Top.pc \notin BlockPc
      /\ UNCHANGED <<tok, input>>
  BY DEF BinOp, At, NoScan, Base, BlockPc
<1>2. ret # NULL /\ ReturnNode(BinNode(Top.left, ret))
  BY DEF BinOp, Fail, ErrMsg
<1> DEFINE x == NewNode("BIN", Top.op, 0, <<Top.left, ret>>, <<>>, Top.first,
                        Len(input) - 1)
<1>3. ReturnNode(x)
  BY <1>2 DEF BinNode, Bin
<1>4. /\ x.type = "BIN" /\ x.op = Top.op /\ x.kids = <<Top.left, ret>>
  BY DEF NewNode
<1>5. /\ Top.op \in TokType /\ 0 \in Nat /\ <<>> \in Seq(Nat)
      /\ Len(input) - 1 \in Nat /\ "BIN" \in NodeType
      /\ Top.left \in 0..Len(nodes) /\ ret \in 0..Len(nodes)
  BY <1>1, TopFacts DEF NodeType, Started
<1>6. <<Top.left, ret>> \in Seq(0..Len(nodes))
  BY <1>5
<1>7. KeepsUpTo(nodes', nodes, Len(nodes))
  BY <1>3, KeepsAppend DEF ReturnNode
<1>8. /\ Own(nodes', input', Top)
      /\ Starts(nodes', input', Top, nodes'[ret].first)
      /\ nodes'[ret].last = Len(input) - 1
  BY <1>1, <1>7, TopKept DEF Returned
<1>9. AgainEmpty'
  BY <1>1, <1>3, ReturnReplaced, AgainReturns DEF ReturnNode
<1> HIDE DEF x
<1>10. Shape(nodes', input', x, Len(nodes), Top.first, Len(input) - 1)
  <2>1. /\ x.kids[1] = Top.left /\ x.kids[2] = ret /\ Len(x.kids) = 2
    BY <1>4
  <2>2. /\ nodes'[Top.left].first = Top.first
        /\ Top.op \in BinOps /\ TokIn(input', nodes'[Top.left].last + 1) = Top.op
        /\ nodes'[ret].first = nodes'[Top.left].last + 2
    BY <1>1, <1>8 DEF Own, Starts
  <2> QED
    BY <1>4, <1>8, <2>1, <2>2 DEF Shape
<1> QED
  BY <1>1, <1>3, <1>5, <1>6, <1>9, <1>10, ReturningNode DEF x

LEMMA CloseCallSourced ==
  ASSUME TypeInv, TypeInv', Complete, CallGraph, Started, Sourced, err = "unset",
         status # "died", err' = "unset", [Next]_vars, CloseCall
  PROVE  Sourced'
<1>1. Top.pc = "args" /\ Top.pc \notin Base /\ Top.pc \notin BlockPc /\ tok = "RPAREN"
  BY DEF CloseCall, At, Base, BlockPc
<1>2. Len(input') = Len(input) + 1
  BY ScanLen DEF CloseCall
<1> DEFINE name == IF HasName(Top.left) THEN nodes[Top.left].name ELSE 0
           x == NewNode("CALL", "EOS", name, Top.kids, <<>>, Top.first, Len(input))
<1>3. ReturnNode(x)
  BY DEF CloseCall
<1>4. x.type = "CALL" /\ x.name = name /\ x.kids = Top.kids
  BY DEF NewNode
<1>11. Top.left \in 1..Len(nodes)
  BY TopFacts DEF CloseCall, NULL
<1>5. /\ "EOS" \in TokType /\ name \in Nat /\ <<>> \in Seq(Nat)
      /\ Top.kids \in Seq(0..Len(nodes)) /\ Len(input) \in Nat
      /\ "CALL" \in NodeType /\ Len(input) >= 1 /\ Len(input) = Len(input') - 1
  <2>1. name \in Nat
    BY <1>11, NodeFields
  <2> HIDE DEF name
  <2> QED
    BY <1>1, <1>2, <2>1, TopFacts DEF NodeType, Started, TokType
<1>6. name = NameOf(nodes[Top.left])
  BY DEF NameOf, HasName
<1> HIDE DEF name
<1>7. KeepsUpTo(nodes', nodes, Len(nodes))
  BY <1>3, KeepsAppend DEF ReturnNode
<1>8. /\ Own(nodes', input', Top)
      /\ Reaches(nodes', input', Top, Len(input))
      /\ TokIn(input', Len(input)) = "RPAREN"
  BY <1>1, <1>5, <1>7, TopKept
<1>9. AgainEmpty'
  BY <1>1, <1>3, ReturnReplaced, AgainReturns DEF ReturnNode
<1> HIDE DEF x
<1>10. Shape(nodes', input', x, Len(nodes), Top.first, Len(input))
  <2> DEFINE c == Top.left
  <2>1. c \in 1..Len(nodes) /\ nodes'[c] = nodes[c]
    BY <1>7, <1>11 DEF KeepsUpTo
  <2>2. /\ nodes'[c].first = Top.first /\ Top.first <= nodes'[c].last
        /\ TokIn(input', nodes'[c].last + 1) = "LPAREN"
    BY <1>1, <1>8 DEF Own, CallPc
  <2>3. TiledIn(nodes', input', x.kids, nodes'[c].last + 2, Len(input), "COMMA", TRUE)
    BY <1>1, <1>4, <1>8 DEF Reaches, ArgsTo
  <2>4. x.name = NameOf(nodes'[c])
    BY <1>4, <1>6, <2>1
  <2> HIDE DEF c
  <2> QED
    BY <1>4, <1>8, <2>1, <2>2, <2>3, <2>4 DEF Shape
<1> QED
  BY <1>1, <1>3, <1>5, <1>9, <1>10, ReturningNode DEF x

LEMMA DefCloseSourced ==
  ASSUME TypeInv, TypeInv', Complete, CallGraph, Started, Sourced, err = "unset",
         status # "died", err' = "unset", [Next]_vars, DefClose
  PROVE  Sourced'
<1>1. Top.pc = "body" /\ Top.pc \notin Base /\ Top.pc \notin BlockPc
  BY DEF DefClose, Consume, At, Base, BlockPc
<1>2. Len(input') = Len(input) + 1
  BY ScanLen DEF DefClose, Consume
<1> DEFINE x == NewNode("FUNCDEF", "EOS", Top.name, <<ret>>, Top.params,
                        Top.first, Len(input))
<1>3. ReturnNode(x)
  BY DEF DefClose
<1>4. /\ x.type = "FUNCDEF" /\ x.kids = <<ret>>
      /\ x.name = Top.name /\ x.params = Top.params
  BY DEF NewNode
<1>5. /\ "EOS" \in TokType /\ Top.name \in Nat /\ Top.params \in Seq(Nat)
      /\ <<ret>> \in Seq(0..Len(nodes)) /\ Len(input) \in Nat
      /\ "FUNCDEF" \in NodeType /\ Len(input) = Len(input') - 1
  BY <1>2, TopFacts DEF NodeType, TokType
<1>7. KeepsUpTo(nodes', nodes, Len(nodes))
  BY <1>3, KeepsAppend DEF ReturnNode
<1>8. /\ Starts(nodes', input', Top, nodes'[ret].first)
      /\ nodes'[ret].last = Len(input) - 1
  BY <1>1, <1>7, TopKept DEF Returned
<1>9. AgainEmpty'
  BY <1>1, <1>3, ReturnReplaced, AgainReturns DEF ReturnNode
<1> HIDE DEF x
<1>10. Shape(nodes', input', x, Len(nodes), Top.first, Len(input))
  <2>1. Len(x.kids) = 1 /\ x.kids[1] = ret
    BY <1>4
  <2>2. /\ Heads(input', Top.first, Top.name, Top.params, nodes'[ret].first - 2)
        /\ Len(input) = nodes'[ret].last + 1
    BY <1>1, <1>5, <1>8 DEF Starts
  <2> QED
    BY <1>4, <2>1, <2>2 DEF Shape
<1> QED
  BY <1>1, <1>3, <1>5, <1>9, <1>10, ReturningNode DEF x

(* if_prefix() returns, without or with an else block. *)
LEMMA IfElseSourced ==
  ASSUME TypeInv, TypeInv', Complete, CallGraph, Started, Sourced, err = "unset",
         status # "died", err' = "unset", [Next]_vars, IfElse, tok # "ELSE"
  PROVE  Sourced'
<1>1. Top.pc = "else?" /\ Top.pc \notin Base /\ Top.pc \notin BlockPc
      /\ UNCHANGED <<tok, input>>
  BY DEF IfElse, At, Base, BlockPc, NoScan
<1> DEFINE kids == Append(Top.kids, NULL)
           x == NewNode("IF", "EOS", 0, kids, <<>>, Top.first, Len(input) - 1)
<1>3. ReturnNode(x)
  BY DEF IfElse, IfNode, If
<1>4. x.type = "IF" /\ x.kids = kids
  BY DEF NewNode
<1>5. /\ "EOS" \in TokType /\ NULL \in 0..Len(nodes) /\ 0 \in Nat /\ <<>> \in Seq(Nat)
      /\ Len(input) - 1 \in Nat /\ Top.kids \in Seq(0..Len(nodes))
      /\ "IF" \in NodeType
  BY <1>1, TopFacts DEF NodeType, TokType, NULL, Started
<1>6. kids \in Seq(0..Len(nodes)) /\ Len(kids) = 3 /\ kids[3] = NULL
      /\ kids[1] = Top.kids[1] /\ kids[2] = Top.kids[2]
  <2>1. Len(Top.kids) = 2
    BY <1>1, AllComplete DEF FrameComplete
  <2>2. 1 \in 1..Len(Top.kids) /\ 2 \in 1..Len(Top.kids) /\ Len(Top.kids) + 1 = 3
    BY <2>1
  <2> QED
    BY <1>5, <2>2, OneMore
<1>7. KeepsUpTo(nodes', nodes, Len(nodes))
  BY <1>3, KeepsAppend DEF ReturnNode
<1>8. Own(nodes', input', Top) /\ Reaches(nodes', input', Top, Len(input))
  BY <1>1, <1>7, TopKept
<1>9. AgainEmpty'
  BY <1>1, <1>3, ReturnReplaced, AgainReturns DEF ReturnNode
<1>11. nodes'[Top.kids[2]].last \in Nat
  <2>1. Top.kids[2] \in 1..Len(nodes)
    <3>1. FrameComplete(Top) /\ 2 \in 1..Len(Top.kids)
      BY <1>1, AllComplete DEF FrameComplete
    <3>2. Top.kids[2] # NULL /\ Top.kids[2] \in 0..Len(nodes)
      BY <1>5, <3>1 DEF FrameComplete
    <3> QED
      BY <3>2 DEF NULL
  <2>2. nodes'[Top.kids[2]] = nodes[Top.kids[2]]
    BY <1>7, <2>1 DEF KeepsUpTo
  <2> QED
    BY <2>1, <2>2, NodeFields
<1> HIDE DEF x, kids
<1>10. Shape(nodes', input', x, Len(nodes), Top.first, Len(input) - 1)
  <2>1. /\ TokIn(input', Top.first) = "IF"
        /\ nodes'[Top.kids[1]].first = Top.first + 2
        /\ nodes'[Top.kids[2]].first = nodes'[Top.kids[1]].last + 3
        /\ Len(input) = nodes'[Top.kids[2]].last + 2
    BY <1>1, <1>8 DEF Own, IfPc, ThenPc, ElsePc, Reaches
  <2>2. Len(input) - 1 = nodes'[Top.kids[2]].last + 1
    BY <1>11, <2>1
  <2> QED
    BY <1>4, <1>6, <2>1, <2>2 DEF Shape
<1> QED
  BY <1>1, <1>3, <1>5, <1>6, <1>9, <1>10, ReturningNode DEF x

LEMMA ThirdKid ==
  ASSUME NEW T, NEW kids \in Seq(T), NEW kid \in T
  PROVE  LET more == Append(kids, kid)
         IN Len(kids) = 2 =>
              /\ more \in Seq(T) /\ Len(more) = 3 /\ more[3] = kid
              /\ more[1] = kids[1] /\ more[2] = kids[2]
<1> DEFINE more == Append(kids, kid)
<1>1. /\ more \in Seq(T) /\ Len(more) = Len(kids) + 1
      /\ more[Len(kids) + 1] = kid
      /\ \A i \in 1..Len(kids) : more[i] = kids[i]
  BY OneMore
<1> HIDE DEF more
<1>2. Len(kids) = 2 => /\ more \in Seq(T) /\ Len(more) = 3 /\ more[3] = kid
                       /\ more[1] = kids[1] /\ more[2] = kids[2]
  BY <1>1
<1> QED
  BY <1>2 DEF more

LEMMA IfElseCloseSourced ==
  ASSUME TypeInv, TypeInv', Complete, CallGraph, Started, Sourced, err = "unset",
         status # "died", err' = "unset", [Next]_vars, IfElseClose
  PROVE  Sourced'
<1>1. Top.pc = "else_again" /\ Top.pc \notin Base /\ Top.pc \notin BlockPc
  BY DEF IfElseClose, Consume, At, Base, BlockPc
<1>2. Len(input') = Len(input) + 1
  BY ScanLen DEF IfElseClose, Consume
<1> DEFINE kids == Append(Top.kids, Top.left)
           x == NewNode("IF", "EOS", 0, kids, <<>>, Top.first, Len(input))
<1>3. ReturnNode(x)
  BY DEF IfElseClose, IfNode, If
<1>4. x.type = "IF" /\ x.kids = kids
  BY DEF NewNode
<1>5. /\ "EOS" \in TokType /\ NULL \in 0..Len(nodes) /\ 0 \in Nat /\ <<>> \in Seq(Nat)
      /\ Len(input) \in Nat /\ Top.kids \in Seq(0..Len(nodes))
      /\ "IF" \in NodeType /\ Top.left \in 0..Len(nodes)
      /\ Len(input) = Len(input') - 1
  BY <1>2, TopFacts DEF NodeType, TokType, NULL
<1>6. kids \in Seq(0..Len(nodes)) /\ Len(kids) = 3 /\ kids[3] = Top.left
      /\ kids[1] = Top.kids[1] /\ kids[2] = Top.kids[2] /\ Top.left # NULL
  <2>1. Len(Top.kids) = 2 /\ Top.left # NULL
    BY <1>1, AllComplete DEF FrameComplete
  <2> DEFINE T == 0..Len(nodes)
  <2>2. Top.kids \in Seq(T) /\ Top.left \in T
    BY <1>5
  <2> HIDE DEF T
  <2>3. /\ kids \in Seq(T) /\ Len(kids) = 3 /\ kids[3] = Top.left
        /\ kids[1] = Top.kids[1] /\ kids[2] = Top.kids[2]
    BY <2>1, <2>2, ThirdKid
  <2> QED
    BY <2>1, <2>3 DEF T
<1>7. KeepsUpTo(nodes', nodes, Len(nodes))
  BY <1>3, KeepsAppend DEF ReturnNode
<1>8. Own(nodes', input', Top)
  BY <1>1, <1>7, TopKept
<1>9. AgainEmpty'
  BY <1>1, <1>3, ReturnReplaced, AgainReturns DEF ReturnNode
<1>11. Len(input) = nodes'[Top.left].last + 1
  <2>1. Len(stack) \in 1..Len(stack) /\ Top = stack[Len(stack)]
    BY TopFacts
  <2>2. nodes[Top.left].last = Len(input) - 1
    BY <1>1, <2>1 DEF Sourced, AgainEmpty
  <2>3. Top.left \in 1..Len(nodes)
    BY <1>5, <1>6 DEF NULL
  <2>4. nodes'[Top.left] = nodes[Top.left] /\ nodes[Top.left].last \in Nat
    BY <1>7, <2>3, NodeFields DEF KeepsUpTo
  <2> QED
    BY <1>5, <2>2, <2>4
<1> HIDE DEF x, kids
<1>10. Shape(nodes', input', x, Len(nodes), Top.first, Len(input))
  <2>1. /\ TokIn(input', Top.first) = "IF"
        /\ nodes'[Top.kids[1]].first = Top.first + 2
        /\ nodes'[Top.kids[2]].first = nodes'[Top.kids[1]].last + 3
        /\ nodes'[Top.left].first = nodes'[Top.kids[2]].last + 4
    BY <1>1, <1>8 DEF Own, IfPc, ThenPc, ElsePc
  <2> QED
    BY <1>4, <1>6, <1>11, <2>1 DEF Shape
<1> QED
  BY <1>1, <1>3, <1>5, <1>6, <1>9, <1>10, ReturningNode DEF x

(* What a call has just returned is the last node. *)
LEMMA LastReturned ==
  ASSUME TypeInv, Complete, Sourced, err = "unset", status # "died",
         Top.pc \in Returned
  PROVE  /\ ret = Len(nodes) /\ ret # NULL /\ Len(nodes) - 1 \in 0..Len(nodes)
         /\ ret \in 1..Len(nodes) /\ Len(nodes) - 1 + 1 = ret
         /\ \A i \in 1..Len(stack) : stack[i] \in FrameOf(Len(nodes) - 1)
         /\ nodes[ret] \in NodeOf(Len(nodes) - 1)
         /\ Covers(nodes, input, nodes[ret], Len(nodes) - 1) /\ NodeComplete(nodes[ret])
         /\ Starts(nodes, input, Top, nodes[ret].first)
         /\ nodes[ret].last = Len(input) - 1
<1>1. /\ ret = Len(nodes) /\ ret # NULL /\ Len(nodes) \in Nat
      /\ Starts(nodes, input, Top, nodes[ret].first)
      /\ nodes[ret].last = Len(input) - 1
      /\ \A i \in 1..Len(stack) : stack[i] \in FrameOf(Len(nodes) - 1)
  BY TopFacts, AllComplete DEF Sourced, Answered
<1>2. ret \in 1..Len(nodes) /\ Len(nodes) - 1 \in 0..Len(nodes)
      /\ Len(nodes) - 1 + 1 = ret /\ ret - 1 = Len(nodes) - 1
  BY <1>1 DEF NULL
<1>3. nodes[ret] \in NodeOf(ret - 1) /\ Covers(nodes, input, nodes[ret], ret - 1)
      /\ NodeComplete(nodes[ret])
  BY <1>2, AllComplete DEF Sourced, Fresh, NodesCover
<1> QED
  BY <1>1, <1>2, <1>3

LEMMA LoopEndsSourced ==
  ASSUME TypeInv, TypeInv', Complete, CallGraph, Started, Sourced, err = "unset",
         status # "died", err' = "unset", [Next]_vars, LoopEnds
  PROVE  Sourced'
<1>1. Top.pc = "loop" /\ Top.pc \notin Base /\ Top.pc \notin BlockPc
      /\ UNCHANGED <<tok, input, nodes>> /\ Return(ret) /\ Top.pc \in Returned
  BY DEF LoopEnds, At, Base, BlockPc, Returned
<1>2. Replaced(<<>>) /\ ret' = ret
  BY <1>1, ReturnReplaced DEF Return
<1> DEFINE m == Len(nodes) - 1
           x == nodes[ret]
<1>3. /\ m \in 0..Len(nodes) /\ m + 1 = ret /\ Len(nodes) = ret
      /\ \A i \in 1..Len(stack) : stack[i] \in FrameOf(m)
      /\ x \in NodeOf(m) /\ Covers(nodes, input, x, m)
      /\ Starts(nodes, input, Top, x.first) /\ x.last = Len(input) - 1
  BY <1>1, LastReturned
<1>4. x.first = Top.first
  BY <1>1, <1>3 DEF Starts
<1>5. AgainEmpty'
  BY <1>1, <1>2, AgainReturns
<1> HIDE DEF m, x
<1>6. KeepsUpTo(nodes', nodes, m)
  BY <1>1 DEF KeepsUpTo
<1>7. /\ Len(nodes') = m + 1 /\ ret' = m + 1 /\ x = nodes'[m + 1]
      /\ Covers(nodes', input', x, m) /\ x.last = Len(input') - 1
  BY <1>1, <1>2, <1>3 DEF x
<1>8. \A i \in 1..(Len(stack) - 1) : stack[i] \in FrameOf(m)
  BY <1>3, StackSeq
<1> QED
  BY <1>1, <1>2, <1>3, <1>4, <1>5, <1>6, <1>7, <1>8, Returning1

(* lparen_prefix() returns the node it got, now in one more pair of        *)
(* parentheses.                                                            *)
LEMMA OneMoreParen ==
  ASSUME NEW u, NEW x, NEW y, x.paren = y.paren + 1, y.paren \in Nat,
         y.first \in Nat, y.last \in Nat, x.first \in Nat, x.last \in Nat,
         y.first = x.first + 1, x.last = y.last + 1,
         TokIn(u, x.first) = "LPAREN", TokIn(u, x.last) = "RPAREN", Parens(u, y)
  PROVE  Parens(u, x)
<1> SUFFICES ASSUME NEW i \in 0..(x.paren - 1)
             PROVE  TokIn(u, x.first + i) = "LPAREN" /\ TokIn(u, x.last - i) = "RPAREN"
  BY DEF Parens
<1>1. CASE i = 0
  <2>1. x.first + i = x.first /\ x.last - i = x.last
    BY <1>1
  <2> QED
    BY <2>1
<1>2. CASE i # 0
  <2>1. i - 1 \in 0..(y.paren - 1) /\ x.first + i = y.first + (i - 1)
        /\ x.last - i = y.last - (i - 1)
    BY <1>2
  <2> DEFINE j == i - 1
  <2>2. TokIn(u, y.first + j) = "LPAREN" /\ TokIn(u, y.last - j) = "RPAREN"
    BY <2>1 DEF Parens
  <2> QED
    BY <2>1, <2>2
<1> QED
  BY <1>1, <1>2

LEMMA SameShape ==
  ASSUME NEW h, NEW u, NEW x, NEW y, NEW m, NEW from, NEW to,
         Shape(h, u, y, m, from, to), x.type = y.type, x.op = y.op,
         x.kids = y.kids, x.name = y.name, x.params = y.params
  PROVE  Shape(h, u, x, m, from, to)
  BY DEF Shape

LEMMA ParenShift == ASSUME NEW a \in Nat, NEW p \in Nat, NEW l \in Nat
                    PROVE  a + (p + 1) = (a + 1) + p /\ l - (p + 1) = (l - 1) - p
  OBVIOUS

LEMMA CloseParenSourced ==
  ASSUME TypeInv, TypeInv', Complete, CallGraph, Started, Sourced, err = "unset",
         status # "died", err' = "unset", [Next]_vars, CloseParen
  PROVE  Sourced'
<1>1. Top.pc = "paren" /\ Top.pc \notin Base /\ Top.pc \notin BlockPc
      /\ Return(ret) /\ Top.pc \in Returned /\ tok = "RPAREN"
  BY DEF CloseParen, Consume, At, Base, BlockPc, Returned, Expected, Waiting
<1>2. Replaced(<<>>) /\ ret' = ret
  BY <1>1, ReturnReplaced DEF Return
<1>3. Len(input') = Len(input) + 1 /\ Len(input) \in Nat /\ Len(input) >= 1
      /\ Top.first \in Nat
  BY <1>1, ScanLen, TopFacts DEF CloseParen, Consume, Started
<1> DEFINE m == Len(nodes) - 1
           y == nodes[ret]
           x == nodes'[ret]
<1>4. /\ m \in 0..Len(nodes) /\ m + 1 = ret /\ Len(nodes) = ret
      /\ ret \in 1..Len(nodes) /\ ret # NULL
      /\ \A i \in 1..Len(stack) : stack[i] \in FrameOf(m)
      /\ y \in NodeOf(m) /\ Covers(nodes, input, y, m) /\ NodeComplete(y)
      /\ Starts(nodes, input, Top, y.first) /\ y.last = Len(input) - 1
  BY <1>1, LastReturned
<1>5. y.first = Top.first + 1
  BY <1>1, <1>4 DEF Starts
<1>6. AgainEmpty'
  BY <1>1, <1>2, AgainReturns
<1>7. /\ Len(nodes') = Len(nodes)
      /\ \A n \in 1..Len(nodes) : n # ret => nodes'[n] = nodes[n]
      /\ x = [y EXCEPT !.paren = y.paren + 1, !.first = Top.first, !.last = Len(input)]
  <2>1. nodes' = [nodes EXCEPT ![ret].paren = @ + 1, ![ret].first = Top.first,
                               ![ret].last = Len(input)]
    BY <1>4 DEF CloseParen
  <2>2. nodes \in Seq(NodeOf(Len(nodes)))
    BY DEF TypeInv, HeapInv
  <2>3. y \in NodeOf(Len(nodes))
    BY <1>4, <2>2
  <2> HIDE DEF m
  <2> QED
    BY <1>4, <2>1, <2>2, <2>3 DEF NodeOf
<1> HIDE DEF m, x, y
<1>8. /\ x.type = y.type /\ x.op = y.op /\ x.kids = y.kids
      /\ x.name = y.name /\ x.params = y.params
      /\ x.paren = y.paren + 1 /\ x.first = Top.first /\ x.last = Len(input)
      /\ y.paren \in Nat /\ y.first \in Nat /\ y.last \in Nat /\ x \in NodeOf(m)
  <2>1. y \in NodeOf(m)
    BY <1>4
  <2>2. y.paren \in Nat /\ y.first \in Nat /\ y.last \in Nat /\ y.paren + 1 \in Nat
    BY <2>1 DEF NodeOf
  <2> DEFINE paren == y.paren + 1
  <2>3. x = [y EXCEPT !.paren = paren, !.first = Top.first, !.last = Len(input)]
        /\ paren \in Nat
    BY <1>7, <2>2
  <2> HIDE DEF paren
  <2>4. /\ x \in NodeOf(m)
        /\ x.type = y.type /\ x.op = y.op /\ x.kids = y.kids
        /\ x.name = y.name /\ x.params = y.params
        /\ x.paren = paren /\ x.first = Top.first /\ x.last = Len(input)
    <3>1. Len(input) \in Nat /\ Top.first \in Nat
      BY <1>3
    <3> QED
      BY <2>1, <2>3, <3>1 DEF NodeOf
  <2> QED
    BY <2>2, <2>4 DEF paren
<1>9. KeepsUpTo(nodes', nodes, m)
  <2>1. \A n \in 1..m : n \in 1..Len(nodes) /\ n # ret
    BY <1>4
  <2> QED
    BY <1>7, <2>1 DEF KeepsUpTo
<1>10. ReadsOn(input', input) /\ input \in Seq(TokType) /\ input' \in Seq(TokType)
  BY InputKept
<1>11. m \in Nat
  BY <1>4
<1> DEFINE from == y.first + y.paren
           to == y.last - y.paren
<1>12. Parens(input, y) /\ Shape(nodes, input, y, m, from, to)
  BY <1>4 DEF Covers
<1>13. x.first + x.paren = from /\ x.last - x.paren = to
  <2>1. y.last = Len(input) - 1
    BY <1>4
  <2>2. x.paren = y.paren + 1 /\ x.first = Top.first /\ x.last = Len(input)
        /\ y.paren \in Nat
    BY <1>8
  <2>3. /\ x.first + x.paren = Top.first + (y.paren + 1)
        /\ x.last - x.paren = Len(input) - (y.paren + 1)
    BY <2>2
  <2>4. /\ Top.first + (y.paren + 1) = (Top.first + 1) + y.paren
        /\ Len(input) - (y.paren + 1) = (Len(input) - 1) - y.paren
    BY <1>3, <2>2, ParenShift
  <2> QED
    BY <1>5, <2>1, <2>3, <2>4
<1> HIDE DEF from, to
<1>14. Parens(input', y) /\ Shape(nodes', input', y, m, from, to)
  BY <1>4, <1>9, <1>10, <1>11, <1>12, CoversKept
<1>15. Parens(input', x)
  <2>1. PICK f : f = Top
    OBVIOUS
  <2>5. Own(nodes, input, f)
    <3>1. FramesOwn
      BY Zenon DEF Sourced
    <3>2. Len(stack) \in 1..Len(stack) /\ f = stack[Len(stack)]
      BY <2>1, TopFacts
    <3> QED
      BY ONLY <3>1, <3>2, Zenon DEF FramesOwn
  <2>6. TokIn(input, f.first) = "LPAREN"
    <3>1. f.pc = "paren"
      BY <1>1, <2>1
    <3> QED
      BY ONLY <2>5, <3>1 DEF Own
  <2>2. TokIn(input', Top.first) = "LPAREN"
    BY <1>10, <2>1, <2>6, TokKept
  <2>3. TokIn(input', Len(input)) = "RPAREN"
    BY <1>1, <1>3, <1>10, Lookahead, TokKept
  <2>4. x.last = y.last + 1 /\ y.first = x.first + 1
    BY <1>3, <1>4, <1>5, <1>8
  <2> QED
    BY <1>3, <1>8, <1>14, <2>2, <2>3, <2>4, OneMoreParen
<1>16. Covers(nodes', input', x, m)
  BY <1>8, <1>13, <1>14, <1>15, SameShape DEF Covers
<1>17. Len(nodes') = m + 1 /\ ret' = m + 1 /\ x = nodes'[m + 1]
       /\ x.last = Len(input') - 1
  BY <1>2, <1>3, <1>4, <1>7, <1>8 DEF x
<1>18. \A i \in 1..(Len(stack) - 1) : stack[i] \in FrameOf(m)
  BY <1>4, StackSeq
<1> QED
  BY <1>1, <1>2, <1>4, <1>6, <1>8, <1>9, <1>16, <1>17, <1>18, Returning1

(* block() returns; the second call for an else branch returns at once.    *)
LEMMA BlockAgain ==
  ASSUME TypeInv, Complete, Sourced, err = "unset", status # "died", Replaced(<<>>),
         Top.pc \notin Base, UNCHANGED <<tok, input>>, KeepsUpTo(nodes', nodes, Len(nodes))
  PROVE  AgainEmpty'
<1>1. /\ Len(stack) \in Nat /\ Len(stack) >= 2 /\ Len(stack') = Len(stack) - 1
      /\ \A i \in 1..(Len(stack) - 1) : stack'[i] = stack[i]
  <2>1. 1..Len(<<>>) = {} /\ Len(<<>>) = 0
    OBVIOUS
  <2>2. Len(stack) \in Nat /\ Len(stack) >= 2
    BY StackSeq
  <2> QED
    BY <2>1, <2>2 DEF Replaced
<1>2. ASSUME NEW i \in 1..Len(stack'), stack'[i].pc = "else_again"
      PROVE  /\ i >= Len(stack') - 1
             /\ i = Len(stack') - 1 => Top'.pc = "stmts"
             /\ tok' \in {"EOS", "RCURL"}
             /\ nodes'[stack'[i].left].last = Len(input') - 1
  <2>1. i \in 1..Len(stack) /\ stack'[i] = stack[i] /\ i <= Len(stack) - 1
    BY <1>1
  <2>2. /\ i >= Len(stack) - 1 /\ tok \in {"EOS", "RCURL"}
        /\ nodes[stack[i].left].last = Len(input) - 1
    BY <1>2, <2>1 DEF Sourced, AgainEmpty
  <2>3. stack[i].left \in 1..Len(nodes)
    <3>1. stack[i] \in FrameOf(Len(nodes)) /\ FrameComplete(stack[i])
      BY <2>1, StackSeq, AllComplete
    <3>2. stack[i].left \in 0..Len(nodes) /\ stack[i].left # NULL
      BY <1>2, <2>1, <3>1 DEF FrameComplete, FrameOf
    <3> QED
      BY <3>2 DEF NULL
  <2>4. nodes'[stack[i].left] = nodes[stack[i].left]
    BY <2>3 DEF KeepsUpTo
  <2>5. i >= Len(stack') - 1 /\ i # Len(stack') - 1
    BY <1>1, <2>1, <2>2
  <2> QED
    BY <2>1, <2>2, <2>4, <2>5
<1> QED
  BY <1>2 DEF AgainEmpty

LEMMA BlockSourced ==
  ASSUME TypeInv, TypeInv', Complete, CallGraph, Started, Sourced, err = "unset",
         status # "died", err' = "unset", [Next]_vars, NextStmt, tok \in {"EOS", "RCURL"}
  PROVE  Sourced'
<1>1. Top.pc = "stmts" /\ Top.pc \notin Base /\ UNCHANGED <<tok, input>>
  BY DEF NextStmt, At, Base, NoScan
<1> DEFINE x == NewNode("BLOCK", "EOS", 0, Top.kids, <<>>, Top.first,
                        Len(input) - 1)
<1>3. ReturnNode(x)
  BY DEF NextStmt
<1>4. x.type = "BLOCK" /\ x.kids = Top.kids
  BY DEF NewNode
<1>5. /\ "EOS" \in TokType /\ 0 \in Nat /\ <<>> \in Seq(Nat)
      /\ Top.kids \in Seq(0..Len(nodes)) /\ Len(input) - 1 \in Nat
      /\ Len(input) - 1 + 1 = Len(input) /\ "BLOCK" \in NodeType
  <2>1. Len(input) \in Nat /\ Len(input) >= 1
    BY <1>1, TopFacts DEF Started
  <2> QED
    BY <2>1, TopFacts DEF NodeType, TokType
<1>7. KeepsUpTo(nodes', nodes, Len(nodes))
  BY <1>3, KeepsAppend DEF ReturnNode
<1>8. Reaches(nodes', input', Top, Len(input))
  BY <1>7, TopKept
<1>9. AgainEmpty'
  BY <1>1, <1>3, <1>7, ReturnReplaced, BlockAgain DEF ReturnNode
<1> HIDE DEF x
<1>10. Shape(nodes', input', x, Len(nodes), Top.first, Len(input) - 1)
  <2>1. TiledIn(nodes', input', x.kids, Top.first, Len(input) - 1 + 1, "SEMI", FALSE)
    BY <1>1, <1>4, <1>5, <1>8 DEF Reaches, StmtsTo
  <2> QED
    BY <1>4, <2>1 DEF Shape
<1>11. tok' \in {"EOS", "RCURL"}
  BY <1>1
<1> DEFINE last == Len(input) - 1
<1>12. /\ last \in Nat /\ last = Len(input') - 1
       /\ Shape(nodes', input', x, Len(nodes), Top.first, last)
       /\ x = NewNode("BLOCK", "EOS", 0, Top.kids, <<>>, Top.first, last)
  BY <1>1, <1>5, <1>10 DEF x
<1> HIDE DEF last
<1>13. Top.pc \in BlockPc => tok' \in {"EOS", "RCURL"}
  BY <1>11
<1>14. /\ "EOS" \in TokType /\ 0 \in Nat /\ <<>> \in Seq(Nat)
       /\ Top.kids \in Seq(0..Len(nodes)) /\ "BLOCK" \in NodeType
       /\ Top.pc \notin Base
  BY <1>1, <1>5
<1> QED
  BY <1>3, <1>9, <1>12, <1>13, <1>14, ReturningNode

(* Frame g goes on where f was and has no more to own. *)
LEMMA OwnLater ==
  ASSUME NEW h, NEW u, NEW f, NEW g, Own(h, u, f),
         g.left = f.left, g.kids = f.kids, g.first = f.first,
         g.name = f.name, g.params = f.params,
         g.pc \notin {"loop", "right", "else_again", "paren", "def", "def_open"},
         g.pc \in CallPc => f.pc \in CallPc, g.pc \in DefPc => f.pc \in DefPc,
         g.pc \in NamedPc => f.pc \in NamedPc, g.pc \in ListPc => f.pc \in ListPc,
         g.pc \in IfPc => f.pc \in IfPc, g.pc \in ThenPc => f.pc \in ThenPc,
         g.pc \in ElsePc => f.pc \in ElsePc
  PROVE  Own(h, u, g)
  BY DEF Own

LEMMA OwnNothing ==
  ASSUME NEW h, NEW u, NEW f, f.pc \in {"expr"} \cup BlockPc \cup Base
  PROVE  Own(h, u, f)
  BY DEF Own, CallPc, DefPc, NamedPc, ListPc, IfPc, ThenPc, ElsePc, BlockPc, Base

(* expression() has begun to read its operand. *)
LEMMA OwnLoop ==
  ASSUME NEW h, NEW u, NEW f, f.pc = "loop", f.first < Len(u)
  PROVE  Own(h, u, f)
  BY DEF Own, CallPc, DefPc, NamedPc, ListPc, IfPc, ThenPc, ElsePc

(* A leaf is returned at once. *)
LEMMA LeafSourced ==
  ASSUME TypeInv, TypeInv', Complete, CallGraph, Started, Sourced, err = "unset",
         status # "died", err' = "unset", [Next]_vars, EnterLeaf, Replaced(<<GoOn("loop")>>)
  PROVE  Sourced'
<1>1. Top.pc = "expr" /\ tok \in {"DBL", "ID"} /\ ret' = Len(nodes) + 1
  BY DEF EnterLeaf, At
<1>2. Len(input') = Len(input) + 1 /\ Len(input) \in Nat /\ Len(input) >= 1
  BY <1>1, ScanLen, TopFacts DEF EnterLeaf, Started
<1> DEFINE type == IF tok = "DBL" THEN "DBL" ELSE "VAR"
           name == IF type = "VAR" THEN Len(input) ELSE 0
           x == NewNode(type, "EOS", name, <<>>, <<>>, Len(input), Len(input))
           m == Len(nodes)
           f == GoOn("loop")
<1>3. nodes' = Append(nodes, x)
  BY DEF EnterLeaf, Leaf
<1>4. /\ x.type = type /\ x.paren = 0 /\ x.first = Len(input) /\ x.last = Len(input)
      /\ x.name = name
  BY NewNodeFields
<1>5. m \in Nat /\ m \in 0..Len(nodes) /\ m = Len(nodes)
  BY TopFacts
<1>6. x \in NodeOf(m)
  <2>1. <<>> \in Seq(0..m) /\ <<>> \in Seq(Nat) /\ "EOS" \in TokType
        /\ name \in Nat /\ type \in NodeType
    BY <1>2, <1>5, EmptyKids DEF TokType, NodeType
  <2> QED
    BY <1>2, <1>5, <2>1, NewNodeType
<1>7. f \in FrameOf(m) /\ f.pc = "loop" /\ f.first = Top.first
  BY <1>5, GoOnFields DEF Labels
<1>8. Len(nodes') = m + 1 /\ x = nodes'[m + 1] /\ KeepsUpTo(nodes', nodes, m)
  BY <1>3, NewNodeIs, KeepsAppend
<1> HIDE DEF x, m, f
<1>9. /\ Reaches(nodes', input', Top, Len(input)) /\ TokIn(input', Len(input)) = tok
  <2>1. tok # "ERR"
    BY <1>1
  <2> QED
    BY <1>2, <1>5, <1>8, <2>1, TopKept
<1>10. Top.first = Len(input)
  BY <1>1, <1>9 DEF Reaches
<1>11. Covers(nodes', input', x, m)
  <2>1. x.first + x.paren = Len(input) /\ x.last - x.paren = Len(input)
    BY <1>2, <1>4
  <2>2. Parens(input', x)
    BY <1>4 DEF Parens
  <2>3. Shape(nodes', input', x, m, Len(input), Len(input))
    <3>1. CASE tok = "DBL"
      BY <1>4, <1>9, <3>1 DEF Shape
    <3>2. CASE tok = "ID"
      BY <1>4, <1>9, <3>2 DEF Shape
    <3> QED
      BY <1>1, <3>1, <3>2
  <2> QED
    BY <2>1, <2>2, <2>3 DEF Covers
<1>12. /\ <<f>> \in Seq(FrameOf(Len(nodes))) /\ Len(<<f>>) = 1 /\ <<f>>[1] = f
       /\ 1..(Len(<<f>>) - 1) = {} /\ Replaced(<<f>>)
  BY <1>5, <1>7 DEF f
<1>13. Own(nodes', input', f)
  <2>1. f.first < Len(input')
    BY <1>2, <1>7, <1>10
  <2> QED
    BY <1>7, <2>1, OwnLoop
<1>14. /\ \A j \in 1..Len(<<f>>) :
            Own(nodes', input', <<f>>[j]) /\ <<f>>[j].pc # "else_again"
       /\ \A j \in 1..(Len(<<f>>) - 1) :
            Starts(nodes', input', <<f>>[j], <<f>>[j + 1].first)
       /\ <<f>>[1].first = Top.first
  BY <1>7, <1>12, <1>13
<1>15. FramesOwn' /\ Chained'
  <2>1. \A i \in 1..(Len(stack) - 1) : stack[i] \in FrameOf(m)
    BY <1>5, StackSeq
  <2> QED
    BY <1>5, <1>8, <1>12, <1>14, <2>1, FramesMove
<1>16. AgainEmpty'
  <2>1. Top.pc # "stmts" \/ tok \notin {"EOS", "RCURL"}
    BY <1>1
  <2>2. \A j \in 1..Len(<<f>>) : <<f>>[j].pc # "else_again"
    BY <1>14
  <2> QED
    BY <1>12, <2>1, <2>2, AgainMove
<1>17. \A i \in 1..Len(stack') : stack'[i] \in FrameOf(m)
  <2> SUFFICES ASSUME NEW i \in 1..Len(stack') PROVE stack'[i] \in FrameOf(m)
    OBVIOUS
  <2>1. \/ i \in 1..(Len(stack) - 1) /\ stack'[i] = stack[i]
        \/ \E j \in 1..Len(<<f>>) : i = Len(stack) - 1 + j /\ stack'[i] = <<f>>[j]
    BY <1>12, ReplacedFrames
  <2>2. \A j \in 1..Len(<<f>>) : <<f>>[j] \in FrameOf(m)
    BY <1>7, <1>12
  <2>3. \A j \in 1..(Len(stack) - 1) : stack[j] \in FrameOf(m)
    BY <1>5, StackSeq
  <2> QED
    BY <2>1, <2>2, <2>3
<1>18. Top' = f
  BY <1>12, TopAfter
<1>19. /\ Top'.pc \in Returned /\ Starts(nodes', input', Top', x.first)
       /\ Top'.pc \in BlockCaller => tok' \in {"EOS", "RCURL"}
  BY <1>4, <1>7, <1>10, <1>18 DEF Starts, Returned, BlockCaller
<1>20. x.last = Len(input') - 1 /\ ret' = m + 1
  BY <1>1, <1>2, <1>4, <1>5
<1> QED
  BY <1>5, <1>6, <1>8, <1>11, <1>15, <1>16, <1>17, <1>19, <1>20, Answering

-----------------------------------------------------------------------------
(* The actions that go on: one frame is changed, or others are called.     *)

Calm == /\ TypeInv /\ TypeInv' /\ Complete /\ Sourced /\ err = "unset"
        /\ status # "died" /\ [Next]_vars /\ UNCHANGED nodes
        /\ Top.pc # "stmts" \/ tok \notin {"EOS", "RCURL"}

LEMMA GoesOn ==
  ASSUME Calm, NEW f \in FrameOf(Len(nodes)), f.first = Top.first,
         f.pc # "else_again", Own(nodes, input', f), f.pc \notin Returned,
         Replaced(<<f>>), Reaches(nodes, input', f, Len(input'))
  PROVE  Sourced'
  BY ProceedMoves DEF Calm

LEMMA CallsOn ==
  ASSUME Calm, NEW f \in FrameOf(Len(nodes)), f.first = Top.first,
         f.pc # "else_again", Own(nodes, input', f),
         NEW g \in FrameOf(Len(nodes)), g.pc # "else_again", g.pc \notin Returned,
         Own(nodes, input', g), Replaced(<<f, g>>),
         Starts(nodes, input', f, g.first), Reaches(nodes, input', g, Len(input'))
  PROVE  Sourced'
  BY ProceedMoves DEF Calm

LEMMA CallsTwo ==
  ASSUME Calm, NEW f \in FrameOf(Len(nodes)), f.first = Top.first,
         f.pc # "else_again", Own(nodes, input', f),
         NEW g \in FrameOf(Len(nodes)), g.pc # "else_again", Own(nodes, input', g),
         NEW h \in FrameOf(Len(nodes)), h.pc = "expr", Replaced(<<f, g, h>>),
         Starts(nodes, input', f, g.first), Starts(nodes, input', g, h.first),
         Reaches(nodes, input', h, Len(input'))
  PROVE  Sourced'
  BY ProceedMoves DEF Calm

LEMMA CalmKept ==
  ASSUME Calm
  PROVE  /\ Own(nodes, input', Top)
         /\ Reaches(nodes, input', Top, Len(input))
         /\ Top.pc \in Returned =>
              /\ Starts(nodes, input', Top, nodes[ret].first)
              /\ nodes[ret].last = Len(input) - 1
              /\ ret # NULL /\ ret \in 1..Len(nodes)
         /\ Len(input) >= 1 /\ tok # "ERR" => TokIn(input', Len(input)) = tok
         /\ Len(input) \in Nat /\ Top.first \in Nat
         /\ Top \in FrameOf(Len(nodes)) /\ FrameComplete(Top) /\ tok \in TokType
         /\ Top.kids \in Seq(0..Len(nodes)) /\ Len(nodes) \in Nat
<1>1. TypeInv /\ TypeInv' /\ Complete /\ Sourced /\ err = "unset"
      /\ status # "died" /\ [Next]_vars /\ UNCHANGED nodes
  BY DEF Calm
<1>2. KeepsUpTo(nodes', nodes, Len(nodes))
  BY <1>1 DEF KeepsUpTo
<1>3. /\ Len(input) \in Nat /\ Top.first \in Nat /\ tok \in TokType
      /\ Top \in FrameOf(Len(nodes)) /\ FrameComplete(Top)
      /\ Top.kids \in Seq(0..Len(nodes)) /\ Len(nodes) \in Nat
  BY <1>1, TopFacts, AllComplete
<1>4. /\ Own(nodes, input', Top)
      /\ Reaches(nodes, input', Top, Len(input))
      /\ Top.pc \in Returned =>
           /\ Starts(nodes, input', Top, nodes[ret].first)
           /\ nodes[ret].last = Len(input) - 1 /\ ret # NULL
      /\ Len(input) >= 1 /\ tok # "ERR" => TokIn(input', Len(input)) = tok
  BY <1>1, <1>2, TopKept
<1>5. ret # NULL => ret \in 1..Len(nodes)
  BY <1>1, TopFacts DEF NULL
<1> QED
  BY <1>3, <1>4, <1>5

(* What is called first. *)
LEMMA OperandReaches ==
  ASSUME NEW rbp \in 0..10, NEW l \in Nat, NEW k \in Nat, NEW h, NEW u
  PROVE  LET g == Expression(rbp, l)
         IN /\ g \in FrameOf(k) /\ g.pc = "expr" /\ g.first = l
            /\ g.pc # "else_again" /\ g.pc \notin Returned
            /\ Own(h, u, g) /\ Reaches(h, u, g, l)
<1> DEFINE g == Expression(rbp, l)
<1>1. g \in FrameOf(k) /\ g.pc = "expr" /\ g.first = l
  BY ExpressionFields
<1> HIDE DEF g
<1>2. Own(h, u, g) /\ Reaches(h, u, g, l)
  BY <1>1, OwnNothing DEF Reaches
<1> QED
  BY <1>1, <1>2 DEF g, Returned

LEMMA BlockReaches ==
  ASSUME NEW l \in Nat, NEW k \in Nat, NEW h, NEW u
  PROVE  LET g == NewFrame("stmts", l)
         IN /\ g \in FrameOf(k) /\ g.pc = "stmts" /\ g.first = l
            /\ g.pc # "else_again" /\ g.pc \notin Returned
            /\ Own(h, u, g) /\ Reaches(h, u, g, l)
<1> DEFINE g == NewFrame("stmts", l)
<1>1. g \in FrameOf(k) /\ g.pc = "stmts" /\ g.first = l /\ g.kids = <<>>
  BY NewFrameFields DEF Labels
<1> HIDE DEF g
<1>2. TiledIn(h, u, <<>>, l, l, "SEMI", FALSE)
  <2>1. Len(<<>>) = 0 /\ 1..Len(<<>>) = {}
    OBVIOUS
  <2> QED
    BY <2>1 DEF TiledIn
<1>3. Own(h, u, g) /\ Reaches(h, u, g, l)
  BY <1>1, <1>2, OwnNothing DEF Reaches, StmtsTo, BlockPc
<1> QED
  BY <1>1, <1>3 DEF g, Returned

(* The comma behind an argument or a parameter may be missing. *)
LEMMA CommaRead ==
  ASSUME Calm, Started, OptionalComma, NEW h, NEW T, NEW kids \in Seq(T),
         kids # <<>>, NEW from, NEW end, end = h[kids[Len(kids)]].last,
         end = Len(input) - 1,
         TiledIn(h, input', kids, from, Len(input), "COMMA", TRUE)
  PROVE  TiledIn(h, input', kids, from, Len(input'), "COMMA", TRUE)
<1>1. TypeInv /\ Top.pc # "program" /\ Len(input) \in Nat
      /\ (Len(input) >= 1 /\ tok # "ERR" => TokIn(input', Len(input)) = tok)
  BY CalmKept DEF Calm, OptionalComma, At
<1>2. CASE tok = "COMMA"
  <2>1. Scan({})
    BY <1>2 DEF OptionalComma
  <2>2. Len(input') = end + 2 /\ Len(input) = end + 1 /\ Len(input) >= 1
    BY <1>1, <2>1, ScanLen DEF Started
  <2>3. TokIn(input', end + 1) = "COMMA"
    BY <1>1, <1>2, <2>2
  <2>4. input' \in Seq(TokType)
    BY DEF Calm, TypeInv, TokInv
  <2> QED
    BY <2>2, <2>3, <2>4, TiledFurther
<1>3. CASE tok # "COMMA"
  <2>1. input' = input
    BY <1>3 DEF OptionalComma, NoScan
  <2> QED
    BY <2>1
<1> QED
  BY <1>2, <1>3

LEMMA CommaSourced ==
  ASSUME Calm, Started, OptionalComma, Top.pc = "more_args",
         Replaced(<<GoOn("args")>>)
  PROVE  Sourced'
<1> DEFINE f == GoOn("args")
<1>0. Top.pc = "more_args"
  OBVIOUS
<1>1. TypeInv
  BY DEF Calm
<1>2. /\ f \in FrameOf(Len(nodes)) /\ f.pc = "args" /\ f.kids = Top.kids
      /\ f.left = Top.left /\ f.first = Top.first
      /\ f.name = Top.name /\ f.params = Top.params
  BY <1>1, GoOnFields DEF Labels
<1>3. Replaced(<<f>>)
  OBVIOUS
<1> HIDE DEF f
<1>4. /\ Own(nodes, input', Top) /\ Reaches(nodes, input', Top, Len(input))
      /\ Len(input) >= 1 /\ tok # "ERR" => TokIn(input', Len(input)) = tok
      /\ Len(input) \in Nat /\ Top.kids \in Seq(0..Len(nodes)) /\ Len(nodes) \in Nat
  BY CalmKept
<1>5. Own(nodes, input', f)
  BY <1>2, <1>4, OwnLater DEF CallPc, DefPc, NamedPc, ListPc, IfPc, ThenPc, ElsePc
<1> DEFINE from == nodes[Top.left].last + 2
           end == nodes[Top.kids[Len(Top.kids)]].last
<1>6. /\ TiledIn(nodes, input', Top.kids, from, Len(input), "COMMA", TRUE)
      /\ Top.kids # <<>> /\ end = Len(input) - 1
  BY <1>0, <1>4 DEF Reaches, ArgsTo
<1> HIDE DEF from, end
<1>7. TiledIn(nodes, input', Top.kids, from, Len(input'), "COMMA", TRUE)
  <2>1. end = nodes[Top.kids[Len(Top.kids)]].last
    BY DEF end
  <2> DEFINE T == 0..Len(nodes)
  <2>2. Top.kids \in Seq(T)
    BY <1>4
  <2> HIDE DEF T
  <2> QED
    BY <1>6, <2>1, <2>2, CommaRead
<1>8. Reaches(nodes, input', f, Len(input'))
  BY <1>2, <1>7 DEF Reaches, ArgsTo, from
<1> QED
  BY <1>2, <1>3, <1>5, <1>8, GoesOn DEF Returned

(* funcdef_prefix(): the name, ... *)
LEMMA NamedSourced ==
  ASSUME Calm, Started, DefOpen, Top.pc = "def", Replaced(<<GoOnNamed>>)
  PROVE  Sourced'
<1> DEFINE f == GoOnNamed
<1>1. TypeInv /\ Top.pc = "def" /\ tok = "ID" /\ Scan({})
  BY DEF Calm, DefOpen, Consume, At, Expected, Waiting
<1>2. /\ f \in FrameOf(Len(nodes)) /\ f.pc = "def_open" /\ f.name = Len(input)
      /\ f.first = Top.first /\ f.params = Top.params
  BY <1>1, GoOnNamedFields
<1>3. Replaced(<<f>>)
  OBVIOUS
<1> HIDE DEF f
<1>4. /\ Own(nodes, input', Top) /\ Reaches(nodes, input', Top, Len(input))
      /\ Len(input) >= 1 /\ tok # "ERR" => TokIn(input', Len(input)) = tok
      /\ Len(input) \in Nat /\ Top.first \in Nat
  BY CalmKept
<1>5. /\ TokIn(input', Top.first) = "DEF" /\ Top.params = <<>>
      /\ Len(input) = Top.first + 1
  BY <1>1, <1>4 DEF Own, Reaches, DefPc
<1>6. Len(input') = Top.first + 2 /\ TokIn(input', Top.first + 1) = "ID"
  BY <1>1, <1>4, <1>5, ScanLen
<1>7. Own(nodes, input', f)
  <2>1. Named(input', f.first, f.name)
    BY <1>2, <1>5, <1>6 DEF Named
  <2> QED
    BY <1>2, <1>5, <2>1 DEF Own, CallPc, DefPc, NamedPc, ListPc, IfPc, ThenPc, ElsePc
<1>8. Reaches(nodes, input', f, Len(input'))
  BY <1>2, <1>6 DEF Reaches
<1> QED
  BY <1>2, <1>3, <1>7, <1>8, GoesOn DEF Returned

(* ... the parenthesis, ... *)
LEMMA ListSourced ==
  ASSUME Calm, Started, DefOpen, Top.pc = "def_open", Replaced(<<GoOn("params")>>)
  PROVE  Sourced'
<1> DEFINE f == GoOn("params")
<1>1. TypeInv /\ Top.pc = "def_open" /\ tok = "LPAREN" /\ Scan({})
  BY DEF Calm, DefOpen, Consume, At, Expected, Waiting
<1>2. /\ f \in FrameOf(Len(nodes)) /\ f.pc = "params" /\ f.name = Top.name
      /\ f.first = Top.first /\ f.params = Top.params
  BY <1>1, GoOnFields DEF Labels
<1>3. Replaced(<<f>>)
  OBVIOUS
<1> HIDE DEF f
<1>4. /\ Own(nodes, input', Top) /\ Reaches(nodes, input', Top, Len(input))
      /\ Len(input) >= 1 /\ tok # "ERR" => TokIn(input', Len(input)) = tok
      /\ Len(input) \in Nat /\ Top.first \in Nat
  BY CalmKept
<1>5. /\ TokIn(input', Top.first) = "DEF" /\ Top.params = <<>>
      /\ Named(input', Top.first, Top.name) /\ Len(input) = Top.first + 2
  BY <1>1, <1>4 DEF Own, Reaches, DefPc, NamedPc
<1>6. Len(input') = Top.first + 3 /\ TokIn(input', Top.first + 2) = "LPAREN"
  BY <1>1, <1>4, <1>5, ScanLen
<1>7. Own(nodes, input', f)
  <2>1. Listed(input', f.first, f.params)
    <3>1. 1..Len(<<>>) = {}
      OBVIOUS
    <3> QED
      BY <1>2, <1>5, <1>6, <3>1 DEF Listed
  <2> QED
    BY <1>2, <1>5, <2>1 DEF Own, CallPc, DefPc, NamedPc, ListPc, IfPc, ThenPc, ElsePc
<1>8. Reaches(nodes, input', f, Len(input'))
  <2>1. ParamsTo(input', f.first, f.params, Len(input'))
    BY <1>2, <1>5, <1>6, TiledEmpty DEF ParamsTo
  <2> QED
    BY <1>2, <2>1 DEF Reaches
<1> QED
  BY <1>2, <1>3, <1>7, <1>8, GoesOn DEF Returned

(* ... a parameter, ... *)
LEMMA ParamSourced ==
  ASSUME Calm, Started, NextParam, Replaced(<<GoOnParam>>)
  PROVE  Sourced'
<1> DEFINE f == GoOnParam
           params == Append(Top.params, Len(input))
<1>1. TypeInv /\ Top.pc = "params" /\ tok = "ID" /\ \E undef : Scan(undef)
  BY DEF Calm, NextParam, At
<1>2. /\ f \in FrameOf(Len(nodes)) /\ f.pc = "more_params" /\ f.name = Top.name
      /\ f.first = Top.first /\ f.params = params
  BY <1>1, GoOnParamFields
<1>3. Replaced(<<f>>)
  OBVIOUS
<1> HIDE DEF f
<1>4. /\ Own(nodes, input', Top) /\ Reaches(nodes, input', Top, Len(input))
      /\ Len(input) >= 1 /\ tok # "ERR" => TokIn(input', Len(input)) = tok
      /\ Len(input) \in Nat /\ Top.first \in Nat /\ Top.params \in Seq(Nat)
  BY <1>1, CalmKept, TopFacts
<1>5. /\ TokIn(input', Top.first) = "DEF" /\ Named(input', Top.first, Top.name)
      /\ Listed(input', Top.first, Top.params)
      /\ ParamsTo(input', Top.first, Top.params, Len(input))
  BY <1>1, <1>4 DEF Own, Reaches, DefPc, NamedPc, ListPc
<1>6. Len(input') = Len(input) + 1 /\ TokIn(input', Len(input)) = "ID"
  <2>1. Len(input) >= 1
    BY <1>1 DEF Started
  <2> QED
    BY <1>1, <1>4, <2>1, ScanLen
<1>p. Place[Len(input)].first = Len(input) /\ Place[Len(input)].last = Len(input)
  BY <1>4 DEF Place
<1>9. /\ params # <<>> /\ params[Len(params)] = Len(input)
      /\ Len(params) = Len(Top.params) + 1 /\ Len(Top.params) \in Nat
      /\ \A i \in 1..Len(Top.params) : params[i] = Top.params[i]
  <2>1. /\ params # <<>> /\ Len(params) = Len(Top.params) + 1
        /\ params[Len(Top.params) + 1] = Len(input) /\ Len(Top.params) \in Nat
        /\ \A i \in 1..Len(Top.params) : params[i] = Top.params[i]
    BY <1>4, OneMore
  <2> HIDE DEF params
  <2> QED
    BY <2>1
<1>10. ParamsTo(input', Top.first, params, Len(input'))
  <2>1. PICK from : from = Top.first + 3
    OBVIOUS
  <2>2. TiledIn(Place, input', Top.params, from, Place[Len(input)].first, "COMMA", TRUE)
    BY <1>5, <1>p, <2>1 DEF ParamsTo
  <2>3. Len(input') = Place[Len(input)].last + 1
    BY <1>6, <1>p
  <2>4. TiledIn(Place, input', params, from, Len(input'), "COMMA", TRUE)
    BY <1>4, <2>2, <2>3, TiledAppend
  <2> QED
    BY <2>1, <2>4 DEF ParamsTo
<1> HIDE DEF params
<1>7. Own(nodes, input', f)
  <2>1. Listed(input', f.first, params)
    <3>1. TokIn(input', Top.first + 2) = "LPAREN"
      BY <1>5 DEF Listed
    <3>2. ASSUME NEW i \in 1..Len(params) PROVE TokIn(input', params[i]) = "ID"
      <4>1. CASE i = Len(params)
        BY <1>6, <1>9, <4>1
      <4>2. CASE i # Len(params)
        <5>1. i \in 1..Len(Top.params)
          BY <1>9, <4>2
        <5> QED
          BY <1>5, <1>9, <5>1 DEF Listed
      <4> QED
        BY <4>1, <4>2
    <3> QED
      BY <1>2, <3>1, <3>2 DEF Listed
  <2> QED
    BY <1>2, <1>5, <2>1 DEF Own, CallPc, DefPc, NamedPc, ListPc, IfPc, ThenPc, ElsePc
<1>8. Reaches(nodes, input', f, Len(input'))
  <2>1. Place[params[Len(params)]].last = Len(input') - 1
    BY <1>4, <1>6, <1>9, <1>p
  <2> QED
    BY <1>2, <1>9, <1>10, <2>1 DEF Reaches
<1> QED
  BY <1>2, <1>3, <1>7, <1>8, GoesOn DEF Returned

(* ... the comma behind it ... *)
LEMMA NextParamSourced ==
  ASSUME Calm, Started, OptionalComma, Top.pc = "more_params",
         Replaced(<<GoOn("params")>>)
  PROVE  Sourced'
<1> DEFINE f == GoOn("params")
<1>0. Top.pc = "more_params"
  OBVIOUS
<1>1. TypeInv
  BY DEF Calm
<1>2. /\ f \in FrameOf(Len(nodes)) /\ f.pc = "params" /\ f.kids = Top.kids
      /\ f.left = Top.left /\ f.first = Top.first
      /\ f.name = Top.name /\ f.params = Top.params
  BY <1>1, GoOnFields DEF Labels
<1>3. Replaced(<<f>>)
  OBVIOUS
<1> HIDE DEF f
<1>4. /\ Own(nodes, input', Top) /\ Reaches(nodes, input', Top, Len(input))
      /\ Top.params \in Seq(Nat)
  BY <1>1, CalmKept, TopFacts
<1>5. Own(nodes, input', f)
  BY <1>0, <1>2, <1>4, OwnLater
     DEF CallPc, DefPc, NamedPc, ListPc, IfPc, ThenPc, ElsePc
<1> DEFINE from == Top.first + 3
           end == Place[Top.params[Len(Top.params)]].last
<1>6. /\ TiledIn(Place, input', Top.params, from, Len(input), "COMMA", TRUE)
      /\ Top.params # <<>> /\ end = Len(input) - 1
  BY <1>0, <1>4 DEF Reaches, ParamsTo
<1> HIDE DEF from, end
<1>7. TiledIn(Place, input', Top.params, from, Len(input'), "COMMA", TRUE)
  <2>1. end = Place[Top.params[Len(Top.params)]].last
    BY DEF end
  <2> QED
    BY <1>4, <1>6, <2>1, CommaRead
<1>8. Reaches(nodes, input', f, Len(input'))
  BY <1>2, <1>7 DEF Reaches, ParamsTo, from
<1> QED
  BY <1>2, <1>3, <1>5, <1>8, GoesOn DEF Returned

(* ... and the end of the list. *)
LEMMA ListEndsSourced ==
  ASSUME Calm, Started, ParamsEnd, Scan({}), Replaced(<<GoOn("body_open")>>)
  PROVE  Sourced'
<1> DEFINE f == GoOn("body_open")
<1>1. TypeInv /\ Top.pc = "params"
  BY DEF Calm, ParamsEnd, At
<1>2. /\ f \in FrameOf(Len(nodes)) /\ f.pc = "body_open" /\ f.kids = Top.kids
      /\ f.left = Top.left /\ f.first = Top.first
      /\ f.name = Top.name /\ f.params = Top.params
  BY <1>1, GoOnFields DEF Labels, Waiting
<1>3. Replaced(<<f>>)
  OBVIOUS
<1> HIDE DEF f
<1>4. /\ Own(nodes, input', Top) /\ Reaches(nodes, input', Top, Len(input))
      /\ Len(input) >= 1 /\ tok # "ERR" => TokIn(input', Len(input)) = tok
      /\ Len(input) \in Nat
  BY CalmKept
<1>5. Own(nodes, input', f)
  BY <1>1, <1>2, <1>4, OwnLater
     DEF CallPc, DefPc, NamedPc, ListPc, IfPc, ThenPc, ElsePc
<1>6. Len(input') = Len(input) + 1 /\ Len(input) >= 1
  BY <1>1, ScanLen DEF Started
<1>7. tok = "RPAREN"
  <2>1. input' # input
    BY <1>4, <1>6
  <2> QED
    BY <2>1 DEF ParamsEnd, NoScan
<1>8. TokIn(input', Len(input)) = "RPAREN" /\ Len(input') - 1 = Len(input)
  BY <1>4, <1>6, <1>7
<1>9. Reaches(nodes, input', f, Len(input'))
  <2>1. ParamsTo(input', Top.first, Top.params, Len(input))
    BY <1>1, <1>4 DEF Reaches
  <2> QED
    BY <1>2, <1>8, <2>1 DEF Reaches
<1> QED
  BY <1>2, <1>3, <1>5, <1>9, GoesOn DEF Returned

LEMMA IfCondSourced ==
  ASSUME Calm, IfCond, Replaced(<<GoOnWith("then_open", <<ret>>)>>)
  PROVE  Sourced'
<1> DEFINE f == GoOnWith("then_open", <<ret>>)
<1>1. TypeInv /\ Top.pc = "cond"
  BY DEF Calm, IfCond, Consume, At
<1>2. /\ f \in FrameOf(Len(nodes)) /\ f.pc = "then_open" /\ f.kids = <<ret>>
      /\ f.first = Top.first
  <2> DEFINE kids == <<ret>>
  <2>1. kids \in Seq(0..Len(nodes)) /\ "then_open" \in Labels
    BY <1>1, TopFacts DEF Labels, Waiting
  <2> HIDE DEF kids
  <2>2. /\ GoOnWith("then_open", kids) \in FrameOf(Len(nodes))
        /\ GoOnWith("then_open", kids).pc = "then_open"
        /\ GoOnWith("then_open", kids).kids = kids
        /\ GoOnWith("then_open", kids).first = Top.first
    BY <1>1, <2>1, GoOnWithFields
  <2> QED
    BY <2>2 DEF kids
<1>3. Replaced(<<f>>)
  OBVIOUS
<1> HIDE DEF f
<1>4. /\ Own(nodes, input', Top) /\ Starts(nodes, input', Top, nodes[ret].first)
      /\ nodes[ret].last = Len(input) - 1 /\ Len(input) \in Nat
  BY <1>1, CalmKept DEF Returned
<1>5. f.kids[1] = ret
  BY <1>2
<1>6. Own(nodes, input', f)
  BY <1>1, <1>2, <1>4, <1>5
     DEF Own, Starts, CallPc, DefPc, NamedPc, ListPc, IfPc, ThenPc, ElsePc
<1>7. Len(input') = Len(input) + 1
  BY <1>1, ScanLen DEF IfCond, Consume
<1>8. Reaches(nodes, input', f, Len(input'))
  BY <1>2, <1>4, <1>5, <1>7 DEF Reaches
<1> QED
  BY <1>2, <1>3, <1>6, <1>8, GoesOn DEF Returned

LEMMA IfThenSourced ==
  ASSUME Calm, IfThen, Replaced(<<GoOnWith("else?", Append(Top.kids, ret))>>)
  PROVE  Sourced'
<1> DEFINE kids == Append(Top.kids, ret)
           f == GoOnWith("else?", kids)
<1>1. TypeInv /\ Top.pc = "then"
  BY DEF Calm, IfThen, Consume, At
<1>2. /\ f \in FrameOf(Len(nodes)) /\ f.pc = "else?" /\ f.kids = kids
      /\ f.first = Top.first
  <2>1. kids \in Seq(0..Len(nodes)) /\ "else?" \in Labels
    BY <1>1, TopFacts DEF Labels
  <2> HIDE DEF kids
  <2> QED
    BY ONLY <1>1, <2>1, GoOnWithFields
<1>3. Replaced(<<f>>)
  OBVIOUS
<1> HIDE DEF f
<1>4. /\ Own(nodes, input', Top) /\ Starts(nodes, input', Top, nodes[ret].first)
      /\ nodes[ret].last = Len(input) - 1 /\ Len(input) \in Nat
      /\ Top.kids \in Seq(0..Len(nodes)) /\ FrameComplete(Top)
  BY <1>1, CalmKept DEF Returned
<1>5. f.kids[1] = Top.kids[1] /\ f.kids[2] = ret
  <2> DEFINE T == 0..Len(nodes)
  <2>1. Top.kids \in Seq(T) /\ ret \in T
    BY <1>1, TopFacts
  <2> HIDE DEF T
  <2>2. Len(Top.kids) = 1
    BY <1>1, <1>4 DEF FrameComplete
  <2>3. kids[Len(Top.kids) + 1] = ret /\ \A i \in 1..Len(Top.kids) : kids[i] = Top.kids[i]
    BY <2>1, OneMore
  <2> HIDE DEF kids
  <2> QED
    BY <1>2, <2>2, <2>3
<1>6. Own(nodes, input', f)
  <2>1. TokIn(input', f.first) = "IF" /\ nodes[f.kids[1]].first = f.first + 2
    BY <1>1, <1>2, <1>4, <1>5 DEF Own, IfPc, ThenPc
  <2>2. nodes[f.kids[2]].first = nodes[f.kids[1]].last + 3
    BY <1>1, <1>4, <1>5 DEF Starts
  <2> QED
    BY <1>2, <2>1, <2>2 DEF Own, CallPc, DefPc, NamedPc, ListPc
<1>7. Len(input') = Len(input) + 1
  BY <1>1, ScanLen DEF IfThen, Consume
<1>8. Reaches(nodes, input', f, Len(input'))
  <2>1. Len(input') = nodes[ret].last + 2
    BY <1>4, <1>7
  <2> QED
    BY <1>2, <1>5, <2>1 DEF Reaches
<1> QED
  BY <1>2, <1>3, <1>6, <1>8, GoesOn DEF Returned

LEMMA PrefixSourced ==
  ASSUME Calm, Started, EnterPrefix, NEW pc \in {"if", "def"}, pc = "if" <=> tok = "IF",
         Replaced(<<GoOn("loop"), NewFrame(pc, Top.first)>>)
  PROVE  Sourced'
<1> DEFINE f == GoOn("loop")
           g == NewFrame(pc, Top.first)
<1>1. TypeInv /\ Top.pc = "expr" /\ tok \in {"IF", "DEF"}
  BY DEF Calm, EnterPrefix, At
<1>2. /\ Own(nodes, input', Top) /\ Reaches(nodes, input', Top, Len(input))
      /\ Len(input) >= 1 /\ tok # "ERR" => TokIn(input', Len(input)) = tok
      /\ Len(input) \in Nat /\ Len(nodes) \in Nat /\ Top.first \in Nat
  BY CalmKept
<1>3. f \in FrameOf(Len(nodes)) /\ f.pc = "loop" /\ f.first = Top.first
  BY <1>1, GoOnFields DEF Labels
<1>4. /\ g \in FrameOf(Len(nodes)) /\ g.pc = pc /\ g.first = Top.first
      /\ g.params = <<>>
  BY <1>1, <1>2, NewFrameFields DEF Labels, Waiting
<1>5. Replaced(<<f, g>>)
  OBVIOUS
<1> HIDE DEF f, g
<1>6. Top.first = Len(input) /\ TokIn(input', Len(input)) = tok
      /\ Len(input') = Len(input) + 1
  <2>1. Len(input) >= 1
    BY <1>1 DEF Started
  <2> QED
    BY <1>1, <1>2, <2>1, ScanLen DEF Reaches, EnterPrefix
<1>7. Own(nodes, input', f)
  BY <1>2, <1>3, <1>6, OwnLoop
<1>8. Own(nodes, input', g)
  BY <1>1, <1>4, <1>6 DEF Own, CallPc, DefPc, NamedPc, ListPc, IfPc, ThenPc, ElsePc
<1>9. Starts(nodes, input', f, g.first)
  BY <1>3, <1>4 DEF Starts
<1>10. Reaches(nodes, input', g, Len(input'))
  BY <1>4, <1>6 DEF Reaches
<1>11. g.pc # "else_again" /\ g.pc \notin Returned /\ f.pc # "else_again"
  BY <1>3, <1>4 DEF Returned
<1> QED
  BY <1>3, <1>4, <1>5, <1>7, <1>8, <1>9, <1>10, <1>11, CallsOn

LEMMA ParenSourced ==
  ASSUME Calm, Started, EnterParen,
         Replaced(<<GoOn("loop"), NewFrame("paren", Top.first),
                    Expression(0, Len(input) + 1)>>)
  PROVE  Sourced'
<1> DEFINE l == Len(input) + 1
           f == GoOn("loop")
           g == NewFrame("paren", Top.first)
           h == Expression(0, l)
<1>1. TypeInv /\ Top.pc = "expr" /\ tok = "LPAREN" /\ Scan({})
  BY DEF Calm, EnterParen, At
<1>2. /\ Own(nodes, input', Top) /\ Reaches(nodes, input', Top, Len(input))
      /\ Len(input) >= 1 /\ tok # "ERR" => TokIn(input', Len(input)) = tok
      /\ Len(input) \in Nat /\ Len(nodes) \in Nat /\ Top.first \in Nat
  BY CalmKept
<1>3. f \in FrameOf(Len(nodes)) /\ f.pc = "loop" /\ f.first = Top.first
  BY <1>1, GoOnFields DEF Labels
<1>4. g \in FrameOf(Len(nodes)) /\ g.pc = "paren" /\ g.first = Top.first
  BY <1>1, <1>2, NewFrameFields DEF Labels, Waiting
<1>5. Replaced(<<f, g, h>>)
  OBVIOUS
<1>6. Top.first = Len(input) /\ TokIn(input', Len(input)) = "LPAREN"
      /\ Len(input') = l /\ l \in Nat /\ l = Top.first + 1
  <2>1. Len(input) >= 1
    BY <1>1 DEF Started
  <2> QED
    BY <1>1, <1>2, <2>1, ScanLen DEF Reaches
<1> HIDE DEF l
<1>7. /\ h \in FrameOf(Len(nodes)) /\ h.pc = "expr" /\ h.first = l
      /\ Reaches(nodes, input', h, l)
  <2>1. 0 \in 0..10
    OBVIOUS
  <2> QED
    BY <1>2, <1>6, <2>1, OperandReaches
<1> HIDE DEF f, g, h
<1>8. Own(nodes, input', f)
  <2>1. f.first < Len(input')
    BY <1>2, <1>3, <1>6
  <2> QED
    BY <1>3, <2>1, OwnLoop
<1>9. Own(nodes, input', g)
  BY <1>4, <1>6 DEF Own, CallPc, DefPc, NamedPc, ListPc, IfPc, ThenPc, ElsePc
<1>10. Starts(nodes, input', f, g.first)
  BY <1>3, <1>4 DEF Starts
<1>11. Starts(nodes, input', g, h.first)
  BY <1>4, <1>6, <1>7 DEF Starts
<1>12. g.pc # "else_again" /\ f.pc # "else_again" /\ Reaches(nodes, input', h, Len(input'))
  BY <1>3, <1>4, <1>6, <1>7
<1> QED
  BY <1>3, <1>4, <1>5, <1>7, <1>8, <1>9, <1>10, <1>11, <1>12, CallsTwo

LEMMA OperatorSourced ==
  ASSUME Calm, Started, Infix, tok \in BinOps,
         Replaced(<<Top, InfixFrame("right"), Expression(lbp[tok], Len(input) + 1)>>)
  PROVE  Sourced'
<1> DEFINE l == Len(input) + 1
           g == InfixFrame("right")
           h == Expression(lbp[tok], l)
<1>1. TypeInv /\ Top.pc = "loop" /\ Scan({}) /\ Top.pc \in Returned
  BY DEF Calm, Infix, At, Returned
<1>2. /\ Own(nodes, input', Top) /\ Starts(nodes, input', Top, nodes[ret].first)
      /\ nodes[ret].last = Len(input) - 1
      /\ Len(input) >= 1 /\ tok # "ERR" => TokIn(input', Len(input)) = tok
      /\ Len(input) \in Nat /\ Len(nodes) \in Nat /\ Top.first \in Nat
      /\ Top \in FrameOf(Len(nodes)) /\ tok \in TokType
  BY <1>1, CalmKept
<1>4. /\ g \in FrameOf(Len(nodes)) /\ g.pc = "right" /\ g.first = Top.first
      /\ g.left = ret /\ g.op = tok
  BY <1>1, InfixFields DEF Labels
<1>5. Replaced(<<Top, g, h>>)
  OBVIOUS
<1>6. TokIn(input', Len(input)) = tok /\ Len(input') = l /\ l \in Nat
      /\ nodes[ret].last + 1 = Len(input) /\ l = nodes[ret].last + 2
  <2>1. Len(input) >= 1 /\ tok # "ERR"
    BY <1>1 DEF Started, BinOps
  <2>2. Len(input') = Len(input) + 1
    BY <1>1, ScanLen
  <2> QED
    BY <1>2, <2>1, <2>2
<1> HIDE DEF l
<1>7. /\ h \in FrameOf(Len(nodes)) /\ h.pc = "expr" /\ h.first = l
      /\ Reaches(nodes, input', h, l)
  <2>1. lbp[tok] \in 0..10
    BY <1>2, lbpType
  <2> QED
    BY <1>2, <1>6, <2>1, OperandReaches
<1> HIDE DEF g, h
<1>9. Own(nodes, input', g)
  <2>1. nodes[ret].first = Top.first
    BY <1>1, <1>2 DEF Starts
  <2> QED
    BY <1>4, <1>6, <2>1 DEF Own, CallPc, DefPc, NamedPc, ListPc, IfPc, ThenPc, ElsePc
<1>10. Starts(nodes, input', Top, g.first)
  BY <1>1, <1>4 DEF Starts
<1>11. Starts(nodes, input', g, h.first)
  BY <1>4, <1>6, <1>7 DEF Starts
<1>12. g.pc # "else_again" /\ Top.pc # "else_again"
       /\ Reaches(nodes, input', h, Len(input'))
  BY <1>1, <1>4, <1>6, <1>7
<1> QED
  BY <1>2, <1>4, <1>5, <1>7, <1>9, <1>10, <1>11, <1>12, CallsTwo

LEMMA CallSourced ==
  ASSUME Calm, Started, Infix, tok = "LPAREN", Replaced(<<Top, InfixFrame("args")>>)
  PROVE  Sourced'
<1> DEFINE g == InfixFrame("args")
<1>1. TypeInv /\ Top.pc = "loop" /\ Scan({}) /\ Top.pc \in Returned
  BY DEF Calm, Infix, At, Returned
<1>2. /\ Own(nodes, input', Top) /\ Starts(nodes, input', Top, nodes[ret].first)
      /\ nodes[ret].last = Len(input) - 1
      /\ Len(input) >= 1 /\ tok # "ERR" => TokIn(input', Len(input)) = tok
      /\ Len(input) \in Nat /\ Top \in FrameOf(Len(nodes))
  BY <1>1, CalmKept
<1>4. /\ g \in FrameOf(Len(nodes)) /\ g.pc = "args" /\ g.first = Top.first
      /\ g.left = ret /\ g.kids = <<>>
  BY <1>1, InfixFields DEF Labels
<1>5. Replaced(<<Top, g>>)
  OBVIOUS
<1> HIDE DEF g
<1>6. /\ TokIn(input', nodes[ret].last + 1) = "LPAREN"
      /\ Len(input') = nodes[ret].last + 2 /\ nodes[ret].first = Top.first
      /\ Top.first <= nodes[ret].last
  <2>1. Len(input) >= 1 /\ tok # "ERR"
    BY <1>1 DEF Started
  <2>2. Len(input') = Len(input) + 1
    BY <1>1, ScanLen
  <2>3. nodes[ret].first = Top.first
    BY <1>1, <1>2 DEF Starts
  <2>4. nodes[ret].last + 1 = Len(input) /\ Len(input') = nodes[ret].last + 2
    BY <1>2, <2>2
  <2>5. Top.first < Len(input) /\ Top.first \in Nat
    BY <1>1, TopFacts DEF Calm, Sourced, FramesOwn, Own
  <2>6. Top.first <= nodes[ret].last
    BY <1>2, <2>5
  <2> QED
    BY <1>2, <2>1, <2>3, <2>4, <2>6
<1>9. Own(nodes, input', g)
  BY <1>4, <1>6 DEF Own, CallPc, DefPc, NamedPc, ListPc, IfPc, ThenPc, ElsePc
<1>10. Starts(nodes, input', Top, g.first)
  BY <1>1, <1>4 DEF Starts
<1>11. Reaches(nodes, input', g, Len(input'))
  <2>1. Len(<<>>) = 0 /\ 1..Len(<<>>) = {}
    OBVIOUS
  <2>2. TiledIn(nodes, input', <<>>, nodes[ret].last + 2, Len(input'), "COMMA", TRUE)
    BY <1>6, <2>1 DEF TiledIn
  <2> QED
    BY <1>4, <2>2 DEF Reaches, ArgsTo
<1>12. g.pc # "else_again" /\ Top.pc # "else_again" /\ g.pc \notin Returned
  BY <1>1, <1>4 DEF Returned
<1> QED
  BY <1>2, <1>4, <1>5, <1>9, <1>10, <1>11, <1>12, CallsOn

(* The top frame, now at pc, calls expression() or block() for what begins *)
(* at the token the lexer delivers.                                        *)
LEMMA CallsFrom ==
  ASSUME Calm, NEW pc \in Labels \ {"else_again", "right"}, NEW l \in Nat,
         l = Len(input'), Own(nodes, input', GoOn(pc)),
         Starts(nodes, input', GoOn(pc), l),
         \/ Replaced(<<GoOn(pc), Expression(0, l)>>)
         \/ Replaced(<<GoOn(pc), NewFrame("stmts", l)>>)
  PROVE  Sourced'
<1> DEFINE f == GoOn(pc)
<1>1. TypeInv /\ Len(nodes) \in Nat
  BY CalmKept DEF Calm
<1>2. f \in FrameOf(Len(nodes)) /\ f.pc # "else_again" /\ f.first = Top.first
  BY <1>1, GoOnFields
<1>3. ASSUME NEW g \in FrameOf(Len(nodes)), g.first = l, g.pc # "else_again",
             g.pc \notin Returned, Own(nodes, input', g), Reaches(nodes, input', g, l),
             Replaced(<<f, g>>)
      PROVE  Sourced'
  <2> HIDE DEF f
  <2>1. Own(nodes, input', f) /\ Starts(nodes, input', f, g.first)
        /\ Reaches(nodes, input', g, Len(input'))
    BY <1>3 DEF f
  <2> QED
    BY <1>2, <1>3, <2>1, CallsOn
<1>4. CASE Replaced(<<GoOn(pc), Expression(0, l)>>)
  <2> DEFINE g == Expression(0, l)
  <2>1. 0 \in 0..10
    OBVIOUS
  <2>2. /\ g \in FrameOf(Len(nodes)) /\ g.first = l /\ g.pc # "else_again"
        /\ g.pc \notin Returned /\ Own(nodes, input', g) /\ Reaches(nodes, input', g, l)
    BY <1>1, <2>1, OperandReaches
  <2>3. Replaced(<<f, g>>)
    BY <1>4
  <2> HIDE DEF g, f
  <2> QED
    BY <1>3, <2>2, <2>3
<1>5. CASE Replaced(<<GoOn(pc), NewFrame("stmts", l)>>)
  <2> DEFINE g == NewFrame("stmts", l)
  <2>2. /\ g \in FrameOf(Len(nodes)) /\ g.first = l /\ g.pc # "else_again"
        /\ g.pc \notin Returned /\ Own(nodes, input', g) /\ Reaches(nodes, input', g, l)
    BY <1>1, BlockReaches
  <2>3. Replaced(<<f, g>>)
    BY <1>5
  <2> HIDE DEF g, f
  <2> QED
    BY <1>3, <2>2, <2>3
<1> QED
  BY <1>4, <1>5

(* In if_prefix() and funcdef_prefix(). *)
LEMMA OpensSourced ==
  ASSUME Calm, Started, Scan({}), NEW pc \in {"cond", "then", "else", "body"},
         pc = "cond" => Top.pc = "if", pc = "then" => Top.pc = "then_open",
         pc = "else" => Top.pc = "else_open", pc = "body" => Top.pc = "body_open",
         pc = "body" => tok = "LCURL",
         \/ Replaced(<<GoOn(pc), Expression(0, Len(input) + 1)>>)
         \/ Replaced(<<GoOn(pc), NewFrame("stmts", Len(input) + 1)>>)
  PROVE  Sourced'
<1> DEFINE l == Len(input) + 1
           f == GoOn(pc)
<1>0. \/ Replaced(<<GoOn(pc), Expression(0, l)>>)
      \/ Replaced(<<GoOn(pc), NewFrame("stmts", l)>>)
  OBVIOUS
<1>1. TypeInv /\ pc \in Labels \ {"else_again", "right"}
  BY DEF Calm, Labels, Waiting
<1>2. /\ Own(nodes, input', Top) /\ Reaches(nodes, input', Top, Len(input))
      /\ Len(input) \in Nat /\ FrameComplete(Top) /\ Len(nodes) \in Nat
      /\ Top.first \in Nat /\ Top.kids \in Seq(0..Len(nodes))
      /\ Len(input) >= 1 /\ tok # "ERR" => TokIn(input', Len(input)) = tok
  BY CalmKept
<1>3. /\ f.pc = pc /\ f.first = Top.first /\ f.left = Top.left /\ f.kids = Top.kids
      /\ f.name = Top.name /\ f.params = Top.params
  BY <1>1, GoOnFields
<1>4. Len(input') = l /\ l \in Nat
  BY <1>1, <1>2, ScanLen
<1> HIDE DEF f
<1>5. Own(nodes, input', f)
  BY <1>2, <1>3, OwnLater DEF CallPc, DefPc, NamedPc, ListPc, IfPc, ThenPc, ElsePc
<1>6. Starts(nodes, input', f, l)
  <2>1. /\ pc = "cond" => Len(input) = Top.first + 1
        /\ pc = "then" => Len(input) = nodes[Top.kids[1]].last + 2
        /\ pc = "else" => Len(input) = nodes[Top.kids[2]].last + 3
    BY <1>2 DEF Reaches
  <2>2. CASE pc = "cond"
    <3>1. l = Top.first + 2
      BY <1>2, <2>1, <2>2
    <3> QED
      BY <1>3, <2>2, <3>1 DEF Starts
  <2>3. CASE pc = "then"
    <3>1. nodes[Top.kids[1]].last \in Nat
      <4>1. Len(Top.kids) = 1 /\ \A i \in 1..Len(Top.kids) : Top.kids[i] # NULL
        BY <1>2, <2>3 DEF FrameComplete
      <4>2. 1 \in 1..Len(Top.kids)
        BY <4>1
      <4>3. Top.kids[1] # NULL /\ Top.kids[1] \in 0..Len(nodes)
        BY <1>2, <4>1, <4>2
      <4>4. Top.kids[1] \in 1..Len(nodes)
        BY <4>3 DEF NULL
      <4> QED
        BY <1>1, <4>4, NodeFields
    <3> DEFINE end == nodes[Top.kids[1]].last
    <3>3. end \in Nat /\ Len(input) = end + 2 /\ l = Len(input) + 1
      BY <2>1, <2>3, <3>1
    <3> HIDE DEF end, l
    <3>4. l = end + 3
      BY <3>3
    <3>2. l = nodes[Top.kids[1]].last + 3
      BY <3>4 DEF end
    <3> QED
      BY <1>3, <2>3, <3>2 DEF Starts
  <2>4. CASE pc = "else"
    <3>1. nodes[Top.kids[2]].last \in Nat
      <4>1. Len(Top.kids) = 2 /\ \A i \in 1..Len(Top.kids) : Top.kids[i] # NULL
        BY <1>2, <2>4 DEF FrameComplete
      <4>2. 2 \in 1..Len(Top.kids)
        BY <4>1
      <4>3. Top.kids[2] # NULL /\ Top.kids[2] \in 0..Len(nodes)
        BY <1>2, <4>1, <4>2
      <4>4. Top.kids[2] \in 1..Len(nodes)
        BY <4>3 DEF NULL
      <4> QED
        BY <1>1, <4>4, NodeFields
    <3> DEFINE end == nodes[Top.kids[2]].last
    <3>3. end \in Nat /\ Len(input) = end + 3 /\ l = Len(input) + 1
      BY <2>1, <2>4, <3>1
    <3> HIDE DEF end, l
    <3>4. l = end + 4
      BY <3>3
    <3>2. l = nodes[Top.kids[2]].last + 4
      BY <3>4 DEF end
    <3> QED
      BY <1>3, <2>4, <3>2 DEF Starts
  <2>5. CASE pc = "body"
    <3>1. /\ TokIn(input', Top.first) = "DEF" /\ Named(input', Top.first, Top.name)
          /\ Listed(input', Top.first, Top.params)
          /\ ParamsTo(input', Top.first, Top.params, Len(input) - 1)
          /\ TokIn(input', Len(input) - 1) = "RPAREN"
      BY <1>2, <2>5 DEF Own, Reaches, DefPc, NamedPc, ListPc
    <3>2. TokIn(input', Len(input)) = "LCURL"
      BY <1>2, <2>5 DEF Started
    <3>3. l - 2 = Len(input) - 1 /\ Len(input) - 1 + 1 = Len(input)
      BY <1>2
    <3> HIDE DEF l
    <3>4. Heads(input', Top.first, Top.name, Top.params, l - 2)
      BY <3>1, <3>2, <3>3 DEF Heads
    <3> QED
      BY <1>3, <2>5, <3>4 DEF Starts
  <2> QED
    BY <2>2, <2>3, <2>4, <2>5
<1> HIDE DEF l
<1> QED
  BY <1>0, <1>1, <1>4, <1>5, <1>6, CallsFrom DEF f

(* An argument, a statement. *)
LEMMA NextSourced ==
  ASSUME Calm, Started, NoScan, NEW pc \in {"arg", "stmt"},
         pc = "arg" => Top.pc = "args", pc = "stmt" => Top.pc = "stmts",
         Replaced(<<GoOn(pc), Expression(0, Len(input))>>)
  PROVE  Sourced'
<1> DEFINE f == GoOn(pc)
<1>1. TypeInv /\ pc \in Labels \ {"else_again", "right"} /\ input' = input
  BY DEF Calm, Labels, Waiting, NoScan
<1>2. /\ Own(nodes, input', Top) /\ Reaches(nodes, input', Top, Len(input))
      /\ Len(input) \in Nat
  BY CalmKept
<1>3. /\ f.pc = pc /\ f.first = Top.first /\ f.left = Top.left /\ f.kids = Top.kids
      /\ f.name = Top.name /\ f.params = Top.params
  BY <1>1, GoOnFields
<1> HIDE DEF f
<1>5. Own(nodes, input', f)
  BY <1>2, <1>3, OwnLater DEF CallPc, DefPc, NamedPc, ListPc, IfPc, ThenPc, ElsePc
<1>6. Starts(nodes, input', f, Len(input))
  BY <1>2, <1>3 DEF Reaches, Starts, ArgsTo, StmtsTo
<1>7. Len(input) = Len(input')
  BY <1>1
<1> QED
  BY <1>1, <1>2, <1>5, <1>6, <1>7, CallsFrom DEF f

LEMMA ProgramSourced ==
  ASSUME Calm, Begins, Program, Replaced(<<GoOn("parsed"), NewFrame("stmts", 1)>>)
  PROVE  Sourced'
<1> DEFINE f == GoOn("parsed")
<1>1. TypeInv /\ "parsed" \in Labels \ {"else_again", "right"}
      /\ Top.pc = "program" /\ Scan({})
  BY DEF Calm, Labels, Program, At
<1>2. Len(input') = 1
  <2>1. Len(input) = 0
    BY <1>1 DEF Begins
  <2> QED
    BY <1>1, <2>1, ScanLen
<1>3. f.pc = "parsed"
  BY <1>1, GoOnFields
<1> HIDE DEF f
<1>4. Own(nodes, input', f) /\ Starts(nodes, input', f, 1)
  BY <1>3, OwnNothing DEF Starts, Base
<1> DEFINE l == 1
<1>5. l \in Nat /\ l = Len(input') /\ Starts(nodes, input', f, l)
      /\ Replaced(<<GoOn("parsed"), NewFrame("stmts", l)>>)
  BY <1>2, <1>4
<1> HIDE DEF l
<1> QED
  BY <1>1, <1>4, <1>5, CallsFrom DEF f

LEMMA StoreSourced ==
  ASSUME Calm, StoreArg, ret # NULL,
         Replaced(<<GoOnWith("more_args", Append(Top.kids, ret))>>)
  PROVE  Sourced'
<1> DEFINE kids == Append(Top.kids, ret)
           f == GoOnWith("more_args", kids)
<1>1. TypeInv /\ Top.pc = "arg" /\ Top.pc \in Returned /\ input' = input
  BY DEF Calm, StoreArg, At, Returned
<1>2. /\ f \in FrameOf(Len(nodes)) /\ f.pc = "more_args" /\ f.kids = kids
      /\ f.left = Top.left /\ f.first = Top.first
  <2>1. kids \in Seq(0..Len(nodes)) /\ "more_args" \in Labels
    BY <1>1, TopFacts DEF Labels
  <2> HIDE DEF kids
  <2> QED
    BY <1>1, <2>1, GoOnWithFields
<1>3. Replaced(<<f>>)
  OBVIOUS
<1> HIDE DEF f
<1>4. /\ Own(nodes, input', Top) /\ Starts(nodes, input', Top, nodes[ret].first)
      /\ nodes[ret].last = Len(input) - 1 /\ Len(input) \in Nat
      /\ Top.kids \in Seq(0..Len(nodes)) /\ ret \in 0..Len(nodes)
  BY <1>1, CalmKept, TopFacts
<1> DEFINE T == 0..Len(nodes)
           from == nodes[Top.left].last + 2
           end == nodes[ret].last
<1>5. Own(nodes, input', f)
  <2>1. /\ nodes[Top.left].first = Top.first /\ Top.first <= nodes[Top.left].last
        /\ TokIn(input', nodes[Top.left].last + 1) = "LPAREN"
    BY <1>1, <1>4 DEF Own, CallPc
  <2> QED
    BY <1>2, <2>1 DEF Own, CallPc, DefPc, NamedPc, ListPc, IfPc, ThenPc, ElsePc
<1>6. TiledIn(nodes, input', Top.kids, from, nodes[ret].first, "COMMA", TRUE)
  BY <1>1, <1>4 DEF Starts, ArgsTo
<1>7. Top.kids \in Seq(T) /\ ret \in T /\ Len(input') = end + 1 /\ end = Len(input') - 1
  BY <1>1, <1>4
<1> HIDE DEF T, from, end
<1>8. /\ kids # <<>> /\ kids[Len(kids)] = ret
  <2>1. kids # <<>> /\ Len(kids) = Len(Top.kids) + 1 /\ kids[Len(Top.kids) + 1] = ret
    BY <1>7, OneMore
  <2> HIDE DEF kids
  <2> QED
    BY <2>1
<1>9. TiledIn(nodes, input', kids, from, Len(input'), "COMMA", TRUE)
  BY <1>6, <1>7, TiledAppend DEF end
<1> HIDE DEF kids
<1>10. Reaches(nodes, input', f, Len(input'))
  BY <1>2, <1>7, <1>8, <1>9 DEF Reaches, ArgsTo, from, end
<1> QED
  BY <1>2, <1>3, <1>5, <1>10, GoesOn DEF Returned

LEMMA StatementSourced ==
  ASSUME Calm, Started, EndStmt, ret # NULL,
         Replaced(<<GoOnWith("stmts", Append(Top.kids, ret))>>)
  PROVE  Sourced'
<1> DEFINE kids == Append(Top.kids, ret)
           f == GoOnWith("stmts", kids)
<1>1. TypeInv /\ Top.pc = "stmt" /\ Top.pc \in Returned /\ tok = "SEMI" /\ Scan({})
  BY DEF Calm, EndStmt, Consume, At, Returned, Expected, Waiting
<1>2. /\ f \in FrameOf(Len(nodes)) /\ f.pc = "stmts" /\ f.kids = kids
      /\ f.first = Top.first
  BY <1>1, GoOnWithFields, TopFacts DEF Labels
<1>3. Replaced(<<f>>)
  OBVIOUS
<1> HIDE DEF f
<1>4. /\ Starts(nodes, input', Top, nodes[ret].first)
      /\ nodes[ret].last = Len(input) - 1 /\ Len(input) \in Nat
      /\ Top.kids \in Seq(0..Len(nodes)) /\ ret \in 0..Len(nodes)
      /\ Len(input) >= 1 /\ tok # "ERR" => TokIn(input', Len(input)) = tok
  BY <1>1, CalmKept, TopFacts
<1> DEFINE T == 0..Len(nodes)
           end == nodes[ret].last
<1>5. Own(nodes, input', f)
  BY <1>2, OwnNothing DEF BlockPc
<1>6. TiledIn(nodes, input', Top.kids, Top.first, nodes[ret].first, "SEMI", FALSE)
  BY <1>1, <1>4 DEF Starts, StmtsTo
<1>7. Top.kids \in Seq(T) /\ ret \in T /\ Len(input') = end + 2
      /\ TokIn(input', end + 1) = "SEMI"
  <2>1. Len(input') = Len(input) + 1 /\ Len(input) >= 1
    BY <1>1, ScanLen DEF Started
  <2>2. end + 1 = Len(input) /\ Len(input') = end + 2
    BY <1>4, <2>1
  <2> HIDE DEF end
  <2> QED
    BY <1>1, <1>4, <2>1, <2>2
<1> HIDE DEF T
<1>9. TiledIn(nodes, input', kids, Top.first, Len(input'), "SEMI", FALSE)
  BY <1>6, <1>7, TiledAppend
<1> HIDE DEF kids
<1>10. Reaches(nodes, input', f, Len(input'))
  BY <1>2, <1>9 DEF Reaches, StmtsTo
<1> QED
  BY <1>2, <1>3, <1>5, <1>10, GoesOn DEF Returned

LEMMA ElseSourced ==
  ASSUME Calm, IfElse, tok = "ELSE", Replaced(<<GoOn("else_open")>>)
  PROVE  Sourced'
<1> DEFINE f == GoOn("else_open")
           end == nodes[Top.kids[2]].last
<1>1. TypeInv /\ Top.pc = "else?" /\ Scan({})
  BY DEF Calm, IfElse, At
<1>2. /\ f \in FrameOf(Len(nodes)) /\ f.pc = "else_open" /\ f.kids = Top.kids
      /\ f.first = Top.first /\ f.left = Top.left
      /\ f.name = Top.name /\ f.params = Top.params
  BY <1>1, GoOnFields DEF Labels, Waiting
<1>3. Replaced(<<f>>)
  OBVIOUS
<1> HIDE DEF f
<1>4. /\ Own(nodes, input', Top) /\ Reaches(nodes, input', Top, Len(input))
      /\ Len(input) \in Nat /\ FrameComplete(Top)
      /\ Top.kids \in Seq(0..Len(nodes))
  BY CalmKept
<1>5. Own(nodes, input', f)
  BY <1>1, <1>2, <1>4, OwnLater DEF CallPc, DefPc, NamedPc, ListPc, IfPc, ThenPc, ElsePc
<1>6. end \in Nat
  <2>1. Len(Top.kids) = 2 /\ \A i \in 1..Len(Top.kids) : Top.kids[i] # NULL
    BY <1>1, <1>4 DEF FrameComplete
  <2>2. 2 \in 1..Len(Top.kids)
    BY <2>1
  <2>3. Top.kids[2] # NULL /\ Top.kids[2] \in 0..Len(nodes)
    BY <1>4, <2>1, <2>2
  <2>4. Top.kids[2] \in 1..Len(nodes)
    BY <2>3 DEF NULL
  <2> QED
    BY <1>1, <2>4, NodeFields
<1>7. Len(input) = end + 2
  BY <1>1, <1>4 DEF Reaches
<1>8. Len(input') = Len(input) + 1
  BY <1>1, ScanLen
<1>9. Len(input') = nodes[Top.kids[2]].last + 3
  <2> HIDE DEF end
  <2>1. Len(input') = end + 3
    BY <1>6, <1>7, <1>8
  <2> QED
    BY <2>1 DEF end
<1>10. Reaches(nodes, input', f, Len(input'))
  BY <1>2, <1>9 DEF Reaches
<1> QED
  BY <1>2, <1>3, <1>5, <1>10, GoesOn DEF Returned

(* block() is called for an else branch again, where it has nothing left.  *)
LEMMA AgainSourced ==
  ASSUME Calm, IfElseAgain, NEW f, f = [Top EXCEPT !.pc = "else_again", !.left = ret],
         Replaced(<<f, NewFrame("stmts", Len(input))>>)
  PROVE  Sourced'
<1> DEFINE g == NewFrame("stmts", Len(input))
           k == Len(nodes)
<1>1. /\ TypeInv /\ TypeInv' /\ Complete /\ Sourced /\ err = "unset"
      /\ status # "died" /\ [Next]_vars /\ UNCHANGED <<nodes, input, tok>>
      /\ Top.pc = "else" /\ Top.pc \in Returned /\ Top.pc \in BlockCaller
  BY DEF Calm, IfElseAgain, At, NoScan, Returned, BlockCaller
<1>2. /\ Own(nodes, input', Top) /\ Starts(nodes, input', Top, nodes[ret].first)
      /\ nodes[ret].last = Len(input) - 1 /\ Len(input) \in Nat
      /\ Top \in FrameOf(k) /\ k \in Nat /\ ret \in 0..k
  BY <1>1, CalmKept, TopFacts
<1>3. tok \in {"EOS", "RCURL"}
  BY <1>1 DEF Sourced, Answered
<1>4. /\ g \in FrameOf(k) /\ g.pc = "stmts" /\ g.first = Len(input)
      /\ g.pc \notin Returned /\ Own(nodes, input', g)
      /\ Reaches(nodes, input', g, Len(input))
  BY <1>2, BlockReaches
<1> HIDE DEF k, g
<1>5. /\ f \in FrameOf(k) /\ f.pc = "else_again" /\ f.left = ret
      /\ f.kids = Top.kids /\ f.first = Top.first
  BY <1>2 DEF FrameOf, Labels, Waiting
<1>6. Own(nodes, input', f)
  <2>1. /\ TokIn(input', Top.first) = "IF"
        /\ nodes[Top.kids[1]].first = Top.first + 2
        /\ nodes[Top.kids[2]].first = nodes[Top.kids[1]].last + 3
    BY <1>1, <1>2 DEF Own, IfPc, ThenPc, ElsePc
  <2>2. nodes[ret].first = nodes[Top.kids[2]].last + 4
    BY <1>1, <1>2 DEF Starts
  <2> QED
    BY <1>5, <2>1, <2>2 DEF Own, CallPc, DefPc, NamedPc, ListPc
<1> DEFINE fs == <<f, g>>
<1>7. /\ fs \in Seq(FrameOf(Len(nodes))) /\ Len(fs) = 2 /\ fs[1] = f /\ fs[2] = g
      /\ Replaced(fs)
  BY <1>4, <1>5 DEF k, g
<1>8. KeepsUpTo(nodes', nodes, Len(nodes)) /\ Len(nodes) \in Nat
      /\ \A i \in 1..(Len(stack) - 1) : stack[i] \in FrameOf(Len(nodes))
  BY <1>1, <1>2, StackSeq DEF KeepsUpTo, k
<1>9. Starts(nodes', input', f, g.first)
  BY <1>5 DEF Starts
<1> HIDE DEF fs
<1>10. FramesOwn' /\ Chained'
  <2>1. \A j \in 1..Len(fs) : Own(nodes', input', fs[j])
    <3> SUFFICES ASSUME NEW j \in {1, 2} PROVE Own(nodes', input', fs[j])
      BY <1>7
    <3> QED
      BY <1>1, <1>4, <1>6, <1>7
  <2>2. \A j \in 1..(Len(fs) - 1) : Starts(nodes', input', fs[j], fs[j + 1].first)
    <3> SUFFICES ASSUME NEW j \in {1}
                 PROVE  Starts(nodes', input', fs[j], fs[j + 1].first)
      BY <1>7
    <3> QED
      BY <1>7, <1>9
  <2> QED
    BY <1>1, <1>5, <1>7, <1>8, <2>1, <2>2, FramesMove
<1>11. Top' = g /\ Len(stack') = Len(stack) + 1 /\ Len(stack) \in Nat
  <2>1. Replaced(<<f, g>>)
    BY DEF g
  <2>2. Top' = g
    BY <1>1, <2>1, TopAfter
  <2>3. Len(stack) \in Nat /\ Len(stack') = Len(stack) - 1 + Len(fs)
    BY <1>1, <1>7, StackSeq DEF Replaced
  <2> QED
    BY <1>7, <2>2, <2>3
<1>12. AgainEmpty'
  <2> SUFFICES ASSUME NEW i \in 1..Len(stack'), stack'[i].pc = "else_again"
               PROVE  /\ i >= Len(stack') - 1
                      /\ i = Len(stack') - 1 => Top'.pc = "stmts"
                      /\ tok' \in {"EOS", "RCURL"}
                      /\ nodes'[stack'[i].left].last = Len(input') - 1
    BY DEF AgainEmpty
  <2>1. \/ i \in 1..(Len(stack) - 1) /\ stack'[i] = stack[i]
        \/ \E j \in 1..Len(fs) : i = Len(stack) - 1 + j /\ stack'[i] = fs[j]
    BY <1>1, <1>7, ReplacedFrames
  <2>2. CASE i \in 1..(Len(stack) - 1) /\ stack'[i] = stack[i]
    <3>1. i \in 1..Len(stack) /\ stack[i].pc = "else_again"
      BY <1>11, <2>2
    <3>2. i >= Len(stack) - 1 /\ (i = Len(stack) - 1 => Top.pc = "stmts")
      BY <1>1, <3>1 DEF Sourced, AgainEmpty
    <3>3. i = Len(stack) - 1
      BY <1>11, <2>2, <3>2
    <3> QED
      BY <1>1, <3>2, <3>3
  <2>3. CASE i = Len(stack) /\ stack'[i] = f
    <3>1. i = Len(stack') - 1
      BY <1>11, <2>3
    <3>2. Top'.pc = "stmts"
      BY <1>4, <1>11
    <3>3. nodes'[stack'[i].left].last = Len(input') - 1
      BY <1>1, <1>2, <1>5, <2>3
    <3> QED
      BY <1>1, <1>3, <1>11, <3>1, <3>2, <3>3
  <2>4. CASE stack'[i] = g
    BY <1>4, <2>4
  <2>5. \A j \in 1..Len(fs) : j = 1 \/ j = 2
    BY <1>7
  <2>6. Len(stack) - 1 + 1 = Len(stack)
    BY <1>11
  <2> QED
    BY <1>7, <2>1, <2>2, <2>3, <2>4, <2>5, <2>6
<1>13. Fresh' /\ NodesCover'
  BY <1>1 DEF Sourced, Fresh, NodesCover
<1>14. Answered' /\ Reached'
  BY <1>1, <1>4, <1>11 DEF Answered, Reached
<1> QED
  BY <1>10, <1>12, <1>13, <1>14 DEF Sourced

-----------------------------------------------------------------------------
(* Every step.                                                             *)

LEMMA LeavingSourced ==
  ASSUME TypeInv, TypeInv', Complete, CallGraph, Started, Sourced, err = "unset",
         status # "died", err' = "unset", [Next]_vars, Leaving
  PROVE  Sourced'
<1>1. ASSUME NEW msg \in ErrMsg, Fail(msg) PROVE FALSE
  BY <1>1 DEF Fail, ErrMsg
<1>2. /\ ~(NoPrefix /\ Fail("prefix")) /\ ~(LoopPastTable /\ Fail("infix"))
      /\ ~IfElseFails /\ ~NotAParam
  BY <1>1 DEF IfElseFails, NotAParam, ErrMsg
<1>3. ~(StoreArg /\ ret = NULL) /\ ~(ParamsEnd /\ Fail("toomany"))
  BY <1>1 DEF StoreArg, ErrMsg
<1>4. ~(EndStmt /\ ret = NULL)
  BY AllComplete DEF EndStmt, Consume, At, Returned
<1>5. \/ LoopEnds \/ BinOp \/ CloseCall \/ CloseParen \/ IfElseClose \/ DefClose
      \/ (IfElse /\ tok # "ELSE")
      \/ (NextStmt /\ tok \in {"EOS", "RCURL"})
  BY <1>2, <1>3, <1>4 DEF Leaving, Returning
<1> QED
  BY <1>5, LoopEndsSourced, BinOpSourced, CloseCallSourced, CloseParenSourced,
     IfElseCloseSourced, DefCloseSourced, IfElseSourced, BlockSourced

LEMMA ResumingSourced ==
  ASSUME TypeInv, TypeInv', Complete, CallGraph, Started, Sourced, err = "unset",
         status # "died", err' = "unset", [Next]_vars, Resuming
  PROVE  Sourced'
<1>1. ASSUME OptionalComma \/ IfCond \/ IfThen \/ DefOpen \/ NextParam PROVE Calm
  BY <1>1 DEF Calm, OptionalComma, IfCond, IfThen, DefOpen, NextParam, Consume, At
<1>2. CASE EnterLeaf /\ Replaced(<<GoOn("loop")>>)
  BY <1>2, LeafSourced
<1>3. CASE OptionalComma /\ Top.pc = "more_args" /\ Replaced(<<GoOn("args")>>)
  BY <1>1, <1>3, CommaSourced
<1>4. CASE IfCond /\ Replaced(<<GoOnWith("then_open", <<ret>>)>>)
  BY <1>1, <1>4, IfCondSourced
<1>5. CASE IfThen /\ Replaced(<<GoOnWith("else?", Append(Top.kids, ret))>>)
  BY <1>1, <1>5, IfThenSourced
<1>7. CASE OptionalComma /\ Top.pc = "more_params" /\ Replaced(<<GoOn("params")>>)
  BY <1>1, <1>7, NextParamSourced
<1>8. CASE DefOpen /\ Top.pc = "def" /\ Replaced(<<GoOnNamed>>)
  BY <1>1, <1>8, NamedSourced
<1>9. CASE DefOpen /\ Top.pc = "def_open" /\ Replaced(<<GoOn("params")>>)
  BY <1>1, <1>9, ListSourced
<1>10. CASE NextParam /\ Replaced(<<GoOnParam>>)
  BY <1>1, <1>10, ParamSourced
<1> QED
  BY <1>2, <1>3, <1>4, <1>5, <1>7, <1>8, <1>9, <1>10 DEF Resuming

LEMMA CallingSourced ==
  ASSUME TypeInv, TypeInv', Complete, CallGraph, Started, Begins, Sourced,
         err = "unset", status # "died", err' = "unset", [Next]_vars, Calling
  PROVE  Sourced'
<1>1. ASSUME \/ EnterPrefix \/ EnterParen \/ Infix \/ NextArg \/ IfOpen \/ IfThenOpen
             \/ IfElseOpen \/ IfElseAgain \/ DefBody \/ Program
      PROVE  Calm
  BY <1>1 DEF Calm, EnterPrefix, EnterParen, Infix, NextArg, IfOpen, IfThenOpen,
     IfElseOpen, IfElseAgain, DefBody, Program, Consume, At
<1>2. CASE EnterPrefix /\ \E pc \in {"if", "def"} :
             /\ pc = "if" <=> tok = "IF"
             /\ Replaced(<<GoOn("loop"), NewFrame(pc, Top.first)>>)
  BY <1>1, <1>2, PrefixSourced
<1>3. CASE EnterParen /\ Replaced(<<GoOn("loop"), NewFrame("paren", Top.first),
                                    Expression(0, Len(input) + 1)>>)
  BY <1>1, <1>3, ParenSourced
<1>4. CASE /\ Infix /\ tok \in BinOps
           /\ Replaced(<<Top, InfixFrame("right"),
                         Expression(lbp[tok], Len(input) + 1)>>)
  BY <1>1, <1>4, OperatorSourced
<1>5. CASE Infix /\ tok = "LPAREN" /\ Replaced(<<Top, InfixFrame("args")>>)
  BY <1>1, <1>5, CallSourced
<1>6. CASE NextArg /\ Replaced(<<GoOn("arg"), Expression(0, Len(input))>>)
  <2>1. Calm /\ NoScan /\ Top.pc = "args"
    BY <1>1, <1>6 DEF NextArg, At
  <2> QED
    BY <1>6, <2>1, NextSourced
<1>7. CASE IfOpen /\ Replaced(<<GoOn("cond"), Expression(0, Len(input) + 1)>>)
  <2>1. Calm /\ Scan({}) /\ Top.pc = "if"
    BY <1>1, <1>7 DEF IfOpen, Consume, At
  <2> QED
    BY <1>7, <2>1, OpensSourced
<1>8. CASE IfThenOpen /\ Replaced(<<GoOn("then"), NewFrame("stmts", Len(input) + 1)>>)
  <2>1. Calm /\ Scan({}) /\ Top.pc = "then_open"
    BY <1>1, <1>8 DEF IfThenOpen, Consume, At
  <2> QED
    BY <1>8, <2>1, OpensSourced
<1>9. CASE IfElseOpen /\ Replaced(<<GoOn("else"), NewFrame("stmts", Len(input) + 1)>>)
  <2>1. Calm /\ Scan({}) /\ Top.pc = "else_open"
    BY <1>1, <1>9 DEF IfElseOpen, Consume, At
  <2> QED
    BY <1>9, <2>1, OpensSourced
<1>10. CASE IfElseAgain /\ Replaced(<<[Top EXCEPT !.pc = "else_again", !.left = ret],
                                      NewFrame("stmts", Len(input))>>)
  BY <1>1, <1>10, AgainSourced
<1>11. CASE DefBody /\ Replaced(<<GoOn("body"), NewFrame("stmts", Len(input) + 1)>>)
  <2>1. Calm /\ Scan({}) /\ Top.pc = "body_open" /\ tok = "LCURL"
    BY <1>1, <1>11 DEF DefBody, Consume, At, Expected, Waiting
  <2> QED
    BY <1>11, <2>1, OpensSourced
<1>12. CASE Program /\ Replaced(<<GoOn("parsed"), NewFrame("stmts", 1)>>)
  BY <1>1, <1>12, ProgramSourced
<1> QED
  BY <1>2, <1>3, <1>4, <1>5, <1>6, <1>7, <1>8, <1>9, <1>10, <1>11, <1>12 DEF Calling

LEMMA StayingSourced ==
  ASSUME TypeInv, TypeInv', Complete, CallGraph, Started, Sourced, err = "unset",
         status # "died", err' = "unset", [Next]_vars, Staying
  PROVE  Sourced'
<1>1. CASE /\ StoreArg /\ ret # NULL
           /\ Replaced(<<GoOnWith("more_args", Append(Top.kids, ret))>>)
  <2>1. Calm
    BY <1>1 DEF Calm, StoreArg, At
  <2> QED
    BY <1>1, <2>1, StoreSourced
<1>2. CASE IfElse /\ tok = "ELSE" /\ Replaced(<<GoOn("else_open")>>)
  <2>1. Calm
    BY <1>2 DEF Calm, IfElse, At
  <2> QED
    BY <1>2, <2>1, ElseSourced
<1>3. CASE ParamsEnd /\ Scan({}) /\ UNCHANGED ret /\ Replaced(<<GoOn("body_open")>>)
  <2>1. Calm
    BY <1>3 DEF Calm, ParamsEnd, At
  <2> QED
    BY <1>3, <2>1, ListEndsSourced
<1>4. CASE /\ NextStmt /\ tok \notin {"EOS", "RCURL"}
           /\ Replaced(<<GoOn("stmt"), Expression(0, Len(input))>>)
  <2>1. Calm /\ NoScan /\ Top.pc = "stmts"
    BY <1>4 DEF Calm, NextStmt, At
  <2> QED
    BY <1>4, <2>1, NextSourced
<1>5. CASE /\ EndStmt /\ ret # NULL
           /\ Replaced(<<GoOnWith("stmts", Append(Top.kids, ret))>>)
  <2>1. Calm
    BY <1>5 DEF Calm, EndStmt, Consume, At
  <2> QED
    BY <1>5, <2>1, StatementSourced
<1> QED
  BY <1>1, <1>2, <1>3, <1>4, <1>5 DEF Staying

(* A character that ends the program leaves the AST and the stack alone.   *)
LEMMA DyingSourced ==
  ASSUME TypeInv, TypeInv', Complete, Sourced, err = "unset", status # "died",
         [Next]_vars, Dying
  PROVE  Sourced'
<1>1. /\ Top.pc \in {"expr", "loop"} /\ UNCHANGED <<stack, nodes>>
      /\ status' = "died"
  BY DEF Dying, NoPrefix, LoopPastTable, At
<1> DEFINE fs == <<Top>>
           T == FrameOf(Len(nodes))
<1>2. /\ Len(nodes) \in Nat /\ KeepsUpTo(nodes', nodes, Len(nodes))
      /\ Top \in T /\ Len(stack) \in Nat /\ Len(stack) >= 1
      /\ Top = stack[Len(stack)]
      /\ \A i \in 1..(Len(stack) - 1) : stack[i] \in T
  BY <1>1, TopFacts, StackSeq DEF KeepsUpTo
<1> HIDE DEF T
<1>3. fs \in Seq(T) /\ Len(fs) = 1 /\ fs[1] = Top /\ 1..(Len(fs) - 1) = {}
  BY <1>2
<1>4. Replaced(fs)
  <2>1. Len(stack') = Len(stack) - 1 + Len(fs)
    BY <1>1, <1>2, <1>3
  <2>2. \A j \in 1..Len(fs) : stack'[Len(stack) - 1 + j] = fs[j]
    <3>1. Len(stack) - 1 + 1 = Len(stack)
      BY <1>2
    <3> QED
      BY <1>1, <1>2, <1>3, <3>1
  <2> QED
    BY <1>1, <2>1, <2>2 DEF Replaced
<1>5. Own(nodes', input', Top)
  BY <1>2, TopKept
<1>6. \A j \in 1..Len(fs) : Own(nodes', input', fs[j]) /\ fs[j].pc # "else_again"
  <2>1. Top.pc # "else_again"
    BY <1>1
  <2>2. \A j \in 1..Len(fs) : fs[j] = Top
    BY <1>3
  <2> QED
    BY <1>5, <2>1, <2>2
<1>7. fs \in Seq(FrameOf(Len(nodes)))
      /\ \A i \in 1..(Len(stack) - 1) : stack[i] \in FrameOf(Len(nodes))
  BY <1>2, <1>3 DEF T
<1>8. fs[1].first = Top.first
      /\ \A j \in 1..(Len(fs) - 1) : Starts(nodes', input', fs[j], fs[j + 1].first)
  BY <1>3
<1> HIDE DEF fs
<1>9. FramesOwn' /\ Chained'
  BY <1>2, <1>4, <1>6, <1>7, <1>8, FramesMove
<1>10. AgainEmpty'
  <2>1. Top.pc # "stmts"
    BY <1>1
  <2> QED
    BY <1>4, <1>6, <1>7, <2>1, AgainMove
<1>11. Fresh'
  BY <1>1 DEF Sourced, Fresh
<1>12. NodesCover'
  <2>1. Len(nodes) \in 0..Len(nodes)
    BY <1>2
  <2>2. \A n \in 1..Len(nodes) : Covers(nodes', input', nodes'[n], n - 1)
    BY <1>2, <2>1, CoverMove
  <2> QED
    BY <1>1, <2>2 DEF NodesCover
<1> QED
  BY <1>1, <1>9, <1>10, <1>11, <1>12 DEF Sourced

(* A program that has ended stays as it is. *)
LEMMA DeadStays == ASSUME [Next]_vars, status = "died" PROVE UNCHANGED vars
  BY DEF Next, Step, Ended, At, Consume, vars,
     EnterLeaf, EnterPrefix, EnterParen, NoPrefix, Infix, LoopEnds,
     LoopPastTable, BinOp, NextArg, StoreArg, OptionalComma, CloseCall,
     CallDies, CloseParen, IfOpen, IfCond, IfThenOpen, IfThen, IfElse,
     IfElseOpen, IfElseAgain, IfElseFails, IfElseClose, DefOpen, NextParam,
     NotAParam, ParamsEnd, DefBody, DefClose, NextStmt, EndStmt, Program,
     Parse, ConsumeDies, Killed

LEMMA SourcedStep ==
  ASSUME TypeInv, TypeInv', Complete, CallGraph, Started, Begins, Sourced, [Next]_vars
  PROVE  Sourced'
<1> SUFFICES ASSUME err' = "unset" PROVE Sourced'
  BY DEF Sourced
<1>1. err = "unset"
  BY ErrStays
<1>2. CASE status = "died"
  <2>1. UNCHANGED vars
    BY <1>2, DeadStays
  <2>2. UNCHANGED <<tok, input, stack, nodes>> /\ Top' = Top /\ status' = "died"
    BY <1>2, <2>1 DEF vars, Top
  <2>3. Fresh' /\ NodesCover' /\ FramesOwn' /\ Chained' /\ AgainEmpty'
    BY <1>1, <2>2
       DEF Sourced, Fresh, NodesCover, FramesOwn, Chained, AgainEmpty
  <2> QED
    BY <2>2, <2>3 DEF Sourced
<1>3. CASE status # "died" /\ Stopping
  <2>1. UNCHANGED <<tok, input, stack, ret, nodes, err>>
    BY <1>3 DEF Stopping
  <2>2. Top' = Top
    BY <2>1 DEF Top
  <2>3. Fresh' /\ NodesCover' /\ FramesOwn' /\ Chained'
    BY <1>1, <2>1 DEF Sourced, Fresh, NodesCover, FramesOwn, Chained
  <2>4. Answered' /\ Reached' /\ AgainEmpty'
    BY <1>1, <1>3, <2>1, <2>2 DEF Sourced, Answered, Reached, AgainEmpty
  <2> QED
    BY <2>3, <2>4 DEF Sourced
<1>4. CASE status # "died" /\ ~Stopping
  <2>1. Leaving \/ Resuming \/ Calling \/ Staying \/ Dying
    BY <1>4, Steps
  <2> QED
    BY <1>1, <1>4, <2>1, LeavingSourced, ResumingSourced, CallingSourced,
       StayingSourced, DyingSourced
<1> QED
  BY <1>2, <1>3, <1>4

LEMMA SourcedInit == ASSUME Init PROVE Sourced /\ Accepted /\ CallGraph /\ Begins
<1> DEFINE f == NewFrame("program", 0)
<1>1. stack = <<f>> /\ nodes = <<>> /\ input = <<>> /\ tok = "ERR" /\ status = "running"
  BY DEF Init
<1>2. f.pc = "program"
  BY DEF NewFrame
<1> HIDE DEF f
<1>3. /\ Len(stack) = 1 /\ stack[1] = f /\ Top = f /\ Len(nodes) = 0
      /\ 1..(Len(stack) - 1) = {} /\ 1..Len(nodes) = {}
  BY <1>1 DEF Top
<1>4. \A i \in 1..Len(stack) : stack[i] = f
  BY <1>3
<1>5. Fresh /\ NodesCover /\ Chained
  BY <1>3 DEF Fresh, NodesCover, Chained
<1>6. FramesOwn
  BY <1>2, <1>4, OwnNothing DEF FramesOwn, Base
<1>7. Answered /\ Reached /\ AgainEmpty
  BY <1>2, <1>3, <1>4 DEF Answered, Reached, Reaches, AgainEmpty, Returned
<1>8. Accepted /\ CallGraph /\ Begins
  BY <1>1, <1>3 DEF Accepted, CallGraph, Begins
<1> QED
  BY <1>5, <1>6, <1>7, <1>8 DEF Sourced

(* Only parse() accepts. *)
LEMMA AcceptedStep == ASSUME TypeInv, Accepted, [Next]_vars PROVE Accepted'
<1>1. \A undef : Scan(undef) => status' \in {"died", status}
  BY DEF Scan
<1>2. \/ UNCHANGED vars
      \/ status = "running" /\ status' \in {"running", "died", "killed"}
      \/ Parse
  BY <1>1 DEF Next, Step, Ended, At, Consume, NoScan, EnterLeaf, EnterPrefix,
     EnterParen, NoPrefix, ScanThenFail, Infix, LoopEnds, LoopPastTable, BinOp, NextArg,
     StoreArg, OptionalComma, CloseCall, CallDies, CloseParen, IfOpen, IfCond,
     IfThenOpen, IfThen, IfElse, IfElseOpen, IfElseAgain, IfElseFails,
     IfElseClose, DefOpen, NextParam, NotAParam, ParamsEnd, DefBody, DefClose,
     NextStmt, EndStmt, Program, ConsumeDies, Killed
<1>3. CASE UNCHANGED vars
  BY <1>3 DEF vars, Accepted, Top
<1>4. CASE status' \in {"running", "died", "killed"}
  BY <1>4 DEF Accepted
<1>5. CASE Parse
  BY <1>5 DEF Parse, At, Accepted, Top
<1> QED
  BY <1>2, <1>3, <1>4, <1>5

Sources == /\ TypeInv /\ Started /\ Complete /\ Begins /\ CallGraph
           /\ Sourced /\ Accepted

LEMMA SourcesInvariant == Spec => []Sources
<1>1. Init => Sources
  BY InitType, InitComplete, SourcedInit DEF Sources
<1>2. Sources /\ [Next]_vars => Sources'
  <2> SUFFICES ASSUME Sources, [Next]_vars PROVE Sources'
    OBVIOUS
  <2>1. TypeInv' /\ Started'
    BY TypeStep, StartedStep DEF Sources
  <2>2. Complete' /\ Begins' /\ CallGraph' /\ Sourced' /\ Accepted'
    BY <2>1, CompleteStep, BeginsStep, CallsStep, SourcedStep, AcceptedStep
       DEF Sources
  <2> QED
    BY <2>1, <2>2 DEF Sources
<1> QED
  BY <1>1, <1>2, PTL DEF Spec

LEMMA TiledIsTiled ==
  ASSUME NEW h, NEW kids, NEW from, NEW to, NEW sep, NEW optional,
         TiledIn(h, input, kids, from, to, sep, optional)
  PROVE  Tiled(h, kids, from, to, sep, optional)
  BY DEF Tiled, TiledIn, Tok, TokIn

LEMMA CountBack ==
  ASSUME NEW last \in Nat, NEW name \in Nat, NEW paren \in Nat,
         name = last - paren, NEW i \in (name + 1)..last
  PROVE  (last - i) \in 0..(paren - 1) /\ i = last - (last - i)
  OBVIOUS

(* A variable is a name in parentheses. *)
LEMMA VarIsName ==
  ASSUME NEW y, y.type = "VAR", y.first \in Nat, y.last \in Nat, y.paren \in Nat,
         NEW h, NEW m, Covers(h, input, y, m)
  PROVE  IsName(y.name, y.first, y.last)
<1> DEFINE from == y.first + y.paren
           to == y.last - y.paren
<1>1. Parens(input, y) /\ Shape(h, input, y, m, from, to)
  BY DEF Covers
<1> HIDE DEF from, to
<1>2. from = to /\ TokIn(input, from) = "ID" /\ y.name = from
  BY <1>1 DEF Shape
<1>3. y.name \in Nat /\ y.name = y.first + y.paren /\ y.name = y.last - y.paren
      /\ Tok(y.name) = "ID"
  BY <1>2 DEF from, to, Tok, TokIn
<1>4. y.name - y.first = y.paren /\ y.last - y.name = y.paren
  BY <1>3
<1>5. ASSUME NEW i \in y.first..(y.name - 1) PROVE Tok(i) = "LPAREN"
  <2>1. PICK k : k = i - y.first
    OBVIOUS
  <2>2. k \in 0..(y.paren - 1) /\ i = y.first + k
    BY <1>3, <2>1
  <2> QED
    BY <1>1, <2>2 DEF Parens, Tok, TokIn
<1>6. ASSUME NEW i \in (y.name + 1)..y.last PROVE Tok(i) = "RPAREN"
  <2>1. PICK k : k = y.last - i
    OBVIOUS
  <2>2. k \in 0..(y.paren - 1) /\ i = y.last - k
    BY <1>3, <2>1, CountBack
  <2> QED
    BY <1>1, <2>2 DEF Parens, Tok, TokIn
<1> QED
  BY <1>3, <1>4, <1>5, <1>6 DEF IsName

(* Node c is what node n calls. *)
LEMMA CalleeSpans ==
  ASSUME TypeInv, NodesCover, NEW n \in 1..Len(nodes), NEW c \in 1..(n - 1),
         nodes[n].name = NameOf(nodes[c])
  PROVE  CalleeLost(n) \/ IsName(nodes[n].name, nodes[c].first, nodes[c].last)
<1> DEFINE y == nodes[c]
<1>1. c \in 1..Len(nodes)
  BY TopFacts
<1>2. y.first \in Nat /\ y.last \in Nat /\ y.paren \in Nat
      /\ Covers(nodes, input, y, c - 1)
  BY <1>1, NodeFields DEF NodesCover
<1>3. CASE y.type = "VAR"
  <2>1. nodes[n].name = y.name
    BY <1>3 DEF NameOf
  <2> HIDE DEF y
  <2>2. IsName(y.name, y.first, y.last)
    BY <1>2, <1>3, VarIsName
  <2> QED
    BY <2>1, <2>2 DEF y
<1>4. CASE y.type = "CALL"
  BY <1>4 DEF NameOf, CalleeLost
<1>5. CASE y.type \notin {"VAR", "CALL"}
  BY <1>5 DEF NameOf, CalleeLost
<1> QED
  BY <1>3, <1>4, <1>5

LEMMA CoversSpans ==
  ASSUME TypeInv, NodesCover, NEW n \in 1..Len(nodes)
  PROVE  Spans(n)
<1> DEFINE x == nodes[n]
           from == x.first + x.paren
           to == x.last - x.paren
<1>0. x.type \in NodeType /\ x.first \in Nat /\ x.paren \in Nat /\ from \in Nat
  BY NodeFields
<1>1. Parens(input, x) /\ Shape(nodes, input, x, n - 1, from, to)
  BY DEF NodesCover, Covers
<1>2. \A i \in 0..(x.paren - 1) :
        Tok(x.first + i) = "LPAREN" /\ Tok(x.last - i) = "RPAREN"
  BY <1>1 DEF Parens, Tok, TokIn
<1> HIDE DEF from, to
<1>3. CASE x.type \in {"DBL", "VAR"}
  <2>1. /\ from = to /\ Tok(from) = IF x.type = "DBL" THEN "DBL" ELSE "ID"
        /\ x.type = "VAR" => x.name = from
    BY <1>1, <1>3 DEF Shape, Tok, TokIn
  <2> QED
    BY <1>2, <1>3, <2>1 DEF Spans, from, to
<1>4. CASE x.type = "BIN"
  <2>1. /\ First(x.kids[1]) = from
        /\ Tok(Last(x.kids[1]) + 1) = x.op
        /\ First(x.kids[2]) = Last(x.kids[1]) + 2
        /\ Last(x.kids[2]) = to
    BY <1>1, <1>4 DEF Shape, Tok, TokIn, First, Last
  <2> QED
    BY <1>2, <1>4, <2>1 DEF Spans, from, to
<1>5. CASE x.type = "CALL"
  <2>1. PICK c \in 1..(n - 1) :
          /\ nodes[c].first = from /\ from <= nodes[c].last
          /\ x.name = NameOf(nodes[c])
          /\ TokIn(input, nodes[c].last + 1) = "LPAREN"
          /\ TokIn(input, to) = "RPAREN"
          /\ TiledIn(nodes, input, x.kids, nodes[c].last + 2, to, "COMMA", TRUE)
    BY <1>1, <1>5 DEF Shape
  <2>2. PICK end : end = nodes[c].last
    OBVIOUS
  <2>3. end \in Nat
    <3>1. c \in 1..Len(nodes)
      BY TopFacts
    <3> QED
      BY <2>2, <3>1, NodeFields
  <2>4. CalleeLost(n) \/ IsName(x.name, from, end)
    BY <2>1, <2>2, CalleeSpans
  <2>5. PICK open : open = end + 1
    OBVIOUS
  <2>6. Tok(open) = "LPAREN" /\ open \in 1..Len(input) /\ Len(input) \in Nat
    BY <2>1, <2>2, <2>5, TopFacts DEF Tok, TokIn
  <2>7. open \in (from + 1)..Len(input) /\ open - 1 = end /\ open + 1 = end + 2
    BY <1>0, <2>1, <2>2, <2>3, <2>5, <2>6
  <2>8. Tiled(nodes, x.kids, open + 1, to, "COMMA", TRUE)
    BY <2>1, <2>2, <2>7, TiledIsTiled
  <2>9. Tok(to) = "RPAREN"
    BY <2>1 DEF Tok, TokIn
  <2>10. CalleeLost(n) \/ IsName(x.name, from, open - 1)
    BY <2>4, <2>7
  <2>11. \E o \in (from + 1)..Len(input) :
           /\ CalleeLost(n) \/ IsName(x.name, from, o - 1)
           /\ Tok(o) = "LPAREN"
           /\ Tok(to) = "RPAREN"
           /\ Tiled(nodes, x.kids, o + 1, to, "COMMA", TRUE)
    BY <2>6, <2>7, <2>8, <2>9, <2>10
  <2> QED
    BY <1>2, <1>5, <2>11 DEF Spans, from, to
<1>6. CASE x.type = "IF"
  <2>1. /\ Tok(from) = "IF"
        /\ First(x.kids[1]) = from + 2
        /\ First(x.kids[2]) = Last(x.kids[1]) + 3
        /\ IF x.kids[3] = NULL
             THEN to = Last(x.kids[2]) + 1
             ELSE /\ First(x.kids[3]) = Last(x.kids[2]) + 4
                  /\ to = Last(x.kids[3]) + 1
    BY <1>1, <1>6 DEF Shape, Tok, TokIn, First, Last
  <2> QED
    BY <1>2, <1>6, <2>1 DEF Spans, from, to
<1>7. CASE x.type = "FUNCDEF"
  <2> DEFINE close == First(x.kids[1]) - 2
  <2>1. Heads(input, from, x.name, x.params, close) /\ to = Last(x.kids[1]) + 1
    BY <1>1, <1>7 DEF Shape, First, Last
  <2> HIDE DEF close
  <2>2. /\ Tok(from) = "DEF"
        /\ x.name = from + 1 /\ Tok(from + 1) = "ID"
        /\ Tok(from + 2) = "LPAREN"
        /\ \A i \in 1..Len(x.params) : Tok(x.params[i]) = "ID"
        /\ TiledIn(Place, input, x.params, from + 3, close, "COMMA", TRUE)
        /\ Tok(close) = "RPAREN" /\ Tok(close + 1) = "LCURL"
    BY <2>1 DEF Heads, Named, Listed, ParamsTo, Tok, TokIn
  <2>3. Tiled(Place, x.params, from + 3, close, "COMMA", TRUE)
    BY <2>2, TiledIsTiled
  <2> QED
    BY <1>2, <1>7, <2>1, <2>2, <2>3 DEF Spans, from, to, close
<1>8. CASE x.type = "BLOCK"
  <2>1. Tiled(nodes, x.kids, from, to + 1, "SEMI", FALSE)
    BY <1>1, <1>8, TiledIsTiled DEF Shape
  <2> QED
    BY <1>2, <1>8, <2>1 DEF Spans, from, to
<1> QED
  BY <1>0, <1>3, <1>4, <1>5, <1>6, <1>7, <1>8 DEF NodeType

(* While no error is on record every node stands for one interval of the   *)
(* tokens read, which its names, its kids and its own tokens tile in the   *)
(* order of the source, and the tree parse() returns stands for all tokens *)
(* before the one it stopped at.  parse.c duplicates and moves nothing,    *)
(* and all it drops is what a call calls where that is no plain name: of   *)
(* f(a)(b) the call f(a), whose name the outer one takes, of (a + b)(c)    *)
(* the sum.                                                                *)
THEOREM SourceIsKept == Spec => []SourceOrder
<1>1. Sources => SourceOrder
  <2> SUFFICES ASSUME Sources, err = "unset"
               PROVE  /\ \A n \in 1..Len(nodes) : Spans(n)
                      /\ status = "accepted" =>
                           First(ret) = 1 /\ Last(ret) = Len(input) - 1
    BY DEF SourceOrder
  <2>1. ASSUME NEW n \in 1..Len(nodes) PROVE Spans(n)
    <3>1. TypeInv /\ NodesCover
      BY DEF Sources, Sourced
    <3> QED
      BY <3>1, CoversSpans
  <2>2. ASSUME status = "accepted"
        PROVE  First(ret) = 1 /\ Last(ret) = Len(input) - 1
    <3>1. Top.pc = "parsed" /\ Top.pc \in Returned /\ status # "died"
      BY <2>2 DEF Sources, Accepted, Returned
    <3>2. Starts(nodes, input, Top, nodes[ret].first) /\ nodes[ret].last = Len(input) - 1
      BY <3>1 DEF Sources, Sourced, Answered
    <3> QED
      BY <3>1, <3>2 DEF Starts, First, Last
  <2> QED
    BY <2>1, <2>2
<1> QED
  BY <1>1, SourcesInvariant, PTL

-----------------------------------------------------------------------------
(* Brackets.  What Opened computes for a text u.                           *)

Bracket == {"LPAREN", "LCURL"}

OpenedIn(u) ==
  LET open[i \in 0..Len(u)] ==
        IF i = 0 THEN <<>>
        ELSE LET before == open[i - 1]
             IN IF u[i] \in DOMAIN Closer THEN Append(before, u[i])
                ELSE IF before = <<>> \/ u[i] # Closer[before[Len(before)]] THEN before
                ELSE SubSeq(before, 1, Len(before) - 1)
  IN open

(* The brackets open behind token t, if those before it are open. *)
Behind(before, t) ==
  IF t \in Bracket THEN Append(before, t)
  ELSE IF before = <<>> \/ t # Closer[before[Len(before)]] THEN before
  ELSE SubSeq(before, 1, Len(before) - 1)

LEMMA Closers ==
  /\ DOMAIN Closer = Bracket
  /\ Closer["LPAREN"] = "RPAREN" /\ Closer["LCURL"] = "RCURL"
  BY DEF Closer, Bracket

LEMMA BehindType ==
  ASSUME NEW before \in Seq(Bracket), NEW t
  PROVE  Behind(before, t) \in Seq(Bracket)
<1>1. CASE t \in Bracket
  BY <1>1 DEF Behind
<1>2. CASE t \notin Bracket /\ (before = <<>> \/ t # Closer[before[Len(before)]])
  BY <1>2 DEF Behind
<1>3. CASE t \notin Bracket /\ before # <<>> /\ t = Closer[before[Len(before)]]
  <2>1. Behind(before, t) = SubSeq(before, 1, Len(before) - 1)
    BY <1>3 DEF Behind
  <2>2. SubSeq(before, 1, Len(before) - 1) \in Seq(Bracket)
    BY SubSeqProperties
  <2> QED
    BY <2>1, <2>2
<1> QED
  BY <1>1, <1>2, <1>3

IsOpened(o, u) ==
  /\ o \in [0..Len(u) -> Seq(Bracket)] /\ o[0] = <<>>
  /\ \A i \in 1..Len(u) : o[i] = Behind(o[i - 1], u[i])

LEMMA OpenedIs ==
  ASSUME NEW u \in Seq(TokType)
  PROVE  IsOpened(OpenedIn(u), u)
<1> DEFINE n == Len(u)
           V == Seq(Bracket)
           v == <<>>
           step == [i \in Nat |-> [x \in V |-> Behind(x, u[i])]]
           Def(f) == [i \in 0..n |-> IF i = 0 THEN v ELSE Behind(f[i - 1], u[i])]
<1>1. n \in Nat /\ v \in V
  BY EmptySeq
<1>2. Keeps(step, V)
  BY BehindType DEF Keeps
<1>3. PICK f \in [0..n -> V] : f[0] = v /\ \A i \in 1..n : f[i] = step[i][f[i - 1]]
  <2>1. Runs(v, step, V, n) # {}
    <3> HIDE DEF v, step, V, n
    <3> QED
      BY <1>1, <1>2, Recursion
  <2> HIDE DEF v, step, V, n
  <2> QED
    BY <2>1 DEF Runs
<1>4. \A i \in 1..n : f[i] = Behind(f[i - 1], u[i])
  <2> TAKE i \in 1..n
  <2>1. i - 1 \in 0..n /\ i \in Nat
    BY <1>1
  <2>2. f[i - 1] \in V
    BY <2>1
  <2>3. f[i] = step[i][f[i - 1]]
    BY <1>3
  <2> HIDE DEF V
  <2> QED
    BY <2>1, <2>2, <2>3
<1>5. f = Def(f)
  <2>1. ASSUME NEW i \in 0..n PROVE f[i] = Def(f)[i]
    <3>1. CASE i = 0
      BY <1>3, <3>1
    <3>2. CASE i # 0
      <4>1. i \in 1..n
        BY <3>2
      <4> QED
        BY <1>4, <3>2, <4>1
    <3> QED
      BY <3>1, <3>2
  <2> HIDE DEF V
  <2> QED
    BY <2>1
<1>6. OpenedIn(u) = Def(OpenedIn(u))
  <2>1. OpenedIn(u) = CHOOSE g : g = Def(g)
    BY Closers DEF OpenedIn, Behind
  <2> HIDE DEF Def
  <2> QED
    BY <1>5, <2>1
<1>7. PICK o : o = OpenedIn(u)
  OBVIOUS
<1>8. o = Def(o)
  BY <1>6, <1>7
<1>9. o[0] = v /\ \A i \in 1..n : o[i] = Behind(o[i - 1], u[i])
  BY <1>8
<1>10. o \in [0..n -> V]
  <2> DEFINE G == {i \in Nat : i <= n => o[i] \in V}
  <2>1. 0 \in G
    BY <1>1, <1>9
  <2>2. ASSUME NEW i \in Nat, i \in G PROVE i + 1 \in G
    <3> SUFFICES ASSUME i + 1 <= n PROVE o[i + 1] \in V
      OBVIOUS
    <3>1. i + 1 \in 1..n /\ (i + 1) - 1 = i /\ o[i] \in V
      BY <1>1, <2>2
    <3>2. o[i + 1] = Behind(o[i], u[i + 1])
      BY <1>9, <3>1
    <3> QED
      BY <3>1, <3>2, BehindType
  <2>3. Nat \subseteq G
    <3> HIDE DEF G
    <3> QED
      BY <2>1, <2>2, Induction
  <2>4. \A i \in 0..n : o[i] \in V
    BY <1>1, <2>3
  <2> QED
    BY <1>8, <2>4
<1>11. IsOpened(o, u)
  BY <1>9, <1>10 DEF IsOpened
<1> QED
  BY <1>7, <1>11

(* What is read does not change what is open before it. *)
LEMMA OpenedKept ==
  ASSUME NEW u \in Seq(TokType), NEW c \in TokType, NEW w, w = Append(u, c)
  PROVE  /\ \A i \in 0..Len(u) : OpenedIn(w)[i] = OpenedIn(u)[i]
         /\ w \in Seq(TokType) /\ Len(w) = Len(u) + 1
         /\ \A i \in 1..Len(u) : w[i] = u[i]
<1>1. /\ w \in Seq(TokType) /\ Len(w) = Len(u) + 1 /\ Len(u) \in Nat
      /\ \A i \in 1..Len(u) : w[i] = u[i]
  OBVIOUS
<1>2. PICK o, p, n : o = OpenedIn(u) /\ p = OpenedIn(w) /\ n = Len(u)
  OBVIOUS
<1>3. /\ o[0] = <<>> /\ p[0] = <<>>
      /\ \A i \in 1..n : o[i] = Behind(o[i - 1], u[i]) /\ p[i] = Behind(p[i - 1], w[i])
  <2>1. IsOpened(o, u) /\ IsOpened(p, w)
    BY <1>1, <1>2, OpenedIs
  <2>2. \A i \in 1..n : i \in 1..Len(u) /\ i \in 1..Len(w)
    BY <1>1, <1>2
  <2> QED
    BY <2>1, <2>2 DEF IsOpened
<1> DEFINE G == {i \in Nat : i <= n => p[i] = o[i]}
<1>4. 0 \in G
  BY <1>3
<1>5. ASSUME NEW i \in Nat, i \in G PROVE i + 1 \in G
  <2> SUFFICES ASSUME i + 1 <= n PROVE p[i + 1] = o[i + 1]
    OBVIOUS
  <2>1. i + 1 \in 1..n /\ (i + 1) - 1 = i /\ p[i] = o[i]
    BY <1>1, <1>2, <1>5
  <2> QED
    BY <1>1, <1>2, <1>3, <2>1
<1>6. Nat \subseteq G
  <2> HIDE DEF G
  <2> QED
    BY <1>4, <1>5, Induction
<1>7. \A i \in 0..n : p[i] = o[i]
  BY <1>1, <1>2, <1>6
<1> QED
  BY <1>1, <1>2, <1>7

(* What is open in a frame's own construct, by where it resumes. *)
InParens == {"cond", "args", "arg", "more_args", "paren", "params", "more_params"}
InBraces == {"then", "else", "else_again", "body"}
BracketOf(pc) == IF pc \in InParens THEN <<"LPAREN">>
                 ELSE IF pc \in InBraces THEN <<"LCURL">> ELSE <<>>

(* b[i]: the brackets open in the frames up to i; o: those in all.         *)
IsNesting(b, s, o) ==
  /\ b \in [0..Len(s) -> Seq(Bracket)]
  /\ b[0] = <<>> /\ b[Len(s)] = o
  /\ \A i \in 1..Len(s) : b[i] = b[i - 1] \o BracketOf(s[i].pc)

(* Token i of u closes the bracket opened last, if it is one that closes.  *)
Closes(u, i) ==
  u[i] \in {"RPAREN", "RCURL", "EOS"} =>
    LET before == OpenedIn(u)[i - 1]
    IN before # <<>> /\ u[i] = Closer[before[Len(before)]]

(* While no error is on record the frames know what is open before the     *)
(* lookahead, and whatever closed something closed what was opened last.   *)
(* A scan that ends the program leaves its frame as it was.                *)
Bracketed ==
  err = "unset" /\ status # "died" /\ input # <<>> =>
    /\ \E b : IsNesting(b, stack, OpenedIn(input)[Len(input) - 1])
    /\ \A i \in 1..(Len(input) - 1) : Closes(input, i)

LEMMA BracketOfType == \A pc : BracketOf(pc) \in Seq(Bracket)
<1>1. "LPAREN" \in Bracket /\ "LCURL" \in Bracket
  BY DEF Bracket
<1>2. <<>> \in Seq(Bracket) /\ <<"LPAREN">> \in Seq(Bracket) /\ <<"LCURL">> \in Seq(Bracket)
  BY <1>1
<1> QED
  BY <1>2, Zenon DEF BracketOf

(* The top frame makes place for fs, of which at most one, number m, has   *)
(* opened something: t.                                                    *)
Opens(fs, m, t) ==
  /\ m \in 1..Len(fs) \/ t = <<>>
  /\ \A j \in 1..Len(fs) : BracketOf(fs[j].pc) = IF j = m THEN t ELSE <<>>

LEMMA NestingMoves ==
  ASSUME TypeInv, NEW b, NEW o, IsNesting(b, stack, o),
         NEW fs, Len(fs) \in Nat, Replaced(fs), NEW m \in Nat, NEW t \in Seq(Bracket),
         Opens(fs, m, t)
  PROVE  /\ \E c : IsNesting(c, stack', b[Len(stack) - 1] \o t)
         /\ o = b[Len(stack) - 1] \o BracketOf(Top.pc)
         /\ b[Len(stack) - 1] \in Seq(Bracket)
<1>1. PICK n, k : n = Len(stack) - 1 /\ k = Len(fs)
  OBVIOUS
<1>2. /\ n \in Nat /\ k \in Nat /\ Len(stack) = n + 1 /\ Len(stack') = n + k
      /\ Top = stack[n + 1]
      /\ \A i \in 1..n : stack'[i] = stack[i]
      /\ \A j \in 1..k : stack'[n + j] = fs[j]
  BY <1>1, StackSeq DEF Replaced
<1>3. /\ b \in [0..(n + 1) -> Seq(Bracket)] /\ b[0] = <<>> /\ b[n + 1] = o
      /\ \A i \in 1..(n + 1) : b[i] = b[i - 1] \o BracketOf(stack[i].pc)
  BY <1>2 DEF IsNesting
<1>4. PICK base : base = b[n]
  OBVIOUS
<1>5. base \in Seq(Bracket) /\ o = base \o BracketOf(Top.pc)
  <2>1. n \in 0..(n + 1) /\ n + 1 \in 1..(n + 1) /\ (n + 1) - 1 = n
    BY <1>2
  <2> QED
    BY <1>2, <1>3, <1>4, <2>1
<1>6. PICK all : all = base \o t
  OBVIOUS
<1>7. all \in Seq(Bracket)
  BY <1>5, <1>6
<1>8. PICK c : c = [i \in 0..(n + k) |->
                      IF i <= n THEN b[i] ELSE IF i < n + m THEN base ELSE all]
  OBVIOUS
<1>9. c \in [0..(n + k) -> Seq(Bracket)]
  <2>1. \A i \in 0..(n + k) : i <= n => b[i] \in Seq(Bracket)
    BY <1>2, <1>3
  <2> QED
    BY <1>5, <1>7, <1>8, <2>1
<1>10. /\ \A i \in 0..n : c[i] = b[i]
       /\ \A j \in 1..k : c[n + j] = IF j < m THEN base ELSE all
  BY <1>2, <1>8
<1>11. c[0] = <<>>
  BY <1>2, <1>3, <1>10
<1>12. m \in 1..k \/ t = <<>>
  BY <1>1 DEF Opens
<1>13. t = <<>> => all = base
  BY <1>5, <1>6, ConcatEmptySeq
<1>14. c[n + k] = all
  <2>1. CASE k = 0
    <3>1. n + k = n /\ n \in 0..n /\ t = <<>>
      BY <1>2, <1>12, <2>1
    <3> QED
      BY <1>4, <1>10, <1>13, <3>1
  <2>2. CASE k # 0
    <3>1. k \in 1..k
      BY <1>2, <2>2
    <3>2. c[n + k] = IF k < m THEN base ELSE all
      BY <1>10, <3>1
    <3>3. m \in 1..k => ~ (k < m)
      BY <1>2
    <3> QED
      BY <1>12, <1>13, <3>2, <3>3
  <2> QED
    BY <2>1, <2>2
<1>15. ASSUME NEW i \in 1..n PROVE c[i] = c[i - 1] \o BracketOf(stack'[i].pc)
  <2>1. i \in 0..n /\ i - 1 \in 0..n /\ i \in 1..(n + 1)
    BY <1>2
  <2> QED
    BY <1>2, <1>3, <1>10, <2>1
<1>16. ASSUME NEW j \in 1..k PROVE c[n + j] = c[n + j - 1] \o BracketOf(stack'[n + j].pc)
  <2>1. PICK x, y : x = c[n + j - 1] /\ y = c[n + j]
    OBVIOUS
  <2>2. y = IF j < m THEN base ELSE all
    BY <1>10, <2>1
  <2>3. x = IF j = 1 THEN base ELSE IF j - 1 < m THEN base ELSE all
    <3>1. CASE j = 1
      <4>1. n + j - 1 = n /\ n \in 0..n
        BY <1>2, <3>1
      <4> QED
        BY <1>4, <1>10, <2>1, <3>1, <4>1
    <3>2. CASE j # 1
      <4>1. j - 1 \in 1..k /\ n + j - 1 = n + (j - 1)
        BY <1>2, <3>2
      <4> QED
        BY <1>10, <2>1, <3>2, <4>1
    <3> QED
      BY <3>1, <3>2
  <2>4. BracketOf(stack'[n + j].pc) = IF j = m THEN t ELSE <<>>
    BY <1>1, <1>2 DEF Opens
  <2>5. y = x \o (IF j = m THEN t ELSE <<>>)
    <3>1. base \o <<>> = base /\ all \o <<>> = all
      BY <1>5, <1>7, ConcatEmptySeq
    <3>2. CASE j = m
      <4>1. x = base /\ y = all
        BY <1>2, <2>2, <2>3, <3>2
      <4> QED
        BY <1>6, <3>2, <4>1
    <3>3. CASE j # m /\ j < m
      <4>1. x = base /\ y = base
        BY <1>2, <2>2, <2>3, <3>3
      <4> QED
        BY <3>1, <3>3, <4>1
    <3>4. CASE j # m /\ ~ (j < m)
      <4>1. y = all /\ (x = all \/ (x = base /\ m \notin 1..k))
        BY <1>2, <2>2, <2>3, <3>4
      <4>2. x = y
        BY <1>12, <1>13, <4>1
      <4> QED
        BY <3>1, <3>4, <4>1, <4>2
    <3> QED
      BY <3>2, <3>3, <3>4
  <2> QED
    BY <2>1, <2>4, <2>5
<1>17. \A i \in 1..(n + k) : c[i] = c[i - 1] \o BracketOf(stack'[i].pc)
  <2> TAKE i \in 1..(n + k)
  <2>1. CASE i \in 1..n
    BY <1>15, <2>1
  <2>2. CASE i \notin 1..n
    <3>1. PICK j : j = i - n
      OBVIOUS
    <3>2. j \in 1..k /\ i = n + j
      BY <1>2, <2>2, <3>1
    <3>3. PICK before, more : before = c[i - 1] /\ more = BracketOf(stack'[i].pc)
      OBVIOUS
    <3>4. c[n + j] = before \o more
      <4>1. before = c[n + j - 1] /\ more = BracketOf(stack'[n + j].pc)
        BY <1>2, <3>2, <3>3
      <4> QED
        BY <1>16, <3>2, <4>1
    <3> QED
      BY <3>2, <3>3, <3>4
  <2> QED
    BY <2>1, <2>2
<1>18. IsNesting(c, stack', all)
  BY <1>2, <1>9, <1>11, <1>14, <1>17 DEF IsNesting
<1> QED
  BY <1>1, <1>4, <1>5, <1>6, <1>18


(* What reading token t does to the brackets open in the top frame.        *)
Effect(from, t, to) ==
  \/ from = to /\ t \notin {"LPAREN", "LCURL", "RPAREN", "RCURL", "EOS"}
  \/ t \in Bracket /\ from = <<>> /\ to = <<t>>
  \/ \E x \in Bracket : from = <<x>> /\ t = Closer[x] /\ to = <<>>

(* Reading t makes of the brackets open before it those open behind it.    *)
Reads(before, t, behind) ==
  /\ Behind(before, t) = behind
  /\ t \in {"RPAREN", "RCURL", "EOS"} =>
       before # <<>> /\ t = Closer[before[Len(before)]]

LEMMA EffectBehind ==
  ASSUME NEW base \in Seq(Bracket), NEW from \in Seq(Bracket), NEW to, NEW t,
         Effect(from, t, to), NEW before, before = base \o from
  PROVE  Reads(before, t, base \o to)
<1>1. before \in Seq(Bracket)
  OBVIOUS
<1>2. before # <<>> => Closer[before[Len(before)]] \in {"RPAREN", "RCURL"}
  <2>1. before # <<>> => before[Len(before)] \in Bracket
    BY <1>1
  <2> QED
    BY <2>1, Closers DEF Bracket
<1>3. CASE from = to /\ t \notin {"LPAREN", "LCURL", "RPAREN", "RCURL", "EOS"}
  <2>1. t \notin Bracket /\ (before = <<>> \/ t # Closer[before[Len(before)]])
    BY <1>2, <1>3 DEF Bracket
  <2> QED
    BY <1>3, <2>1 DEF Behind, Reads
<1>4. CASE t \in Bracket /\ from = <<>> /\ to = <<t>>
  <2>1. before = base
    BY <1>4, ConcatEmptySeq
  <2>2. Append(base, t) = base \o <<t>>
    BY <1>4, AppendIsConcat
  <2>3. t \notin {"RPAREN", "RCURL", "EOS"}
    BY <1>4 DEF Bracket
  <2> QED
    BY <1>4, <2>1, <2>2, <2>3 DEF Behind, Reads
<1>5. ASSUME NEW x \in Bracket, from = <<x>>, t = Closer[x], to = <<>>
      PROVE  Reads(before, t, base \o to)
  <2>1. before = Append(base, x)
    BY <1>5, AppendIsConcat
  <2>2. /\ Len(before) = Len(base) + 1 /\ before[Len(before)] = x /\ before # <<>>
        /\ \A i \in 1..Len(base) : before[i] = base[i]
    BY <2>1
  <2>3. t \notin Bracket
    BY <1>5, Closers DEF Bracket
  <2>4. Behind(before, t) = SubSeq(before, 1, Len(before) - 1)
    BY <1>5, <2>2, <2>3 DEF Behind
  <2>5. SubSeq(before, 1, Len(before) - 1) = base
    <3>1. PICK n, s : n = Len(base) /\ s = SubSeq(before, 1, Len(before) - 1)
      OBVIOUS
    <3>2. n \in Nat /\ Len(before) - 1 = n
      BY <2>2, <3>1
    <3>3. s = SubSeq(before, 1, n)
      BY <3>1, <3>2
    <3>4. /\ s \in Seq(Bracket) /\ Len(s) = n /\ \A i \in 1..n : s[i] = before[i]
      BY <1>1, <2>2, <3>1, <3>2, <3>3, SubSeqProperties
    <3>5. \A i \in 1..n : s[i] = base[i]
      BY <2>2, <3>1, <3>4
    <3> QED
      BY <3>1, <3>4, <3>5, SeqEqual
  <2>6. base \o to = base
    BY <1>5, ConcatEmptySeq
  <2> QED
    BY <1>5, <2>2, <2>4, <2>5, <2>6 DEF Reads
<1> QED
  BY <1>3, <1>4, <1>5 DEF Effect

Quiet == TypeInv /\ Bracketed /\ err = "unset" /\ status # "died" /\ input # <<>>

(* The brackets open in the top frame become t. *)
Change(t) ==
  \/ input' = input /\ BracketOf(Top.pc) = t
  \/ (\E undef : Scan(undef)) /\ Effect(BracketOf(Top.pc), tok, t)

LEMMA BracketMove ==
  ASSUME Quiet, NEW fs, Len(fs) \in Nat, Replaced(fs), NEW m \in Nat, NEW t \in Seq(Bracket),
         Opens(fs, m, t), Change(t)
  PROVE  Bracketed'
<1>1. PICK n, o : n = Len(input) /\ o = OpenedIn(input)[Len(input) - 1]
  OBVIOUS
<1>2. TypeInv /\ input \in Seq(TokType) /\ n \in Nat /\ n >= 1 /\ tok = input[n]
  BY <1>1 DEF Quiet, TypeInv, TokInv
<1>3. PICK b : IsNesting(b, stack, o)
  BY <1>1 DEF Quiet, Bracketed
<1>4. \A i \in 1..(n - 1) : Closes(input, i)
  BY <1>1 DEF Quiet, Bracketed
<1>5. PICK base : base = b[Len(stack) - 1]
  OBVIOUS
<1>6. /\ \E c : IsNesting(c, stack', base \o t)
      /\ o = base \o BracketOf(Top.pc) /\ base \in Seq(Bracket)
  BY <1>2, <1>3, <1>5, NestingMoves
<1>7. CASE input' = input /\ BracketOf(Top.pc) = t
  <2>1. \E c : IsNesting(c, stack', o)
    BY <1>6, <1>7
  <2>2. o = OpenedIn(input')[Len(input') - 1]
    BY <1>1, <1>7
  <2>3. \E c : IsNesting(c, stack', OpenedIn(input')[Len(input') - 1])
    BY <2>1, <2>2
  <2>4. \A i \in 1..(Len(input') - 1) : Closes(input', i)
    BY <1>1, <1>4, <1>7
  <2> QED
    BY <2>3, <2>4 DEF Bracketed
<1>8. CASE (\E undef : Scan(undef)) /\ Effect(BracketOf(Top.pc), tok, t)
  <2>1. PICK c \in TokType : input' = Append(input, c)
    BY <1>8 DEF Scan, Available, TokType
  <2>2. PICK w : w = input'
    OBVIOUS
  <2>3. /\ \A i \in 0..n : OpenedIn(w)[i] = OpenedIn(input)[i]
        /\ w \in Seq(TokType) /\ Len(w) = n + 1 /\ \A i \in 1..n : w[i] = input[i]
    <3>1. w = Append(input, c)
      BY <2>1, <2>2
    <3> QED
      BY <1>1, <1>2, <3>1, OpenedKept
  <2>4. OpenedIn(input)[n] = Behind(o, tok)
    <3>1. n \in 1..Len(input)
      BY <1>1, <1>2
    <3> QED
      BY <1>1, <1>2, <3>1, OpenedIs DEF IsOpened
  <2>5. /\ Behind(o, tok) = base \o t
        /\ tok \in {"RPAREN", "RCURL", "EOS"} => o # <<>> /\ tok = Closer[o[Len(o)]]
    <3>1. PICK from : from = BracketOf(Top.pc)
      OBVIOUS
    <3>2. from \in Seq(Bracket) /\ o = base \o from /\ Effect(from, tok, t)
      BY <1>6, <1>8, <3>1, BracketOfType
    <3>3. Reads(o, tok, base \o t)
      BY <1>6, <3>2, EffectBehind
    <3> QED
      BY <3>3 DEF Reads
  <2>6. OpenedIn(w)[Len(w) - 1] = base \o t
    <3>1. Len(w) - 1 = n /\ n \in 0..n
      BY <1>2, <2>3
    <3> QED
      BY <2>3, <2>4, <2>5, <3>1
  <2>7. ASSUME NEW i \in 1..n PROVE Closes(w, i)
    <3>1. i - 1 \in 0..n /\ OpenedIn(w)[i - 1] = OpenedIn(input)[i - 1] /\ w[i] = input[i]
      BY <1>2, <2>3
    <3>2. CASE i = n
      BY <1>1, <1>2, <2>5, <3>1, <3>2 DEF Closes
    <3>3. CASE i # n
      <4>1. Closes(input, i)
        BY <1>2, <1>4, <3>3
      <4> QED
        BY <3>1, <4>1 DEF Closes
    <3> QED
      BY <3>2, <3>3
  <2>8. \A i \in 1..(Len(w) - 1) : Closes(w, i)
    <3>1. Len(w) - 1 = n
      BY <1>2, <2>3
    <3> QED
      BY <2>7, <3>1
  <2>9. \E d : IsNesting(d, stack', OpenedIn(w)[Len(w) - 1])
    BY <1>6, <2>6
  <2> QED
    BY <2>2, <2>8, <2>9 DEF Bracketed
<1> QED
  BY <1>7, <1>8 DEF Change

LEMMA NoFrameLeft ==
  ASSUME Quiet, Replaced(<<>>), NEW t, t = <<>>, Change(t)
  PROVE  Bracketed'
<1>1. PICK fs : fs = <<>>
  OBVIOUS
<1>2. Len(fs) = 0 /\ Replaced(fs) /\ t \in Seq(Bracket)
  BY <1>1, EmptySeq
<1>3. \A j \in 1..Len(fs) : FALSE
  BY <1>2
<1>4. PICK m : m = 0
  OBVIOUS
<1>5. Opens(fs, m, t) /\ m \in Nat /\ Len(fs) \in Nat
  BY <1>2, <1>3, <1>4 DEF Opens
<1> QED
  BY <1>2, <1>5, BracketMove

LEMMA OneFrameLeft ==
  ASSUME Quiet, NEW f, Replaced(<<f>>), Change(BracketOf(f.pc))
  PROVE  Bracketed'
<1>1. PICK fs, t : fs = <<f>> /\ t = BracketOf(f.pc)
  OBVIOUS
<1>2. Len(fs) = 1 /\ Replaced(fs) /\ t \in Seq(Bracket) /\ fs[1] = f /\ Change(t)
  BY <1>1, BracketOfType
<1>3. Opens(fs, 1, t)
  BY <1>1, <1>2 DEF Opens
<1> QED
  BY <1>2, <1>3, BracketMove

LEMMA TwoFramesLeft ==
  ASSUME Quiet, NEW f, NEW g, Replaced(<<f, g>>), NEW t, Change(t),
         \/ BracketOf(f.pc) = t /\ BracketOf(g.pc) = <<>>
         \/ BracketOf(f.pc) = <<>> /\ BracketOf(g.pc) = t
  PROVE  Bracketed'
<1>1. PICK fs : fs = <<f, g>>
  OBVIOUS
<1>2. Len(fs) = 2 /\ Replaced(fs) /\ t \in Seq(Bracket) /\ fs[1] = f /\ fs[2] = g
  BY <1>1, BracketOfType
<1>3. Opens(fs, 1, t) \/ Opens(fs, 2, t)
  BY <1>2 DEF Opens
<1> QED
  BY <1>2, <1>3, BracketMove

LEMMA ThreeFramesLeft ==
  ASSUME Quiet, NEW f, NEW g, NEW h, Replaced(<<f, g, h>>), NEW t, Change(t),
         BracketOf(f.pc) = <<>>, BracketOf(g.pc) = t, BracketOf(h.pc) = <<>>
  PROVE  Bracketed'
<1>1. PICK fs : fs = <<f, g, h>>
  OBVIOUS
<1>2. /\ Len(fs) = 3 /\ Replaced(fs) /\ t \in Seq(Bracket)
      /\ fs[1] = f /\ fs[2] = g /\ fs[3] = h
  BY <1>1, BracketOfType
<1>3. Opens(fs, 2, t)
  BY <1>2 DEF Opens
<1> QED
  BY <1>2, <1>3, BracketMove


(* The brackets open in a frame change with these tokens only. *)
LEMMA Brackets ==
  /\ \A pc \in {"expr", "loop", "right", "stmts", "stmt", "if", "then_open", "else?", "else_open",
                "def", "def_open", "body_open", "program", "parsed"} : BracketOf(pc) = <<>>
  /\ \A pc \in InParens : BracketOf(pc) = <<"LPAREN">>
  /\ \A pc \in InBraces : BracketOf(pc) = <<"LCURL">>
  BY DEF BracketOf, InParens, InBraces

LEMMA Plain ==
  ASSUME NEW undef, Scan(undef),
         tok \notin {"LPAREN", "LCURL", "RPAREN", "RCURL", "EOS"},
         NEW t, t = BracketOf(Top.pc)
  PROVE  Change(t)
  BY DEF Change, Effect

LEMMA OpensOne ==
  ASSUME NEW undef, Scan(undef), NEW t, BracketOf(Top.pc) = <<>>,
         tok \in Bracket, t = <<tok>>
  PROVE  Change(t)
  BY DEF Change, Effect

LEMMA ClosesOne ==
  ASSUME NEW undef, Scan(undef), NEW t, t = <<>>,
         \/ Top.pc \in InParens /\ tok = "RPAREN"
         \/ Top.pc \in InBraces /\ tok = "RCURL"
  PROVE  Change(t)
<1>1. "LPAREN" \in Bracket /\ "LCURL" \in Bracket
  BY DEF Bracket
<1>2. Effect(BracketOf(Top.pc), tok, t)
  BY <1>1, Brackets, Closers DEF Effect
<1> QED
  BY <1>2 DEF Change

LEMMA Unread ==
  ASSUME UNCHANGED input, NEW t, t = BracketOf(Top.pc)
  PROVE  Change(t)
  BY DEF Change

LEMMA LeavingBracketed ==
  ASSUME Quiet, Leaving, Replaced(<<>>), err' = "unset"
  PROVE  Bracketed'
<1>1. PICK t : t = <<>>
  OBVIOUS
<1>2. ~ (\E msg \in ErrMsg : Fail(msg))
  BY DEF Fail, ErrMsg
<1>3. /\ ~(NoPrefix /\ Fail("prefix")) /\ ~(LoopPastTable /\ Fail("infix"))
      /\ ~NotAParam /\ ~IfElseFails
  BY <1>2 DEF NotAParam, IfElseFails, ErrMsg
<1>4. CASE LoopEnds \/ BinOp \/ (IfElse /\ tok # "ELSE") \/ (NextStmt /\ tok \in {"EOS", "RCURL"})
  <2>1. UNCHANGED input /\ Top.pc \in {"loop", "right", "else?", "stmts"}
    BY <1>4 DEF LoopEnds, BinOp, IfElse, NextStmt, NoScan, At
  <2>2. t = BracketOf(Top.pc)
    BY <1>1, <2>1, Brackets
  <2> QED
    BY <1>1, <2>1, <2>2, Unread, NoFrameLeft
<1>5. CASE CloseCall \/ CloseParen \/ IfElseClose \/ DefClose
  <2>1. \E undef : Scan(undef)
    BY <1>5 DEF CloseCall, CloseParen, IfElseClose, DefClose, Consume
  <2>2. \/ Top.pc \in InParens /\ tok = "RPAREN"
        \/ Top.pc \in InBraces /\ tok = "RCURL"
    BY <1>5 DEF CloseCall, CloseParen, IfElseClose, DefClose, Consume, At, Expected, Waiting,
       InParens, InBraces
  <2> QED
    BY <1>1, <2>1, <2>2, ClosesOne, NoFrameLeft
<1>6. CASE EndStmt /\ ret = NULL
  <2>1. Scan({}) /\ Top.pc = "stmt" /\ tok = "SEMI"
    BY <1>6 DEF EndStmt, Consume, At, Expected, Waiting
  <2>2. t = BracketOf(Top.pc)
    BY <1>1, <2>1, Brackets
  <2> QED
    BY <1>1, <2>1, <2>2, Plain, NoFrameLeft
<1>7. ~ (StoreArg /\ ret = NULL) /\ ~ Fail("toomany")
  BY <1>2 DEF StoreArg, ErrMsg
<1> QED
  BY Zenon, <1>3, <1>4, <1>5, <1>6, <1>7 DEF Leaving, Returning

LEMMA GoesOnBracketed ==
  ASSUME Quiet, NEW f, Replaced(<<f>>), NEW pc, f.pc = pc, Change(BracketOf(pc))
  PROVE  Bracketed'
  BY OneFrameLeft

LEMMA ResumingBracketed ==
  ASSUME Quiet, Resuming
  PROVE  Bracketed'
<1>0. TypeInv /\ <<ret>> \in Seq(0..Len(nodes)) /\ Append(Top.kids, ret) \in Seq(0..Len(nodes))
      /\ Top \in FrameOf(Len(nodes))
  BY TopFacts DEF Quiet
<1>l. {"loop", "args", "params", "then_open", "else?", "def_open", "more_params"} \subseteq Labels
  BY DEF Labels, Waiting
<1>g. ASSUME NEW pc \in Labels, Replaced(<<GoOn(pc)>>), Change(BracketOf(pc)) PROVE Bracketed'
  <2>1. GoOn(pc).pc = pc
    BY <1>0, GoOnFields
  <2> QED
    BY <1>g, <2>1, GoesOnBracketed
<1>w. ASSUME NEW pc \in Labels, NEW kids \in Seq(0..Len(nodes)), Replaced(<<GoOnWith(pc, kids)>>),
             Change(BracketOf(pc))
      PROVE  Bracketed'
  <2>1. GoOnWith(pc, kids).pc = pc
    BY <1>0, GoOnWithFields
  <2> QED
    BY <1>w, <2>1, GoesOnBracketed
<1>1. CASE EnterLeaf /\ Replaced(<<GoOn("loop")>>)
  <2>1. Scan({}) /\ tok \in {"DBL", "ID"} /\ Top.pc = "expr"
    BY <1>1 DEF EnterLeaf, At
  <2>2. Change(BracketOf("loop"))
    BY <2>1, Brackets, Plain
  <2> QED
    BY <1>1, <1>g, <1>l, <2>2
<1>2. ASSUME NEW pc \in {"args", "params"}, OptionalComma, Replaced(<<GoOn(pc)>>),
             Top.pc \in {"more_args", "more_params"}
      PROVE  Bracketed'
  <2>1. (Scan({}) /\ tok = "COMMA") \/ UNCHANGED input
    BY <1>2 DEF OptionalComma, NoScan
  <2>2. BracketOf(pc) = BracketOf(Top.pc)
    BY <1>2, Brackets DEF InParens
  <2>3. Change(BracketOf(pc))
    BY <2>1, <2>2, Plain, Unread
  <2> QED
    BY <1>2, <1>g, <1>l, <2>3
<1>3. CASE IfCond /\ Replaced(<<GoOnWith("then_open", <<ret>>)>>)
  <2>1. Scan({}) /\ tok = "RPAREN" /\ Top.pc \in InParens
    BY <1>3 DEF IfCond, Consume, At, Expected, Waiting, InParens
  <2>2. Change(BracketOf("then_open"))
    BY <2>1, Brackets, ClosesOne
  <2> QED
    BY <1>0, <1>3, <1>l, <1>w, <2>2
<1>4. CASE IfThen /\ Replaced(<<GoOnWith("else?", Append(Top.kids, ret))>>)
  <2>1. Scan({}) /\ tok = "RCURL" /\ Top.pc \in InBraces
    BY <1>4 DEF IfThen, Consume, At, Expected, Waiting, InBraces
  <2>2. Change(BracketOf("else?"))
    BY <2>1, Brackets, ClosesOne
  <2> QED
    BY <1>0, <1>4, <1>l, <1>w, <2>2
<1>5. CASE DefOpen /\ Top.pc = "def" /\ Replaced(<<GoOnNamed>>)
  <2>1. Scan({}) /\ tok = "ID"
    BY <1>5 DEF DefOpen, Consume, At, Expected, Waiting
  <2>2. Change(BracketOf("def_open"))
    BY <1>5, <2>1, Brackets, Plain
  <2>3. GoOnNamed.pc = "def_open"
    BY <1>0, GoOnNamedFields
  <2> QED
    BY <1>5, <2>2, <2>3, GoesOnBracketed
<1>6. CASE DefOpen /\ Top.pc = "def_open" /\ Replaced(<<GoOn("params")>>)
  <2>1. Scan({}) /\ tok = "LPAREN"
    BY <1>6 DEF DefOpen, Consume, At, Expected, Waiting
  <2>2. Change(BracketOf("params"))
    BY <1>6, <2>1, Brackets, OpensOne DEF InParens, Bracket
  <2> QED
    BY <1>6, <1>g, <1>l, <2>2
<1>7. CASE NextParam /\ Replaced(<<GoOnParam>>)
  <2>1. (\E undef : Scan(undef)) /\ tok = "ID" /\ Top.pc = "params"
    BY <1>7 DEF NextParam, At
  <2>2. Change(BracketOf("more_params"))
    BY <2>1, Brackets, Plain DEF InParens
  <2>3. GoOnParam.pc = "more_params"
    BY <1>0, GoOnParamFields
  <2> QED
    BY <1>7, <2>2, <2>3, GoesOnBracketed
<1> QED
  BY Zenon, <1>1, <1>2, <1>3, <1>4, <1>5, <1>6, <1>7 DEF Resuming


LEMMA NewFramePc ==
  /\ \A pc, first : NewFrame(pc, first).pc = pc
  /\ \A rbp, first : Expression(rbp, first).pc = "expr"
  BY DEF NewFrame, Expression

(* A function calls another one that has opened nothing yet. *)
LEMMA CallsBracketed ==
  ASSUME Quiet, NEW f, NEW g, Replaced(<<f, g>>), NEW pc, f.pc = pc,
         g.pc \in {"expr", "stmts", "if", "def"}, Change(BracketOf(pc))
  PROVE  Bracketed'
<1>1. PICK t : t = BracketOf(pc)
  OBVIOUS
<1>2. BracketOf(g.pc) = <<>> /\ BracketOf(f.pc) = t /\ Change(t)
  BY <1>1, Brackets
<1> QED
  BY <1>2, TwoFramesLeft

LEMMA CallingBracketed ==
  ASSUME Quiet, Calling, ~ Program
  PROVE  Bracketed'
<1>0. TypeInv
  BY DEF Quiet
<1>l. {"loop", "args", "arg", "cond", "then", "else", "body", "stmt", "right"} \subseteq Labels
  BY DEF Labels, Waiting
<1>g. ASSUME NEW pc \in Labels, NEW g, Replaced(<<GoOn(pc), g>>),
             g.pc \in {"expr", "stmts", "if", "def"}, Change(BracketOf(pc))
      PROVE  Bracketed'
  <2>1. GoOn(pc).pc = pc
    BY <1>0, GoOnFields
  <2> QED
    BY <1>g, <2>1, CallsBracketed
<1>1. ASSUME NEW pc \in {"if", "def"}, EnterPrefix,
             Replaced(<<GoOn("loop"), NewFrame(pc, Top.first)>>)
      PROVE  Bracketed'
  <2>1. Scan({}) /\ tok \in {"IF", "DEF"} /\ Top.pc = "expr"
    BY <1>1 DEF EnterPrefix, At
  <2>2. Change(BracketOf("loop"))
    BY <2>1, Brackets, Plain
  <2> QED
    BY <1>1, <1>g, <1>l, <2>2, NewFramePc
<1>2. CASE /\ EnterParen
           /\ Replaced(<<GoOn("loop"), NewFrame("paren", Top.first),
                         Expression(0, Len(input) + 1)>>)
  <2>1. Scan({}) /\ tok = "LPAREN" /\ Top.pc = "expr"
    BY <1>2 DEF EnterParen, At
  <2>2. PICK t : t = <<"LPAREN">>
    OBVIOUS
  <2>3. Change(t)
    BY <2>1, <2>2, Brackets, OpensOne DEF Bracket
  <2>4. GoOn("loop").pc = "loop"
    BY <1>0, <1>l, GoOnFields
  <2>5. PICK f, g, h : f = GoOn("loop") /\ g = NewFrame("paren", Top.first)
                       /\ h = Expression(0, Len(input) + 1)
    OBVIOUS
  <2>6. f.pc = "loop" /\ g.pc = "paren" /\ h.pc = "expr" /\ Replaced(<<f, g, h>>)
    BY <1>2, <2>4, <2>5, NewFramePc
  <2>7. BracketOf(f.pc) = <<>> /\ BracketOf(g.pc) = t /\ BracketOf(h.pc) = <<>>
    BY <2>2, <2>6, Brackets DEF InParens
  <2> QED
    BY <2>3, <2>6, <2>7, ThreeFramesLeft
<1>3. CASE /\ Infix /\ tok \in BinOps
           /\ Replaced(<<Top, InfixFrame("right"), Expression(lbp[tok], Len(input) + 1)>>)
  <2>1. Scan({}) /\ Top.pc = "loop"
        /\ tok \notin {"LPAREN", "LCURL", "RPAREN", "RCURL", "EOS"}
    BY <1>3 DEF Infix, At, BinOps
  <2>2. PICK t : t = <<>>
    OBVIOUS
  <2>3. Change(t)
    BY <2>1, <2>2, Brackets, Plain
  <2>4. InfixFrame("right").pc = "right"
    BY <1>0, <1>l, InfixFields
  <2>5. PICK f, g, h : f = Top /\ g = InfixFrame("right")
                       /\ h = Expression(lbp[tok], Len(input) + 1)
    OBVIOUS
  <2>6. f.pc = "loop" /\ g.pc = "right" /\ h.pc = "expr" /\ Replaced(<<f, g, h>>)
    BY <1>3, <2>1, <2>4, <2>5, NewFramePc
  <2>7. BracketOf(f.pc) = <<>> /\ BracketOf(g.pc) = t /\ BracketOf(h.pc) = <<>>
    BY <2>2, <2>6, Brackets
  <2> QED
    BY <2>3, <2>6, <2>7, ThreeFramesLeft
<1>4. CASE Infix /\ tok = "LPAREN" /\ Replaced(<<Top, InfixFrame("args")>>)
  <2>1. Scan({}) /\ Top.pc = "loop"
    BY <1>4 DEF Infix, At
  <2>2. PICK t : t = <<"LPAREN">>
    OBVIOUS
  <2>3. Change(t)
    BY <1>4, <2>1, <2>2, Brackets, OpensOne DEF Bracket
  <2>4. InfixFrame("args").pc = "args"
    BY <1>0, <1>l, InfixFields
  <2>5. BracketOf(Top.pc) = <<>> /\ BracketOf(InfixFrame("args").pc) = t
    BY <2>1, <2>2, <2>4, Brackets DEF InParens
  <2> QED
    BY <1>4, <2>3, <2>5, TwoFramesLeft
<1>5. CASE NextArg /\ Replaced(<<GoOn("arg"), Expression(0, Len(input))>>)
  <2>1. UNCHANGED input /\ Top.pc = "args"
    BY <1>5 DEF NextArg, NoScan, At
  <2>2. Change(BracketOf("arg"))
    BY <2>1, Brackets, Unread DEF InParens
  <2> QED
    BY <1>5, <1>g, <1>l, <2>2, NewFramePc
<1>6. CASE IfOpen /\ Replaced(<<GoOn("cond"), Expression(0, Len(input) + 1)>>)
  <2>1. Scan({}) /\ Top.pc = "if" /\ tok = "LPAREN"
    BY <1>6 DEF IfOpen, Consume, At, Expected, Waiting
  <2>2. Change(BracketOf("cond"))
    BY <2>1, Brackets, OpensOne DEF InParens, Bracket
  <2> QED
    BY <1>6, <1>g, <1>l, <2>2, NewFramePc
<1>7. ASSUME NEW pc \in {"then", "else", "body"}, IfThenOpen \/ IfElseOpen \/ DefBody,
             Replaced(<<GoOn(pc), NewFrame("stmts", Len(input) + 1)>>)
      PROVE  Bracketed'
  <2>1. Scan({}) /\ Top.pc \in {"then_open", "else_open", "body_open"} /\ tok = "LCURL"
    BY <1>7 DEF IfThenOpen, IfElseOpen, DefBody, Consume, At, Expected, Waiting
  <2>2. BracketOf(Top.pc) = <<>> /\ BracketOf(pc) = <<"LCURL">>
    BY <2>1, Brackets DEF InBraces
  <2>3. Change(BracketOf(pc))
    BY <2>1, <2>2, OpensOne DEF Bracket
  <2> QED
    BY <1>7, <1>g, <1>l, <2>3, NewFramePc
<1>8. CASE /\ IfElseAgain
           /\ Replaced(<<[Top EXCEPT !.pc = "else_again", !.left = ret],
                         NewFrame("stmts", Len(input))>>)
  <2>1. UNCHANGED input /\ Top.pc = "else"
    BY <1>8 DEF IfElseAgain, NoScan, At
  <2>2. Change(BracketOf("else_again"))
    BY <2>1, Brackets, Unread DEF InBraces
  <2>3. [Top EXCEPT !.pc = "else_again", !.left = ret].pc = "else_again"
    BY <1>0, TopFacts DEF FrameOf
  <2>4. PICK f, g : /\ f = [Top EXCEPT !.pc = "else_again", !.left = ret]
                    /\ g = NewFrame("stmts", Len(input))
    OBVIOUS
  <2>5. f.pc = "else_again" /\ g.pc = "stmts" /\ Replaced(<<f, g>>)
    BY <1>8, <2>3, <2>4, NewFramePc
  <2> QED
    BY <2>2, <2>5, CallsBracketed
<1> QED
  BY Zenon, <1>1, <1>2, <1>3, <1>4, <1>5, <1>6, <1>7, <1>8 DEF Calling

LEMMA StayingBracketed ==
  ASSUME Quiet, Staying, err' = "unset"
  PROVE  Bracketed'
<1>0. TypeInv /\ Append(Top.kids, ret) \in Seq(0..Len(nodes)) /\ Len(input) \in Nat
  BY TopFacts DEF Quiet
<1>l. {"more_args", "else_open", "body_open", "stmt", "stmts"} \subseteq Labels
  BY DEF Labels, Waiting
<1>g. ASSUME NEW pc \in Labels, Replaced(<<GoOn(pc)>>), Change(BracketOf(pc)) PROVE Bracketed'
  <2>1. GoOn(pc).pc = pc
    BY <1>0, GoOnFields
  <2> QED
    BY <1>g, <2>1, GoesOnBracketed
<1>w. ASSUME NEW pc \in Labels, NEW kids \in Seq(0..Len(nodes)), Replaced(<<GoOnWith(pc, kids)>>),
             Change(BracketOf(pc))
      PROVE  Bracketed'
  <2>1. GoOnWith(pc, kids).pc = pc
    BY <1>0, GoOnWithFields
  <2> QED
    BY <1>w, <2>1, GoesOnBracketed
<1>1. CASE StoreArg /\ ret # NULL /\ Replaced(<<GoOnWith("more_args", Append(Top.kids, ret))>>)
  <2>1. UNCHANGED input /\ Top.pc = "arg"
    BY <1>1 DEF StoreArg, At
  <2>2. Change(BracketOf("more_args"))
    BY <2>1, Brackets, Unread DEF InParens
  <2> QED
    BY <1>0, <1>1, <1>l, <1>w, <2>2
<1>2. CASE IfElse /\ tok = "ELSE" /\ Replaced(<<GoOn("else_open")>>)
  <2>1. Scan({}) /\ Top.pc = "else?"
    BY <1>2 DEF IfElse, At
  <2>2. Change(BracketOf("else_open"))
    BY <1>2, <2>1, Brackets, Plain
  <2> QED
    BY <1>2, <1>g, <1>l, <2>2
<1>3. CASE ParamsEnd /\ Scan({}) /\ UNCHANGED ret /\ Replaced(<<GoOn("body_open")>>)
  <2>1. input' # input
    <3>1. Len(input') = Len(input) + 1
      BY <1>0, <1>3, ScanLen
    <3> QED
      BY <1>0, <3>1
  <2>2. tok = "RPAREN" /\ Top.pc = "params"
    BY <1>3, <2>1 DEF ParamsEnd, NoScan, At
  <2>3. Change(BracketOf("body_open"))
    BY <1>3, <2>2, Brackets, ClosesOne DEF InParens
  <2> QED
    BY <1>3, <1>g, <1>l, <2>3
<1>4. CASE /\ NextStmt /\ tok \notin {"EOS", "RCURL"}
           /\ Replaced(<<GoOn("stmt"), Expression(0, Len(input))>>)
  <2>1. UNCHANGED input /\ Top.pc = "stmts"
    BY <1>4 DEF NextStmt, NoScan, At
  <2>2. Change(BracketOf("stmt"))
    BY <2>1, Brackets, Unread
  <2>3. GoOn("stmt").pc = "stmt"
    BY <1>0, <1>l, GoOnFields
  <2> QED
    BY <1>4, <2>2, <2>3, CallsBracketed, NewFramePc
<1>5. CASE /\ EndStmt /\ ret # NULL
           /\ Replaced(<<GoOnWith("stmts", Append(Top.kids, ret))>>)
  <2>1. Scan({}) /\ tok = "SEMI" /\ Top.pc = "stmt"
    BY <1>5 DEF EndStmt, Consume, At, Expected, Waiting
  <2>2. Change(BracketOf("stmts"))
    BY <2>1, Brackets, Plain
  <2> QED
    BY <1>0, <1>5, <1>l, <1>w, <2>2
<1> QED
  BY Zenon, <1>1, <1>2, <1>3, <1>4, <1>5 DEF Staying

(* The first token. *)
LEMMA ProgramBracketed ==
  ASSUME TypeInv, Begins, Program, Replaced(<<GoOn("parsed"), NewFrame("stmts", 1)>>)
  PROVE  Bracketed'
<1>1. input = <<>> /\ (\E undef : Scan(undef)) /\ Top.pc = "program"
  BY DEF Program, At, Begins
<1>2. PICK u, c : u = input' /\ u = Append(input, c) /\ c \in TokType
  BY <1>1 DEF Scan, Available, TokType
<1>3. u \in Seq(TokType) /\ Len(u) = 1 /\ Len(u) - 1 = 0
  BY <1>1, <1>2
<1>4. OpenedIn(u)[0] = <<>>
  BY <1>3, OpenedIs DEF IsOpened
<1>5. Len(stack) = 1
  <2>1. Top.pc \in Base /\ Top = stack[Len(stack)] /\ Len(stack) \in Nat /\ Len(stack) >= 1
    BY <1>1, StackSeq DEF Base
  <2>2. Len(stack) \in 1..Len(stack)
    BY <2>1
  <2> QED
    BY <2>1, <2>2 DEF TypeInv, StackInv, IsStack
<1>6. "parsed" \in Labels
  BY DEF Labels
<1>7. PICK f, g : f = GoOn("parsed") /\ g = NewFrame("stmts", 1)
  OBVIOUS
<1>8. f.pc = "parsed" /\ g.pc = "stmts" /\ Replaced(<<f, g>>)
  BY <1>6, <1>7, GoOnFields, NewFramePc
<1>9. Len(stack') = 2 /\ stack'[1] = f /\ stack'[2] = g
  <2>1. /\ Len(stack') = 1 - 1 + 2
        /\ \A j \in 1..2 : stack'[1 - 1 + j] = <<f, g>>[j]
    BY <1>5, <1>8 DEF Replaced
  <2> QED
    BY <2>1
<1>10. PICK b : b = [i \in 0..2 |-> <<>>]
  OBVIOUS
<1>11. b \in [0..2 -> Seq(Bracket)] /\ \A i \in 0..2 : b[i] = <<>>
  BY <1>10, EmptySeq
<1>12. \A i \in 1..2 : BracketOf(stack'[i].pc) = <<>>
  BY <1>8, <1>9, Brackets
<1>13. \A i \in 1..2 : b[i] = b[i - 1] \o BracketOf(stack'[i].pc)
  <2>1. <<>> \o <<>> = <<>>
    OBVIOUS
  <2>2. \A i \in 1..2 : i \in 0..2 /\ i - 1 \in 0..2
    OBVIOUS
  <2> QED
    BY <1>11, <1>12, <2>1, <2>2
<1>14. IsNesting(b, stack', OpenedIn(u)[Len(u) - 1])
  BY <1>3, <1>4, <1>9, <1>11, <1>13 DEF IsNesting
<1>15. \A i \in 1..(Len(u) - 1) : Closes(u, i)
  BY <1>3
<1> QED
  BY <1>2, <1>14, <1>15 DEF Bracketed

LEMMA BracketedStep ==
  ASSUME TypeInv, Started, Begins, Bracketed, [Next]_vars
  PROVE  Bracketed'
<1> SUFFICES ASSUME err' = "unset" PROVE Bracketed'
  BY DEF Bracketed
<1>1. err = "unset"
  BY ErrStays
<1>2. CASE status = "died" \/ Dying
  <2>1. status' = "died"
    BY <1>2, DeadStays DEF Dying, vars
  <2> QED
    BY <2>1 DEF Bracketed
<1>3. CASE status # "died" /\ Stopping
  BY <1>1, <1>3 DEF Stopping, Bracketed
<1>4. CASE status # "died" /\ input = <<>>
  <2>1. Top.pc = "program"
    BY <1>4 DEF Started
  <2>2. /\ ~ Leaving /\ ~ Resuming /\ ~ Staying
        /\ Calling => Program /\ Replaced(<<GoOn("parsed"), NewFrame("stmts", 1)>>)
    BY <2>1 DEF Leaving, Returning, Resuming, Calling, Staying, At, Consume,
       EnterLeaf, EnterPrefix, EnterParen, NoPrefix, ScanThenFail, Infix, LoopEnds,
       LoopPastTable, BinOp, NextArg, StoreArg, OptionalComma, CloseCall,
       CloseParen, IfOpen, IfCond, IfThenOpen, IfThen, IfElse,
       IfElseOpen, IfElseAgain, IfElseFails, IfElseClose, DefOpen, NextParam,
       NotAParam, ParamsEnd, DefBody, DefClose, NextStmt, EndStmt
  <2>3. Calling \/ Stopping \/ Dying
    BY <2>2, Steps
  <2> QED
    BY <1>2, <1>3, <1>4, <2>2, <2>3, ProgramBracketed
<1>5. CASE status # "died" /\ input # <<>>
  <2>1. Quiet
    BY <1>1, <1>5 DEF Quiet
  <2>2. ~ Program
    BY <1>5 DEF Program, At, Begins
  <2> QED
    BY <1>2, <1>3, <1>5, <2>1, <2>2, Steps, LeavingBracketed, ResumingBracketed,
       CallingBracketed, StayingBracketed
<1> QED
  BY <1>2, <1>4, <1>5

Bracketing == Sources /\ Bracketed

LEMMA BracketInvariant == Spec => []Bracketing
<1>1. Init => Bracketed
  BY DEF Init, Bracketed
<1>2. Bracketed /\ Sources /\ [Next]_vars => Bracketed'
  BY BracketedStep DEF Sources
<1> QED
  BY <1>1, <1>2, SourcesInvariant, PTL DEF Spec, Bracketing

(* An accepted program without an error ends at the end of the source or   *)
(* at a brace that closes nothing, with every bracket before it closed by  *)
(* one of its kind in the order of their nesting: the only rest of a text  *)
(* block() drops unnoticed is the one behind such a brace.                 *)
THEOREM StopsAtEndOfSource == Spec => []StopsAtBraceOrEnd
<1>1. Bracketing => StopsAtBraceOrEnd
  <2> SUFFICES ASSUME Bracketing, status = "accepted", err = "unset"
               PROVE  /\ tok \in {"EOS", "RCURL"}
                      /\ Opened[Len(input)] = <<>>
                      /\ \A i \in 1..(Len(input) - 1) :
                           input[i] \in {"RPAREN", "RCURL", "EOS"} =>
                             /\ Opened[i - 1] # <<>>
                             /\ input[i] = Closer[Opened[i - 1][Len(Opened[i - 1])]]
    BY DEF StopsAtBraceOrEnd
  <2>1. Top.pc = "parsed" /\ TypeInv /\ Started /\ Sourced /\ Bracketed
    BY DEF Bracketing, Sources, Accepted
  <2>2. tok \in {"EOS", "RCURL"}
    BY <2>1 DEF Sourced, Answered, Returned, BlockCaller
  <2>3. PICK n, o : n = Len(input) /\ o = OpenedIn(input)
    OBVIOUS
  <2>4. /\ input \in Seq(TokType) /\ n \in Nat /\ n >= 1 /\ input # <<>>
        /\ tok = input[n]
    <3>1. Len(input) >= 1 /\ input \in Seq(TokType)
      BY <2>1 DEF Started, TypeInv, TokInv
    <3>2. input # <<>>
      BY <3>1
    <3> QED
      BY <2>1, <2>3, <3>1, <3>2 DEF TypeInv, TokInv
  <2>5. PICK b : IsNesting(b, stack, o[n - 1])
    BY <2>1, <2>3, <2>4 DEF Bracketed
  <2>6. o[n - 1] = <<>>
    <3>1. Len(stack) = 1 /\ stack[1] = Top
      <4>1. Top.pc \in Base /\ Top = stack[Len(stack)] /\ Len(stack) \in Nat /\ Len(stack) >= 1
        BY <2>1, StackSeq DEF Base
      <4>2. Len(stack) \in 1..Len(stack)
        BY <4>1
      <4> QED
        BY <2>1, <4>1, <4>2 DEF TypeInv, StackInv, IsStack
    <3>2. b[1] = b[0] \o BracketOf(stack[1].pc) /\ b[0] = <<>> /\ b[1] = o[n - 1]
      <4>1. /\ b[0] = <<>> /\ b[Len(stack)] = o[n - 1]
            /\ \A i \in 1..Len(stack) : b[i] = b[i - 1] \o BracketOf(stack[i].pc)
        BY <2>5 DEF IsNesting
      <4>2. 1 \in 1..Len(stack) /\ 1 - 1 = 0
        BY <3>1
      <4>3. b[1] = b[1 - 1] \o BracketOf(stack[1].pc)
        BY <4>1, <4>2
      <4> QED
        BY <3>1, <4>1, <4>2, <4>3
    <3>3. BracketOf(stack[1].pc) = <<>>
      BY <2>1, <3>1, Brackets
    <3>4. <<>> \o <<>> = <<>>
      OBVIOUS
    <3> QED
      BY <3>2, <3>3, <3>4
  <2>7. o[n] = <<>>
    <3>1. n \in 1..Len(input) /\ IsOpened(o, input)
      BY <2>3, <2>4, OpenedIs
    <3>2. o[n] = Behind(o[n - 1], tok)
      BY <2>4, <3>1 DEF IsOpened
    <3>3. tok \notin Bracket
      BY <2>2 DEF Bracket
    <3> QED
      BY <2>6, <3>2, <3>3 DEF Behind
  <2>8. Opened = o
    BY <2>3 DEF Opened, OpenedIn
  <2>9. \A i \in 1..(n - 1) : Closes(input, i)
    BY <2>1, <2>3, <2>4 DEF Bracketed
  <2> QED
    BY <2>2, <2>3, <2>7, <2>8, <2>9 DEF Closes
<1> QED
  BY <1>1, BracketInvariant, PTL
=============================================================================
