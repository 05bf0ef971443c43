# Lilc, specified

TLA+ models of the Lilc compiler, their TLC configurations and TLAPS proofs.
Line numbers are those of the C sources.

## The system

Lilc is a sequential program: text goes in, an AST is built, LLVM IR is
generated from it and is either run (`lilc_eval`) or written as an object file
(`lilc_emit`). There are no threads and nothing is persisted. What is hard is
elsewhere: mutual recursion with a shared lookahead, errors signalled by NULL
through many returns, one builder and one symbol table shared by a recursive
walk, a generated graph that must be well-formed, fixed-size arrays, and a hash
table that relinks itself.

| Component | State | Operations | Interacts with |
|---|---|---|---|
| Lexer, `src/lex.c` | source, offset, line, current token, identifier buffer | `lex_scan`, `lex_consume(f)`, `tok_strm_readf` | called by the parser, one token of lookahead |
| Parser, `src/parse.c` | the lexer, `err`, the C stack, `vtables` | `parse`, `block`, `expr_stmt`, `expression`, prefix and infix functions | allocates AST nodes, dies through `util.c` |
| AST, `src/ast.c` | the nodes | constructors, printer | built by the parser, read by the code generator |
| Code generator, `src/codegen.c` | module, builder position, symbol table, the C stack | `lilc_eval`, `lilc_emit`, `do_codegen` and one function per node type | AST, LLVM, hash table |
| Hash table, `lib/cfuhash.c` | buckets, counter, thresholds, flags, iteration | get, put, delete, clear, remove by predicate, iterate, rehash, copy, merge | the symbol table of the code generator |
| Strings, `lib/cfustring.c` | buffer, its size, the size in use | append, overwrite, clear, copy out, split, print into | bundled; used by the hash table for bencoding only |
| Arrays `lib/kvec.h`, type tags `lib/cfu.c` | | | bundled; Lilc uses the array macros |
| `src/util.c`, `test/test.c` | | file input, `die`; the test driver | |

What makes each correct:

* Lexer: no character is lost or read twice, nothing behind the terminating NUL
  is read, words are read as far as they go, lines are counted, it ends.
* Parser: operators group as the grammar says; the AST is complete and says
  what the text says; an error is never lost without a message, and no error
  leaves a hole the next pass falls into; arrays are not overrun; recursion is
  bounded by the text; it ends.
* Code generator: LLVM's verifier accepts what is generated; it computes what
  the source says; a name means what it means in the function at hand; a failure
  anywhere makes the whole fail, and nothing else does.
* The two together: a text that compiles does what it says; one with an error
  does not compile; the code generator crashes for known reasons only.
* Hash table: it is a map, whatever it does inside, for the key and the datum a
  call was passed; iteration and memory
  ownership keep their promises; the load stays within the thresholds; a copy
  and a merge lose nothing.
* Strings: no write leaves the buffer, and a copy, the fields of a split and
  what is printed are those of the text.

## Modules

| Module | What it is |
|---|---|
| `TokenStream` | abstract: what `lex_scan` promises its callers |
| `Lexer` | the tokenizer, one action per loop iteration; implements `TokenStream` |
| `LexerProofs` | TLAPS proofs about `Lexer` |
| `Parser` | the parser, one action per stretch of C between two calls |
| `MCParser`, `ParserClaims` | sources offered to TLC; two statements of `parse.c` that do not hold |
| `ParserProofs` | TLAPS proofs about `Parser`: types, holes in the AST, the C stack, bounds and grouping; the AST and the brackets against the text |
| `Codegen` | the code generator over an abstract LLVM |
| `CodegenMeaning` | an interpreter of the source and one of the generated code, and that they agree |
| `CodegenProofs`, `CodegenVerifierProofs`, `CodegenProgramProofs` | TLAPS proofs about `Codegen`: types, failures, scopes; the verifier's verdict; the programs that are accepted and what becomes of verified code |
| `MCCodegen`, `CodegenClaims` | instances for TLC; a statement of `codegen.c` that does not hold |
| `Compiler` | composes `Parser` and `Codegen`; the meaning of a text, read off its tokens |
| `MCCompiler` | an instance for TLC |
| `Map` | abstract: what a hash table promises |
| `HashTable` | the table of `cfuhash.c`; implements `Map` |
| `HashTableProofs` | TLAPS proofs about `HashTable`, the refinement of `Map` among them |
| `MCHashTable` | instances for TLC; one statement of `cfuhash.h` that does not hold |
| `Text` | abstract: what a string promises, with a definition of a split |
| `CfuString` | the strings of `cfustring.c`; implements `Text`; a definition of `sprintf` |
| `CfuStringProofs` | TLAPS proofs about `CfuString` |
| `MCString` | an instance for TLC |
| `NatLemmas` | induction and recursion over the natural numbers, for the proofs |

### How the models correspond to the code

*Recursion.* `Parser` and `Codegen` keep the C call stack in `stack`. A function
is cut where it calls another one that matters; the frame's `pc` names the place
at which it resumes, and `ret` is the value just returned. So `codegen_if` is
`EnterIf` (up to the call for the condition), `Then`, `Else`, `Phi`, and
`IfFails`/`IfDies` for its other ways out. Everything between two calls happens
in one action.

*Input.* Neither model is given its input: the parser's token and the code
generator's node are chosen when they are read, within a supply per class. This
covers all inputs within the bounds, the ungrammatical ones too, with far fewer
states than starting from complete texts. `input` and `ast` keep what was
chosen. The code generator meets any node that the parser can put in that place
in an AST without error.

*Nodes* hold what the C nodes hold, a `char *` being the place in `input` of the
identifier whose text it is. A call node keeps the name of its callee and
nothing else of it (`parse.c:134`). What a node stands for is told by history
variables (`first`, `last`, `paren`) and by these fields; `CalleeLost` says of
which calls too little is left.

*Order of scan and error.* `expression()` calls `lex_scan` before it looks for a
prefix or infix function (`parse.c:261`, `273`). If the scan ends the program,
`err()` does not run (`ScanThenFail`).

*Undefined behaviour* is collected in `ub`. In `Parser`: reading behind the
source, past `vtables[]`, past `params[]` or `args[]`, and the callee name of a
node that has none. In `Codegen`: the value of an empty block, a deleted
function, a function used as a number, `main` run without its arguments. The
action has every outcome the following code distinguishes, and then the process
may also be killed. In `HashTable` the use of a freed entry ends the model
(`status = "undefined"`).

*The composition.* `Compiler` follows `test_codegen` of `test/test.c`: first the
actions of `Parser`, then those of `Codegen`. The two modules are instantiated
unchanged. `Codegen` chooses nodes, `Parser` has made them; a step that meets a
node is taken only if the node is the one the parser's pointer points to
(`Reads`), and `from` records which. Where the pointer is NULL the C code reads
through it, which is `ReadsNull`. What a text means (`TextValue`) is defined on
its tokens, by matching brackets and splitting at the loosest operator, without
the AST; numbers and names are those chosen when the code generator read them.

*LLVM* is external. `Codegen` models what `codegen.c` relies on: instructions
appended at the builder's position, folding of constants (an operation on
constants inserts nothing), functions found by name, deletion, and the verifier:
`WellFormed` checks terminators, phi nodes against predecessors, dominance of
definitions over uses, and call arities, by the definition of dominance.
Doubles are a small set of naturals with any arithmetic on them; NaN, infinity
and the unordered comparison are not distinguished.

*The hash table* keeps each chain as a sequence, newest entry first. Thresholds
count quarters, so the divisions in the model are those of the code exactly. Keys,
lower-case forms and hash functions are constants. `entries` is the counter of
the code and not the number of entries; the two differ, see below. Without
`HAVE_PTHREAD_H`, which this build never defines, locking is empty, and one call
is one action, but for `cfuhash_copy` and `cfuhash_merge`: these put entry by
entry (`CopyNext`), each put as any other. The other table is what it lists.
Keys are stored as given and compared in lower case under `IGNORE_CASE`;
`MapOf` therefore takes a key for all those equal to it. `res` holds the last
call, the key and the datum it was passed, and its answer. `Map` takes the key
for the one it stands for (`fold`, which is `Lower` or the identity) and answers
that very call: a lookup that misses a stored key, a put under another key, and a
replaced datum that is neither given back nor freed are no steps of `Map`. For
removal by predicate the argument of the call is the set of keys that the
callback accepted; what a merge does to the map is said by the puts that follow.

*Strings.* `cfu_str.str` is the sequence of cells that were allocated, with
garbage where nobody wrote, so a text is what C reads up to the first NUL and
not what `used_size` says. Characters of a format are chosen as they are looked
at and stand for the classes `cfustring_vsprintf` distinguishes. What
`vsnprintf` makes of one number is any of a few texts, shorter and longer than
the buffer it prints to. `call` holds the local variables of a split or a print;
its `fmt`, `args` and `before` are history. `res` names the last call with its
arguments: the text set or appended and how much of it, the separators and the
limit. So `Text` can judge what the call did, and an append that appends nothing,
or another text, is no step of `Text`. Where memory behind the
end of an argument, or memory that was freed, gets into the text, the `status` is
`undefined` and nothing more is said.

## Runs

| Run | What it checks | What it shows |
|---|---|---|
| `parser_expr` | `TypeOK`, `Precedence`, `AstComplete`, `DieHasMessage`, `OverreadReported`, `ListsBounded`, `DepthBounded`, `SourceOrder` | all texts of up to 7 tokens over numbers, names, three operator levels, parentheses and `;` |
| `parser_block` | `StopsAtBraceOrEnd`, `ListsBounded`, `SourceOrder`, `Terminates` | two conditionals, nested or in sequence, with and without else; or a definition with up to five names, bad characters, operators in the body |
| `lexer` | `TypeOK`, `InBounds`, `TokensTile`, `LongestMatch`, `NumbersRead`, `ImplementsStream`, `Terminates` | all texts of up to 6 characters that mix keywords, prefixes of keywords, digits, underscores, newlines and operators |
| `codegen_scope` | `TypeOK`, `ScopeIsBuilder`, `VerifierAgrees`, `StaysValid`, `AcceptsWellScoped`, `DanglingFails` | two definitions, a call, a variable, an operator, an empty block, run and emitted |
| `codegen_if` | `VerifierAgrees`, `MeaningPreserved` | two conditionals and an operator, a call and a variable in one function, nested in every way |
| `compiler` | `TextMeaning`, `SwallowedErrorsStop`, `CrashesExplained` | texts with a definition, a conditional, an operator, a call: from tokens to generated code |
| `hashtable` | `TypeOK`, `Placed`, `Owned`, `CopyExact`, `LoadKept`, `IterationExact`, `ImplementsMap` | three keys through every operation, growth and shrinking with two pairs of thresholds, copies and merges |
| `string` | `TypeOK`, `ImplementsText`, `FormatRight` | every sequence of string operations on texts of up to five characters, splits, formats of up to six |
| `claim_*` | one statement each, refuted | see *Where the code and its words differ* |

### Bounds, and why they are enough

* `parser_expr`: with 7 tokens two operators of any levels, a call in an
  operand, parentheses in parentheses, an argument list of one more than
  `MAX_FUNC_PARAMS = 2` and an operand missing at every place all occur. The
  grouping of three operators reduces to that of two neighbours, which is what
  `Precedence` speaks of.
* `parser_block`: 21 tokens are exactly what two conditionals with else branches
  need; that is where the second `block()` of `parse.c:84` would show. With
  definitions (`OneKind`: not mixed with conditionals, and up to 13 tokens; a
  text with a reported error is followed for 15) `MAX_FUNC_PARAMS = 2` and five names let parameter lists reach the limit, one
  beyond it and the place where two beyond would be.
* `lexer`: `MAX_IDENT = 5` against texts of six characters puts words at, below
  and above the buffer size; the keywords `if` and `def` and their prefixes fit.
* `codegen_scope`: two definitions are needed for names of one to be met in the
  other, for a definition in another and for a redefinition; parameter lists of
  length 0, 1 and 2, the last with the same name twice. Two more statements than
  blocks let a failing or a top-level statement follow a definition.
* `codegen_if`: two conditionals are one nested in the other's condition, then
  or else branch; the operator and the call put a conditional in an operand, so
  that a value is used in another block than it was computed in. One parameter,
  used at most once, both constants.
* `compiler`: a definition of one parameter with a conditional in it needs 21
  tokens, its parts with an operator and a call 24. One-bit numbers distinguish
  the operands of `<` and the branches. `BeginsWell` keeps texts that begin with
  `def` or `if`, so that the budget is not spent on expressions, which
  `parser_expr` covers; `ErrorsShort` follows a text with a reported error for
  12 tokens: a definition, or a conditional without else, with an operand
  missing, but not the one in the other.
* `hashtable`: initial sizes 1 and 8, so growth happens at
  every step up to four buckets and shrinking from eight; of three keys two
  collide modulo four, two are one key in another case (`IGNORE_CASE`), and a
  second hash function sends all keys to one bucket. The counter is bounded by
  3, since removal by predicate would let it grow for ever. The other table of a
  copy or a merge lists one entry (`MaxOther`), whose key collides with, equals
  or folds to one that is there. Data are interchangeable, and symmetric.
  Setting the thresholds (to 0 and 0.5) matters to the sizes only, and an
  iteration is followed through a change of size with the others; so, to save
  states, none is followed in a table whose thresholds were set (`Apart`).
* `string`: texts of up to five characters over three, built from pieces of one
  and two or empty, reach a buffer that fits exactly, one that must double and one for
  which doubling is not enough; `aab` with the separator `ab` is among them.
  Formats of six characters hold two conversions with a literal before each; of
  the two numbers one just fits the first buffer (`Scratch`, 128 in the code),
  the other makes it double. Printing begins in a fresh or small string and
  ends the exploration (`Bounds`): what is printed is a text like any other.

### Fairness

`Terminates` assumes weak fairness of the next step (`FairSpec` of `Parser` and
`Lexer`): a sequential process that can execute its next statement does so. No
fairness is assumed of a single action, and none is needed since the input is
finite. All other properties are safety properties.

## Proved

Each theorem is `Spec => []Property` or `Spec => Refinement`, checked by tlapm
for every value of the constants that the module's one assumption on them
admits: bounds are natural numbers, classes of tokens and characters are the
ones the code knows. `HashTableAssumption` asks one thing that the code does not
enforce: the second threshold of `cfuhash_set_thresholds` is not 0, with which
`cfuhash_rehash` may divide by zero.

| Theorem | Property |
|---|---|
| `LexerTypeCorrect`, `LexerInBounds`, `TokensTileSource`, `TokensAreLongest`, `NumbersAreRead` | `TypeOK`, `InBounds`, `TokensTile`, `LongestMatch`, `NumbersRead` of `Lexer` |
| `LexerImplementsStream` | `Lexer` implements `TokenStream` |
| `TypeCorrect`, `AstIsComplete`, `DyingHasMessage` | `TypeOK`, `AstComplete`, `DieHasMessage` of `Parser` |
| `ListsAreBounded`, `DepthIsBounded`, `OverreadsAreReported`, `OperatorsGroup` | `ListsBounded`, `DepthBounded`, `OverreadReported`, `Precedence` |
| `SourceIsKept`, `StopsAtEndOfSource` | `SourceOrder`, `StopsAtBraceOrEnd` |
| `CodegenTypeCorrect`, `NothingDeletedIsAccepted`, `ScopeBelongsToBuilder` | `TypeOK`, `DanglingFails`, `ScopeIsBuilder` of `Codegen` |
| `VerifierIsRight` | `VerifierAgrees` |
| `VerifiedStaysValid`, `AcceptsExactly` | `StaysValid`, `AcceptsWellScoped` |
| `HashTableTypeCorrect`, `EntriesArePlaced`, `DataAreOwned` | `TypeOK`, `Placed`, `Owned` of `HashTable` |
| `CopiesAreExact`, `IterationsAreExact` | `CopyExact`, `IterationExact` |
| `LoadIsKept` (thresholds `FarApart`) | `LoadKept` |
| `TableIsAMap` | `HashTable` implements `Map` |
| `StringTypeCorrect` | `TypeOK` of `CfuString` |
| `StringIsAText` | `CfuString` implements `Text` |
| `FormatsAreRight` | `FormatRight` |

None of the invariants is inductive as it stands. What had to be added says why
the code is right:

* *Lexer* (`LexerInv`). Between two characters the token under way is what lies
  between `start` and `offset`, and the buffer holds that (`PartInv`); after the
  NUL was read nothing is scanned any more (`EndInv`); the tokens delivered lie
  one behind the other, and whatever is not in one of them was white space
  (`TilesInv`, `CoverInv`). That the lexer puts back the character that ends a
  token is what keeps these true. The line counter is the number of newlines
  among the characters read (`CountInv`), which is why `TokensTile` counts them
  by `Cardinality`.
* *Lexer, numbers* (`ValueInv`). `n` is the `Value` of the digits read so far: one
  digit more moves each of the others up one power of ten (`ValueShifts`, by
  induction over the places). `n` is a natural number in the model and a double
  in the code, which holds the same up to 2^53 and rounds above.
* *Parser, types* (`TypeInv /\ Started`). Pointers in frames and nodes lie in
  `0..Len(nodes)`, a bound that moves when a node is allocated (`FrameMono`);
  exactly the bottom frame belongs to `parse()` (`IsStack`), so that no return
  empties the stack.
* *Parser, holes* (`Complete`). As long as `err()` was not called, a frame that
  has just been returned to was given a node, and each frame holds nodes in the
  fields its `pc` says were set.
* *Parser, stack*. `Moves` says of every action which frames take the
  place of the top one; the theorems on the stack need no more than that.
  `StackFits` bounds the lists, and the depth by a potential: frame `i` with
  `Room` more calls to make before it must read a token satisfies
  `i + Room <= 2 * tokens + 1`. `CallGraph` says which function's frame lies on
  which, and with which binding power an operand is parsed; `Grouping` then
  says how the left operand held by a frame, the value just returned and the
  nodes made relate to their operators.
* *Parser, source* (`Sourced`). While no error is on record each frame knows
  where the construct it reads began and what of it is read (`Own`), its callee
  begins where it waits (`Starts`), and the top frame has come as far as the
  lookahead (`Reaches`). The name of a definition and its parameters are places
  in the text and part of that (`Named`, `Listed`); the name of a call is where
  its callee was, or the callee was no name (`CalleeSpans`). A scan that ends the
  program leaves its frame as it was, so the last two are claimed of processes
  that did not die. Nodes are made after their children and no other node or
  frame points to the one just returned (`Fresh`, `Answered`), so adding
  parentheses to it changes nothing else. `AgainEmpty` is the reason why the
  second `block()` of `parse.c:84` is harmless.
* *Parser, brackets* (`Bracketed`). A frame is inside a parenthesis, inside a
  brace or inside no bracket of its own (`BracketOf`), and these, added up along
  the C stack (`IsNesting`), are what is open before the lookahead. Each step
  reads tokens that have just the `Effect` by which its frames change, so no
  function leaves a bracket open that it read, and none takes one it did not
  open: only `block()` at the top level ends at a brace that belongs to nobody.
* *Code generator, types* (`TypeInv`). Values and positions that suspended
  frames hold exist; they stay valid because functions, blocks and nodes are only
  added (`Grown`), also when a function is deleted or generated again.
* *Code generator, failures* (`DoomInv`). Once a function was deleted a failure
  is on its way down the C stack: it was just returned to a function that will
  hand it on, or is kept as the left operand of an operator (`codegen.c:193`).
* *Code generator, scopes* (`ScopeInv`). The nodes of the suspended frames are
  the ancestors of the node at hand (`Scoped`), and the innermost
  `codegen_funcdef` frame owns builder and symbol table, until another
  definition is nested in it (`Building`).
* *Code generator, verdicts* (`VInv`). Of every function under way (`Sane`) a
  failure is on its way to it (`DoomedIn`), or another definition is nested in it
  and left a block that nobody will close (`Abandoned`), or it is `Valid`: there is
  a certificate `dom` of the blocks that control has passed whenever it is in a
  block, checked edge by edge (`Certified`), by which every operand was computed
  before (`CodeFine`). A certificate implies dominance, which is defined by
  reachability (`ReachableWithin`, `CertifiedDominates`). Each suspended
  frame holds what the blocks in which it goes on need (`FrameFine`): the values
  it keeps are there wherever the frames above it may be (`Held`), its else and
  merge blocks are still empty and come after what came before the conditional
  (`Awaits`). Only these and the builder's block are not closed (`Over`), so with
  the final `ret` all are, and `FineIsWellFormed` applies. A nested definition
  takes the builder away (`codegen.c:280`) and `codegen_funcdef` does not put it
  back: the block it stood in is `Abandoned`, no later step can
  reach it (`AbandonedGoes`), and the verifier rejects the function.
* *Code generator, programs* (`PInv`). Most steps neither begin nor end a
  definition (`Turns`): they add code and hand a failure on. What a step must show
  of its own is `Honest`: it makes a failure only of a program that breaks a rule,
  meets a node that breaks one only if it fails, and adds no code to a verified
  function. For calls and definitions the bridge to LLVM's lookup by name is that
  unless something failed every definition met has its function and no two have
  one name (`Declared`, `NamedIsDefined`); for variables it is `ScopeInv`. What
  may break a rule unnoticed is a variable at the top level (`OnlyTop`), looked up
  in the table of the last function. The builder of `lilc_eval` stays in the
  function that was defined last, so code reaches a verified function only from a
  statement of the top level that is no definition (`Loose`, `TopLevel`) or from
  around a nested definition (`NestedIn`), which breaks a rule. Otherwise code
  that was found well-formed stays as it is, and what it calls is not deleted
  (`Standing`, `LastingKept`). At the end the bottom frame is alone, no function
  is open any more (`Tended`), and the lookup of `main` finds it if and only if
  it was defined (`MainNamed`).
* *Hash table* (`HInv`). Chains are reasoned about as sets of entries: each
  operation is shown to build chains (`Built`) whose entries are those before
  with one more, fewer or another, or none, and from that all else follows. The
  counter is at least the cardinality of that set, and the key an iteration stands
  on is in it. `HashSize` ends with a power of two (`HashSizeFacts`, by
  induction over `PowerOfTwo`); what is rehashed loses nothing (`ChainsMoved`).
  `OwnInv` adds that data are pairwise different, those still to be put by a
  copy included.
* *Hash table, refinement*. `MapAt` is the map that a set of entries stands for;
  `PutMaps`, `DeleteMaps`, `RemoveMaps`, `GetMaps`, ... show for each call that it
  changes and answers as the action of `Map` for that call, key and datum does, `TuneMaps` and `SameMaps`
  that growth, shrinking, flags, thresholds and hash functions are not seen
  (`MapStep`).

* *Hash table, copies* (`CopyAims`). For each key the last entry still to be put,
  or else the table itself, has a datum the key may end up with (`Aims`); putting
  an entry keeps that (`CopyGoesOn`), so at the end the table has it.
* *Hash table, iteration* (`Visiting`). The keys returned are those, of the ones
  that were there all the time, in the chains before the position and up to the
  position in its chain (`Visits`). Every call that does not resize the table
  leaves the keys it keeps in their chains and in their order (`SameOrder`): a
  put goes to the front, a removal closes the gap (`OrderOfFront`,
  `OrderOfRest`, `OrderOfChosen`).
* *Hash table, load*. `cfuhash_rehash` asks for `8n / (high + low)` buckets
  (thresholds in quarters); `hash_size` gives at least as many and less than twice as
  many (`HashSizeTight`). With low and high far enough apart
  (`FarApart`: high at least three times low, and both together at most one entry
  per bucket) both bounds of the load follow from that (`SizeFits`).

* *Strings* (`BufferInv`). The cells up to `used_size` are characters and a NUL
  (`Sound`); `GrownSound` and `AppendedSound` show that an append keeps that and
  puts its argument behind the text, whether the buffer grows or not. While a
  format is read the pointers `start`, `end` and `ptr` lie within what was read
  of it (`FormatInv`), so that a flush never copies from outside the format, and
  `RoomFacts` says that `_safe_sprintf` ends with a buffer that cuts nothing off.
* *Strings, refinement* (`TextInv`). The text a reader sees is `Held`: the one in
  the buffer, or the one there was when the call under way began. What
  `_check_sep` counts for a separator is the length of a piece of it that the
  characters just looked at match, since some attempt at it began (`SeenMatches`);
  so the first counter that is full stands behind a separator and the field
  before it is `Clean` (`FieldsAreClean`): a separator stays in it only where
  another attempt at it was under way, as `ab` in `aab`. The fields found so far lie in the
  text from cut to cut up to `start` (`SplitOf`), each step adds one cut
  (`CutAdded`, `SplitGoesOn`), and an empty field is the end of the text, or has a
  separator behind it (`SplitIsDone`).
* *Strings, formats* (`PrintInv`). What is in the buffer, followed by the literals
  that wait between `start` and the place looked at (`Pending`), is what a
  reader of the format would have printed so far (`Progress`), unless one of the
  conversions that go wrong has been read (`Wrong`). `Awaits` says for which
  literals `start` and `end` stand, also when they are equal, which they are for
  one literal and for none. `FormatState` and `Expected` are recursive functions;
  `StateIs`, `UsedIs` and `OutIs` show them to be the ones built one character at
  a time (`OneMore`).

The library's induction theorems take operators as parameters and cannot be
used; induction over natural numbers goes through sets (`Induction`) and least
counterexamples, recursive functions through `Recursion` (`NatLemmas`).

Only checked by TLC, and why:

* `Terminates`: liveness is out of the prover's reach.
* `MeaningPreserved`, `TextMeaning`: interpreters written as recursive operators,
  over which nothing can be proved.
* `SwallowedErrorsStop`, `CrashesExplained`: no interpreters themselves, but
  properties of `Compiler`, whose `C!Run` and `TextValue` are recursive operators.
  They relate the two components node by node; `AstIsComplete` proves the
  parser's side of `CrashesExplained`, where the AST can have a hole.
* `LoadKept` for thresholds that are close to each other: there it does not
  hold, since a resize can overshoot. `LoadIsKept` has `FarApart` as its
  hypothesis, which the thresholds every table is made with satisfy (lilc never
  sets others) and those of the run too.

## Where the code and its words differ

Each of the first four has a run whose counterexample shows it.

1. `claim_errors_are_fatal`: `parse.c:325` says that parsing succeeds or
   crashes. A NULL left operand is handed on (`parse.c:278`), so `(,)+a;` is
   accepted after `err()` ran, with a hole in the AST.
2. `claim_too_many_params`: the loop at `parse.c:176` admits
   `MAX_FUNC_PARAMS + 1` parameters, one more than `params[]` holds, and the
   limit is then compared with `==`, which that number passes.
3. `claim_user_main`: `lilc_emit` wraps the program in `main` always, not only
   "if user hasn't" (`codegen.c:99`); a program with a `main` cannot be emitted.
   By the same wrapping every definition is nested, which the verifier rejects:
   no program with a definition can be emitted (`VerifierAgrees` says which
   functions are rejected).
4. `claim_entries_counted`: `cfuhash_foreach_remove` does not decrement the
   counter that `cfuhash_num_entries` returns. What `cfuhash_keys` and
   `cfuhash_set_hash_function` rely on, that it is never too low, does hold and
   is part of `Placed`.

Seen while modelling, part of the models, and without a run of their own:

* A stray `}` ends the program: `block()` stops there at the top level too and
  nobody looks for the end of the source (`parse.c:307`).
* `vtables[]` has no element for `ELSE`; `expression()` indexes it nevertheless.
* A call takes the name of whatever stands left of the parenthesis; if that is
  not a variable, the cast reads another node type. If it is a call, `f(a)(b)`,
  the name is right and the arguments `a` are dropped from the AST: an error in
  them is reported, and the program compiles. `SourceOrder` and
  `SwallowedErrorsStop` except what is lost in this way, and only that.
* `named_vals` is cleared when a definition begins and not when it ends
  (`codegen.c:269`), so a variable behind a definition, outside of any function,
  is taken for that function's parameter.
* Commas between arguments and parameters are optional; an `else` must be
  followed by a block, so the `elif` of the README's grammar is not implemented.
* An identifier of exactly 64 characters is split in two tokens (`lex.c:47`),
  though `lex.c:36` allows it.
* An `if` without else makes `do_codegen` read a NULL pointer, an `if` outside
  of any function `LLVMGetBasicBlockParent` (`codegen.c:343`, `366`); blocks
  without statements yield an uninitialised pointer (`codegen.c:179`).
* Statements behind a definition are inserted into that function, after its
  `ret` and after it was verified; `StaysValid` excludes such programs when run.
* `cfuhash_foreach_remove` passes NULL instead of the caller's free function for
  entries at the front of a chain (`cfuhash.c:693`): without a free function of
  the table their data leak. `Owned` is stated for tables that have one.
* `cfuhash_set_thresholds` accepts `(0, 0)`, after which `cfuhash_rehash`
  converts an infinite or undefined quotient; thresholds close to each other
  make a resize overshoot. `LoadKept` is checked with the default thresholds
  and with (0, 0.5).
* `cfuhash_copy` shares the data of two tables; if either has a free function
  it frees what the other holds.
* `cfustring_vsprintf`, "like vsprintf()": a number's conversion at the start
  of a format or right behind another conversion is preceded by a stray `%`
  (`"%d"` prints `%7`); a single literal at the end is dropped (`"%d\n"`); a
  blank in a conversion ends it; `%c` and `%i` swallow what follows up to a
  conversion it knows; a `%` that nothing ends makes it read behind the format
  (`cfustring.c:577`); literals count twice in the value returned. `Supported`
  is what is left, and for that `FormatRight` holds.
* `cfustring_split` ends at the first empty field, so `",a"` has none, and does
  not find the separator `ab` in `aab` (`cfustring.c:239`). `IsSplit` says so.
* `cfustring_append_n` does not advance the pointer with which it counts the
  characters of its argument (`cfustring.c:116`): if there are fewer than `n`
  and not none it appends `n`, what lies behind the NUL among them. Its callers
  in the library never ask for that many.
* Appending a string's own buffer to it is a use after free if the buffer grows
  (`cfustring.c:144`), and `cfustring_dup` with it empties the string.

## Not modelled

* `ast_readf`, `tok_readf`: formatting for the tests. They keep no state but
  the place in a buffer whose size they are not told.
* LLVM set-up, object emission, `path == NULL`, IR dump, printing of messages.
* Of the hash table: `cfuhash_foreach`, printing and bencoding; `NOCOPY_KEYS`;
  NULL keys; changing `IGNORE_CASE` or the free function of a table that holds
  data; storing one datum under two keys, which includes what becomes of the
  other table after a copy.
* Of the strings: the buffer for one conversion's specification; a format or a
  separator inside the string's own buffer. The functions on C strings
  (`cfustring_sprintf_c_str`, `cfustring_c_str_split`) make a string, call the
  modelled operations and destroy it, and are not actions of their own.
* `cfu.c` (type tags, no state), `kvec.h` (its vectors are sequences in
  `Parser`), `util.c` (reads a file, exits).
* Exhaustion of memory: no allocation is checked in the sources.

## Plan

1. Done: lexer, parser, code generator, hash table, strings; the parser and the
   code generator composed; abstract token stream, map and text; the theorems
   above.
2. The lexer under the parser's calls, the parser seeing only what
   `TokenStream` promises.
