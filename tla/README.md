# TLA+ models of the smalldragon compiler

smalldragon compiles the dragon language to C with three programs that hand
files to each other: `lexer` writes `.tokens`, `parser` reads them and writes
`.ast`, `transpiler` reads the tree, checks and analyses it, writes C and calls
gcc. Everything runs in one thread; what is hard here is not interleaving but
state carried along a traversal (flags, counters, marks, positions), loops and
recursions over cyclic data, and arrays that grow while they are read.

## Inventory

| part | state | operations | what makes it correct |
|---|---|---|---|
| lexer (`lexer/smalldragon.flex`, `driver.c`) | start condition, `line_no` | one rule at a time writes a record | records are the tokens of the text; `LINE_NO` counts every newline |
| token reader (`token/reader`) | current line number | loop over records | ends; every token gets the line of its record |
| token list (`token/list`) | shared array, `capacity`, per view `index_head`, `tokensc` | `list_add`, `list_copy`, `list_consume`, `list_set` | writes stay inside; a failed alternative leaves the caller's view alone |
| parser: expressions (`Expr.c`) | lists of terms and operators | grouping pass, splitting of chained comparisons | operand order, precedence by levels |
| parser: the rest | position in the token list | one routine per node kind, each on a copy | accepts the sentences of the grammar and nothing else, ends |
| AST nodes (`ast/ast.h`, `ast/ast`) | trees of nodes with optional fields, arrays and unions | `make` | a field is assigned before it is read |
| AST reader and writer (`ast/io`) | file position | one pair of routines per node kind | what is written is read back; a damaged file is refused |
| AST utilities (`ast/util`) | - | free, copy, compare, print | a node is freed once; a copy is whole |
| visitor (`ast/visitor`) | - | calls back for each node | shows an analysis every node it needs |
| tables (`tables`) | SST, LVST, STST, lists of callers and callees | add, get, clear, resize | one line per name; mutual lists agree |
| type checker | `depth_inside_try_stmt`, `tc_err_count` | one routine per statement | rejects exactly the raises nobody handles |
| analyses: functions, dead code, termination, annotations | callers/callees, `dead`, `halts`, warnings | traversals, fixpoint passes, `mark_live` | sound verdicts, end on cyclic call graphs; silence about an annotation can be relied on |
| lambda lifting | methods of the namespace, their capacity, lambda counter | visitor that appends methods to the array it walks over | each lambda becomes one method of its own, and its argument names it |
| code generator | `in_try_block`, `index_try_stmt`, indentation | one routine per node | every jump goes to the right `setjmp`; struct layout keeps the members |
| tool pipeline | files, exit statuses | run, check, go on or stop | success means that the sources as they are were translated; a failed build leaves what was there |

The parts share data, not control: the parser fills an AST that the
transpiler's stages read in turn; `fill_tables` makes the tables,
`typecheck_ast` decides whether to go on, then the function analyzer fills the
call graph that the dead code and termination analyses read. The visitor is the
callback between the AST and every analysis.

## Modules

The front end:

| module | models | state and actions |
|---|---|---|
| `TokenFile` | lexer and token reader with the `.tokens` file between them | one action per rule and per record |
| `TokenList` | the token list and its copies | `Add`, `StartParser`, `Copy`, `Expect`, `Jump`, `LookBehind`, `Accept`, `Reject`; `made` remembers which tokens went into the node of each routine |
| `FrontEnd` | both: each token the reader makes is a `list_add`, the parser starts on what the reader returns | extends `TokenList`, takes `TokenFile` by INSTANCE |
| `ParserRoutines` | the `make...` routines of `parser/main/astnodes` | a table: what each step of a routine looks for, which routine it calls, where it goes on failure |
| `Parser` | the routines at work | the C call stack with the position of each list and the NULL pointers in each node; a token is a set of kinds that reading it narrows, so that a behaviour stands for many files |
| `ParserGrammar` | the grammar of `parser/README.md` (`Readme`), as a reference, and the part of it the parser keeps (`Unkept`, `Kept`) | `Derives`, by sets of positions |
| `ExprTree` | `fullTreeTransformation` and the copy it makes of a term | the two lists; a term is its operator, its operands and operators from left to right and the `Expr`s in it; one action per iteration of the grouping and of the chaining loop |
| `AstNodes` | the kinds of nodes, their fields and alternatives, and the trees the parser makes | a table of shapes; `ParseNode` fills one node and makes its children, `ParseRun` does so for `a \|\| b \|\| c`, where two nodes hold one operator |
| `AstFile` | `write_ast`, the `.ast` file, `read_ast`, and `free_ast` in both programs | tables of what each routine writes, reads and frees; one action per call, word or flag (`WriteNode`, `ReadNode`, `ReadTag`, ...), with the C call stack in `todo` |

The transpiler:

| module | models | state and actions |
|---|---|---|
| `Lambdas` | `fill_tables`, the visitor of `transpile_lambdas.c`, `backfill_lambdas_into_sst` | one action per namespace, method, argument and lambda visited; `methods` grows in `Lift` while `VisitMethod` walks over it |
| `TryCatch` | type checker and code generator on throw, try and catch | a body is a list of events (open a block, raise, close); two walks over it, first the checker's (`Tc...`, with `depth_inside_try_stmt`, `tc_err_count`) and, if it accepts, the generator's (`Cg...`, with `in_try_block`, `index_try_stmt`); `emitted` remembers the `jmp_buf` of every raise |
| `Lines`, `Calls` | the lines of the table; what the visitor reports of a body: `visit_if` visits its condition, `visit_while`, `visit_loop` and `visit_for` pass theirs by | operators only, no state |
| `FnAnalyzer` | `analyze_functions` with the visitor and the lists of callers and callees | `VisitMethod`, `VisitCall`, `VisitUnknownCall`, `VisitOther`, `LeaveMethod`, `NoMethod` |
| `DeadAnalyzer` | `analyze_dead_code` | `mark_live` with its stack of frames: `VisitMain`, `VisitVar`, `NextCallee`, `Leave` |
| `Reachability` | its abstract specification: a search that grows by any known callee | `Grow` |
| `HaltAnalyzer` | `analyze_termination` | one action per loop iteration: `EnterPass`, `Skip`, `Mark`, `EndPass`, `Return` |
| `Termination` | its abstract specification: mark any justified line | `Infer` |
| `AnnotationAnalyzer` | `analyze_annotations` for subroutines | a walk over the methods and their calls that adds warnings |
| `Analyzers` | the four analyses on one table, in the order of `transpileAST` | extends `FnAnalyzer` and composes it with the other three by INSTANCE on the same tables |
| `StructReorder` | `struct_reorder` | one action per comparison |

Around them:

| module | models | state and actions |
|---|---|---|
| `Toolchain` | `sd`, the lexer and the parser it runs through the shell, gcc, and the harness that runs tests | files that stay from one build to the next; one action per program, for success and for each way to fail; sources change between builds (`Call`), any program may be killed (`KillTool`, `KillSd`, ...) |

`MC...` modules supply the inputs for TLC (bodies, call graphs, source texts,
token files) and nothing else but, for the parser, the properties that need
the grammar. `..._proofs` modules hold the proofs. A definition named
`Bug...` is a plausible mistake in the definition that follows it; put in its
place, it makes TLC find a property violated. It is used nowhere else.

## What the runs check

Runs that pass:

| run | question | bounds, and why they are enough |
|---|---|---|
| `TryCatch` | is the depth counter exact, is every rejection justified, every accepted raise handled, and by the handler it belongs to | bodies of 9 events, `else` included: a try in a try with raises on both sides of the inner one, several tries in sequence; what the checker never looks at (`else`, cases, and the hidden expressions: conditions, arguments of C subroutines, integer arguments, indices of arrays) is excepted from `VisitedIsProtected`, and nothing else, what follows a nested try from `HandlerUntilNestedTry` |
| `Analyzers` | are callers and callees inverse at every step and exactly the calls of the bodies; are the verdicts sound, complete and final, do they hold of the bodies themselves, and is what nobody warned of true; do the passes and `mark_live` end and implement `Termination` and `Reachability` | 3 lines, at most 2 items in a body and 2 calls in those of three methods: a cycle of three, a cycle next to a chain, a prototype or a constructor between two methods, `while`, repeated calls, function pointers, with and without `main`, one namespace or two. A verdict depends on the callees alone, so that three lines hold one before, one in and one after a cycle |
| `ExprTree` | does the tree of an expression follow the levels of the operators, whatever chains of comparisons were split on the way | 5 operators, one or two of each level: a chain of three comparisons next to arithmetic and logic |
| `StructReorder` | is the sort a stable permutation, largest first | 5 members with every combination of sizes |
| `FrontEnd` | do tokens and lines survive the file between two tools and the array that grows while it is read, and does each token go into one node whatever was tried and given up | 4 pieces of text: comments over several lines, two string constants in a line, quotes in a comment, a `break` at the end of the file. `TokensAreTheCode` says what is lost to a string that runs to the last quote of its line (`Swallowed`), and that behind a comment it ran into only the order is kept (`Astray`); lines are those of the source up to the first comment over several lines (`Uncounted`). 3 copies; fields of 3 bits: an array of 2 grows to 4, and its next capacity, 8, is 0. Above half of what a field counts the code writes outside, which `WritesInside` excepts and the real fields reach with 40961 tokens |
| `Parser` | is what the parser writes a file for a program, and is a program accepted; does it end | every file of 6 tokens, every body of 5 and argument list of 4, and longer samples of every kind of statement and declaration with each token replaced, taken out or put in, or cut off anywhere. The samples hold what is longer than that, a call, a loop, a switch, a type of a subroutine, with one error anywhere, a lambda of one parameter more than `MaxParams` = 2 allows, and forms the parser does not keep. Excepted: the forms of `Unkept`, the comma no type follows (`Spinning`) and the file of nothing but includes |
| `AstFile` | is what the parser writes what the transpiler reads, and is every node freed once, but for the operators of a run of `\|\|` | every tree in which at most two choices are not the plainest (`MaxChoices`): each kind of node, each option present and not, each array with two elements and with none, two of them in one tree. For the smallest tree (`MaxCut`) the file loses any number of its last words, and what is read behind the end is what was required at most once (`MaxGuesses`) |
| `Toolchain` | does success mean that the sources as they are were translated, does a failure leave what was there, does a test run its own program | 2 files, 4 texts (a program, one without `main`, one that is not typed, one that does not parse), 2 builds or tests, 2 kills: enough for a build to find what any kind of build before it left |
| `Lambdas` | is each lambda the visitor is shown lifted once, and does its argument name its method | 4 calls and 4 lambdas: nested three deep, side by side, outside of arguments, in one or two namespaces; the unset capacity below, at and above the number of methods |

Runs that show where the code and what is said of it part:

| run | shows |
|---|---|
| `TryCatchNested` | after a nested try the outer one is forgotten: `throw` leaves the method (`cg_trycatch.c:29`) |
| `ExprCopy` | `a < b + c < d` becomes `a < b && b + c < d`: `copy_expr` copies the first term only (`copy_ast.c:29`) |
| `AstFileCase` | a case without a block is read with a `block` nothing was assigned to (`ast_reader.c:782`), which the code generator and `free_case_stmt` follow |

Other places where the code does less than one may expect, which the models
contain and no run is spent on:

- `else` blocks and cases are not type checked (`typecheck_stmts.c:98`), nor is every
  expression: the arguments of a subroutine of C (`typecheck_methodcall.c:60`), an
  integer argument (`:180`), the indices of an array (`typecheck_term.c:38`) and
  conditions. What raises there unprotected is accepted; `Overlooked` names these places.
- Calls in the condition of a `while`, the count of a `loop` and a range are not seen
  by any analysis (`visitor.c:193`), which `AllSeen` excepts in `Analyzers`; no line is
  ever marked dead (`dead_analyzer.c:42`).
- Every operator has a precedence of its own, so that `a - b + c` is the tree of
  `a - (b + c)` (`Expr.c:177`), although the comment there and `docs/html/operators.html`
  put `+` and `-` on one level; `cg_term.c:13` writes the brackets, and the C program
  computes that. `BindsByLevel` does not speak of different operators of one level.
- In `a || b || c` the first operator is in two nodes and the second in none
  (`Expr.c:253`): `free_ast` frees the one twice, which may abort the parser when its
  file is written, and the other never (`ParseRun`, `FreeAgain`; `Shared` and `Lost` in
  `FreedOnce`).
- Newlines in block comments are not counted (`smalldragon.flex:22`); a string runs to
  the last quote of its line, so that what stands between two strings is lost
  (`:74`), as in `docs/html/comparison-chaining.html:58`.
- `break`, `continue` and `throw` take two tokens without a look at the second, so
  that `break }` is accepted (`Stmt.c:57`, `Passed` in `ParserGrammar`), and at the end
  of a file the count of the list goes below zero; the parser does not end at
  `((A, ) -> B)` (`SubrType.c:77`, `Spinning`); a file of nothing but includes is read
  beyond its end (`Namespace.c:75`).
- `(a, ) -> a` is a lambda with a parameter that is NULL (`Lambda.c:58`), which the
  writer follows (`ast_writer.c:277`): the model ends as `undefined`. So it does, or
  refuses the file, at an argument without a name, which is freed and then read
  (`DeclArg.c:34`), and at a range without its dots or its end, which goes on with a
  list that was freed (`Range.c:28`, `:40`).
- Four forms of `parser/README.md` no routine parses (`Unkept`): an array constant
  (`:25`, `:108`), an argument without a name (`:35`), a list of type parameters (`:45`)
  and `return` without a value (`:88`); and a lambda has at most `LAMBDA_MAX_PARAMS`
  parameters.
- A cut `.ast` file is refused only because the number that is not there happens
  to be another one (`serialize.c:37`).
- The capacity of the methods array is never set by the reader of the `.ast` file,
  and where it is wrong `Lambdas` ends as `undefined` (`transpile_lambdas.c:167`); with a
  method of the user called `lambda_0` it ends in `sst_add` (`cg.c:242`).
- A C file that gcc refuses is no failure of `sd` (`transpiler.c:102`), which is why
  `BuiltFromSources` speaks of the C file and not of the executable; a tool that is
  killed without the shell saying so is taken for one that succeeded, which
  `unseen` excepts (`invoke.c`). No program looks at the results of `fprintf`, `fwrite`
  and `fclose`: a `.tokens`, `.ast` or C file that was cut off for lack of room goes with
  exit status 0, and a C file that cannot be opened for writing reaches `setvbuf` as
  NULL (`cg.c:76`). `Toolchain` has neither, so that `BuiltFromSources` says nothing of
  them.

Deadlock is not checked, since every model stops where the program goes on
elsewhere or ends; `TokenList` stops after a write outside the array and after a look
behind the end of a list whose count has wrapped.

## Fairness

Each program has one thread that does not wait: the only fairness is weak
fairness of the whole next-state relation (`WF_vars(Next)`), that the program
goes on as long as it can; in `FrontEnd` of the reader alone (`LexAndRead`). `Ends` in
`Analyzers` and `FrontEnd` and `EndsOrSpins` in `Parser` need it, and the refinement of
the two abstract specifications (`ComputesLeastSet`, `ComputesReachability`). The
other models state safety only; in `Toolchain` a user may stop at any time.

## What is proved

With TLAPS, for every value of the constants:

- `TryCatch_proofs`: types, `DepthCountsOpenTries`, `LocalTargetIsInnermost`, and what
  the checker and the generator promise each other: `RejectedForAReason`,
  `VisitedIsProtected`, `HandlerUntilNestedTry`. The inductive invariant says that the
  frames still open are the opening events without a close; the checker's counter
  and the generator's flag are each related to the frames of the walk they belong
  to. The last three compare the stack of a walk with the brackets of the body: by
  counting brackets, blocks nest and the blocks around an event (`Around`) are one on
  each level; `Blocks` says that the stack holds those but for what the checker
  jumps over. On that, `Counted` says what an error and the lack of one stand for, and
  `Flagged` that the generator's flag tells whether the last try it entered is open.
- `DeadAnalyzer_proofs`: types, `LiveIsReached`, `LiveIsClosed`, `NoLineTwice`, and
  the refinement of `Reachability`. The invariant is that of a depth first
  search: a live line's callees are live or still pending in a frame of the
  stack (`Covered`, `Pending`).
- `StructReorder_proofs`: types, `EachMemberOnce`, `EqualsStayInOrder`, `LargestFirst`.
  `Bubble` says that after n passes the last n places hold their final members
  and that the pass carries the smallest it has met.
- `Analyzers_proofs`, of the termination analyzer: types, `MarkedHalt`, `NothingMissed`,
  `VerdictsAreFinal`, and that every step is a step of `Termination`, stated of the
  instance `H` and so for any table of callees. Soundness is inductive because a
  set of lines that can run forever would have to contain a callee of the line
  being marked; completeness needs that every line before `i` in the pass is
  settled (`Settled`), which stopping at the first find does not disturb.
- `Analyzers_proofs`, of the function analyzer: types, `CallersInvertCallees`,
  `CalleesAreTheCalls`, `PointersNoticed`. `WalkOK` relates the lists to
  the calls already shown (`Shown`, `Before`). Of the pipeline, what it promises of a program's source:
  `MarkedTerminates`, `LiveIsReachable`, `SilenceIsEarned`, `NothingMissed`, `NoLineTwice`,
  `VerdictsAreFinal`, and that it implements the safety parts of `Termination` and
  `Reachability` on the calls of the source. The invariant `PInv` is the conjunction
  of those of the parts with `InTurn`, that an analysis finds the table as
  `fill_tables` left it until its turn has come, and `Warned`, that the walk over the
  annotations has warned of everything it has passed. `InTurn` is what the
  composition adds: a verdict is sound for the callees recorded when it is given,
  and sound for the source only since none is given before all are recorded.
- `FrontEnd_proofs`, of the token list: `EachTokenOnce` (`TokensGoIntoOneNode`) and
  `WritesInside`, for fields of any width, any file and any number of routines. `IInv`
  says that the lists of the routines start where their callers stand and that all
  show one array; the count of a list is what is left of the file, or one below zero
  behind a `break` that is its last token, from where nothing is consumed any more
  (`CountsTheRest`). While the file is read, the reader is inside of an array with one
  number to spare (`Filling`), and the capacity wraps only when more than half of the
  numbers are taken; from then on the behaviour is undefined.
- `FrontEnd_proofs`, of the lexer and the reader: `TokensAreTheCode`,
  `LinesAreTheSources`, for a source of any length with quotes anywhere. `FileInv` says
  where the lexer can be, at the begin of a piece, inside of the comment that the
  start condition names, or astray behind a string (`AtPiece`), that the records are
  those of the code before it which no string has swallowed (`TokensBefore`), that its
  counter is the line of the source unless a comment over several lines has begun
  (`Lexed`), and, of the reader, that its tokens are the token records behind it, each
  with the last line number before it (`ReadFrom`). Of the two together:
  `TokensOfTheFrontEnd`, that the lists keep `EachTokenOnce` and `WritesInside` on the
  tokens the lexer makes of the text.
- `Parser_proofs`: the types of the stack and its frames (each at a step its
  routine has), `NoLeftRecursion`, and that the C stack is never deeper than six
  routines for each token consumed, and six (`Shallow`), for any files and samples.
  `TablesOK` reads off the tables of `ParserRoutines` a rank for each routine, which a
  call that is made before anything is consumed lowers; `StackInv` carries it over
  the frames of the stack.
- `ExprTree_proofs`: types, `OperandsInOrder`, `BindsByLevel`, `NoComparisonCompared`,
  for an expression of any length and any of its operators. The invariant has two
  parts. `PrecedenceOK` says, beside what the properties say of each `Expr` (`ExprsOK`), that a term that was grouped binds at least as much as
  each operator left and more than those before it (`Strongest`, `FoundFirst`: what
  the search found, it found first), and what a phase leaves to the next
  (`Phases`): no arithmetic behind the first, unless only two terms are left, and
  behind the second no two comparisons next to each other (`Apart`) nor one next to
  a term that is a comparison (`Alone`). `OrderOK` says that the operands of each
  term and of terms next to each other are linked as in the source (`Linked`,
  `Seams`), where a seam is still as it was written (`Plain`) or one the chaining has
  split (`Split`), and that a term the chaining has yet to pass is made of arithmetic
  alone (`Blocks`), so that its first operand is where a copy must go. That the search has a result is the well-foundedness of
  the natural numbers. Only `MaxOps \in Nat` is assumed, and it bounds nothing in
  the proof.
- `Toolchain_proofs`: types, `TestRunsItsSource`, `FailureKeepsOld`, `BuiltFromSources`, for
  any number of files, builds and kills. `TestInv` says that through a test every
  file that is there holds the source of the test; `FailInv` that until gcc is called
  a build has touched nothing but hidden files; `BuildInv` that the hidden files of
  the names the loop has passed are those of the sources.

The types of these modules are proved and not model-checked as well.

Assumed of the constants: `Size \in Nat`, `Count < 65536` (the loop counter is a
`uint16_t`), that bodies are well bracketed (`BodiesAssumption`, what the parser
delivers), that `Parses`, `WellTyped` and `WithMain` are texts, and for the token list
`RoomAssumption`: the array may grow once before its capacity wraps (20 of 2^16
in the code; that 2^16 is an even number is stated, as the provers do not compute
powers). TLC evaluates each assumption on every run whose module extends it.

Only model-checked: the liveness properties and the fair parts of the
refinements (fairness is out of the prover's reach); `AcceptedIsSentence` and
`SentenceIsAccepted` of the parser, whose grammar is a `RECURSIVE` operator the
prover cannot use; `ReadExactly`, `ReadBack` and `FreedOnce` of `AstFile` and
`LambdasAreLifted` of `Lambdas`, which speak of trees of any depth: what a recursive
definition yields for all of them needs induction over data. The tree of an
expression is proved about because the model keeps of a term only what the
properties tell apart: its operator, its operands and operators from left to right,
and the set of its `Expr`s.
Induction over numbers is at hand where a property needs it: that a set
with 0 that is closed under +1 is Nat is a lemma of `FrontEnd_proofs` (`Inductive`),
by the smallest number it would lack.

## Plan

What may follow, in this order: the table of local variables with the local
variable analyzer, against a map from names to the first declaration; type
inference with the checker of calls on top of it; the annotations of structs and
their members.

## Not modelled

- Type inference and all of the type checker but its rule for throws: pure
  functions over trees, of which a model would repeat the cases one by one. With
  the checker of calls go the two places where it reads what it has freed or not
  found (`typecheck_methodcall.c:69`, `:154`).
- The tables of local variables and of structs, the local variable analyzer, and
  the growth of the hash maps: only what is not modelled reads them.
- The warnings about private structs and members.
- The text of the generated C (wording and layout), `str_ast` and the printing of
  tables and trees: formatting without state but the indentation.
- The two arrays of 200 places for the terms and operators of one expression,
  which are written beyond their end by longer ones (`Expr.c:67`).
- The regular expressions of single tokens, and flags that only print something.
- The standard library and the examples (programs, not the compiler).
