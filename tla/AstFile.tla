------------------------------- MODULE AstFile ------------------------------
(***************************************************************************)
(* An AST on its way from the parser to the transpiler: write_ast, the     *)
(* .ast file, read_ast (ast/io), and free_ast (ast/util) at the end of     *)
(* each of the two programs.                                               *)
(*                                                                         *)
(* The file is a sequence of words: a magic number, a number the reader    *)
(* acts upon, or text and values that it only stores.                      *)
(***************************************************************************)
EXTENDS AstNodes, Integers

CONSTANTS
  MaxCut,       \* bound: the file loses its end only when the tree has fewer
                \* choices than this; 0 when it never does
  MaxGuesses    \* bound: how often what was never read is what was required

VARIABLES
  phase,      \* "parse", "write", "free" and then "read", "free_read", "done";
              \* "exit": a routine refused the file; "undefined": a pointer
              \* nothing was assigned to was followed; "aborted": free noticed
              \* that a node was freed already
  source,     \* what the parser wrote, for the properties
  file,       \* the words of the .ast file
  pos,        \* words read
  guesses,    \* numbers taken from behind the end of the file, and accepted
  todo,       \* what the routines on the stack have yet to do
  freed       \* the nodes freed, in order

vars == <<heap, choices, phase, source, file, pos, guesses, todo, freed>>

Magic(kind) == <<"magic", kind>>
End(kind)   == <<"end", kind>>
Num(x)      == <<"num", x>>

Init ==
  /\ ParseInit
  /\ phase = "parse" /\ source = <<>> /\ file = <<>> /\ pos = 0 /\ guesses = 0
  /\ todo = <<>> /\ freed = <<>>

Parse ==
  /\ phase = "parse"
  /\ ParseNode \/ ParseRun
  /\ UNCHANGED <<phase, source, file, pos, guesses, todo, freed>>

-----------------------------------------------------------------------------
(* The writer.  A routine writes words and calls the routines of nodes.    *)

Node(n)  == <<"node", n>>
Nodes(s) == <<Num(Len(s))>> \o [i \in 1..Len(s) |-> Node(s[i])]
Strings(s) == <<Num(Len(s))>> \o s
Bool(b)  == Num(IF b THEN 1 ELSE 0)
If(p)    == IF p = NULL THEN <<>> ELSE <<Node(p)>>
(* mutant: no flag before a node that may be missing.                      *)
BugOpt(p) == If(p)
Opt(p)   == <<Bool(p # NULL)>> \o If(p)

WriteDecl(m) ==
  CASE m.kind = "Namespace" ->
         <<m.src_path, m.token_path, m.ast_path, m.name>>
         \o Strings(m.includes) \o Nodes(m.externc) \o Nodes(m.methods) \o Nodes(m.structs)
    [] m.kind = "Method" -> <<m.super, Node(m.decl), Node(m.block)>>
    [] m.kind = "MethodDecl" ->
         <<m.super, m.is_public, m.has_side_effects, m.throws, m.name, Node(m.return_type)>>
         \o Nodes(m.args)
    [] m.kind = "StructDecl" -> <<m.super, Node(m.type)>> \o Nodes(m.members)
    [] m.kind = "StructMember" -> <<m.super, Node(m.type), m.name>>
    [] m.kind = "ExternC" ->
         <<Bool(m.subr_decl # NULL)>>
         \o (IF m.subr_decl # NULL THEN If(m.subr_decl) ELSE <<Node(m.struct_decl)>>)
         \o <<m.name_in_c>>
    (* m->name is an array and never NULL. *)
    [] m.kind = "DeclArg" -> <<m.super, Node(m.type), Bool(TRUE), m.name>>

WriteExpr(m) ==
  CASE m.kind = "Variable" -> <<m.super, Node(m.simple_var)>> \o Opt(m.member_access)
    [] m.kind = "SimpleVar" -> <<m.super, m.name>> \o Nodes(m.indices)
    [] m.kind = "Expr" -> <<m.super, Node(m.term1)>> \o Opt(m.op) \o If(m.term2)
    [] m.kind \in {"Term", "ConstValue"} -> <<m.super, Num(m.kind_num), Node(m.ptr)>>
    [] m.kind = "UnOpTerm" -> <<m.super>> \o Opt(m.op) \o <<Node(m.term)>>
    [] m.kind = "Range" -> <<m.super, Node(m.start), Node(m.end)>>
    [] m.kind = "Lambda" -> <<m.super>> \o Strings(m.params) \o <<Node(m.expr)>>
    [] OTHER -> <<m.super, m.value>>

WriteStmt(m) ==
  CASE m.kind = "StmtBlock" -> <<m.super>> \o Nodes(m.stmts)
    [] m.kind = "Stmt" ->
         <<m.super, Num(m.kind_num)>>
         \o IF m.kind_num = 99
            THEN <<Bool(m.is_break), Bool(m.is_continue), Bool(m.is_throw)>>
            ELSE <<Node(m.ptr)>>
    [] m.kind = "IfStmt" -> <<m.super, Node(m.condition), Node(m.block)>> \o Opt(m.else_block)
    [] m.kind = "WhileStmt" -> <<m.super, Node(m.condition), Node(m.block)>>
    [] m.kind = "RetStmt" -> <<m.super, Node(m.return_value)>>
    [] m.kind = "AssignStmt" ->
         <<m.super>> \o Opt(m.opt_type) \o <<Node(m.var), m.assign_op, Node(m.expr)>>
    [] m.kind = "Call" -> <<m.super, m.name>> \o Nodes(m.args)
    [] m.kind = "LoopStmt" -> <<m.super, Node(m.count), Node(m.block)>>
    [] m.kind = "ForStmt" -> <<m.super, m.index_name, Node(m.range), Node(m.block)>>
    [] m.kind = "SwitchStmt" -> <<m.super, Node(m.expr)>> \o Nodes(m.cases)
    [] m.kind = "CaseStmt" -> <<m.super, Node(m.const_value)>> \o Opt(m.block)
    [] m.kind = "TryCatchStmt" -> <<Node(m.try_block), Node(m.catch_block)>>

WriteType(m) ==
  CASE m.kind = "Type" ->
         <<m.super>> \o (CASE m.m1 # NULL -> <<Num(1), Node(m.m1)>>
                           [] m.m2 # NULL -> <<Num(2), Node(m.m2)>>
                           [] m.m3 # NULL -> <<Num(3), Node(m.m3)>>)
    [] m.kind = "ArrayType" -> <<m.super, Node(m.element_type)>>
    [] m.kind = "TypeParam" -> <<m.super, m.index>>
    [] m.kind = "BasicType" ->
         <<m.super>> \o (IF m.simple_type # NULL THEN <<Num(1), Node(m.simple_type)>>
                         ELSE <<Num(2), Node(m.subr_type)>>)
    [] m.kind = "StructType" -> <<m.super, m.type_name>> \o Strings(m.type_params)
    [] m.kind = "PrimitiveType" ->
         <<m.super, m.is_int_type, m.is_float_type, m.is_char_type, m.is_bool_type, m.int_type>>
    [] m.kind = "SimpleType" ->
         <<m.super, Bool(m.struct_type # NULL)>> \o If(m.primitive_type) \o If(m.struct_type)
    [] m.kind = "SubrType" ->
         <<m.super, Node(m.return_type), m.has_side_effects, m.throws>> \o Nodes(m.arg_types)

Written(m) ==
  <<Magic(m.kind)>>
  \o (CASE m.kind \in DOMAIN DeclShape -> WriteDecl(m)
        [] m.kind \in DOMAIN ExprShape -> WriteExpr(m)
        [] m.kind \in DOMAIN StmtShape -> WriteStmt(m)
        [] m.kind \in DOMAIN TypeShape -> WriteType(m))
  \o <<End(m.kind)>>

(* What a routine does before its next call, and that call with its rest.  *)
NextCall == SelectInSeq(todo, LAMBDA w : w[1] = "node")
Done     == IF NextCall = 0 THEN todo ELSE SubSeq(todo, 1, NextCall - 1)
Called   == heap[todo[NextCall][2]]
Rest     == SubSeq(todo, NextCall + 1, Len(todo))

StartWriting ==
  /\ phase = "parse" /\ Bare = {}
  /\ phase' = "write" /\ source' = heap /\ todo' = <<Node(1)>>
  /\ UNCHANGED <<heap, choices, file, pos, guesses, freed>>

WriteNode ==
  /\ phase = "write" /\ NextCall # 0
  /\ file' = file \o Done
  /\ todo' = Written(Called) \o Rest
  /\ UNCHANGED <<heap, choices, phase, source, pos, guesses, freed>>

(* fclose; build_ast_file goes on with free_ast.  No result of fwrite or   *)
(* fclose is looked at: on a full disk the end of the file is not there.   *)
CloseFile ==
  /\ phase = "write" /\ NextCall = 0
  /\ LET all == file \o todo
     IN  \E lost \in IF choices < MaxCut THEN 0..Len(all) ELSE {0} :
           file' = SubSeq(all, 1, Len(all) - lost)
  /\ phase' = "free" /\ todo' = <<Node(1)>>
  /\ UNCHANGED <<heap, choices, source, pos, guesses, freed>>

-----------------------------------------------------------------------------
(* free_ast: the fields a routine frees before it frees its node.          *)

FreeDecl == [
  Namespace |-> <<"externc", "methods", "structs">>, Method |-> <<"decl", "block">>,
  MethodDecl |-> <<"return_type", "args">>, ExternC |-> <<"subr_decl", "struct_decl">>,
  DeclArg |-> <<"type">>, StructDecl |-> <<"type", "members">>, StructMember |-> <<"type">> ]

FreeExpr == [
  Expr |-> <<"term1", "op", "term2">>, UnOpTerm |-> <<"op", "term">>,
  Term |-> <<"ptr">>, ConstValue |-> <<"ptr">>, Lambda |-> <<"expr">>, Range |-> <<"start", "end">>,
  Variable |-> <<"simple_var", "member_access">>, SimpleVar |-> <<"indices">> ]

FreeStmt == [
  StmtBlock |-> <<"stmts">>, Stmt |-> <<"ptr">>, AssignStmt |-> <<"opt_type", "var", "expr">>,
  IfStmt |-> <<"condition", "block", "else_block">>, LoopStmt |-> <<"count", "block">>,
  Call |-> <<"args">>, RetStmt |-> <<"return_value">>, WhileStmt |-> <<"condition", "block">>,
  ForStmt |-> <<"range", "block">>, SwitchStmt |-> <<"expr", "cases">>,
  CaseStmt |-> <<"const_value", "block">>, TryCatchStmt |-> <<"try_block", "catch_block">> ]

FreeType == [
  Type |-> <<"m1", "m2", "m3">>, ArrayType |-> <<"element_type">>,
  BasicType |-> <<"simple_type", "subr_type">>, SimpleType |-> <<"primitive_type", "struct_type">>,
  SubrType |-> <<"return_type", "arg_types">> ]

FreedFields(m) ==
  LET All == FreeDecl @@ FreeExpr @@ FreeStmt @@ FreeType
  IN  CASE m.kind = "Stmt" /\ m.kind_num = 99 -> <<>>
        [] m.kind \in DOMAIN All -> All[m.kind]
        [] OTHER -> <<>>

(* mutant: the last element of an array is forgotten.                      *)
BugFreeCalls(m) ==
  LET Calls(f) == IF f \in Arrays[m.kind] THEN [i \in 1..(Len(m[f]) - 1) |-> Node(m[f][i])] ELSE If(m[f])
  IN  FlattenSeq([i \in 1..Len(FreedFields(m)) |-> Calls(FreedFields(m)[i])])

FreeCalls(m) ==
  LET Calls(f) == IF f \in Arrays[m.kind] THEN [i \in 1..Len(m[f]) |-> Node(m[f][i])] ELSE If(m[f])
  IN  FlattenSeq([i \in 1..Len(FreedFields(m)) |-> Calls(FreedFields(m)[i])])

Freeing == phase \in {"free", "free_read"}

FollowsUnset(m) == \E i \in DOMAIN FreedFields(m) : m[FreedFields(m)[i]] = Unset

FreeNode ==
  /\ Freeing /\ NextCall # 0
  /\ ~FollowsUnset(Called)
  /\ freed' = freed \o Done
  /\ todo' = FreeCalls(Called) \o <<<<"free", todo[NextCall][2]>>>> \o Rest
  /\ UNCHANGED <<heap, choices, phase, source, file, pos, guesses>>

FreeUnset ==
  /\ Freeing /\ NextCall # 0
  /\ FollowsUnset(Called)
  /\ phase' = "undefined"
  /\ UNCHANGED <<heap, choices, source, file, pos, guesses, todo, freed>>

(* A node that was freed is freed again: the library may end the process,  *)
(* or notice nothing.                                                      *)
FreeAgain ==
  /\ Freeing /\ Range(Done) \cap Range(freed) # {}
  /\ phase' = "aborted"
  /\ UNCHANGED <<heap, choices, source, file, pos, guesses, todo, freed>>

(* The parser ends; the transpiler starts with no nodes.                   *)
StartReading ==
  /\ phase = "free" /\ NextCall = 0
  /\ phase' = "read" /\ heap' = <<>> /\ freed' = <<>>
  /\ todo' = <<[do |-> "root", kind |-> Root, n |-> 0, to |-> ""]>>
  /\ UNCHANGED <<choices, source, file, pos, guesses>>

(* free_ast of the transpiler ends.                                        *)
Exit ==
  /\ phase = "free_read" /\ NextCall = 0
  /\ phase' = "done" /\ freed' = freed \o todo /\ todo' = <<>>
  /\ UNCHANGED <<heap, choices, source, file, pos, guesses>>

-----------------------------------------------------------------------------
(* The reader.  A routine is a sequence of steps: read a word into a field *)
(* (`word`), a count and words (`words`), a node (`node`), a count and     *)
(* nodes (`nodes`), a number that says how to go on (`tag`), or assign a   *)
(* value without reading (`set`).                                          *)

Word(f)            == [do |-> "word", to |-> f]
Flag(f)            == [do |-> "flag", to |-> f]
Words(f)           == [do |-> "words", to |-> f]
ReadInto(f, kind)  == [do |-> "node", to |-> f, kind |-> kind]
ReadAll(f, kind)   == [do |-> "nodes", to |-> f, kind |-> kind]
Set(f, v)          == [do |-> "set", to |-> f, value |-> v]
(* other numbers than those of `by` are refused. *)
Tag(by)            == [do |-> "tag", by |-> by]
TagInto(f, by)     == [do |-> "tag", by |-> [x \in DOMAIN by |-> <<Set(f, x)>> \o by[x]]]
(* mutant: a field with nothing to read is not set to NULL. *)
BugIfPresent(steps, otherwise) == [do |-> "if", steps |-> steps, otherwise |-> <<>>]
(* other numbers than OPT_PRESENT mean that there is nothing to read. *)
IfPresent(steps, otherwise) == [do |-> "if", steps |-> steps, otherwise |-> otherwise]

ReadDecl == [
  Namespace |-> << Word("src_path"), Word("token_path"), Word("ast_path"), Word("name"), Words("includes"),
                   ReadAll("externc", "ExternC"), ReadAll("methods", "Method"), ReadAll("structs", "StructDecl") >>,
  Method |-> << Word("super"), ReadInto("decl", "MethodDecl"), ReadInto("block", "StmtBlock") >>,
  MethodDecl |-> << Word("super"), Word("is_public"), Word("has_side_effects"), Word("throws"), Word("name"),
                    ReadInto("return_type", "Type"), ReadAll("args", "DeclArg") >>,
  StructDecl |-> << Word("super"), ReadInto("type", "SimpleType"), ReadAll("members", "StructMember") >>,
  StructMember |-> << Word("super"), ReadInto("type", "Type"), Word("name") >>,
  ExternC |-> << Set("subr_decl", NULL), Set("struct_decl", NULL),
                 Tag(1 :> <<ReadInto("subr_decl", "MethodDecl")>> @@
                     0 :> <<ReadInto("struct_decl", "StructDecl")>>), Word("name_in_c") >>,
  StmtBlock |-> << Word("super"), ReadAll("stmts", "Stmt") >>,
  DeclArg |-> << Word("super"), ReadInto("type", "Type"),
                 Tag(0 :> <<Set("has_name", FALSE)>> @@ 1 :> <<Set("has_name", TRUE), Word("name")>>) >> ]

ReadConst ==
  [k \in {"Op", "IntConst", "HexConst", "BinConst", "BoolConst", "CharConst", "FloatConst", "StringConst"} |->
     << Word("super"), Word("value") >>]
  @@ [ConstValue |-> << Word("super"), Set("ptr", NULL), TagInto("kind_num",
        1 :> <<ReadInto("ptr", "BoolConst")>> @@ 2 :> <<ReadInto("ptr", "IntConst")>> @@
        3 :> <<ReadInto("ptr", "CharConst")>> @@ 4 :> <<ReadInto("ptr", "FloatConst")>> @@
        5 :> <<ReadInto("ptr", "HexConst")>> @@ 6 :> <<ReadInto("ptr", "BinConst")>>) >>]

ReadExpr == [
  Expr |-> << Word("super"), ReadInto("term1", "UnOpTerm"), Set("op", NULL), Set("term2", NULL),
              IfPresent(<<ReadInto("op", "Op"), ReadInto("term2", "UnOpTerm")>>, <<>>) >>,
  Variable |-> << Word("super"), Set("member_access", NULL), ReadInto("simple_var", "SimpleVar"),
                  IfPresent(<<ReadInto("member_access", "Variable")>>, <<>>) >>,
  SimpleVar |-> << Word("super"), Word("name"), ReadAll("indices", "Expr") >>,
  Term |-> << Word("super"), TagInto("kind_num",
                4 :> <<ReadInto("ptr", "Call")>> @@ 5 :> <<ReadInto("ptr", "Expr")>> @@
                6 :> <<ReadInto("ptr", "Variable")>> @@ 8 :> <<ReadInto("ptr", "StringConst")>> @@
                11 :> <<ReadInto("ptr", "Lambda")>> @@ 12 :> <<ReadInto("ptr", "ConstValue")>>) >>,
  UnOpTerm |-> << Word("super"), IfPresent(<<ReadInto("op", "Op")>>, <<Set("op", NULL)>>),
                  ReadInto("term", "Term") >>,
  Range |-> << Word("super"), ReadInto("start", "Expr"), ReadInto("end", "Expr") >>,
  Lambda |-> << Word("super"), Words("params"), ReadInto("expr", "Expr") >> ]

ReadStmt == [
  Stmt |-> << Word("super"), TagInto("kind_num",
                99 :> <<Flag("is_break"), Flag("is_continue"), Flag("is_throw")>> @@
                0 :> <<ReadInto("ptr", "LoopStmt")>> @@ 1 :> <<ReadInto("ptr", "Call")>> @@
                2 :> <<ReadInto("ptr", "WhileStmt")>> @@ 3 :> <<ReadInto("ptr", "IfStmt")>> @@
                4 :> <<ReadInto("ptr", "RetStmt")>> @@ 5 :> <<ReadInto("ptr", "AssignStmt")>> @@
                6 :> <<ReadInto("ptr", "TryCatchStmt")>> @@ 7 :> <<ReadInto("ptr", "ForStmt")>> @@
                8 :> <<ReadInto("ptr", "SwitchStmt")>>) >>,
  IfStmt |-> << Word("super"), ReadInto("condition", "Expr"), ReadInto("block", "StmtBlock"),
                Set("else_block", NULL), IfPresent(<<ReadInto("else_block", "StmtBlock")>>, <<>>) >>,
  WhileStmt |-> << Word("super"), ReadInto("condition", "Expr"), ReadInto("block", "StmtBlock") >>,
  RetStmt |-> << Word("super"), ReadInto("return_value", "Expr") >>,
  AssignStmt |-> << Word("super"), Tag(0 :> <<Set("opt_type", NULL)>> @@
                        1 :> <<Set("opt_type", NULL), ReadInto("opt_type", "Type")>>),
                    ReadInto("var", "Variable"), Word("assign_op"), ReadInto("expr", "Expr") >> ]

ReadStmt2 == [
  Call |-> << Word("super"), Word("name"), ReadAll("args", "Expr") >>,
  LoopStmt |-> << Word("super"), ReadInto("count", "Expr"), ReadInto("block", "StmtBlock") >>,
  ForStmt |-> << Word("super"), Word("index_name"), ReadInto("range", "Range"), ReadInto("block", "StmtBlock") >>,
  SwitchStmt |-> << Word("super"), ReadInto("expr", "Expr"), ReadAll("cases", "CaseStmt") >>,
  CaseStmt |-> << Word("super"), ReadInto("const_value", "ConstValue"),
                  IfPresent(<<ReadInto("block", "StmtBlock")>>, <<>>) >>,
  TryCatchStmt |-> << ReadInto("try_block", "StmtBlock"), ReadInto("catch_block", "StmtBlock") >> ]

ReadType == [
  Type |-> << Word("super"), Set("m1", NULL), Set("m2", NULL), Set("m3", NULL),
              Tag(1 :> <<ReadInto("m1", "BasicType")>> @@ 2 :> <<ReadInto("m2", "TypeParam")>> @@
                  3 :> <<ReadInto("m3", "ArrayType")>>) >>,
  SubrType |-> << Word("super"), ReadInto("return_type", "Type"), Word("has_side_effects"), Word("throws"),
                  ReadAll("arg_types", "Type") >>,
  SimpleType |-> << Word("super"), Set("primitive_type", NULL), Set("struct_type", NULL),
                    Tag(0 :> <<ReadInto("primitive_type", "PrimitiveType")>> @@
                        1 :> <<ReadInto("struct_type", "StructType")>>) >>,
  ArrayType |-> << Word("super"), ReadInto("element_type", "Type") >>,
  TypeParam |-> << Word("super"), Word("index") >>,
  BasicType |-> << Word("super"), Set("simple_type", NULL), Set("subr_type", NULL),
                   Tag(1 :> <<ReadInto("simple_type", "SimpleType")>> @@
                       2 :> <<ReadInto("subr_type", "SubrType")>>) >>,
  StructType |-> << Word("super"), Word("type_name"), Words("type_params") >>,
  PrimitiveType |-> << Word("super"), Word("is_int_type"), Word("is_float_type"), Word("is_char_type"),
                       Word("is_bool_type"), Word("int_type") >> ]

Routine == ReadDecl @@ ReadConst @@ ReadExpr @@ ReadStmt @@ ReadStmt2 @@ ReadType

For(n, steps) == [i \in 1..Len(steps) |-> steps[i] @@ [n |-> n]]

Step      == Head(todo)
AtEnd     == pos >= Len(file)
WordAt(p) == IF p <= Len(file) THEN file[p] ELSE Unset
Current   == WordAt(pos + 1)

(* The numbers the reader may find.  No result of fread is looked at:      *)
(* behind the end of the file they are what the memory held.               *)
Numbers(any) == IF AtEnd THEN any ELSE IF Current[1] = "num" THEN {Current[2]} ELSE {}

Reading(do) ==
  /\ phase = "read" /\ todo # <<>> /\ Step.do \in do
  /\ UNCHANGED <<choices, source, file, freed>>

(* magic_num_require.                                                      *)
Require(magic) ==
  \/ ~AtEnd /\ Current = magic /\ UNCHANGED guesses
  \/ AtEnd /\ guesses < MaxGuesses /\ guesses' = guesses + 1

ReadNode ==
  /\ Reading({"root", "node", "item"})
  /\ Require(Magic(Step.kind))
  /\ LET new    == Len(heap) + 1
         linked == CASE Step.do = "root" -> heap
                     [] Step.do = "node" -> [heap EXCEPT ![Step.n][Step.to] = new]
                     [] Step.do = "item" -> [heap EXCEPT ![Step.n][Step.to] = Append(@, new)]
     IN  /\ heap' = Append(linked, Made(Step.kind))
         /\ todo' = For(new, Routine[Step.kind]) \o <<[do |-> "end", kind |-> Step.kind]>> \o Tail(todo)
  /\ pos' = pos + 1
  /\ UNCHANGED phase

ReadEnd ==
  /\ Reading({"end"})
  /\ Require(End(Step.kind))
  /\ pos' = pos + 1 /\ todo' = Tail(todo)
  /\ UNCHANGED <<heap, phase>>

(* magic_num_require or a switch in a routine refuses the file.            *)
Refuse ==
  /\ \/ Reading({"root", "node", "item"}) /\ Current # Magic(Step.kind)
     \/ Reading({"end"}) /\ Current # End(Step.kind)
     \/ Reading({"words", "nodes"}) /\ Numbers({0}) = {}
     \/ Reading({"tag"}) /\ Numbers({}) \cap DOMAIN Step.by = {}
  /\ phase' = "exit"
  /\ UNCHANGED <<heap, pos, guesses, todo>>

ReadWord ==
  /\ Reading({"word", "flag"})
  /\ heap' = [heap EXCEPT ![Step.n][Step.to] =
                IF Step.do = "flag" /\ ~AtEnd THEN Current = Num(1) ELSE Current]
  /\ pos' = pos + 1 /\ todo' = Tail(todo)
  /\ UNCHANGED <<guesses, phase>>

ReadWords ==
  /\ Reading({"words"})
  /\ \E count \in Numbers(0..2) :
       /\ heap' = [heap EXCEPT ![Step.n][Step.to] = [i \in 1..count |-> WordAt(pos + 1 + i)]]
       /\ pos' = pos + 1 + count
  /\ todo' = Tail(todo)
  /\ UNCHANGED <<guesses, phase>>

ReadNodes ==
  /\ Reading({"nodes"})
  /\ heap' = [heap EXCEPT ![Step.n][Step.to] = <<>>]
  /\ \E count \in Numbers(0..2) :
       todo' = [i \in 1..count |-> [Step EXCEPT !.do = "item"]] \o Tail(todo)
  /\ pos' = pos + 1
  /\ UNCHANGED <<guesses, phase>>

ReadTag ==
  /\ Reading({"tag"})
  /\ \E x \in Numbers(DOMAIN Step.by) \cap DOMAIN Step.by :
       todo' = For(Step.n, Step.by[x]) \o Tail(todo)
  /\ pos' = pos + 1
  /\ UNCHANGED <<heap, guesses, phase>>

ReadOption ==
  /\ Reading({"if"})
  /\ \E x \in Numbers({0, 1}) :
       todo' = For(Step.n, IF x = 1 THEN Step.steps ELSE Step.otherwise) \o Tail(todo)
  /\ pos' = pos + 1
  /\ UNCHANGED <<heap, guesses, phase>>

SetField ==
  /\ Reading({"set"})
  /\ heap' = [heap EXCEPT ![Step.n][Step.to] = Step.value]
  /\ todo' = Tail(todo)
  /\ UNCHANGED <<pos, guesses, phase>>

(* The transpiler goes on with the tree, and frees it in the end.          *)
CloseAfterReading ==
  /\ phase = "read" /\ todo = <<>>
  /\ phase' = "free_read" /\ todo' = <<Node(1)>>
  /\ UNCHANGED <<heap, choices, source, file, pos, guesses, freed>>

Next ==
  \/ Parse \/ StartWriting \/ WriteNode \/ CloseFile \/ FreeNode \/ FreeUnset \/ FreeAgain
  \/ StartReading
  \/ ReadNode \/ ReadEnd \/ ReadWord \/ ReadWords \/ ReadNodes \/ ReadTag \/ ReadOption
  \/ SetField \/ Refuse \/ CloseAfterReading \/ Exit

Spec == Init /\ [][Next]_vars

-----------------------------------------------------------------------------
(* Properties.                                                             *)

Whole == file # <<>> /\ Last(file) = End(Root)

HasBareCase == \E n \in DOMAIN source : source[n].kind = "CaseStmt" /\ source[n].block = NULL

(* read_ast accepts what write_ast wrote: every magic number is where it   *)
(* is required, and the file is read to its last word (ast/io/magic_num.h: *)
(* "we did not read too much or too little from the file, but just         *)
(* enough").                                                               *)
ReadExactly ==
  /\ phase = "exit" => ~Whole
  /\ phase = "free_read" /\ Whole => pos = Len(file)

(* The tree the transpiler reads from a whole file is the tree the parser  *)
(* wrote, unless a case has no block.                                      *)
ReadBack ==
  phase = "free_read" /\ Whole /\ ~HasBareCase => Tree(heap, 1) = Tree(source, 1)

Holders(o) == {n \in DOMAIN heap : "op" \in DOMAIN heap[n] /\ heap[n].op = o}

Shared == {o \in DOMAIN heap : heap[o].kind = "Op" /\ Cardinality(Holders(o)) > 1}
Lost   == {o \in DOMAIN heap : heap[o].kind = "Op" /\ Holders(o) = {}}

(* Each program frees every node it made, and none of them twice, but for  *)
(* the operators of a run of ||: the one that two Exprs share is freed for *)
(* each of them, which may end the parser, and the other is never freed.   *)
FreedOnce ==
  /\ \A i, j \in DOMAIN freed : i < j /\ freed[i] = freed[j] => freed[i][2] \in Shared
  /\ phase = "aborted" => Shared # {}
  /\ Freeing /\ NextCall = 0 =>
       {free[2] : free \in Range(freed \o todo)} = DOMAIN heap \ Lost

(* No program follows a pointer that nothing was assigned to.  The block   *)
(* of a case may be left out (parser/main/astnodes/statements/CaseStmt.c:  *)
(* "the block is optional and can be NULL").                               *)
NoneUndefined == phase # "undefined"

=============================================================================
