------------------------------ MODULE AstNodes ------------------------------
(***************************************************************************)
(* The nodes of the AST (ast/ast.h, ast/ast) and the trees the parser      *)
(* makes of them.  The heap is a sequence of nodes; a pointer is a place   *)
(* in it or NULL, and a field holds Unset until something is assigned.     *)
(***************************************************************************)
EXTENDS Naturals, SequencesExt

CONSTANTS
  NULL, Unset,
  Root,           \* the kind of the node the parser starts with
  MaxChoices      \* bound: how often a tree may leave the first alternative

(* What a field may hold: text or numbers, a count of them, another node,  *)
(* an array of nodes, or a value of its own.                               *)
Val      == <<"val">>
Vals(c)  == <<"vals", c>>
A(kind)  == <<"node", kind>>
As(kinds) == <<"nodes", kinds>>
Is(x)    == <<"is", x>>

(* A kind of node is a sequence of choices, each among some fields.        *)
Always(fields) == <<fields>>
Maybe(f, kind) == <<f :> Is(NULL), f :> A(kind)>>
Array(f, kind) == <<f :> As(<<>>), f :> As(<<kind, kind>>)>>
Texts(f)       == <<f :> Vals(2), f :> Vals(0)>>
(* A union with the number of the alternative in `kind`.                   *)
Union(kinds)   ==
  [i \in 1..Len(kinds) |-> [kind_num |-> Is(kinds[i][1]), ptr |-> A(kinds[i][2])]]

Super == [super |-> Val]

DeclShape == [
  Namespace    |-> << Always([src_path |-> Val, token_path |-> Val, ast_path |-> Val, name |-> Val]),
                      Texts("includes"), Array("externc", "ExternC"),
                      <<[methods |-> As(<<"Method">>)], [methods |-> As(<<>>)]>>,
                      Array("structs", "StructDecl") >>,
  Method       |-> << Always(Super @@ [decl |-> A("MethodDecl"), block |-> A("StmtBlock")]) >>,
  MethodDecl   |-> << Always(Super @@ [is_public |-> Val, has_side_effects |-> Val, throws |-> Val,
                                       name |-> Val, return_type |-> A("Type")]),
                      Array("args", "DeclArg") >>,
  DeclArg      |-> << Always(Super @@ [type |-> A("Type"), has_name |-> Is(Unset), name |-> Val]) >>,
  ExternC      |-> << Always([name_in_c |-> Val]),
                      << [subr_decl |-> A("MethodDecl"), struct_decl |-> Is(NULL)],
                         [subr_decl |-> Is(NULL), struct_decl |-> A("StructDecl")] >> >>,
  StructDecl   |-> << Always(Super @@ [type |-> A("SimpleType")]), Array("members", "StructMember") >>,
  StructMember |-> << Always(Super @@ [type |-> A("Type"), name |-> Val]) >> ]

ExprShape == [
  Variable     |-> << Always(Super @@ [simple_var |-> A("SimpleVar")]), Maybe("member_access", "Variable") >>,
  SimpleVar    |-> << Always(Super @@ [name |-> Val]), Array("indices", "Expr") >>,
  Expr         |-> << Always(Super @@ [term1 |-> A("UnOpTerm")]),
                      << [op |-> Is(NULL), term2 |-> Is(NULL)], [op |-> A("Op"), term2 |-> A("UnOpTerm")] >> >>,
  UnOpTerm     |-> << Always(Super @@ [term |-> A("Term")]), Maybe("op", "Op") >>,
  Op           |-> << Always(Super @@ [value |-> Val]) >>,
  Term         |-> << Always(Super),
                      Union(<< <<12, "ConstValue">>, <<4, "Call">>, <<5, "Expr">>, <<6, "Variable">>,
                               <<8, "StringConst">>, <<11, "Lambda">> >>) >>,
  Range        |-> << Always(Super @@ [start |-> A("Expr"), end |-> A("Expr")]) >>,
  Lambda       |-> << Always(Super @@ [expr |-> A("Expr")]), Texts("params") >>,
  StringConst  |-> << Always(Super @@ [value |-> Val]) >>,
  ConstValue   |-> << Always(Super),
                      Union(<< <<2, "IntConst">>, <<1, "BoolConst">>, <<3, "CharConst">>,
                               <<4, "FloatConst">>, <<5, "HexConst">>, <<6, "BinConst">> >>) >> ]
  @@ [k \in {"BoolConst", "CharConst", "IntConst", "FloatConst", "HexConst", "BinConst"} |->
        << Always(Super @@ [value |-> Val]) >>]

Flags(true) == [f \in {"is_break", "is_continue", "is_throw"} |-> Is(f = true)]
StmtShape == [
  StmtBlock    |-> << Always(Super), <<[stmts |-> As(<<"Stmt">>)], [stmts |-> As(<<>>)],
                                       [stmts |-> As(<<"Stmt", "Stmt">>)]>> >>,
  Stmt         |-> << Always(Super),
                      [i \in 1..3 |-> [kind_num |-> Is(99), ptr |-> Is(Unset)] @@
                         Flags(<<"is_break", "is_continue", "is_throw">>[i])]
                      \o [i \in 1..9 |-> Flags("none") @@
                            Union(<< <<0, "LoopStmt">>, <<1, "Call">>, <<2, "WhileStmt">>, <<3, "IfStmt">>,
                                     <<4, "RetStmt">>, <<5, "AssignStmt">>, <<6, "TryCatchStmt">>,
                                     <<7, "ForStmt">>, <<8, "SwitchStmt">> >>)[i]] >>,
  AssignStmt   |-> << Always(Super @@ [var |-> A("Variable"), assign_op |-> Val, expr |-> A("Expr")]),
                      Maybe("opt_type", "Type") >>,
  IfStmt       |-> << Always(Super @@ [condition |-> A("Expr"), block |-> A("StmtBlock")]),
                      Maybe("else_block", "StmtBlock") >>,
  Call         |-> << Always(Super @@ [name |-> Val]), Array("args", "Expr") >>,
  RetStmt      |-> << Always(Super @@ [return_value |-> A("Expr")]) >>,
  WhileStmt    |-> << Always(Super @@ [condition |-> A("Expr"), block |-> A("StmtBlock")]) >>,
  LoopStmt     |-> << Always(Super @@ [count |-> A("Expr"), block |-> A("StmtBlock")]) >>,
  ForStmt      |-> << Always(Super @@ [index_name |-> Val, range |-> A("Range"), block |-> A("StmtBlock")]) >>,
  SwitchStmt   |-> << Always(Super @@ [expr |-> A("Expr")]),
                      <<[cases |-> As(<<"CaseStmt", "CaseStmt">>)], [cases |-> As(<<>>)]>> >>,
  CaseStmt     |-> << Always(Super @@ [const_value |-> A("ConstValue")]),
                      << [block |-> A("StmtBlock")], [block |-> Is(NULL)] >> >>,
  TryCatchStmt |-> << Always(Super @@ [try_block |-> A("StmtBlock"), catch_block |-> A("StmtBlock")]) >> ]

TypeShape == [
  Type          |-> << Always(Super),
                       << [m1 |-> A("BasicType"), m2 |-> Is(NULL), m3 |-> Is(NULL)],
                          [m1 |-> Is(NULL), m2 |-> A("TypeParam"), m3 |-> Is(NULL)],
                          [m1 |-> Is(NULL), m2 |-> Is(NULL), m3 |-> A("ArrayType")] >> >>,
  TypeParam     |-> << Always(Super @@ [index |-> Val]) >>,
  ArrayType     |-> << Always(Super @@ [element_type |-> A("Type")]) >>,
  BasicType     |-> << Always(Super),
                       << [simple_type |-> A("SimpleType"), subr_type |-> Is(NULL)],
                          [simple_type |-> Is(NULL), subr_type |-> A("SubrType")] >> >>,
  SimpleType    |-> << Always(Super),
                       << [primitive_type |-> A("PrimitiveType"), struct_type |-> Is(NULL)],
                          [primitive_type |-> Is(NULL), struct_type |-> A("StructType")] >> >>,
  PrimitiveType |-> << Always(Super @@ [is_int_type |-> Val, is_float_type |-> Val, is_char_type |-> Val,
                                        is_bool_type |-> Val, int_type |-> Val]) >>,
  StructType    |-> << Always(Super @@ [type_name |-> Val]), Texts("type_params") >>,
  SubrType      |-> << Always(Super @@ [return_type |-> A("Type"), has_side_effects |-> Val, throws |-> Val]),
                       Array("arg_types", "Type") >> ]

Shape == DeclShape @@ ExprShape @@ StmtShape @@ TypeShape

Kind == DOMAIN Shape

Fields == [k \in Kind |-> UNION {DOMAIN Shape[k][i][1] : i \in DOMAIN Shape[k]}]

(* The fields that hold one node or NULL, and those that hold an array.    *)
Holding(kind, sort) ==
  {f \in Fields[kind] :
     \E i \in DOMAIN Shape[kind] : \E j \in DOMAIN Shape[kind][i] :
       f \in DOMAIN Shape[kind][i][j] /\ Shape[kind][i][j][f][1] = sort}
Pointers == [k \in Kind |-> Holding(k, "node")]
Arrays   == [k \in Kind |-> Holding(k, "nodes")]
Children == [k \in Kind |-> SetToSeq(Pointers[k] \cup Arrays[k])]

-----------------------------------------------------------------------------

VARIABLES heap,      \* the nodes of the process that runs
          choices    \* choices made so far

(* malloc(sizeof(struct ...)).                                             *)
Made(kind) == [f \in {"kind"} \cup Fields[kind] |-> IF f = "kind" THEN kind ELSE Unset]

(* One alternative of each choice, and how often that is not the first.    *)
Picks(kind) ==
  FoldLeft(LAMBDA picks, choice : {Append(pick, i) : pick \in picks, i \in 1..Len(choice)},
           {<<>>}, Shape[kind])

NotFirst(pick) == Cardinality({i \in DOMAIN pick : pick[i] # 1})

Chosen(kind, pick) ==
  FoldLeft(LAMBDA r, i : r @@ Shape[kind][i][pick[i]], "kind" :> Is(kind),
           [i \in 1..Len(pick) |-> i])

Kids(what) == CASE what[1] = "node" -> <<what[2]>> [] what[1] = "nodes" -> what[2] [] OTHER -> <<>>

(* Heap h with the fields of node n, and its children at the end.          *)
Filled(h, n, fields) ==
  LET order    == Children[h[n].kind]
      Below(i) == FlattenSeq([j \in 1..i |-> Kids(fields[order[j]])])
      All      == Below(Len(order))
      First(f) == Len(h) + Len(Below((CHOOSE i \in DOMAIN order : order[i] = f) - 1))
      Value(f) ==
        LET what == fields[f]
        IN  CASE what[1] = "val"   -> <<"val", n, f>>
              [] what[1] = "vals"  -> [i \in 1..what[2] |-> <<"val", n, f, i>>]
              [] what[1] = "node"  -> First(f) + 1
              [] what[1] = "nodes" -> [i \in 1..Len(what[2]) |-> First(f) + i]
              [] what[1] = "is"    -> what[2]
  IN  [h EXCEPT ![n] = [f \in DOMAIN fields |-> Value(f)]]
      \o [i \in 1..Len(All) |-> Made(All[i])]

ParseInit == heap = <<Made(Root)>> /\ choices = 0

(* The nodes the parser has yet to fill in.                                *)
Bare == {n \in DOMAIN heap : heap[n] = Made(heap[n].kind)}

(* The parser's routine for the next node.                                 *)
ParseNode ==
  /\ Bare # {}
  /\ LET n == Min(Bare)
     IN  \E pick \in Picks(heap[n].kind) :
           /\ choices + NotFirst(pick) <= MaxChoices
           /\ choices' = choices + NotFirst(pick)
           /\ heap' = Filled(heap, n, Chosen(heap[n].kind, pick))

(* makeExpr on  a || b || c: an Expr of the last two terms in one of the   *)
(* first and this group.  The search for the operator of the group keeps   *)
(* the first one, which becomes that of both; the second is in neither.    *)
ParseRun ==
  /\ Bare # {} /\ heap[Min(Bare)].kind = "Expr"
  /\ choices < MaxChoices
  /\ choices' = choices + 1
  /\ LET whole == Min(Bare)
         first == [heap |-> Filled(heap, whole, Chosen("Expr", <<1, 2>>)), node |-> whole]
         Fill(at, way) ==
           LET n == at.heap[at.node][way.to]
           IN  [heap |-> Filled(at.heap, n, Chosen(at.heap[n].kind, way.pick)), node |-> n]
         OneOp(at) == [at.heap EXCEPT ![at.node].op = at.heap[whole].op]
     IN  heap' = OneOp(FoldLeft(Fill, first,
                   << [to |-> "term2", pick |-> <<1, 1>>], [to |-> "term", pick |-> <<1, 3>>],
                      [to |-> "ptr", pick |-> <<1, 2>>] >>))

-----------------------------------------------------------------------------

RECURSIVE Tree(_, _)
(* What is below node n of a heap, but for the line of a try-statement,    *)
(* has_name, which the parser leaves unset and the reader sets, and the    *)
(* flags of a statement that is none of break, continue and throw, which   *)
(* no program reads.                                                       *)
Tree(h, n) ==
  LET m == h[n]
      Seen ==
        DOMAIN m \ CASE m.kind = "TryCatchStmt" -> {"super"}
                     [] m.kind = "DeclArg" -> {"has_name"}
                     [] m.kind = "Stmt" /\ m.kind_num # 99 -> {"is_break", "is_continue", "is_throw"}
                     [] OTHER -> {}
  IN  [f \in Seen |->
         CASE f \in Pointers[m.kind] -> IF m[f] \in {NULL, Unset} THEN m[f] ELSE Tree(h, m[f])
           [] f \in Arrays[m.kind]   -> [i \in DOMAIN m[f] |-> Tree(h, m[f][i])]
           [] OTHER                  -> m[f]]

=============================================================================
