--------------------------- MODULE ParserRoutines ---------------------------
(***************************************************************************)
(* The make... routines of parser/main/astnodes, each as the list of the   *)
(* steps it makes on the token list: what it looks for, which routine it   *)
(* calls, and where it goes when that fails.                               *)
(*                                                                         *)
(* A step that succeeds goes on with step `yes`, one that fails with step  *)
(* `no`, or ends the routine; `yes` is 0 for the next step.                *)
(***************************************************************************)
EXTENDS Integers, Sequences

(* The kinds of token/TokenKeys.h.  One name stands for kinds no routine   *)
(* tells apart: "prim" for TYPEID_PRIMITIVE_..., "typeid" for TYPEID and   *)
(* ANYTYPE, "const" for hexadecimal, binary, character and boolean         *)
(* constants, "jump" for break, continue and throw, "op" for the operators *)
(* that are not named here, "annot" for the annotations.                   *)
Operators == {"-", "!", "<", ">", "op"}
Unary     == {"-", "!"}

Token ==
  Operators \cup
  {"id", "typeid", "prim", "tparam", "(", ")", "[", "]", "{", "}", ",", ";",
   "arrow", "..", ".", "assign", "float", "int", "const", "string",
   "if", "else", "while", "loop", "for", "in", "return", "switch", "case",
   "jump", "try", "catch", "throws", "fn", "struct", "externc", "include",
   "annot"}

(* What a step that fails may lead to, next to another step.               *)
ReturnNull == -1     \* release the list, return NULL
EndProcess == -2     \* exit(1)
UseFreed   == -3     \* release the list, go on with it
ReadFreed  == -4     \* read a node that was freed, then return NULL
StoreNull  == -5     \* go on as if it had not failed, with NULL for the node

Step(op, of) == [op |-> op, of |-> of, yes |-> 0, no |-> ReturnNull]

Or(step, to)   == [op |-> step.op, of |-> step.of, yes |-> step.yes, no |-> to]
Then(step, to) == [op |-> step.op, of |-> step.of, yes |-> to, no |-> step.no]
OrExit(step)   == Or(step, EndProcess)

Need(n)     == Step("need", n)           \* list_size(...) < n: return NULL
Annotations == Step("annotations", {})   \* parse_astnode
Expect(k)   == Step("expect", {k})       \* list_expect
Starts(k)   == Step("starts", {k})       \* list_starts_with
Is(K)       == Step("is", K)             \* list_head(...)->kind
Second(K)   == Step("second", K)         \* list_get(..., 1)->kind
Ahead(k)    == Step("ahead", {k})        \* list_head_without_annotations
Consume(n)  == Step("consume", n)        \* list_consume
Room        == Step("room", 0)           \* LAMBDA_MAX_PARAMS not reached
Call(r)     == Step("call", r)           \* another routine, with the list
Accept      == Step("accept", 0)         \* list_set, and return the node
Exit        == Step("exit", 0)

-----------------------------------------------------------------------------
(* The file.                                                               *)

(* ns_parse_passthrough_includes, ns_parse_externc, ns_parse_structs and   *)
(* ns_parse_methods.                                                       *)
makeNamespace ==
  << Or(Need(1), 4), Or(Is({"include"}), 4), Then(Consume(1), 2),
     Or(Need(1), 7), Or(Is({"externc"}), 7), Then(OrExit(Call("ExternC")), 4),
     Or(Need(1), 10), Or(Ahead("struct"), 10), Then(OrExit(Call("StructDecl")), 7),
     Or(Need(1), 13), Or(Ahead("fn"), 13), Then(OrExit(Call("Method")), 10),
     Accept >>

makeExternC ==
  << Expect("externc"),
     Or(Is({"fn"}), 4), Then(OrExit(Call("MethodDecl")), 6),
     OrExit(Is({"struct"})), OrExit(Call("StructDecl")),
     Expect("string"), Accept >>

makeStructDecl ==
  << Annotations, Or(Need(1), 11),
     OrExit(Is({"struct"})), Consume(1), OrExit(Call("SimpleType")),
     OrExit(Is({"{"})), Consume(1),
     Then(Or(Call("StructMember"), 9), 8),
     OrExit(Is({"}"})), Consume(1), Accept >>

makeStructMember ==
  << Annotations, Call("Type"), Expect("id"), Is({";"}), Consume(1), Accept >>

(* The declaration is not tested before the block is parsed.               *)
makeMethod ==
  << Annotations, Or(Call("MethodDecl"), 3), Call("StmtBlock"), Accept >>

(* With tryParseArgList.                                                   *)
makeMethodDecl ==
  << Annotations, Expect("fn"), Expect("id"), Expect("("),
     Then(Or(Is({")"}), 6), 9), Call("DeclArg"),
     Then(Or(Is({")"}), 8), 9), Then(Expect(","), 6),
     Expect(")"), Is({"arrow"}), Consume(1), Call("Type"),
     Or(Is({"throws"}), 15), Consume(1), Accept >>

(* Without a name the DeclArg is freed before its type is.                 *)
makeDeclArg ==
  << Annotations, Call("Type"), Or(Expect("id"), ReadFreed), Accept >>

-----------------------------------------------------------------------------
(* Types.                                                                  *)

makeType2 ==
  << Annotations, Then(Or(Call("ArrayType"), 3), 5),
     Then(Or(Call("TypeParam"), 4), 5), Call("BasicType"), Accept >>

(* mutant: the brackets follow the type.                                   *)
BugmakeArrayType2 ==
  << Annotations, Call("Type"), Expect("["), Expect("]"), Accept >>

makeArrayType2 ==
  << Annotations, Expect("["), Call("Type"), Expect("]"), Accept >>

makeTypeParam == << Need(1), Annotations, Is({"tparam"}), Consume(1), Accept >>

makeBasicType2 ==
  << Annotations, Need(1), Or(Starts("("), 7),
     Expect("("), Call("SubrType"), Then(Expect(")"), 8),
     Call("SimpleType"), Accept >>

makeSimpleType ==
  << Need(1), Annotations,
     Or(Is({"prim"}), 5), Then(Call("PrimitiveType"), 7),
     Is({"typeid"}), Call("StructType"), Accept >>

makePrimitiveType == << Annotations, Consume(1), Accept >>

(* In the loop of parse_type_params_rest `next` is still the comma when it *)
(* is compared with TPARAM.                                                *)
makeStructType ==
  << Annotations, OrExit(Is({"typeid"})), Consume(1),
     Or(Need(1), 13), Or(Is({"<"}), 13), Consume(1),
     OrExit(Is({"tparam"})), Consume(1),
     Or(Is({","}), 11), Exit,
     OrExit(Is({">"})), Consume(1), Accept >>

(* mutant: the loop goes on when there is no comma.                        *)
BugmakeSubrType ==
  << Annotations, Expect("("), Or(Call("Type"), 6),
     Or(Starts(","), 4), Then(Or(Call("NextArgType"), 4), 4),
     Expect(")"), Is({"arrow"}), Consume(1), Call("Type"),
     Or(Is({"throws"}), 12), Consume(1), Accept >>

(* The loop ends when there is no comma.                                   *)
makeSubrType ==
  << Annotations, Expect("("), Or(Call("Type"), 6),
     Or(Starts(","), 6), Then(Or(Call("NextArgType"), 4), 4),
     Expect(")"), Is({"arrow"}), Consume(1), Call("Type"),
     Or(Is({"throws"}), 12), Consume(1), Accept >>

(* Its body, on a list of its own; a comma without a type leaves the       *)
(* caller's list as it is.                                                 *)
NextArgType == << Expect(","), Call("Type"), Accept >>

-----------------------------------------------------------------------------
(* Statements.                                                             *)

makeStmtBlock ==
  << Need(2), Expect("{"),
     Then(Or(Is({"}"}), 4), 5), Then(Call("Stmt"), 3),
     Expect("}"), Accept >>

(* makeStmt at a keyword: the routine of that statement, or exit.          *)
On(keyword, next) == Or(Is({keyword}), next)
Make(routine)     == Then(OrExit(Call(routine)), 22)

makeStmt ==
  << Need(1), Annotations, On("jump", 5), Then(Consume(2), 22),
     On("for", 7), Make("ForStmt"), On("loop", 9), Make("LoopStmt"),
     On("while", 11), Make("WhileStmt"), On("if", 13), Make("IfStmt"),
     On("return", 15), Make("RetStmt"), On("switch", 17), Make("SwitchStmt"),
     On("try", 19), Make("TryCatchStmt"),
     Then(Or(Call("AssignStmt"), 20), 22),
     OrExit(Call("Call")), OrExit(Expect(";")), Accept >>

makeAssignStmt ==
  << Annotations, Or(Call("Type"), 3), Call("Variable"),
     Is({"assign"}), Consume(1), Call("Expr"), Expect(";"), Accept >>

makeIfStmt ==
  << Need(3), Annotations, Expect("if"), Call("Expr"), Call("StmtBlock"),
     Or(Expect("else"), 8), Call("StmtBlock"), Accept >>

makeWhileStmt ==
  << Annotations, OrExit(Expect("while")), Call("Expr"), Call("StmtBlock"), Accept >>

makeLoopStmt ==
  << Need(3), Annotations, Expect("loop"), Call("Expr"), Call("StmtBlock"), Accept >>

makeForStmt ==
  << Need(6), Expect("for"), Is({"id"}), Consume(1), Annotations,
     Expect("in"), Call("Range"), Call("StmtBlock"), Accept >>

(* Without a `..` the list is freed, and the routine goes on with it.      *)
makeRange ==
  << Need(1), Call("Expr"), Or(Expect(".."), UseFreed), Call("Expr"), Accept >>

(* With parse_cases.                                                       *)
makeSwitchStmt ==
  << Annotations, OrExit(Expect("switch")), Call("Expr"), OrExit(Expect("{")),
     Or(Is({"case"}), 7), Then(OrExit(Call("CaseStmt")), 5),
     OrExit(Expect("}")), Accept >>

makeCaseStmt ==
  << Need(4), Expect("case"), Annotations, OrExit(Call("ConstValue")),
     Or(Call("StmtBlock"), 6), Accept >>

makeTryCatchStmt ==
  << Need(1), Annotations, OrExit(Expect("try")), OrExit(Call("StmtBlock")),
     OrExit(Expect("catch")), OrExit(Call("StmtBlock")), Accept >>

makeRetStmt ==
  << Annotations, Expect("return"), Call("Expr"), Expect(";"), Accept >>

makeCall ==
  << Need(3), Annotations, Expect("id"), Need(1), Expect("("), Need(1),
     Then(Or(Is({")"}), 8), 11), Call("Expr"),
     Then(Or(Is({")"}), 10), 11), Then(Expect(","), 8),
     Expect(")"), Accept >>

-----------------------------------------------------------------------------
(* Expressions.                                                            *)

makeExpr ==
  << Call("UnOpTerm"), Or(Need(2), 4), Then(Or(Call("OpTerm"), 4), 2), Accept >>

(* The body of the loop of makeExpr, on a list of its own.                 *)
OpTerm == << Call("Op"), Call("UnOpTerm"), Accept >>

makeOp == << Is(Operators), Consume(1), Accept >>

(* An operator that is not unary: return NULL.                             *)
makeUnOpTerm ==
  << Need(1), Annotations, Is(Token \ (Operators \ Unary)),
     Or(Call("Op"), 5), Call("Term"), Accept >>

(* mutant: what is in parentheses is a lambda or else an error.            *)
BugmakeTerm ==
  << Need(1), Annotations, Or(Is({"("}), 5), Then(OrExit(Call("Lambda")), 10),
     Or(Is({"string"}), 7), Then(Consume(1), 10),
     Then(Or(Call("ConstValue"), 8), 10),
     Then(Or(Call("Call"), 9), 10),
     Call("Variable"), Accept >>

makeTerm ==
  << Need(1), Annotations, Or(Is({"("}), 8),
     Then(Or(Call("Lambda"), 5), 13),
     Consume(1), OrExit(Call("Expr")), Then(OrExit(Expect(")")), 13),
     Or(Is({"string"}), 10), Then(Consume(1), 13),
     Then(Or(Call("ConstValue"), 11), 13),
     Then(Or(Call("Call"), 12), 13),
     Call("Variable"), Accept >>

(* A parameter that is not an identifier is stored as NULL, and counted.   *)
makeLambda ==
  << Expect("("), Expect("id"), Or(Is({","}), 7), OrExit(Room), Expect(","),
     Then(Or(Expect("id"), StoreNull), 3),
     Expect(")"), Expect("arrow"), Call("Expr"), Accept >>

makeConstValue ==
  << Need(1), Or(Is({"const"}), 4), Then(Consume(1), 6),
     Then(Or(Call("IntConst"), 5), 6), Call("FloatConst"), Accept >>

makeIntConst ==
  << Or(Is({"int"}), 3), Then(Consume(1), 6),
     Is({"-"}), Second({"int"}), Consume(2), Accept >>

makeFloatConst ==
  << Need(1), Or(Expect("-"), 3), Need(1), Is({"float"}), Consume(1), Accept >>

makeVariable ==
  << Need(1), Annotations, Call("SimpleVar"), Or(Need(2), 8),
     Or(Is({"."}), 8), Expect("."), OrExit(Call("Variable")), Accept >>

makeSimpleVar ==
  << Need(1), Annotations, Is({"id"}), Consume(1),
     Or(Need(1), 10), Or(Is({"["}), 10),
     Expect("["), Call("Expr"), Then(Expect("]"), 5), Accept >>

-----------------------------------------------------------------------------

Routine ==
  [Namespace |-> makeNamespace, ExternC |-> makeExternC,
   StructDecl |-> makeStructDecl, StructMember |-> makeStructMember,
   Method |-> makeMethod, MethodDecl |-> makeMethodDecl, DeclArg |-> makeDeclArg,
   Type |-> makeType2, ArrayType |-> makeArrayType2, TypeParam |-> makeTypeParam,
   BasicType |-> makeBasicType2, SimpleType |-> makeSimpleType,
   PrimitiveType |-> makePrimitiveType, StructType |-> makeStructType,
   SubrType |-> makeSubrType, NextArgType |-> NextArgType,
   StmtBlock |-> makeStmtBlock, Stmt |-> makeStmt, AssignStmt |-> makeAssignStmt,
   IfStmt |-> makeIfStmt, WhileStmt |-> makeWhileStmt, LoopStmt |-> makeLoopStmt,
   ForStmt |-> makeForStmt, Range |-> makeRange, SwitchStmt |-> makeSwitchStmt,
   CaseStmt |-> makeCaseStmt, TryCatchStmt |-> makeTryCatchStmt,
   RetStmt |-> makeRetStmt, Call |-> makeCall,
   Expr |-> makeExpr, OpTerm |-> OpTerm, Op |-> makeOp, UnOpTerm |-> makeUnOpTerm,
   Term |-> makeTerm, Lambda |-> makeLambda, ConstValue |-> makeConstValue,
   IntConst |-> makeIntConst, FloatConst |-> makeFloatConst,
   Variable |-> makeVariable, SimpleVar |-> makeSimpleVar]

=============================================================================
