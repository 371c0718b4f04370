--------------------------- MODULE ParserGrammar ----------------------------
(***************************************************************************)
(* The grammar that parser/README.md (9-120) says the parser recognizes,   *)
(* and the part of it that the parser does recognize.                      *)
(***************************************************************************)
EXTENDS ParserRoutines, TLC

(* The right-hand sides of a symbol.  DeclArg*, Type* and TypeParam+ are   *)
(* lists with commas, as in the example at :38; a token of its own is what *)
(* the lexer makes one of.  Not in the description are the includes and    *)
(* the terms without an operator before them.                              *)
Readme == [
  Namespace  |-> {<<"Includes", "ExternCs", "Structs", "Methods">>},
  Includes   |-> {<<>>, <<"include", "Includes">>},
  ExternCs   |-> {<<>>, <<"ExternC", "ExternCs">>},
  Structs    |-> {<<>>, <<"Struct", "Structs">>},
  Methods    |-> {<<>>, <<"MethodDecl", "StmtBlock", "Methods">>},
  ExternC    |-> {<<"externc", "MethodDecl", "string">>, <<"externc", "Struct", "string">>},
  Struct     |-> {<<"struct", "SimpleType", "{", "Members", "}">>},
  Members    |-> {<<>>, <<"Type", "id", ";", "Members">>},
  MethodDecl |-> {<<"fn", "id", "(", "DeclArgs", ")", "arrow", "Type", "Throws">>},
  DeclArgs   |-> {<<>>, <<"DeclArg", "MoreArgs">>},
  MoreArgs   |-> {<<>>, <<",", "DeclArg", "MoreArgs">>},
  DeclArg    |-> {<<"Type", "id">>, <<"Type">>},
  Throws     |-> {<<>>, <<"throws">>},
  Type       |-> {<<"SimpleType">>, <<"tparam">>, <<"[", "Type", "]">>,
                  <<"(", "(", "ArgTypes", ")", "arrow", "Type", "Throws", ")">>},
  ArgTypes   |-> {<<>>, <<"Type", "MoreTypes">>},
  MoreTypes  |-> {<<>>, <<",", "Type", "MoreTypes">>},
  SimpleType |-> {<<"prim">>, <<"typeid">>, <<"typeid", "<", "tparam", ">">>,
                  <<"typeid", "<", "tparam", ",", "TypeParams", ">">>},
  TypeParams |-> {<<"tparam">>, <<"tparam", ",", "TypeParams">>},
  StmtBlock  |-> {<<"{", "Stmts", "}">>},
  Stmts      |-> {<<>>, <<"Stmt", "Stmts">>},
  Stmt       |-> {<<"Call", ";">>, <<"jump", ";">>,
                  <<"while", "Expr", "StmtBlock">>, <<"loop", "Expr", "StmtBlock">>,
                  <<"for", "id", "in", "Expr", "..", "Expr", "StmtBlock">>,
                  <<"if", "Expr", "StmtBlock">>,
                  <<"if", "Expr", "StmtBlock", "else", "StmtBlock">>,
                  <<"return", "Expr", ";">>, <<"return", ";">>,
                  <<"Variable", "assign", "Expr", ";">>,
                  <<"Type", "Variable", "assign", "Expr", ";">>,
                  <<"switch", "Expr", "{", "Cases", "}">>,
                  <<"try", "StmtBlock", "catch", "StmtBlock">>},
  Cases      |-> {<<>>, <<"case", "ConstValue", "Cases">>,
                  <<"case", "ConstValue", "StmtBlock", "Cases">>},
  Call       |-> {<<"id", "(", ")">>, <<"id", "(", "Expr", "MoreExprs", ")">>},
  MoreExprs  |-> {<<>>, <<",", "Expr", "MoreExprs">>},
  Variable   |-> {<<"SimpleVar">>, <<"SimpleVar", ".", "Variable">>},
  SimpleVar  |-> {<<"id", "Indices">>},
  Indices    |-> {<<>>, <<"[", "Expr", "]", "Indices">>},
  Expr       |-> {<<"UnOpTerm", "MoreTerms">>},
  MoreTerms  |-> {<<>>, <<"operator", "UnOpTerm", "MoreTerms">>},
  UnOpTerm   |-> {<<"Term">>, <<"unary", "Term">>},
  Term       |-> {<<"ConstValue">>, <<"string">>, <<"Call">>, <<"(", "Expr", ")">>,
                  <<"Variable">>, <<"Lambda">>, <<"[", "Expr", "MoreExprs", "]">>},
  Lambda     |-> {<<"(", "id", "Params", ")", "arrow", "Expr">>},
  Params     |-> {<<>>, <<",", "id", "Params">>},
  ConstValue |-> {<<"const">>, <<"int">>, <<"-", "int">>, <<"float">>, <<"-", "float">>}]

(* What is promised there and no routine parses: an array constant (:25,   *)
(* :108), an argument without a name (:35), a list of type parameters      *)
(* (:45), and a return without a value (:88).                              *)
Unkept == {
  <<"Term", <<"[", "Expr", "MoreExprs", "]">> >>,
  <<"DeclArg", <<"Type">> >>,
  <<"SimpleType", <<"typeid", "<", "tparam", ",", "TypeParams", ">">> >>,
  <<"Stmt", <<"return", ";">> >>}

RECURSIVE UpTo(_)
UpTo(n) == {<<>>} \cup IF n = 0 THEN {} ELSE {<<",", "id">> \o ids : ids \in UpTo(n - 1)}

(* The rest of it: neither these nor a lambda of more than `max` parameters *)
(* (:119).                                                                  *)
Kept(max) ==
  [[s \in DOMAIN Readme |-> {a \in Readme[s] : <<s, a>> \notin Unkept}]
     EXCEPT !.Params = UpTo(max - 1)]

(* With what the parser lets pass: any token for the semicolon of a jump.  *)
Passed(max) ==
  [Kept(max) EXCEPT !.Stmt = (@ \ {<<"jump", ";">>}) \cup {<<"jump", "any">>}]

Kinds(terminal) ==
  CASE terminal = "any" -> Token
    [] terminal = "operator" -> Operators
    [] terminal = "unary" -> Unary
    [] OTHER -> {terminal}

RECURSIVE After(_, _, _, _), Along(_, _, _, _), Rows(_, _)

(* A question about a file whose tokens are sets of kinds: `all` asks for  *)
(* a derivation that fits whichever the kinds are.                         *)
Question(f, G, all) == [file |-> f, grammar |-> G, all |-> all]

Fits(q, p, terminal) ==
  /\ p <= Len(q.file)
  /\ IF q.all THEN q.file[p] \subseteq Kinds(terminal)
              ELSE q.file[p] \cap Kinds(terminal) # {}

(* Where a sentence of `symbol` that begins at token `p` may end: the      *)
(* first tokens behind it.  `rows` are the answers for the tokens behind p.*)
After(symbol, p, rows, q) ==
  IF symbol \notin DOMAIN q.grammar THEN IF Fits(q, p, symbol) THEN {p + 1} ELSE {}
  ELSE IF p \in DOMAIN rows THEN rows[p][symbol]
  ELSE UNION {Along(alternative, {p}, rows, q) : alternative \in q.grammar[symbol]}

Along(symbols, from, rows, q) ==
  IF symbols = <<>> \/ from = {} THEN from
  ELSE Along(Tail(symbols), UNION {After(Head(symbols), p, rows, q) : p \in from}, rows, q)

Rows(p, q) ==
  IF p > Len(q.file) THEN p :> [s \in DOMAIN q.grammar |-> After(s, p, <<>>, q)]
  ELSE LET rows == Rows(p + 1, q)
       IN  (p :> [s \in DOMAIN q.grammar |-> After(s, p, rows, q)]) @@ rows

Derives(q) == Len(q.file) + 1 \in Rows(1, q)[1].Namespace

=============================================================================
