------------------------------ MODULE MCParser ------------------------------
(* Parser on files of which any few consecutive tokens can be anything.    *)
EXTENDS Parser, ParserGrammar

CONSTANTS MaxTokens,       \* bound: tokens of a file of which none is known
          MaxInBody,       \* bound: unknown tokens of a method's body
          MaxInSignature,  \* bound: those among its arguments
          MaxEdit          \* bound: tokens taken out of, and put into, a sample

Unknown(n) == [p \in 1..n |-> Token]
Tokens(s)  == [p \in DOMAIN s |-> {s[p]}]

Before == <<"fn", "id", "(", ")", "arrow", "prim", "{">>

Anything   == {Unknown(n) : n \in 0..MaxTokens}
Bodies     == {Tokens(Before) \o Unknown(n) \o Tokens(<<"}">>) : n \in 0..MaxInBody}
Signatures == {Tokens(<<"fn", "id", "(">>) \o Unknown(n)
                 \o Tokens(<<")", "arrow", "prim", "{", "}">>) : n \in 0..MaxInSignature}

(* Longer statements, of which every few consecutive tokens are replaced   *)
(* by others, and files that are cut off.                                  *)
Statements == {
  <<"for", "id", "in", "int", "..", "-", "id", "{", "jump", ";", "}">>,
  <<"try", "{", "}", "catch", "{", "return", "int", ";", "}">>,
  <<"switch", "id", "{", "case", "int", "case", "const", "{", "}", "}">>,
  <<"if", "(", "id", "<", "id", ")", "{", "}", "else", "{", "loop", "int", "{", "}", "}">>,
  <<"while", "!", "id", "{", "id", "(", "string", ",", "-", "float", ")", ";", "}">>,
  <<"id", "[", "int", "]", ".", "id", "assign", "id", "(", ")", ";">>,
  <<"id", "(", "(", "id", ",", "id", ")", "arrow", "id", "op", "int", ")", ";">>,
  <<"id", "(", "(", "id", ",", "id", ",", "id", ")", "arrow", "id", ")", ";">>,
  <<"id", "assign", "[", "int", ",", "id", "]", ";">>,
  <<"typeid", "<", "tparam", ",", "tparam", ">", "id", "assign", "int", ";">>,
  <<"[", "typeid", "<", "tparam", ">", "]", "id", "assign", "int", ";">>,
  <<"(", "(", "prim", ",", "tparam", ")", "arrow", "typeid", "throws", ")", "id", "assign", "id", ";">>}

Samples ==
  {Before \o s \o <<"}">> : s \in Statements} \cup
  {<<"include", "externc", "fn", "id", "(", "prim", "id", ")", "arrow", "typeid", "throws", "string",
     "externc", "struct", "typeid", "{", "}", "string">>,
   <<"annot", "struct", "typeid", "<", "tparam", ">", "{", "tparam", "id", ";", "}",
     "annot", "fn", "id", "(", ")", "arrow", "prim", "throws", "{", "}",
     "fn", "id", "(", "prim", "id", ",", "prim", "id", ")", "arrow", "prim", "{", "}">>}

Edited(s) ==
  {Tokens(SubSeq(s, 1, a)) \o Unknown(put) \o Tokens(SubSeq(s, a + taken + 1, Len(s))) :
     a \in 0..Len(s), taken \in 0..MaxEdit, put \in 0..MaxEdit}

CutOff(s) == {Tokens(SubSeq(s, 1, n)) : n \in 0..Len(s)}

MCFiles == Anything \cup Bodies \cup Signatures \cup UNION {Edited(s) \cup CutOff(s) : s \in Samples}

-----------------------------------------------------------------------------
(* Properties.                                                             *)

(* The loop of parse_subr_type_args at a comma that no type follows: the   *)
(* body fails, the list stays, the comma is still there.                   *)
Spinning ==
  /\ phase = "parse" /\ failed
  /\ Top.routine = "SubrType" /\ Now.op = "call" /\ Now.of = "NextArgType"

Unannotated == SelectSeq(file, LAMBDA kinds : kinds # {"annot"})

AcceptedGrammar == Passed(MaxParams)
PromisedGrammar == Kept(MaxParams)

(* What the parser writes an .ast file for is a program: however routines  *)
(* were tried and given up, no token was skipped and none was taken twice, *)
(* and no part of a node is missing.  The grammar is the part of           *)
(* parser/README.md that no routine lacks, but for annotations, which may  *)
(* be anywhere, and the token that break, continue and throw swallow.      *)
AcceptedIsSentence ==
  phase = "written" => Derives(Question(Unannotated, AcceptedGrammar, TRUE))

(* A program is written, and never refused, looped on or read beyond its   *)
(* end, whatever the kinds of its tokens can be taken for on the way.      *)
(* Excepted are the forms that parser/README.md promises and no routine    *)
(* parses (Unkept), lambdas of too many parameters, and files of nothing   *)
(* but includes, behind which ns_parse_passthrough_includes reads on.      *)
SentenceIsAccepted ==
  phase \in {"refused", "undefined"} \/ Spinning =>
    \/ ~Derives(Question(file, PromisedGrammar, FALSE))
    \/ \A p \in DOMAIN file : file[p] = {"include"}

(* Whatever the file, the parser ends, unless it spins.                    *)
EndsOrSpins == <>(phase # "parse" \/ Spinning)

=============================================================================
