------------------------------ MODULE TokenFile ------------------------------
(***************************************************************************)
(* From the source text to the list of tokens the parser reads.            *)
(*                                                                         *)
(* dragon-lexer (lexer/smalldragon.flex) writes the tokens of FILE.dg to   *)
(* .FILE.dg.tokens, one record per token, and a record LINE_NO wherever    *)
(* its line counter moves.  dragon-parser (token/reader/token_reader.c)    *)
(* reads the records back and gives every token the last line number seen. *)
(***************************************************************************)
EXTENDS Integers, Sequences, SequencesExt

(* What the lexer tells apart: a "word" is any text of one token, "break"  *)
(* one of break, continue and throw; the rule of "++" writes two; a        *)
(* "string" runs from one quote to the next.                               *)
Symbol == {"word", "break", "++", "string", "newline", "//", "/*", "*/"}

(* How the text is meant: code, a comment to the end of the line, or a     *)
(* comment between brackets.                                               *)
Piece == [kind : {"code", "line", "block"}, text : Seq(Symbol)]

Code == {"word", "break", "++", "string", "newline"}

PieceOK(p) ==
  /\ p.kind = "code"  => Len(p.text) = 1 /\ p.text[1] \in Code
  /\ p.kind = "line"  => ~Contains(p.text, "newline")
  /\ p.kind = "block" => ~Contains(p.text, "*/")

TextOf(p) ==
  CASE p.kind = "code"  -> p.text
    [] p.kind = "line"  -> <<"//">> \o p.text \o <<"newline">>
    [] p.kind = "block" -> <<"/*">> \o p.text \o <<"*/">>

VARIABLES
  pieces,      \* the source, as it is meant
  begin,       \* where each piece begins in the text
  text,        \* the source, as the lexer reads it
  phase,       \* "lex", "read", "done", or "undefined"
  pos,         \* symbol the lexer is at
  start,       \* start condition of the flex rules
  line_no,     \* lines counted by the lexer
  records,     \* the .tokens file
  next,        \* record the reader is at
  line,        \* the reader's buffer: never filled, or cut at its first space
  line_num,    \* the reader's current line
  tokens       \* the TokenList

source == <<pieces, begin, text>>
lexer  == <<pos, start, line_no, records>>
reader == <<next, line, line_num, tokens>>
vars   == <<source, phase, lexer, reader>>

(* The text is the pieces, one after another.                              *)
TextIsPieces ==
  /\ pieces \in Seq(Piece) /\ \A j \in 1..Len(pieces) : PieceOK(pieces[j])
  /\ begin \in [1..(Len(pieces) + 1) -> Nat \ {0}] /\ begin[1] = 1
  /\ \A j \in 1..Len(pieces) : begin[j + 1] = begin[j] + Len(TextOf(pieces[j]))
  /\ text \in Seq(Symbol) /\ Len(text) = begin[Len(pieces) + 1] - 1
  /\ \A j \in 1..Len(pieces) : \A i \in 1..Len(TextOf(pieces[j])) :
       text[begin[j] + i - 1] = TextOf(pieces[j])[i]

IsString(j) == pieces[j].kind = "code" /\ pieces[j].text[1] = "string"

Init ==
  /\ TextIsPieces
  /\ phase = "lex"
  /\ pos = 1 /\ start = "INITIAL" /\ line_no = 1 /\ records = <<>>
  /\ next = 1 /\ line = "unfilled" /\ line_num = 1 /\ tokens = <<>>

-----------------------------------------------------------------------------
(* The lexer.                                                              *)

Lexing(condition, symbols) ==
  /\ phase = "lex" /\ start = condition
  /\ pos <= Len(text) /\ text[pos] \in symbols

LineNo(n)   == [id |-> "LINE_NO", value |-> n]
TokenOf(p)  == [id |-> "token", value |-> p]

(* Records of a symbol: out_plus_plus writes += and 1; a bracket of a      *)
(* comment that is not open is two operators.                              *)
Records(p) ==
  IF text[p] \in {"++", "*/"} THEN <<TokenOf(p), TokenOf(p)>> ELSE <<TokenOf(p)>>

LexCode ==
  /\ Lexing("INITIAL", {"word", "break", "++", "*/"})
  /\ records' = records \o Records(pos)
  /\ pos' = pos + 1
  /\ UNCHANGED <<source, phase, start, line_no, reader>>

SameLine(p, q) == \A i \in p..q : text[i] # "newline"

(* The last quote of the line p is in, from p on.                          *)
LastQuote(p, e) ==
  /\ text[e] = "string" /\ SameLine(p, e)
  /\ \A f \in (e + 1)..Len(text) : text[f] = "string" => ~SameLine(e, f)

(* mutant: the rest of the line is taken for the string.                   *)
BugStringEnd(p) ==
  CHOOSE e \in p..Len(text) :
    SameLine(p, e) /\ (e = Len(text) \/ text[e + 1] = "newline")

(* A string constant reaches to the last quote of the line.                *)
StringEnd(p) == CHOOSE e \in p..Len(text) : LastQuote(p, e)

LexString ==
  /\ Lexing("INITIAL", {"string"})
  /\ records' = Append(records, TokenOf(pos))
  /\ pos' = StringEnd(pos) + 1
  /\ UNCHANGED <<source, phase, start, line_no, reader>>

(* mutant: the line a // comment ends is not counted.                      *)
BugLexNewline ==
  /\ Lexing("INITIAL", {"newline"}) \/ Lexing("single_line_comment", {"newline"})
  /\ IF start = "INITIAL"
     THEN line_no' = line_no + 1 /\ records' = Append(records, LineNo(line_no + 1))
     ELSE UNCHANGED <<line_no, records>>
  /\ start' = "INITIAL"
  /\ pos' = pos + 1
  /\ UNCHANGED <<source, phase, reader>>

LexNewline ==
  /\ Lexing("INITIAL", {"newline"}) \/ Lexing("single_line_comment", {"newline"})
  /\ line_no' = line_no + 1
  /\ records' = Append(records, LineNo(line_no + 1))
  /\ start' = "INITIAL"
  /\ pos' = pos + 1
  /\ UNCHANGED <<source, phase, reader>>

LexOpen ==
  /\ Lexing("INITIAL", {"//", "/*"})
  /\ start' = IF text[pos] = "//" THEN "single_line_comment" ELSE "multi_line_comment"
  /\ pos' = pos + 1
  /\ UNCHANGED <<source, phase, line_no, records, reader>>

LexComment ==
  /\ \/ Lexing("single_line_comment", Symbol \ {"newline"})
     \/ Lexing("multi_line_comment", Symbol \ {"*/"})
  /\ pos' = pos + 1
  /\ UNCHANGED <<source, phase, start, line_no, records, reader>>

LexClose ==
  /\ Lexing("multi_line_comment", {"*/"})
  /\ start' = "INITIAL"
  /\ pos' = pos + 1
  /\ UNCHANGED <<source, phase, line_no, records, reader>>

LexEnd ==
  /\ phase = "lex" /\ pos > Len(text)
  /\ phase' = "read"
  /\ UNCHANGED <<source, lexer, reader>>

-----------------------------------------------------------------------------
(* The reader.  recognizeToken overwrites the first space of the line by   *)
(* the end of a string: the buffer is "cut".                               *)

Reading(id) ==
  /\ phase = "read" /\ next <= Len(records) /\ records[next].id = id
  /\ next' = next + 1

ReadLineNo ==
  /\ Reading("LINE_NO")
  /\ line_num' = records[next].value
  /\ line' = "cut"
  /\ UNCHANGED <<source, phase, lexer, tokens>>

(* mutant: the line is split in a copy of the buffer.                      *)
BugReadToken ==
  /\ Reading("token")
  /\ tokens' = Append(tokens, [symbol |-> records[next].value, line_num |-> line_num])
  /\ line' = "whole"
  /\ UNCHANGED <<source, phase, lexer, line_num>>

ReadToken ==
  /\ Reading("token")
  /\ tokens' = Append(tokens, [symbol |-> records[next].value, line_num |-> line_num])
  /\ line' = "cut"
  /\ UNCHANGED <<source, phase, lexer, line_num>>

(* getline returns -1, which the loop takes for true, and leaves the       *)
(* buffer as it is.  What is left of the last record has no space: break.  *)
AtEndOfFile ==
  /\ phase = "read" /\ next > Len(records) /\ line = "cut"
  /\ phase' = "done"
  /\ UNCHANGED <<source, lexer, reader>>

(* There was no record: the buffer holds whatever malloc returned.  With   *)
(* no space in it the reader stops, with one it may not come back.         *)
AtEndOfEmptyFile ==
  /\ phase = "read" /\ next > Len(records) /\ line = "unfilled"
  /\ phase' \in {"done", "undefined"}
  /\ UNCHANGED <<source, lexer, reader>>

Next ==
  \/ LexCode \/ LexString \/ LexNewline \/ LexOpen \/ LexComment \/ LexClose \/ LexEnd
  \/ ReadLineNo \/ ReadToken \/ AtEndOfFile \/ AtEndOfEmptyFile

(* Both programs are sequential and keep running.                          *)
Spec == Init /\ [][Next]_vars /\ WF_vars(Next)

-----------------------------------------------------------------------------
(* Properties.                                                             *)

(* Where the code begins that a token is made of.                          *)
CodeAt ==
  {begin[j] : j \in {k \in 1..Len(pieces) :
                       pieces[k].kind = "code" /\ pieces[k].text # <<"newline">>}}

(* The string constant of piece j reaches to quotes at e.                  *)
ReachesTo(j, e) == IsString(j) /\ e \in begin[j]..Len(text) /\ LastQuote(begin[j], e)

(* Inside of a string constant that is longer than it is meant.            *)
Swallowed(p) ==
  \E j \in 1..Len(pieces) : begin[j] < p /\ \E e \in p..Len(text) : ReachesTo(j, e)

(* Behind a string constant that reaches into a comment, the rest of which *)
(* is taken for code.                                                      *)
Astray(p) ==
  \E j \in 1..Len(pieces), e \in 1..Len(text) :
    begin[j] < p /\ ReachesTo(j, e) /\ ~\E k \in 1..Len(pieces) : IsString(k) /\ begin[k] = e

(* The parser is given the tokens of the code in their order, all of them  *)
(* and no other, whatever the comments around them contain.  What stands   *)
(* between two string constants of a line is lost with the second one, as  *)
(* in docs/html/comparison-chaining.html:58: it gives no token.  And of    *)
(* what follows a string constant whose line has quotes in a comment only  *)
(* the order is promised.                                                  *)
TokensAreTheCode ==
  phase = "done" =>
    /\ \A i, j \in 1..Len(tokens) : i < j => tokens[i].symbol <= tokens[j].symbol
    /\ \A j \in 1..Len(tokens) : Astray(tokens[j].symbol) \/ tokens[j].symbol \in CodeAt
    /\ \A p \in CodeAt :
         LET places == {j \in 1..Len(tokens) : tokens[j].symbol = p}
         IN  \/ Astray(p)
             \/ Swallowed(p) /\ places = {}
             \/ /\ ~Swallowed(p)
                /\ \E i \in 1..Len(tokens) : places = IF text[p] = "++" THEN {i, i + 1} ELSE {i}

LineOf(p) == 1 + Cardinality({q \in 1..(p - 1) : text[q] = "newline"})

(* Behind the begin of a comment between brackets that spans lines.        *)
Uncounted(p) ==
  \E j \in 1..Len(pieces) :
    pieces[j].kind = "block" /\ Contains(pieces[j].text, "newline") /\ begin[j] <= p

(* Every token carries the line of the source it stands in (lexer/test,    *)
(* test_mixed_15), up to the first comment between brackets that spans     *)
(* lines: the rule that reads its text does not count them.  Nor does it   *)
(* count those of a comment that only a string constant which reached too  *)
(* far has opened.                                                         *)
LinesAreTheSources ==
  phase = "done" =>
    \A j \in 1..Len(tokens) :
      LET p == tokens[j].symbol
      IN  Uncounted(p) \/ Astray(p) \/ tokens[j].line_num = LineOf(p)

(* The reader comes to an end, although its loop never sees the end of the *)
(* file.                                                                   *)
Ends == <>(phase \in {"done", "undefined"})

=============================================================================
