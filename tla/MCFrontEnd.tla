----------------------------- MODULE MCFrontEnd ------------------------------
(* FrontEnd on every source of up to MaxPieces of the chosen pieces.       *)
EXTENDS FrontEnd, SequencesExt

CONSTANT MaxPieces          \* bound: pieces of a source

Code1(s) == [kind |-> "code", text |-> <<s>>]

MCPieces ==
  {Code1(s) : s \in F!Code \ {"word"}}
  \cup {[kind |-> "line", text |-> t] : t \in {<<>>, <<"/*">>, <<"*/", "string", "word">>}}
  \cup {[kind |-> "block", text |-> t] : t \in {<<"//", "/*">>, <<"newline">>, <<"string">>}}

Begins(ps) ==
  LET at[j \in 1..(Len(ps) + 1)] == IF j = 1 THEN 1 ELSE at[j - 1] + Len(F!TextOf(ps[j - 1]))
  IN  at

MCInit ==
  /\ pieces \in UNION {[1..n -> MCPieces] : n \in 0..MaxPieces}
  /\ begin = Begins(pieces)
  /\ text = FlattenSeq([j \in 1..Len(pieces) |-> F!TextOf(pieces[j])])
  /\ text_phase = "lex"
  /\ pos = 1 /\ start = "INITIAL" /\ line_no = 1 /\ records = <<>>
  /\ next = 1 /\ line = "unfilled" /\ line_num = 1 /\ tokens = <<>>
  /\ phase = "fill" /\ memory = InitialSize /\ overrun = FALSE
  /\ lists = <<makeTokenList>> /\ made = << <<>> >>
  /\ FrontEndInit

MCSpec == MCInit /\ [][FrontEndNext]_all_vars /\ WF_all_vars(LexAndRead)

=============================================================================
