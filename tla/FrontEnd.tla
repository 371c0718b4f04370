------------------------------ MODULE FrontEnd ------------------------------
(***************************************************************************)
(* From the text to the routines of the parser: TokenFile, whose reader    *)
(* gives each token to list_add of TokenList, on whose copies the parser   *)
(* works when the file is read.                                            *)
(***************************************************************************)
EXTENDS TokenList

VARIABLES pieces, begin, text, text_phase, pos, start, line_no, records, next, line, line_num, tokens

F == INSTANCE TokenFile WITH phase <- text_phase

text_vars == <<pieces, begin, text, text_phase, pos, start, line_no, records,
               next, line, line_num, tokens>>
all_vars  == <<text_vars, vars>>

KindOf(p) == IF text[p] = "break" THEN "break" ELSE "other"

(* lexTokensFile: makeToken2 of each record goes to list_add.              *)
LexAndRead ==
  /\ phase = "fill"
  /\ F!Next
  /\ IF tokens' = tokens THEN UNCHANGED vars ELSE Add(KindOf(tokens'[Len(tokens')].symbol))

(* build_ast_file on what the reader returns.                              *)
ParseTokens ==
  /\ text_phase = "done"
  /\ StartParser \/ Copy \/ Expect \/ Jump \/ LookBehind \/ Accept \/ Reject
  /\ UNCHANGED text_vars

FrontEndInit == F!Init /\ Init
FrontEndNext == LexAndRead \/ ParseTokens

FrontEndSafeSpec == FrontEndInit /\ [][FrontEndNext]_all_vars

-----------------------------------------------------------------------------
(* Properties: those of the two parts.                                     *)

TokensAreTheCode   == F!TokensAreTheCode
LinesAreTheSources == F!LinesAreTheSources

(* Lexing and reading end: nothing else is done meanwhile.  Reading stops  *)
(* early when the list has written outside its array.                      *)
Ends == F!Ends \/ <>overrun

=============================================================================
