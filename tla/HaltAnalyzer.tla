---------------------------- MODULE HaltAnalyzer ----------------------------
(***************************************************************************)
(* The termination analysis of transpiler/main/analyzer/halts: passes over *)
(* the subroutine symbol table, each of which stops at the first line it   *)
(* can newly mark HALTS_ALWAYS, until a pass marks none.                   *)
(*                                                                         *)
(* Its input is what the symbol table holds when analyze_termination is    *)
(* called: which lines have a body, whether it contains a while statement, *)
(* and the callees the function analyzer recorded.                         *)
(***************************************************************************)
EXTENDS Lines

(* "user": written in smalldragon, has a Method; "struct": a constructor   *)
(* generated for a structure; "libc": a prefilled or externc prototype.    *)
Kind == {"user", "struct", "libc"}

VARIABLES
  line_kind,      \* SSTLine.method and SSTLine.is_libc
  has_while,      \* lines whose block contains a WhileStmt
  callees,        \* CC.callees
  calls_fn_ptrs,  \* lines with CC.calls_fn_ptrs
  halts,          \* SSTLine.halts
  i,              \* the line the pass is at
  changed,        \* did the last pass mark a line?
  pc              \* "while": analyze_termination, "scan": inner, "done"

program == <<line_kind, has_while, callees, calls_fn_ptrs>>
vars    == <<program, halts, i, changed, pc>>

User == {l \in Line : line_kind[l] = "user"}

(* makeSSTLine2 starts a user line at HALTS_UNKNOWN, and                   *)
(* add_gen_struct_subrs_sst_single a constructor at HALTS_ALWAYS; a        *)
(* prototype is declared either way.  Only lines with a body have callees, *)
(* and make_cc leaves calls_fn_ptrs true for the others.                   *)
ProgramOK ==
  /\ line_kind \in [Line -> Kind]
  /\ has_while \subseteq User
  /\ callees \in [Line -> SUBSET Line]
  /\ \A l \in Line \ User : callees[l] = {}
  /\ calls_fn_ptrs \subseteq Line
  /\ Line \ User \subseteq calls_fn_ptrs

DeclaredHalts ==
  /\ halts \in [Line -> {"always", "unknown"}]
  /\ \A l \in Line :
       /\ line_kind[l] = "user"   => halts[l] = "unknown"
       /\ line_kind[l] = "struct" => halts[l] = "always"

Start == i = 1 /\ changed = TRUE /\ pc = "while"

Init == ProgramOK /\ DeclaredHalts /\ Start

-----------------------------------------------------------------------------

(* mutant: a function pointer is taken for a call that returns.            *)
BugAllCalleesTerminate(l) == \A c \in callees[l] : halts[c] = "always"

AllCalleesTerminate(l) ==
  /\ l \notin calls_fn_ptrs
  /\ \A c \in callees[l] : halts[c] = "always"

TerminatesByConstruction(l) == l \notin has_while

(* mutant: a line is its own justification: recursion is not noticed.      *)
BugCandidate(l) ==
  /\ halts[l] = "unknown" /\ line_kind[l] # "libc" /\ l \notin calls_fn_ptrs
  /\ \A c \in callees[l] \ {l} : halts[c] = "always"

(* The line passes the tests of inner before it looks at the block.        *)
Candidate(l) ==
  /\ halts[l] = "unknown"
  /\ line_kind[l] # "libc"
  /\ AllCalleesTerminate(l)

(* analyze_termination calls inner.                                        *)
EnterPass ==
  /\ pc = "while" /\ changed
  /\ i' = 1 /\ changed' = FALSE /\ pc' = "scan"
  /\ UNCHANGED <<program, halts>>

(* mutant: a pass takes back what it cannot show itself.                   *)
BugRecompute ==
  /\ pc = "scan" /\ i <= Size
  /\ ~(Candidate(i) /\ TerminatesByConstruction(i))
  /\ halts' = [halts EXCEPT ![i] = "unknown"]
  /\ i' = i + 1
  /\ UNCHANGED <<program, changed, pc>>

(* The line is known, from libC, or not (yet) known to halt: continue.     *)
Skip ==
  /\ pc = "scan" /\ i <= Size
  /\ ~(Candidate(i) /\ TerminatesByConstruction(i))
  /\ i' = i + 1
  /\ UNCHANGED <<program, halts, changed, pc>>

(* mutant: the pass ends without reporting that it marked a line.          *)
BugMark ==
  /\ pc = "scan" /\ i <= Size
  /\ Candidate(i) /\ TerminatesByConstruction(i)
  /\ halts' = [halts EXCEPT ![i] = "always"]
  /\ pc' = "while"
  /\ UNCHANGED <<program, i, changed>>

(* The line halts: mark it and leave the pass.                             *)
Mark ==
  /\ pc = "scan" /\ i <= Size
  /\ Candidate(i) /\ TerminatesByConstruction(i)
  /\ halts' = [halts EXCEPT ![i] = "always"]
  /\ changed' = TRUE /\ pc' = "while"
  /\ UNCHANGED <<program, i>>

(* mutant: a pass that marked nothing asks for another one.                *)
BugEndPass ==
  /\ pc = "scan" /\ i > Size
  /\ changed' = TRUE /\ pc' = "while"
  /\ UNCHANGED <<program, halts, i>>

EndPass ==
  /\ pc = "scan" /\ i > Size
  /\ pc' = "while"
  /\ UNCHANGED <<program, halts, i, changed>>

Return ==
  /\ pc = "while" /\ ~changed
  /\ pc' = "done"
  /\ UNCHANGED <<program, halts, i, changed>>

Next == EnterPass \/ Skip \/ Mark \/ EndPass \/ Return

SafeSpec == Init /\ [][Next]_vars

(* The analysis is a plain sequential call: it keeps running.              *)
Spec == SafeSpec /\ WF_vars(Next)

-----------------------------------------------------------------------------
(* Properties.                                                             *)

(* The symbol table keeps its shape, and nothing is ever HALTS_NEVER.      *)
TypeOK ==
  /\ ProgramOK
  /\ halts \in [Line -> {"always", "unknown"}]
  /\ i \in 1..(Size + 1)
  /\ changed \in BOOLEAN
  /\ pc \in {"while", "scan", "done"}

Always == {l \in Line : halts[l] = "always"}

(* A set of lines in which each either may run forever by itself (a while  *)
(* loop, a function pointer, a prototype that is not declared to halt) or  *)
(* calls another one of the set.  The execution of a line of such a set    *)
(* need never end; mutual recursion is a set of this kind.                 *)
Evasive(S) ==
  \A l \in S :
    \/ l \in has_while
    \/ l \in User \cap calls_fn_ptrs
    \/ line_kind[l] = "libc" /\ halts[l] = "unknown"
    \/ callees[l] \cap S # {}

(* No subroutine that calls, directly or through others, a loop, a         *)
(* function pointer, an unknown prototype or itself is marked              *)
(* HALTS_ALWAYS, at any time of the analysis.                              *)
MarkedHalt == \A S \in SUBSET Line : Evasive(S) => S \cap Always = {}

(* When the analysis returns, the subroutines it did not mark are such a   *)
(* set: it gave up on none that its rule would still prove to halt,        *)
(* although every pass stops at its first find.                            *)
NothingMissed == pc = "done" => Evasive(Line \ Always)

(* A verdict is never taken back, and user lines are the only ones that    *)
(* receive one: what callers were told about a callee stays true.          *)
VerdictsAreFinal ==
  [][\A l \in Line : halts'[l] # halts[l] => halts[l] = "unknown" /\ l \in User]_vars

(* The passes end, on cyclic call graphs too.                              *)
Ends == <>(pc = "done")

(* The analysis is an implementation of the rule of Termination.           *)
T == INSTANCE Termination WITH user <- User, halting <- Always

ComputesLeastSet == T!Spec

=============================================================================
