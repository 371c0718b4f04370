------------------------------ MODULE Analyzers -----------------------------
(***************************************************************************)
(* The analyses transpileAST runs one after another over a program that    *)
(* the typechecker has accepted: analyze_functions fills in callees and    *)
(* callers, from which analyze_dead_code and then analyze_termination draw *)
(* their verdicts, which analyze_annotations compares with the source.     *)
(* Each is the module of its own; this one passes the symbol table on and  *)
(* states what the verdicts mean for the source.                           *)
(***************************************************************************)
EXTENDS FnAnalyzer

VARIABLES
  line_kind, main, variables,        \* the program, with user and body
  annotations, namespace,
  dead, dead_pc, v, stack,           \* dead code analyzer
  halts, i, changed, halt_pc,        \* termination analyzer
  am, ak, current_namespace,         \* annotation analyzer
  warnings

source     == <<program, line_kind, main, variables, annotations, namespace>>
fn_vars    == <<callees, callers, calls_fn_ptrs, m, k>>
dead_vars  == <<dead, dead_pc, v, stack>>
halt_vars  == <<halts, i, changed, halt_pc>>
annot_vars == <<am, ak, current_namespace, warnings>>
all_vars   == <<source, fn_vars, dead_vars, halt_vars, annot_vars>>

D == INSTANCE DeadAnalyzer WITH pc <- dead_pc

WithWhile == {l \in Line : Reported(body[l], "while") # {}}

(* CC.callees, in no order.                                                *)
CalleeSets == [l \in Line |-> Range(callees[l])]

(* terminates_by_construction has the visitor look for a WhileStmt.        *)
H == INSTANCE HaltAnalyzer
       WITH pc <- halt_pc, callees <- CalleeSets, has_while <- WithWhile

A == INSTANCE AnnotationAnalyzer WITH m <- am, k <- ak

(* The table as fill_tables leaves it; the visitor comes to the SimpleVars *)
(* of all blocks.                                                          *)
FilledTables ==
  /\ user = {l \in Line : line_kind[l] = "user"}
  /\ variables \in Seq(Name)
  /\ Range(variables) = UNION {Reported(body[l], "var") : l \in Line}
  /\ Start /\ D!Start /\ H!DeclaredHalts /\ H!Start /\ A!Start

AnalysesInit ==
  /\ line_kind \in [Line -> H!Kind] /\ main \in Line \cup {Local}
  /\ annotations \in [Line -> SUBSET {"halts", "deprecated", "private"}]
  /\ namespace \in [Line -> STRING]
  /\ FilledTables /\ ProgramOK

AnalyzeFunctions ==
  /\ UNCHANGED <<line_kind, main, variables, annotations, namespace>>
  /\ UNCHANGED <<dead_vars, halt_vars, annot_vars>>
  /\ Next

AnalyzeDeadCode ==
  /\ m > Size
  /\ UNCHANGED <<source, fn_vars, halt_vars, annot_vars>>
  /\ D!Next

AnalyzeTermination ==
  /\ m > Size /\ dead_pc = "done"
  /\ UNCHANGED <<source, fn_vars, dead_vars, annot_vars>>
  /\ H!Next

AnalyzeAnnotations ==
  /\ halt_pc = "done"
  /\ UNCHANGED <<source, fn_vars, dead_vars, halt_vars>>
  /\ A!Next

AnalysesNext ==
  AnalyzeFunctions \/ AnalyzeDeadCode \/ AnalyzeTermination \/ AnalyzeAnnotations

AnalysesSafeSpec == AnalysesInit /\ [][AnalysesNext]_all_vars

(* The analyses are plain sequential calls: they keep running.             *)
AnalysesSpec == AnalysesSafeSpec /\ WF_all_vars(AnalysesNext)

-----------------------------------------------------------------------------
(* Properties.                                                             *)

(* Verdicts hold of what the visitor shows the analyses.                   *)
AllSeen == \A l \in Line : \A it \in Range(body[l]) : it.seen

(* The subroutines of S may keep each other running: each loops, calls a   *)
(* function pointer, is a prototype not declared to halt, or calls one of  *)
(* the set, wherever in its body that is.                                  *)
MayRunForever(S) ==
  \A l \in S :
    \/ NamesOf(body[l], "while") # {}
    \/ NamesOf(body[l], "call") \cap (S \cup {Local}) # {}
    \/ line_kind[l] = "libc" /\ halts[l] = "unknown"

(* What analyze_termination marks HALTS_ALWAYS does halt: it is in no set  *)
(* of subroutines that may run forever                                     *)
(* (transpiler/main/analyzer/halts/halt_analyzer.h: "Terminates").         *)
MarkedTerminates ==
  AllSeen =>
    \A S \in SUBSET Line : MayRunForever(S) => \A l \in S : halts[l] # "always"

(* Everything main or a variable of the program leads to by calls is       *)
(* marked live, and nothing else is, when analyze_dead_code returns.       *)
LiveIsReachable ==
  LET Live   == {l \in Line : dead[l] = "islive"}
      Mentioned == (UNION {NamesOf(body[l], "var") : l \in Line}) \ {Local}
      Closed(S) ==
        /\ {main} \cup Mentioned \subseteq S
        /\ \A l \in S : NamesOf(body[l], "call") \ {Local} \subseteq S
  IN  AllSeen /\ dead_pc = "done" /\ main # Local =>
        Closed(Live) /\ \A S \in SUBSET Line : Closed(S) => Live \subseteq S

(* An annotation about which nothing is printed can be relied on, when     *)
(* transpileAST goes on to write C: a @halts subroutine is in no set that  *)
(* may run forever, a @deprecated one is called by none, a @private one    *)
(* from its own namespace only.  It takes the callers the first walk has   *)
(* recorded, the verdicts of the passes, and the namespace this walk is    *)
(* in.                                                                     *)
SilenceIsEarned ==
  LET Silent(annotation, l) ==
        /\ annotation \in annotations[l]
        /\ \A w \in warnings : w.annotation = annotation => w.line # l
      CallersOf(l) == {c \in Line : l \in NamesOf(body[c], "call")}
  IN  AllSeen /\ am > Size =>
        \A l \in user :
          /\ Silent("halts", l) =>
               \A S \in SUBSET Line : MayRunForever(S) => l \notin S
          /\ Silent("deprecated", l) => CallersOf(l) = {}
          /\ Silent("private", l) => \A c \in CallersOf(l) : namespace[c] = namespace[l]

(* The four analyses end, whatever calls whatever.                         *)
Ends == <>(am > Size)

(* Those of the analyses: on the table as the pipeline passes it on.       *)
NothingMissed    == H!NothingMissed
VerdictsAreFinal == H!VerdictsAreFinal
NoLineTwice      == D!NoLineTwice

(* What is shown of the calls, whether or not it was recorded yet.         *)
ShownCalls == [l \in Line |-> Reported(body[l], "call") \ {Local}]

(* The pipeline as a whole applies the rule of Termination to the calls of *)
(* the source: nothing is marked before its callees were recorded, and     *)
(* all the rule justifies is marked in the end.                            *)
T == INSTANCE Termination
       WITH has_while <- WithWhile, callees <- ShownCalls, halting <- H!Always,
            calls_fn_ptrs <- {l \in Line : l \notin user \/ Local \in Reported(body[l], "call")}

ComputesLeastSet == T!Spec

(* The pipeline searches the calls of the source as Reachability says.     *)
R == INSTANCE Reachability
       WITH roots <- D!Roots, callee_sets <- ShownCalls, live <- D!Live

ComputesReachability == R!Spec

=============================================================================
