---------------------------- MODULE DeadAnalyzer ----------------------------
(***************************************************************************)
(* The dead code analysis of transpiler/main/analyzer/dead: a walk over    *)
(* the AST that calls mark_live for every variable named like a            *)
(* subroutine, then mark_live for main; mark_live calls itself for the     *)
(* callees the function analyzer found.                                    *)
(***************************************************************************)
EXTENDS Lines, Sequences, Functions

None == 0         \* no line of the table: another variable, or no main

VARIABLES
  main,           \* the line of main
  variables,      \* names of the SimpleVars, in the order of visit_ast
  callees,        \* CC.callees
  dead,           \* SSTLine.dead
  pc,             \* where analyze_dead_code is
  v,              \* SimpleVar the visitor is at
  stack           \* calls of mark_live: a line, and its callee to do next

program == <<main, variables, callees>>
vars    == <<program, dead, pc, v, stack>>

DEAD == {"islive", "isdead", "unknown"}

ProgramOK ==
  /\ main \in Line \cup {None}
  /\ variables \in Seq(Line \cup {None})
  /\ callees \in [Line -> Seq(Line)]

(* makeSSTLine, makeSSTLine2: dead = DEAD_UNKNOWN.                         *)
Start ==
  /\ dead = [l \in Line |-> "unknown"]
  /\ pc = "start"
  /\ v = 1
  /\ stack = <<>>

Init == ProgramOK /\ Start

-----------------------------------------------------------------------------

NoMain ==
  /\ pc = "start" /\ main = None
  /\ dead' = [l \in Line |-> "islive"]      \* set_all
  /\ pc' = "done"
  /\ UNCHANGED <<program, v, stack>>

(* mutant: the second set_all is missing.                                  *)
BugHasMain ==
  /\ pc = "start" /\ main # None
  /\ dead' = [l \in Line |-> "islive"]
  /\ pc' = "visit"
  /\ UNCHANGED <<program, v, stack>>

HasMain ==
  /\ pc = "start" /\ main # None
  /\ dead' = [l \in Line |-> "unknown"]     \* set_all, twice
  /\ pc' = "visit"
  /\ UNCHANGED <<program, v, stack>>

(* mutant: a line is marked after its callees have been looked at.         *)
BugEnter(frames, l) ==
  /\ UNCHANGED dead
  /\ stack' = IF dead[l] = "unknown" THEN Append(frames, [line |-> l, next |-> 1]) ELSE frames

(* mark_live up to its loop; `frames` are the calls it returns to.         *)
Enter(frames, l) ==
  IF dead[l] = "unknown"
  THEN /\ dead' = [dead EXCEPT ![l] = "islive"]
       /\ stack' = Append(frames, [line |-> l, next |-> 1])
  ELSE /\ stack' = frames
       /\ UNCHANGED dead

(* myvisitor_dead at NODE_SIMPLEVAR.                                       *)
VisitVar ==
  /\ pc = "visit" /\ stack = <<>> /\ v <= Len(variables)
  /\ IF variables[v] = None THEN UNCHANGED <<dead, stack>> ELSE Enter(<<>>, variables[v])
  /\ v' = v + 1
  /\ UNCHANGED <<program, pc>>

VisitMain ==
  /\ pc = "visit" /\ stack = <<>> /\ v > Len(variables)
  /\ Enter(<<>>, main)
  /\ pc' = "main"
  /\ UNCHANGED <<program, v>>

Top  == stack[Len(stack)]
Rest == SubSeq(stack, 1, Len(stack) - 1)

(* mutant: the loop stays at the same callee.                              *)
BugNextCallee ==
  /\ stack # <<>> /\ Top.next <= Len(callees[Top.line])
  /\ Enter(stack, callees[Top.line][Top.next])
  /\ UNCHANGED <<program, pc, v>>

(* The loop of mark_live.                                                  *)
NextCallee ==
  /\ stack # <<>> /\ Top.next <= Len(callees[Top.line])
  /\ Enter(Append(Rest, [Top EXCEPT !.next = @ + 1]), callees[Top.line][Top.next])
  /\ UNCHANGED <<program, pc, v>>

(* mutant: the loop is left after the first callee.                        *)
BugLeave ==
  /\ stack # <<>>
  /\ Top.next > 1 \/ callees[Top.line] = <<>>
  /\ stack' = Rest
  /\ UNCHANGED <<program, dead, pc, v>>

Leave ==
  /\ stack # <<>> /\ Top.next > Len(callees[Top.line])
  /\ stack' = Rest
  /\ UNCHANGED <<program, dead, pc, v>>

Return ==
  /\ pc = "main" /\ stack = <<>>
  /\ pc' = "done"
  /\ UNCHANGED <<program, dead, v, stack>>

Next ==
  \/ NoMain \/ HasMain \/ VisitVar \/ VisitMain \/ NextCallee \/ Leave \/ Return

SafeSpec == Init /\ [][Next]_vars

(* The analysis is a plain sequential call: it keeps running.              *)
Spec == SafeSpec /\ WF_vars(Next)

-----------------------------------------------------------------------------
(* Properties.                                                             *)

(* The verdicts, the place of the walk and the calls of mark_live keep     *)
(* their types; set_all and mark_live write inside the table.              *)
TypeOK ==
  /\ ProgramOK
  /\ dead \in [Line -> DEAD]
  /\ pc \in {"start", "visit", "main", "done"}
  /\ v \in Nat
  /\ stack \in Seq([line : Line, next : Nat \ {0}])

Live == {l \in Line : dead[l] = "islive"}

Roots == IF main = None THEN Line ELSE {main} \cup (Range(variables) \ {None})

ClosedUnderCalls(S) == \A l \in S : Range(callees[l]) \subseteq S

(* When the analysis returns, main and the subroutines used as values are  *)
(* live, and so is everything a live one calls: a call never goes to a     *)
(* subroutine left out.                                                    *)
LiveIsClosed == pc = "done" => Roots \subseteq Live /\ ClosedUnderCalls(Live)

(* Nothing else is live at any time: a set that holds the roots and the    *)
(* callees of its members holds every subroutine marked so far.            *)
LiveIsReached ==
  pc # "start" =>
    \A S \in SUBSET Line :
      Roots \subseteq S /\ ClosedUnderCalls(S) => Live \subseteq S

(* mark_live is at work on a line at most once, so that its recursion is   *)
(* no deeper than the table is long: recursive subroutines do not exhaust  *)
(* the stack of the transpiler.                                            *)
NoLineTwice ==
  \A a, b \in 1..Len(stack) : stack[a].line = stack[b].line => a = b

(* The recursion ends, on cyclic call graphs too.                          *)
Ends == <>(pc = "done")

(* The analysis computes what Reachability promises.                       *)
R == INSTANCE Reachability
       WITH roots <- Roots, callee_sets <- [l \in Line |-> Range(callees[l])],
            live <- Live

ComputesReachability == R!Spec

=============================================================================
