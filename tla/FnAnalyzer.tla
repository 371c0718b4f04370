----------------------------- MODULE FnAnalyzer -----------------------------
(***************************************************************************)
(* The function analyzer of transpiler/main/analyzer/fn: one walk over the *)
(* AST that fills the lists of callees and callers (tables/cc) of every    *)
(* line of the subroutine symbol table.                                    *)
(***************************************************************************)
EXTENDS Calls

VARIABLES
  user,           \* lines with a Method, visited in the order of the table
  body,           \* line |-> the items of its block
  callees,        \* CC.callees, a list of names
  callers,        \* CC.callers, a list of names
  calls_fn_ptrs,  \* lines with CC.calls_fn_ptrs
  m,              \* FnAnalyzerArg.currentFn
  k               \* item of its block the visitor is at; 0: the method node

program == <<user, body>>
vars    == <<program, callees, callers, calls_fn_ptrs, m, k>>

ProgramOK ==
  /\ user \subseteq Line
  /\ body \in [Line -> Seq(Item)]
  /\ \A l \in Line \ user : body[l] = <<>>

(* make_cc: no names, and "we don't know" about function pointers.         *)
Start ==
  /\ callees = [l \in Line |-> <<>>]
  /\ callers = [l \in Line |-> <<>>]
  /\ calls_fn_ptrs = Line
  /\ m = 1 /\ k = 0

Init == ProgramOK /\ Start

-----------------------------------------------------------------------------

(* cc_add_callee, cc_add_caller: add_cc_node walks the list to its end.    *)
AddNode(list, name) == IF name \in Range(list) THEN list ELSE Append(list, name)

NoMethod ==
  /\ m <= Size /\ m \notin user
  /\ m' = m + 1
  /\ UNCHANGED <<program, callees, callers, calls_fn_ptrs, k>>

(* mutant: a line keeps "we don't know" if it was called before.           *)
BugVisitMethod ==
  /\ m <= Size /\ m \in user /\ k = 0
  /\ calls_fn_ptrs' = IF callers[m] = <<>> THEN calls_fn_ptrs \ {m} ELSE calls_fn_ptrs
  /\ k' = 1
  /\ UNCHANGED <<program, callees, callers, m>>

(* myvisitor at NODE_METHOD.                                               *)
VisitMethod ==
  /\ m <= Size /\ m \in user /\ k = 0
  /\ calls_fn_ptrs' = calls_fn_ptrs \ {m}
  /\ k' = 1
  /\ UNCHANGED <<program, callees, callers, m>>

AtItem == m <= Size /\ k \in 1..Len(body[m])

AtCall == AtItem /\ body[m][k].node = "call" /\ body[m][k].seen

VisitOther ==
  /\ AtItem /\ ~AtCall
  /\ k' = k + 1
  /\ UNCHANGED <<program, callees, callers, calls_fn_ptrs, m>>

(* myvisitor at NODE_CALL, the name is not in the table.                   *)
VisitUnknownCall ==
  /\ AtCall /\ body[m][k].name = Local
  /\ calls_fn_ptrs' = calls_fn_ptrs \cup {m}
  /\ k' = k + 1
  /\ UNCHANGED <<program, callees, callers, m>>

(* mutant: the caller is not recorded when the callee is the method itself.*)
BugVisitCall ==
  /\ AtCall /\ body[m][k].name # Local
  /\ LET name == body[m][k].name
     IN  /\ callees' = [callees EXCEPT ![m] = AddNode(@, name)]
         /\ callers' = IF name = m THEN callers
                       ELSE [callers EXCEPT ![name] = AddNode(@, m)]
  /\ k' = k + 1
  /\ UNCHANGED <<program, calls_fn_ptrs, m>>

(* mutant: calls of lines the walk has left behind are ignored.            *)
BugIgnoredCall ==
  /\ AtCall /\ body[m][k].name # Local
  /\ LET name == body[m][k].name
     IN  IF name <= m
         THEN UNCHANGED <<callees, callers>>
         ELSE /\ callees' = [callees EXCEPT ![m] = AddNode(@, name)]
              /\ callers' = [callers EXCEPT ![name] = AddNode(@, m)]
  /\ k' = k + 1
  /\ UNCHANGED <<program, calls_fn_ptrs, m>>

(* myvisitor at NODE_CALL, the name is in the table.                       *)
VisitCall ==
  /\ AtCall /\ body[m][k].name # Local
  /\ LET name == body[m][k].name
     IN  /\ callees' = [callees EXCEPT ![m] = AddNode(@, name)]
         /\ callers' = [callers EXCEPT ![name] = AddNode(@, m)]
  /\ k' = k + 1
  /\ UNCHANGED <<program, calls_fn_ptrs, m>>

LeaveMethod ==
  /\ m <= Size /\ k = Len(body[m]) + 1
  /\ m' = m + 1 /\ k' = 0
  /\ UNCHANGED <<program, callees, callers, calls_fn_ptrs>>

Next ==
  \/ NoMethod \/ VisitMethod \/ VisitOther \/ VisitUnknownCall \/ VisitCall
  \/ LeaveMethod

Spec == Init /\ [][Next]_vars

-----------------------------------------------------------------------------
(* Properties.                                                             *)

(* Every variable keeps its type; the lists hold names of the table only,  *)
(* so that sst_get never fails on one of them.                             *)
TypeOK ==
  /\ ProgramOK
  /\ callees \in [Line -> Seq(Line)]
  /\ callers \in [Line -> Seq(Line)]
  /\ calls_fn_ptrs \subseteq Line
  /\ m \in 1..(Size + 1)
  /\ k \in Nat

(* At any time of the walk a line has a callee exactly if the callee has   *)
(* it as a caller, for recursive and repeated calls too.                   *)
CallersInvertCallees ==
  \A a, b \in Line : b \in Range(callees[a]) <=> a \in Range(callers[b])

(* After the walk the callees of a line are the calls it was shown.        *)
CalleesAreTheCalls ==
  m > Size =>
    \A l \in Line : Range(callees[l]) = Reported(body[l], "call") \ {Local}

(* After the walk a line is known not to call function pointers exactly if *)
(* it has a body and every call it was shown is of a line of the table.    *)
PointersNoticed ==
  m > Size =>
    \A l \in Line : l \notin calls_fn_ptrs <=>
                      l \in user /\ Local \notin Reported(body[l], "call")

=============================================================================
