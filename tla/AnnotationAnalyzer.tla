------------------------- MODULE AnnotationAnalyzer -------------------------
(***************************************************************************)
(* The annotation analyzer of transpiler/main/analyzer/annotation: a walk  *)
(* over the AST that compares what the source says of its subroutines with *)
(* what the analyses before it have found, and prints a warning where the  *)
(* two differ.  What it says of structures is not modelled.                *)
(***************************************************************************)
EXTENDS Calls

VARIABLES
  user,               \* lines with a Method
  body,               \* line |-> the items of its block
  annotations,        \* Method.super.annotations
  namespace,          \* the namespace of a Method, and SSTLine._namespace
  callers,            \* CC.callers
  halts,              \* SSTLine.halts
  m,                  \* the method the visitor is at
  k,                  \* item of its block; 0: the method node
  current_namespace,  \* the namespace visited last
  warnings            \* what was printed

program == <<user, body, annotations, namespace>>
vars    == <<program, callers, halts, m, k, current_namespace, warnings>>

Start == m = 1 /\ k = 0 /\ current_namespace = "NULL" /\ warnings = {}

-----------------------------------------------------------------------------

Warning(annotation, l, place) == [annotation |-> annotation, line |-> l, in |-> place]

Warns(annotation, l, place, condition) ==
  IF annotation \in annotations[l] /\ condition THEN {Warning(annotation, l, place)} ELSE {}

annot_halts(l) == Warns("halts", l, l, halts[l] # "always")

annot_deprecated(l) == UNION {Warns("deprecated", l, c, TRUE) : c \in Range(callers[l])}

(* The name is one of the table, and its namespace is not the one visited. *)
annot_private(l) == Warns("private", l, m, namespace[l] # current_namespace)

NoMethod ==
  /\ m <= Size /\ m \notin user
  /\ m' = m + 1
  /\ UNCHANGED <<program, callers, halts, k, current_namespace, warnings>>

(* myvisitor_annotations at NODE_NAMESPACE.                                *)
VisitNamespace ==
  /\ m <= Size /\ m \in user /\ k = 0 /\ current_namespace # namespace[m]
  /\ current_namespace' = namespace[m]
  /\ UNCHANGED <<program, callers, halts, m, k, warnings>>

(* mutant: only methods that nothing calls are asked about their halting.  *)
BugVisitMethod ==
  /\ m <= Size /\ m \in user /\ k = 0 /\ current_namespace = namespace[m]
  /\ warnings' = warnings \cup
       (IF callers[m] = <<>> THEN annot_halts(m) ELSE annot_deprecated(m))
  /\ k' = 1
  /\ UNCHANGED <<program, callers, halts, m, current_namespace>>

(* At NODE_METHOD.                                                         *)
VisitMethod ==
  /\ m <= Size /\ m \in user /\ k = 0 /\ current_namespace = namespace[m]
  /\ warnings' = warnings \cup annot_halts(m) \cup annot_deprecated(m)
  /\ k' = 1
  /\ UNCHANGED <<program, callers, halts, m, current_namespace>>

AtItem == m <= Size /\ k \in 1..Len(body[m])

AtCall ==
  /\ AtItem
  /\ body[m][k].node = "call" /\ body[m][k].seen /\ body[m][k].name # Local

(* At NODE_CALL.                                                           *)
VisitCall ==
  /\ AtCall
  /\ warnings' = warnings \cup annot_private(body[m][k].name)
  /\ k' = k + 1
  /\ UNCHANGED <<program, callers, halts, m, current_namespace>>

VisitOther ==
  /\ AtItem /\ ~AtCall
  /\ k' = k + 1
  /\ UNCHANGED <<program, callers, halts, m, current_namespace, warnings>>

LeaveMethod ==
  /\ m <= Size /\ k = Len(body[m]) + 1
  /\ m' = m + 1 /\ k' = 0
  /\ UNCHANGED <<program, callers, halts, current_namespace, warnings>>

Next ==
  NoMethod \/ VisitNamespace \/ VisitMethod \/ VisitCall \/ VisitOther \/ LeaveMethod

=============================================================================
