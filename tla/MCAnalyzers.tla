----------------------------- MODULE MCAnalyzers ----------------------------
(* Analyzers on two families of programs: a prototype and subroutines with *)
(* bodies of any items, and subroutines only, with bodies of calls and     *)
(* loops.                                                                  *)
EXTENDS Analyzers, SequencesExt

CONSTANTS MaxItems,     \* bound: items of a body
          MaxCalls,     \* bound: items of a body of calls and loops
          Unseen        \* names that are called where the visitor does not look

Node(kind, name, seen) == [node |-> kind, name |-> name, seen |-> seen]
Loop == Node("while", Local, TRUE)

Items ==
  {Node("call", n, TRUE) : n \in Name} \cup {Node("call", n, FALSE) : n \in Unseen}
  \cup {Node("var", n, TRUE) : n \in {Size, Local}} \cup {Loop}

Bodies == UNION {[1..n -> Items] : n \in 0..MaxItems}

CallBodies ==
  LET Sets == {S \in SUBSET ({Node("call", n, TRUE) : n \in Line} \cup {Loop}) :
                 Cardinality(S) <= MaxCalls}
  IN  {SetToSeq(S) : S \in Sets}

(* Lines up to `last` are of one namespace.                                *)
Annotated(S, last) ==
  /\ annotations = [l \in Line |-> IF l \in S THEN {"halts", "deprecated", "private"} ELSE {}]
  /\ namespace = [l \in Line |-> IF l <= last THEN "first" ELSE "second"]

(* The SimpleVars of all blocks, as visit_ast comes to them.               *)
VisitedVars ==
  LET InBlock(b) == SelectSeq(b, LAMBDA it : it.node = "var" /\ it.seen)
      Block(l) == [j \in 1..Len(InBlock(body[l])) |-> InBlock(body[l])[j].name]
  IN  FlattenSeq([l \in Line |-> Block(l)])

MCInit ==
  /\ \/ /\ line_kind = [l \in Line |-> IF l = 1 THEN "libc" ELSE "user"]
        /\ body \in [Line -> Bodies] /\ body[1] = <<>>
        /\ main = 2 /\ Annotated(2..Size, 2)
     \/ /\ line_kind = [l \in Line |-> "user"]
        /\ body \in [Line -> CallBodies]
        /\ main \in {Local, 2} /\ Annotated({2}, 2)
     \/ /\ line_kind = [l \in Line |-> IF l = 1 THEN "struct" ELSE "user"]
        /\ body \in [Line -> CallBodies] /\ body[1] = <<>>
        /\ main = Local /\ Annotated({Size}, 1)
  /\ variables = VisitedVars /\ FilledTables

MCSpec == MCInit /\ [][AnalysesNext]_all_vars /\ WF_all_vars(AnalysesNext)

=============================================================================
