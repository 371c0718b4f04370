------------------------------- MODULE Calls --------------------------------
(***************************************************************************)
(* The program the analyzers read: the lines of the subroutine symbol      *)
(* table, and for each the nodes of its block that matter to them, in the  *)
(* order in which ast/visitor/visitor.c comes to them.                     *)
(***************************************************************************)
EXTENDS Lines, Sequences, Functions

Local == 0        \* a name that is not in the table: a local function pointer

Name == Line \cup {Local}

(* A Call, a SimpleVar or a WhileStmt, with its identifier.  `seen` is     *)
(* false inside the condition of a while, the count of a loop and the      *)
(* range of a for: visit_while_stmt, visit_loop_stmt and visit_for_stmt    *)
(* visit only the block of their statement.                                *)
Item == [node : {"call", "var", "while"}, name : Name, seen : BOOLEAN]

(* What a body calls or mentions, and the part of it the visitor reports.  *)
NamesOf(b, node) == {it.name : it \in {x \in Range(b) : x.node = node}}

Reported(b, node) ==
  {it.name : it \in {x \in Range(b) : x.node = node /\ x.seen}}

=============================================================================
