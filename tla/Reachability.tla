---------------------------- MODULE Reachability ----------------------------
(***************************************************************************)
(* What the dead code analysis promises (abstract specification): the live *)
(* subroutines grow from none, by roots and by callees of live ones, in    *)
(* any order and any number at a time, until there are no more of them.    *)
(***************************************************************************)
EXTENDS Naturals

CONSTANT Size     \* lines of the subroutine symbol table

Line == 1..Size

VARIABLES
  roots,        \* what is live for a reason of its own
  callee_sets,  \* line |-> the lines it calls
  live

vars == <<roots, callee_sets, live>>

Init ==
  /\ roots \subseteq Line
  /\ callee_sets \in [Line -> SUBSET Line]
  /\ live = {}

Frontier == (roots \cup UNION {callee_sets[l] : l \in live}) \ live

Grow ==
  /\ \E found \in SUBSET Frontier : found # {} /\ live' = live \cup found
  /\ UNCHANGED <<roots, callee_sets>>

SafeSpec == Init /\ [][Grow]_vars

Spec == SafeSpec /\ WF_vars(Grow)

=============================================================================
