----------------------------- MODULE MCExprTree -----------------------------
(* ExprTree on every expression of up to MaxOps of the chosen operators.   *)
EXTENDS ExprTree

CONSTANT UsedOps    \* one or two operators of each kind

MCInit ==
  /\ source \in UNION {[1..n -> UsedOps] : n \in 0..MaxOps}
  /\ ops = source
  /\ terms = [j \in 1..(Len(source) + 1) |-> Leaf(Parsed(j))]
  /\ phase = "arithmetic"
  /\ i = 1

MCSpec == MCInit /\ [][Next]_vars

=============================================================================
