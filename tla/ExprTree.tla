------------------------------ MODULE ExprTree ------------------------------
(***************************************************************************)
(* How the parser turns the flat list  term op term op ... term  that      *)
(* makeExpr (parser/main/astnodes/expr/Expr.c) collects into the tree of   *)
(* an Expr, which the code generator writes out fully parenthesised.       *)
(*                                                                         *)
(* Arithmetic operators are grouped first.  Then chained comparisons are   *)
(* split:  a < b < c  becomes  a < b && b < c,  with a copy of b.          *)
(* Then the rest is grouped.                                               *)
(***************************************************************************)
EXTENDS Integers, Sequences, SequencesExt

CONSTANT MaxOps     \* bound: operators of an expression

ASSUME MaxOpsAssumption == MaxOps \in Nat

(* The array of prec_index; the bitwise operators are not in it.           *)
Table ==
  <<"*", "/", "%", "+", "-", "<<", ">>",
    "!=", "==", ">=", "<=", ">", "<",
    "&&", "||">>

Bitwise == {"&", "|", "^"}

Operator == Range(Table) \cup Bitwise

nops == Len(Table)

PrecIndex(op) == IF op \in Bitwise THEN -1 ELSE (CHOOSE p \in 1..nops : Table[p] = op) - 1

LastArithmetic == 6

(* mutant: the range of comparison operators ends one too early.           *)
BugIsComparison(op) == PrecIndex(op) \in 7..11

IsComparison(op) == PrecIndex(op) \in 7..12

(* An operand of the tree: the term it stands for, and whether it is the   *)
(* one that was parsed or a copy.                                          *)
Parsed(n) == [term |-> n, copied |-> FALSE]

(* A term, by what the tree below it is: the operator at its root, its     *)
(* operands and the operators between them from left to right, and each    *)
(* Expr in it with the operators of its two terms.                         *)
Leaf(operand) == [op |-> "none", operands |-> <<operand>>, operators |-> <<>>, exprs |-> {}]

Node(l, o, r) ==
  [op |-> o, operands |-> l.operands \o r.operands,
   operators |-> l.operators \o <<o>> \o r.operators,
   exprs |-> {[term1 |-> l.op, op |-> o, term2 |-> r.op]} \cup l.exprs \cup r.exprs]

(* copy_un_op_term: of an Expr, copy_expr copies the first term only,      *)
(* because it sets res->op to NULL before it asks for it.                  *)
Copied(t) == Leaf([term |-> Head(t.operands).term, copied |-> TRUE])

VARIABLES
  source,     \* the operators as written
  ops,        \* the working list of operators
  terms,      \* the working list of terms, one more than ops
  phase,      \* which part of fullTreeTransformation runs
  i           \* index of insertOperatorChaining

vars == <<source, ops, terms, phase, i>>

Init ==
  /\ source \in UNION {[1..n -> Operator] : n \in 0..MaxOps}
  /\ ops = source
  /\ terms = [j \in 1..(Len(source) + 1) |-> Leaf(Parsed(j))]
  /\ phase = "arithmetic"
  /\ i = 1

-----------------------------------------------------------------------------
(* performTreeTransformation.                                              *)

max_op_index == IF phase = "arithmetic" THEN LastArithmetic ELSE nops - 1

(* The search for the operator that binds most.  It starts from the lowest *)
(* precedence there is with the first operator and the last index, so that *)
(* a list of || only keeps this pair.                                      *)
Binding == {j \in 1..Len(ops) : PrecIndex(ops[j]) < nops - 1}

(* mutant: among equals the last one is taken.                             *)
BugFound ==
  IF Binding = {} THEN Len(ops)
  ELSE CHOOSE j \in Binding : \A h \in Binding :
         \/ PrecIndex(ops[j]) < PrecIndex(ops[h])
         \/ PrecIndex(ops[j]) = PrecIndex(ops[h]) /\ h <= j

Found ==
  IF Binding = {} THEN Len(ops)
  ELSE CHOOSE j \in Binding : \A h \in Binding :
         \/ PrecIndex(ops[j]) < PrecIndex(ops[h])
         \/ PrecIndex(ops[j]) = PrecIndex(ops[h]) /\ j <= h

FoundOp == IF Binding = {} THEN ops[1] ELSE ops[Found]

Grouping ==
  /\ phase \in {"arithmetic", "rest"}
  /\ Len(terms) > 2
  /\ PrecIndex(FoundOp) <= max_op_index

(* mutant: the new term goes one place too far to the right.               *)
BugGroup ==
  /\ Grouping
  /\ LET j == Found
         rest == RemoveAt(RemoveAt(terms, j), j)
         at == IF j <= Len(rest) THEN j + 1 ELSE j
     IN  /\ terms' = InsertAt(rest, at, Node(terms[j], FoundOp, terms[j + 1]))
         /\ ops' = RemoveAt(ops, j)
  /\ UNCHANGED <<source, phase, i>>

(* erase both terms and the operator, insert the Expr made of them.        *)
Group ==
  /\ Grouping
  /\ LET j == Found
         rest == RemoveAt(RemoveAt(terms, j), j)
     IN  /\ terms' = InsertAt(rest, j, Node(terms[j], FoundOp, terms[j + 1]))
         /\ ops' = RemoveAt(ops, j)
  /\ UNCHANGED <<source, phase, i>>

EndGrouping ==
  /\ phase \in {"arithmetic", "rest"}
  /\ ~Grouping
  /\ phase' = IF phase = "arithmetic" THEN "chaining" ELSE "done"
  /\ UNCHANGED <<source, ops, terms, i>>

-----------------------------------------------------------------------------
(* insertOperatorChaining.                                                 *)

Chained == IsComparison(ops[i]) /\ IsComparison(ops[i + 1])

Chain ==
  /\ phase = "chaining" /\ i < Len(ops) /\ Chained
  /\ ops' = InsertAt(ops, i + 1, "&&")
  /\ terms' = InsertAt(terms, i + 1, Copied(terms[i + 1]))
  /\ i' = i + 1
  /\ UNCHANGED <<source, phase>>

PassBy ==
  /\ phase = "chaining" /\ i < Len(ops) /\ ~Chained
  /\ i' = i + 1
  /\ UNCHANGED <<source, ops, terms, phase>>

EndChaining ==
  /\ phase = "chaining" /\ i >= Len(ops)
  /\ phase' = "rest"
  /\ UNCHANGED <<source, ops, terms, i>>

Next == Group \/ EndGrouping \/ Chain \/ PassBy \/ EndChaining

Spec == Init /\ [][Next]_vars

(* The Expr that fullTreeTransformation returns.                           *)
Result == IF ops = <<>> THEN terms[1] ELSE Node(terms[1], ops[1], terms[2])

-----------------------------------------------------------------------------
(* Properties.                                                             *)

IsArithmetic(p) == PrecIndex(source[p]) <= LastArithmetic

CompareAt(p) == p \in 1..Len(source) /\ PrecIndex(source[p]) \in 7..12

(* The terms from m to q are all there is between two comparisons.         *)
BetweenComparisons(m, q) ==
  /\ CompareAt(m - 1) /\ CompareAt(q) /\ m <= q
  /\ \A p \in m..(q - 1) : IsArithmetic(p)

BeginsInside(m) == \E q \in 1..Len(source) : BetweenComparisons(m, q)

(* The operands u and v may be joined by o: a copy and what it is a copy   *)
(* of by &&, and two terms that follow each other by the operator that was *)
(* written between them, where a copy of the second one comes first if a   *)
(* group between two comparisons begins with it, and only then.            *)
Joined(u, o, v) ==
  IF u.copied THEN o = "&&" /\ v = Parsed(u.term)
  ELSE /\ o = source[u.term] /\ v.term = u.term + 1
       /\ v.copied <=> BeginsInside(v.term)

(* Grouping and chaining lose and exchange no operand or operator that was *)
(* written, and make a copy where a chain of comparisons is split and      *)
(* nowhere else (Expr.c, insertOperatorChaining: OP1 TERM OP2 becomes      *)
(* OP1 TERM && TERM OP2).                                                  *)
OperandsInOrder ==
  phase = "done" =>
    LET operands  == Result.operands
        operators == Result.operators
    IN  /\ Len(operators) = Len(operands) - 1
        /\ operands[1] = Parsed(1)
        /\ operands[Len(operands)] = Parsed(Len(source) + 1)
        /\ \A j \in 1..Len(operators) : Joined(operands[j], operators[j], operands[j + 1])

(* A chain of comparisons compares the same terms on both sides of its &&: *)
(* each term of a group between two comparisons is there twice             *)
(* (Expr.c, insertOperatorChaining: "deep copy the term").                 *)
CopiesAreWhole ==
  phase = "done" =>
    \A m, q \in 1..Len(source) : BetweenComparisons(m, q) =>
      \A n \in m..q : Parsed(n) \in Range(Result.operands) /\
                      [term |-> n, copied |-> TRUE] \in Range(Result.operands)

(* The levels of the operators as the comment in prec_index lists them,    *)
(* with the other comparisons next to != and ==; it has none for Bitwise.  *)
Levels ==
  <<{"*", "/", "%"}, {"+", "-"}, {"<<", ">>"},
    {"!=", "==", ">=", "<=", ">", "<"}, {"&&"}, {"||"}>>

OnLevel(n) == UNION {Levels[m] : m \in 1..n}

(* The tree follows these levels: no operand of an operator is on a level  *)
(* below its own, through both passes and the splitting between them; and  *)
(* a run of one operator is grouped from the left, but of ||, which means  *)
(* the same from the right.  Different operators of one level are not      *)
(* spoken of: prec_index gives each a number of its own, so that a - b + c *)
(* becomes a - (b + c), and as cg_term.c writes the brackets, the C        *)
(* program computes that.                                                  *)
BindsByLevel ==
  phase = "done" =>
    \A e \in Result.exprs :
      /\ \A n \in 1..Len(Levels) : e.op \in Levels[n] =>
           {e.term1, e.term2} \subseteq OnLevel(n) \cup Bitwise \cup {"none"}
      /\ e.term2 = e.op => e.op = "||"

(* The truth value of a comparison is never compared: chains of any length *)
(* and mixed comparisons are split completely.                             *)
NoComparisonCompared ==
  phase = "done" =>
    \A e \in Result.exprs : PrecIndex(e.op) \in 7..12 =>
      \A term \in {e.term1, e.term2} \ {"none"} : PrecIndex(term) \notin 7..12

=============================================================================
