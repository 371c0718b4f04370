----------------------------- MODULE MCTryCatch -----------------------------
(* Instances of TryCatch for TLC: every body of up to MaxEvents events the *)
(* grammar of parser/README.md allows, made of the chosen statements.      *)
EXTENDS TryCatch, Functions

CONSTANTS UsedLeaves,     \* which of Leaf occur
          UsedBlocks      \* which of "if", "else", "loop", "case", "try"

In(kind, lists) == {<<kind>> \o l \o <<"close">> : l \in lists}

Then(A, B) == {a \o b : a \in A, b \in B}

(* Statements of exactly k events; Lists[m + 1] holds the lists of m.       *)
Stmts(Lists, k) ==
  LET Simple == IF k < 2 THEN {} ELSE
        UNION {In(b, Lists[k - 1]) : b \in UsedBlocks \cap {"if", "loop", "case"}}
      Pair(first, second) ==
        UNION {Then(In(first, Lists[m + 1]), In(second, Lists[k - 3 - m])) : m \in 0..(k - 4)}
  IN  (IF k = 1 THEN {<<e>> : e \in UsedLeaves} ELSE {})
      \cup Simple
      \cup (IF "else" \in UsedBlocks THEN Pair("if", "else") ELSE {})
      \cup (IF "try" \in UsedBlocks THEN Pair("try", "catch") ELSE {})

ListsUpTo[n \in 0..MaxEvents] ==
  IF n = 0 THEN <<{<<>>}>>
  ELSE LET Lists == ListsUpTo[n - 1]
       IN  Append(Lists, UNION {Then(Stmts(Lists, k), Lists[n - k + 1]) : k \in 1..n})

MCBodies == UNION Range(ListsUpTo[MaxEvents])

=============================================================================
