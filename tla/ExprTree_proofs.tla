--------------------------- MODULE ExprTree_proofs --------------------------
(***************************************************************************)
(* What the tree of an expression of any length keeps of the list it was   *)
(* made from: its operands and operators in their order, and the order in  *)
(* which the operators bind.                                               *)
(***************************************************************************)
EXTENDS ExprTree, SequenceTheorems, WellFoundedInduction, TLAPS

-----------------------------------------------------------------------------
(* The inductive invariant.                                                *)

Operand == [term : 1..(Len(source) + 1), copied : BOOLEAN]

Expr ==
  [term1 : Operator \cup {"none"}, op : Operator, term2 : Operator \cup {"none"}]

Term ==
  [op : Operator \cup {"none"}, operands : Seq(Operand), operators : Seq(Operator),
   exprs : SUBSET Expr]

TypeOK ==
  /\ source \in Seq(Operator)
  /\ ops \in Seq(Operator)
  /\ terms \in Seq(Term)
  /\ Len(terms) = Len(ops) + 1
  /\ phase \in {"arithmetic", "chaining", "rest", "done"}
  /\ i \in Nat \ {0} /\ (phase = "arithmetic" => i = 1)

Compares(op) == PrecIndex(op) \in 7..12

(* What the properties say of an Expr.                                     *)
Binds(e) ==
  /\ e.term1 # "none" => PrecIndex(e.term1) <= PrecIndex(e.op)
  /\ e.term2 # "none" =>
       \/ PrecIndex(e.term2) < PrecIndex(e.op)
       \/ PrecIndex(e.term2) = PrecIndex(e.op) /\ e.op = "||"

ComparesNone(e) ==
  Compares(e.op) => /\ e.term1 # "none" => ~Compares(e.term1)
                    /\ e.term2 # "none" => ~Compares(e.term2)

ExprsOK == \A k \in 1..Len(terms) : \A e \in terms[k].exprs : Binds(e) /\ ComparesNone(e)

(* A term that was grouped binds at least as much as each operator left,   *)
(* and more than those before it, which would have been found first.       *)
Strongest ==
  \A k \in 1..Len(terms), h \in 1..Len(ops) :
    terms[k].op # "none" => PrecIndex(terms[k].op) <= PrecIndex(ops[h])

FoundFirst ==
  \A k \in 1..Len(terms), h \in 1..Len(ops) :
    terms[k].op # "none" /\ h < k =>
      PrecIndex(terms[k].op) < PrecIndex(ops[h]) \/ terms[k].op = "||"

(* What the phases have done: first only arithmetic is grouped, then all   *)
(* of it has been, unless no more than two terms were left.                *)
Phases ==
  /\ phase \in {"arithmetic", "chaining"} =>
       \A k \in 1..Len(terms) :
         terms[k].op # "none" => PrecIndex(terms[k].op) <= LastArithmetic
  /\ phase \in {"chaining", "rest", "done"} =>
       \/ Len(terms) <= 2
       \/ \A h \in 1..Len(ops) : PrecIndex(ops[h]) > LastArithmetic
  /\ phase = "done" => Len(terms) <= 2

(* Two comparisons that the chaining has passed are not next to each       *)
(* other, nor is one next to a term that is a comparison.                  *)
Apart ==
  \A h \in 1..(Len(ops) - 1) :
    (phase = "chaining" /\ h < i) \/ phase \in {"rest", "done"} =>
      ~(Compares(ops[h]) /\ Compares(ops[h + 1]))

Alone ==
  \A k \in 1..Len(terms), h \in 1..Len(ops) :
    terms[k].op # "none" /\ Compares(terms[k].op) /\ h \in {k - 1, k} => ~Compares(ops[h])

PrecedenceOK == ExprsOK /\ Strongest /\ FoundFirst /\ Phases /\ Apart /\ Alone

(* The operands.                                                           *)
FirstOf(t) == t.operands[1]
LastOf(t)  == t.operands[Len(t.operands)]

LinkedBy(operands, operators) ==
  /\ Len(operators) = Len(operands) - 1
  /\ \A j \in 1..Len(operators) : Joined(operands[j], operators[j], operands[j + 1])

Linked(t) == LinkedBy(t.operands, t.operators)

(* A term of operands as they were parsed, with arithmetic between them.   *)
Block(t) ==
  /\ FirstOf(t).term <= LastOf(t).term
  /\ \A p \in FirstOf(t).term..(LastOf(t).term - 1) : IsArithmetic(p)

(* The place between two terms, as it was written, and where the && of a   *)
(* chain has been put.                                                     *)
Plain(k) ==
  /\ ~LastOf(terms[k]).copied
  /\ ops[k] = source[LastOf(terms[k]).term]
  /\ FirstOf(terms[k + 1]) = Parsed(LastOf(terms[k]).term + 1)

Split(k) ==
  /\ LastOf(terms[k]).copied
  /\ ops[k] = "&&"
  /\ FirstOf(terms[k + 1]) = Parsed(LastOf(terms[k]).term)

(* The chaining has passed the place after the term k.                     *)
Passed(k) == (phase = "chaining" /\ k < i) \/ phase \in {"rest", "done"}

Seams ==
  \A k \in 1..Len(ops) :
    IF Passed(k) THEN Joined(LastOf(terms[k]), ops[k], FirstOf(terms[k + 1]))
    ELSE Plain(k) \/ (phase = "chaining" /\ k = i /\ Split(k))

Blocks ==
  \A k \in 1..Len(terms) :
    phase = "arithmetic" \/ (phase = "chaining" /\ k > i) => Block(terms[k])

OrderOK ==
  /\ \A k \in 1..Len(terms) : Linked(terms[k])
  /\ FirstOf(terms[1]) = Parsed(1)
  /\ LastOf(terms[Len(terms)]) = Parsed(Len(source) + 1)
  /\ Seams /\ Blocks

IInv == TypeOK /\ PrecedenceOK /\ OrderOK

-----------------------------------------------------------------------------
(* The operators.                                                          *)

(* An operator that is not bitwise is in the table, at its index.          *)
LEMMA IndexInTable ==
  ASSUME NEW op \in Operator, op \notin Bitwise
  PROVE  \E p \in 1..15 : Table[p] = op /\ PrecIndex(op) = p - 1
<1>1. nops = 15 /\ DOMAIN Table = 1..15
  BY DEF nops, Table
<1>2. Range(Table) = {Table[p] : p \in 1..15}
  BY <1>1 DEF Range
<1>3. \E p \in 1..nops : Table[p] = op
  BY <1>1, <1>2 DEF Operator
<1> DEFINE q == CHOOSE p \in 1..nops : Table[p] = op
<1>4. q \in 1..nops /\ Table[q] = op
  BY <1>3
<1>5. PrecIndex(op) = q - 1
  BY DEF PrecIndex
<1>6. QED
  BY <1>1, <1>4, <1>5

LEMMA Precedences ==
  /\ nops = 15 /\ "&&" \in Operator /\ "none" \notin Operator
  /\ \A op \in Operator : PrecIndex(op) \in -1..14
  /\ PrecIndex("&&") = 13
  /\ \A op \in Operator : PrecIndex(op) = 14 <=> op = "||"
<1>1. nops = 15 /\ DOMAIN Table = 1..15
  BY DEF nops, Table
<1>2. /\ Table[1] = "*" /\ Table[2] = "/" /\ Table[3] = "%" /\ Table[4] = "+"
      /\ Table[5] = "-" /\ Table[6] = "<<" /\ Table[7] = ">>" /\ Table[8] = "!="
      /\ Table[9] = "==" /\ Table[10] = ">=" /\ Table[11] = "<=" /\ Table[12] = ">"
      /\ Table[13] = "<" /\ Table[14] = "&&" /\ Table[15] = "||"
  BY DEF Table
<1>3. \A p \in 1..15 : (Table[p] = "&&" <=> p = 14) /\ (Table[p] = "||" <=> p = 15)
  BY <1>2
<1>4. \A p \in 1..15 : Table[p] # "none"
  BY <1>2
<1>5. Range(Table) = {Table[p] : p \in 1..15}
  BY <1>1 DEF Range
<1>6. "&&" \in Operator /\ "none" \notin Operator
  BY <1>2, <1>4, <1>5 DEF Operator, Bitwise
<1>7. ASSUME NEW op \in Operator, op \notin Bitwise
      PROVE  \E p \in 1..15 : Table[p] = op /\ PrecIndex(op) = p - 1
  BY <1>7, IndexInTable
<1>8. \A op \in Bitwise : PrecIndex(op) = -1 /\ op # "||" /\ op # "&&"
  BY DEF PrecIndex, Bitwise
<1>9. ASSUME NEW op \in Operator
      PROVE  PrecIndex(op) \in -1..14 /\ (PrecIndex(op) = 14 <=> op = "||")
  <2>1. CASE op \in Bitwise
    BY <1>8, <2>1
  <2>2. CASE op \notin Bitwise
    BY <1>3, <1>7, <2>2
  <2>3. QED
    BY <2>1, <2>2
<1>10. PrecIndex("&&") = 13
  BY <1>3, <1>6, <1>7, <1>8
<1>11. QED
  BY <1>1, <1>6, <1>9, <1>10

-----------------------------------------------------------------------------
(* The lists.                                                              *)

LEMMA Inserted ==
  ASSUME NEW S, NEW s \in Seq(S), NEW e \in S, NEW j \in 1..(Len(s) + 1)
  PROVE  /\ InsertAt(s, j, e) \in Seq(S)
         /\ Len(InsertAt(s, j, e)) = Len(s) + 1
         /\ InsertAt(s, j, e)[j] = e
         /\ \A k \in 1..Len(s) : k < j => InsertAt(s, j, e)[k] = s[k]
         /\ \A k \in 2..(Len(s) + 1) : k > j => InsertAt(s, j, e)[k] = s[k - 1]
<1> DEFINE a == SubSeq(s, 1, j - 1)
           b == SubSeq(s, j, Len(s))
<1>1. Len(s) \in Nat
  OBVIOUS
<1>2. /\ a \in Seq(S) /\ Len(a) = j - 1
      /\ \A k \in 1..(j - 1) : a[k] = s[k]
  BY <1>1
<1>3. /\ b \in Seq(S) /\ Len(b) = Len(s) + 1 - j
      /\ \A k \in 1..(Len(s) + 1 - j) : b[k] = s[j + k - 1]
  BY <1>1
<1> HIDE DEF a, b
<1>4. /\ a \o <<e>> \in Seq(S) /\ Len(a \o <<e>>) = j
      /\ \A k \in 1..(j - 1) : (a \o <<e>>)[k] = s[k]
      /\ (a \o <<e>>)[j] = e
  BY <1>1, <1>2
<1> DEFINE c == a \o <<e>>
<1> HIDE DEF c
<1>5. /\ c \o b \in Seq(S) /\ Len(c \o b) = Len(s) + 1
      /\ \A k \in 1..j : (c \o b)[k] = c[k]
      /\ \A k \in (j + 1)..(Len(s) + 1) : (c \o b)[k] = b[k - j]
  BY <1>1, <1>3, <1>4 DEF c
<1>6. InsertAt(s, j, e) = c \o b
  BY DEF InsertAt, a, b, c
<1>7. \A k \in 1..Len(s) : k < j => k \in 1..(j - 1) /\ k \in 1..j
  BY <1>1
<1>8. \A k \in 2..(Len(s) + 1) : k > j =>
        /\ k \in (j + 1)..(Len(s) + 1) /\ k - j \in 1..(Len(s) + 1 - j)
        /\ j + (k - j) - 1 = k - 1
  BY <1>1
<1>9. j \in 1..j
  BY <1>1
<1>10. QED
  BY <1>3, <1>4, <1>5, <1>6, <1>7, <1>8, <1>9 DEF c

LEMMA Removed ==
  ASSUME NEW S, NEW s \in Seq(S), NEW j \in 1..Len(s)
  PROVE  /\ RemoveAt(s, j) \in Seq(S)
         /\ Len(RemoveAt(s, j)) = Len(s) - 1
         /\ \A k \in 1..(Len(s) - 1) :
              RemoveAt(s, j)[k] = IF k < j THEN s[k] ELSE s[k + 1]
<1> DEFINE a == SubSeq(s, 1, j - 1)
           b == SubSeq(s, j + 1, Len(s))
<1>1. Len(s) \in Nat
  OBVIOUS
<1>2. /\ a \in Seq(S) /\ Len(a) = j - 1
      /\ \A k \in 1..(j - 1) : a[k] = s[k]
  BY <1>1
<1>3. /\ b \in Seq(S) /\ Len(b) = Len(s) - j
      /\ \A k \in 1..(Len(s) - j) : b[k] = s[j + k]
  BY <1>1
<1> HIDE DEF a, b
<1>4. /\ a \o b \in Seq(S) /\ Len(a \o b) = Len(s) - 1
      /\ \A k \in 1..(j - 1) : (a \o b)[k] = a[k]
      /\ \A k \in j..(Len(s) - 1) : (a \o b)[k] = b[k - (j - 1)]
  <2>1. Len(a) + Len(b) = Len(s) - 1
    BY <1>1, <1>2, <1>3
  <2>2. /\ a \o b \in Seq(S) /\ Len(a \o b) = Len(a) + Len(b)
        /\ \A k \in 1..(Len(a) + Len(b)) :
             (a \o b)[k] = IF k <= Len(a) THEN a[k] ELSE b[k - Len(a)]
    BY <1>2, <1>3, ConcatProperties
  <2>3. \A k \in 1..(j - 1) : k \in 1..(Len(s) - 1) /\ k <= j - 1
    BY <1>1
  <2>4. \A k \in j..(Len(s) - 1) : k \in 1..(Len(s) - 1) /\ ~(k <= j - 1)
    BY <1>1
  <2>5. QED
    BY <1>2, <2>1, <2>2, <2>3, <2>4
<1>5. RemoveAt(s, j) = a \o b
  BY DEF RemoveAt, a, b
<1>6. ASSUME NEW k \in 1..(Len(s) - 1)
      PROVE  (a \o b)[k] = IF k < j THEN s[k] ELSE s[k + 1]
  <2>1. CASE k < j
    <3>1. k \in 1..(j - 1)
      BY <1>1, <2>1
    <3>2. QED
      BY <1>2, <1>4, <2>1, <3>1
  <2>2. CASE ~(k < j)
    <3>1. k \in j..(Len(s) - 1) /\ k - (j - 1) \in 1..(Len(s) - j) /\ j + (k - (j - 1)) = k + 1
      BY <1>1, <2>2
    <3>2. QED
      BY <1>3, <1>4, <2>2, <3>1
  <2>3. QED
    BY <2>1, <2>2
<1>7. QED
  BY <1>4, <1>5, <1>6

(* Two neighbours are taken out and one is put in their place.             *)
LEMMA Merged ==
  ASSUME NEW s \in Seq(Term), NEW e \in Term, NEW j \in 1..(Len(s) - 1)
  PROVE  /\ InsertAt(RemoveAt(RemoveAt(s, j), j), j, e) \in Seq(Term)
         /\ Len(InsertAt(RemoveAt(RemoveAt(s, j), j), j, e)) = Len(s) - 1
         /\ \A k \in 1..(Len(s) - 1) :
              InsertAt(RemoveAt(RemoveAt(s, j), j), j, e)[k] =
                IF k < j THEN s[k] ELSE IF k = j THEN e ELSE s[k + 1]
<1> DEFINE a == RemoveAt(s, j)
           b == RemoveAt(a, j)
           t == InsertAt(b, j, e)
<1>1. Len(s) \in Nat /\ j \in 1..Len(s)
  OBVIOUS
<1>2. /\ a \in Seq(Term) /\ Len(a) = Len(s) - 1
      /\ \A k \in 1..(Len(s) - 1) : a[k] = IF k < j THEN s[k] ELSE s[k + 1]
  BY <1>1, Removed
<1> HIDE DEF a
<1>3. /\ b \in Seq(Term) /\ Len(b) = Len(s) - 2
      /\ \A k \in 1..(Len(s) - 2) : b[k] = IF k < j THEN a[k] ELSE a[k + 1]
  <2>1. j \in 1..Len(a) /\ Len(a) - 1 = Len(s) - 2
    BY <1>1, <1>2
  <2>2. /\ b \in Seq(Term) /\ Len(b) = Len(a) - 1
        /\ \A k \in 1..(Len(a) - 1) : b[k] = IF k < j THEN a[k] ELSE a[k + 1]
    BY <1>2, <2>1, Removed
  <2>3. QED
    BY <2>1, <2>2
<1> HIDE DEF b
<1>4. /\ t \in Seq(Term) /\ Len(t) = Len(s) - 1 /\ t[j] = e
      /\ \A k \in 1..(Len(s) - 2) : k < j => t[k] = b[k]
      /\ \A k \in 2..(Len(s) - 1) : k > j => t[k] = b[k - 1]
  <2>1. j \in 1..(Len(b) + 1) /\ Len(b) + 1 = Len(s) - 1
    BY <1>1, <1>3
  <2>2. QED
    BY SMTT(40), <1>3, <2>1, Inserted
<1> HIDE DEF t
<1>5. ASSUME NEW k \in 1..(Len(s) - 1)
      PROVE  t[k] = IF k < j THEN s[k] ELSE IF k = j THEN e ELSE s[k + 1]
  <2>1. CASE k < j
    <3>1. k \in 1..(Len(s) - 2)
      BY <1>1, <2>1
    <3>2. QED
      BY <1>2, <1>3, <1>4, <2>1, <3>1
  <2>2. CASE k = j
    BY <1>4, <2>2
  <2>3. CASE k > j
    <3>1. /\ k \in 2..(Len(s) - 1) /\ k - 1 \in 1..(Len(s) - 2) /\ ~(k - 1 < j)
          /\ k \in 1..(Len(s) - 1) /\ (k - 1) + 1 = k /\ ~(k < j) /\ k # j
      BY <1>1, <2>3
    <3>2. QED
      BY <1>2, <1>3, <1>4, <2>3, <3>1
  <2>4. QED
    BY <1>1, <2>1, <2>2, <2>3
<1>6. QED
  BY <1>4, <1>5 DEF t, b, a

-----------------------------------------------------------------------------
(* The search.                                                             *)

LEMMA SmallestOf ==
  ASSUME NEW T \in SUBSET Nat, T # {}
  PROVE  \E x \in T : \A y \in T : x <= y
<1> DEFINE R == OpToRel(<, Nat)
<1>1. IsWellFoundedOn(R, Nat)
  BY NatLessThanWellFounded
<1>2. \A x, y \in Nat : x < y => <<x, y>> \in R
  BY DEF OpToRel
<1> HIDE DEF R
<1>3. T \subseteq Nat
  OBVIOUS
<1>4. PICK x \in T : \A y \in T : ~ (<<y, x>> \in R)
  BY <1>1, <1>3, WFMin
<1>5. \A y \in T : x \in Nat /\ y \in Nat /\ ~ (y < x)
  BY <1>2, <1>4
<1>6. QED
  BY <1>5

(* The operator found binds at least as much as any, and more than those   *)
(* before it, unless all are ||.                                           *)
LEMMA FoundBinds ==
  ASSUME ops \in Seq(Operator), Len(ops) >= 1
  PROVE  /\ Found \in 1..Len(ops) /\ FoundOp = ops[Found]
         /\ \A h \in 1..Len(ops) : PrecIndex(ops[Found]) <= PrecIndex(ops[h])
         /\ \A h \in 1..Len(ops) :
              h < Found => PrecIndex(ops[Found]) < PrecIndex(ops[h]) \/ ops[Found] = "||"
<1> DEFINE P(h) == PrecIndex(ops[h])
<1>1. \A h \in 1..Len(ops) : ops[h] \in Operator /\ P(h) \in -1..14 /\ (P(h) = 14 <=> ops[h] = "||")
  BY Precedences
<1>2. Binding = {h \in 1..Len(ops) : P(h) < 14}
  BY Precedences DEF Binding
<1>3. CASE Binding = {}
  <2>1. \A h \in 1..Len(ops) : ops[h] = "||"
    BY <1>1, <1>2, <1>3
  <2>2. Found = Len(ops) /\ FoundOp = ops[1]
    BY <1>3 DEF Found, FoundOp
  <2>3. 1 \in 1..Len(ops) /\ Len(ops) \in 1..Len(ops)
    OBVIOUS
  <2>4. QED
    BY <1>1, <2>1, <2>2, <2>3
<1>4. CASE Binding # {}
  <2> DEFINE Best(j) == \A h \in Binding : P(j) < P(h) \/ (P(j) = P(h) /\ j <= h)
  <2>1. PICK p \in {P(h) + 1 : h \in Binding} : \A q \in {P(h) + 1 : h \in Binding} : p <= q
    <3>1. {P(h) + 1 : h \in Binding} \in SUBSET Nat
      BY <1>1, <1>2
    <3>2. {P(h) + 1 : h \in Binding} # {}
      BY <1>4
    <3>3. QED
      BY <3>1, <3>2, SmallestOf
  <2> DEFINE Equal == {h \in Binding : P(h) + 1 = p}
  <2>2. PICK j \in Equal : \A h \in Equal : j <= h
    <3>1. Equal \in SUBSET Nat /\ Equal # {}
      BY <1>2, <2>1
    <3>2. QED
      BY <3>1, SmallestOf
  <2>3. j \in Binding /\ Best(j)
    <3>1. ASSUME NEW h \in Binding PROVE P(j) < P(h) \/ (P(j) = P(h) /\ j <= h)
      <4>1. P(j) + 1 = p /\ p <= P(h) + 1 /\ P(j) \in Int /\ P(h) \in Int
        BY SMTT(40), <1>1, <1>2, <2>1, <2>2
      <4>2. P(h) + 1 = p => j <= h
        BY <2>2
      <4>3. QED
        BY <4>1, <4>2
    <3>2. QED
      BY <2>2, <3>1
  <2>4. Found = CHOOSE x \in Binding : Best(x)
    BY <1>4 DEF Found
  <2>5. Found \in Binding /\ Best(Found)
    BY <2>3, <2>4
  <2>6. Found \in 1..Len(ops) /\ P(Found) < 14 /\ FoundOp = ops[Found]
    BY <1>2, <1>4, <2>5 DEF FoundOp
  <2>7. ASSUME NEW h \in 1..Len(ops)
        PROVE  P(Found) <= P(h) /\ (h < Found => P(Found) < P(h))
    <3>1. P(h) \in Int /\ P(Found) \in Int /\ h \in Nat /\ Found \in Nat
      <4>1. Found \in 1..Len(ops)
        BY <2>6
      <4> HIDE DEF P, Best, Equal
      <4>2. P(h) \in Int /\ P(Found) \in Int
        BY SMTT(40), <1>1, <4>1
      <4>3. QED
        BY <4>1, <4>2
    <3>2. h \in Binding => P(Found) < P(h) \/ (P(Found) = P(h) /\ Found <= h)
      BY <2>5
    <3>3. h \notin Binding => ~(P(h) < 14)
      BY <1>2
    <3>4. P(Found) < 14
      BY <2>6
    <3> HIDE DEF P
    <3>5. QED
      BY <3>1, <3>2, <3>3, <3>4
  <2>8. QED
    BY <2>6, <2>7
<1>5. QED
  BY <1>3, <1>4

-----------------------------------------------------------------------------
(* What is said of a term depends on the source alone.                     *)
LEMMA SameSource ==
  ASSUME source' = source
  PROVE  /\ Term' = Term
         /\ \A u, o, v : Joined(u, o, v)' <=> Joined(u, o, v)
         /\ \A t : Linked(t)' <=> Linked(t)
         /\ \A t : Block(t)' <=> Block(t)
<1>1. Term' = Term
  BY DEF Term, Operand
<1>2. \A p : (CompareAt(p)' <=> CompareAt(p)) /\ (IsArithmetic(p)' <=> IsArithmetic(p))
  BY DEF CompareAt, IsArithmetic
<1>3. \A m : BeginsInside(m)' <=> BeginsInside(m)
  BY <1>2 DEF BeginsInside, BetweenComparisons
<1>4. \A u, o, v : Joined(u, o, v)' <=> Joined(u, o, v)
  BY <1>3 DEF Joined
<1>5. \A t : Linked(t)' <=> Linked(t)
  BY <1>4 DEF Linked, LinkedBy
<1>6. \A t : Block(t)' <=> Block(t)
  BY <1>2 DEF Block
<1>7. QED
  BY <1>1, <1>4, <1>5, <1>6

LEMMA Between ==
  ASSUME NEW T, NEW p \in Seq(T), NEW q \in Seq(T), NEW o \in T
  PROVE  /\ p \o <<o>> \o q \in Seq(T)
         /\ Len(p \o <<o>> \o q) = Len(p) + Len(q) + 1
         /\ \A k \in 1..(Len(p) + Len(q) + 1) :
              (p \o <<o>> \o q)[k] =
                IF k <= Len(p) THEN p[k] ELSE IF k = Len(p) + 1 THEN o ELSE q[k - (Len(p) + 1)]
<1> DEFINE c == p \o <<o>>
<1>1. c = Append(p, o)
  OBVIOUS
<1>2. /\ c \in Seq(T) /\ Len(c) = Len(p) + 1 /\ Len(p) \in Nat /\ Len(q) \in Nat
      /\ \A k \in 1..(Len(p) + 1) : c[k] = IF k <= Len(p) THEN p[k] ELSE o
  BY <1>1
<1> HIDE DEF c
<1>3. /\ c \o q \in Seq(T) /\ Len(c \o q) = Len(c) + Len(q)
      /\ \A k \in 1..(Len(c) + Len(q)) : (c \o q)[k] = IF k <= Len(c) THEN c[k] ELSE q[k - Len(c)]
  BY <1>2, ConcatProperties
<1>4. ASSUME NEW k \in 1..(Len(p) + Len(q) + 1)
      PROVE  (c \o q)[k] =
               IF k <= Len(p) THEN p[k] ELSE IF k = Len(p) + 1 THEN o ELSE q[k - (Len(p) + 1)]
  <2>1. k \in 1..(Len(c) + Len(q))
    BY <1>2
  <2>2. CASE k <= Len(c)
    <3>1. k \in 1..(Len(p) + 1) /\ (k <= Len(p) \/ k = Len(p) + 1)
      BY <1>2, <2>2
    <3>2. QED
      BY <1>2, <1>3, <2>1, <2>2, <3>1
  <2>3. CASE ~(k <= Len(c))
    BY <1>2, <1>3, <2>1, <2>3
  <2>4. QED
    BY <2>2, <2>3
<1>5. QED
  BY <1>2, <1>3, <1>4 DEF c

LEMMA LinkedLength ==
  ASSUME NEW S, NEW T, NEW a \in Seq(S), NEW p \in Seq(T), LinkedBy(a, p)
  PROVE  /\ Len(a) \in Nat \ {0} /\ Len(p) = Len(a) - 1
         /\ \A h \in 1..(Len(a) - 1) : Joined(a[h], p[h], a[h + 1])
<1>1. Len(a) \in Nat /\ Len(p) \in Nat /\ Len(p) = Len(a) - 1
  BY DEF LinkedBy
<1>2. Len(a) \in Nat \ {0}
  BY <1>1
<1>3. QED
  BY <1>1, <1>2 DEF LinkedBy

(* Two lists of operands joined in order, and an operator between them.    *)
LEMMA Concatenated ==
  ASSUME NEW a \in Seq(Operand), NEW b \in Seq(Operand),
         NEW p \in Seq(Operator), NEW q \in Seq(Operator), NEW o \in Operator,
         LinkedBy(a, p), LinkedBy(b, q), Joined(a[Len(a)], o, b[1])
  PROVE  /\ a \o b \in Seq(Operand) /\ (a \o b)[1] = a[1] /\ (a \o b)[Len(a \o b)] = b[Len(b)]
         /\ p \o <<o>> \o q \in Seq(Operator)
         /\ LinkedBy(a \o b, p \o <<o>> \o q)
<1> DEFINE la == Len(a)
           lb == Len(b)
           d  == a \o b
           e  == p \o <<o>> \o q
<1>1. /\ la \in Nat \ {0} /\ Len(p) = la - 1
      /\ \A h \in 1..(la - 1) : Joined(a[h], p[h], a[h + 1])
  BY LinkedLength
<1>2. /\ lb \in Nat \ {0} /\ Len(q) = lb - 1
      /\ \A h \in 1..(lb - 1) : Joined(b[h], q[h], b[h + 1])
  BY LinkedLength
<1>3. /\ d \in Seq(Operand) /\ Len(d) = la + lb
      /\ \A k \in 1..(la + lb) : d[k] = IF k <= la THEN a[k] ELSE b[k - la]
  BY ConcatProperties
<1>4. /\ e \in Seq(Operator) /\ Len(e) = la + lb - 1
      /\ \A k \in 1..(la + lb - 1) :
           e[k] = IF k <= la - 1 THEN p[k] ELSE IF k = la THEN o ELSE q[k - la]
  <2>1. Len(p) + Len(q) + 1 = la + lb - 1 /\ Len(p) + 1 = la
    BY <1>1, <1>2
  <2>2. /\ e \in Seq(Operator) /\ Len(e) = Len(p) + Len(q) + 1
        /\ \A k \in 1..(Len(p) + Len(q) + 1) :
             e[k] = IF k <= Len(p) THEN p[k] ELSE IF k = Len(p) + 1 THEN o
                    ELSE q[k - (Len(p) + 1)]
    BY Between
  <2> HIDE DEF e, la, lb
  <2>3. QED
    BY <1>1, <2>1, <2>2
<1>5. Joined(a[la], o, b[1]) /\ Len(b) = lb
  OBVIOUS
<1> HIDE DEF d, e, la, lb
<1>10. ASSUME NEW n \in 1..(la + lb), n > la
       PROVE  \A h : h = n - la => d[n] = b[h]
  <2>1. ~(n <= la)
    BY <1>1, <1>2, <1>10
  <2>2. d[n] = b[n - la]
    BY <1>3, <2>1
  <2>3. QED
    BY <2>2
<1>6. d[1] = a[1] /\ d[Len(d)] = b[Len(b)]
  <2>1. /\ 1 \in 1..(la + lb) /\ 1 <= la
        /\ la + lb \in 1..(la + lb) /\ ~(la + lb <= la) /\ la + lb - la = lb
    BY <1>1, <1>2
  <2>2. d[1] = a[1]
    BY <1>3, <2>1
  <2>3. ASSUME NEW n, n = la + lb PROVE d[n] = b[lb]
    <3>1. n \in 1..(la + lb) /\ n > la /\ lb = n - la
      BY <1>1, <1>2, <2>3
    <3>2. QED
      BY <1>10, <3>1
  <2>4. QED
    BY <1>3, <1>5, <2>2, <2>3
<1>7. ASSUME NEW j \in 1..(la + lb - 1)
      PROVE  Joined(d[j], e[j], d[j + 1])
  <2>1. j \in 1..(la + lb) /\ j + 1 \in 1..(la + lb)
    BY <1>1, <1>2
  <2>2. CASE j < la
    <3>1. j \in 1..(la - 1) /\ j <= la /\ j + 1 <= la /\ j <= la - 1
      BY <1>1, <2>2
    <3>2. d[j] = a[j] /\ d[j + 1] = a[j + 1] /\ e[j] = p[j]
      BY <1>3, <1>4, <2>1, <3>1
    <3>3. QED
      BY <1>1, <3>1, <3>2
  <2>3. CASE j = la
    <3>1. j <= la /\ ~(j + 1 <= la) /\ j + 1 - la = 1 /\ ~(j <= la - 1)
      BY <1>1, <2>3
    <3>2. d[j] = a[la] /\ d[j + 1] = b[1] /\ e[j] = o
      BY SMTT(40), <1>3, <1>4, <2>1, <2>3, <3>1
    <3>3. QED
      BY <1>5, <3>2
  <2>4. CASE j > la
    <3>1. /\ ~(j <= la) /\ ~(j + 1 <= la) /\ j - la \in 1..(lb - 1)
          /\ j + 1 - la = (j - la) + 1 /\ ~(j <= la - 1) /\ j # la
      BY <1>1, <1>2, <2>4
    <3>2. d[j] = b[j - la]
      BY <1>3, <2>1, <3>1
    <3>6. ASSUME NEW n, n = j + 1 PROVE d[n] = b[(j - la) + 1]
      <4>1. n \in 1..(la + lb) /\ n > la /\ (j - la) + 1 = n - la
        BY <1>1, <1>2, <2>4, <3>6
      <4>2. QED
        BY <1>10, <4>1
    <3>3. e[j] = q[j - la]
      BY <1>4, <3>1
    <3>4. Joined(b[j - la], q[j - la], b[(j - la) + 1])
      BY <1>2, <3>1
    <3>5. QED
      BY <3>1, <3>2, <3>3, <3>4, <3>6
  <2>5. QED
    BY <1>1, <2>2, <2>3, <2>4
<1>8. LinkedBy(d, e)
  <2>1. Len(e) = Len(d) - 1
    BY SMTT(40), <1>1, <1>2, <1>3, <1>4
  <2>2. QED
    BY <1>4, <1>7, <2>1 DEF LinkedBy
<1>9. QED
  BY <1>3, <1>4, <1>6, <1>8 DEF d, e

LEMMA LinkedTerm ==
  ASSUME NEW t \in Term, Linked(t)
  PROVE  /\ Len(t.operands) \in Nat \ {0} /\ Len(t.operators) = Len(t.operands) - 1
         /\ t.operands \in Seq(Operand) /\ t.operators \in Seq(Operator)
         /\ FirstOf(t) \in Operand /\ LastOf(t) \in Operand
<1>1. t.operands \in Seq(Operand) /\ t.operators \in Seq(Operator)
  BY DEF Term
<1>2. Len(t.operands) \in Nat \ {0} /\ Len(t.operators) = Len(t.operands) - 1
  BY <1>1, LinkedLength DEF Linked
<1>3. 1 \in 1..Len(t.operands) /\ Len(t.operands) \in 1..Len(t.operands)
  BY <1>2
<1>4. FirstOf(t) \in Operand /\ LastOf(t) \in Operand
  BY <1>1, <1>3 DEF FirstOf, LastOf
<1>5. QED
  BY <1>1, <1>2, <1>4

(* The Expr of two terms.                                                  *)
LEMMA NodeOf ==
  ASSUME NEW l \in Term, NEW r \in Term, NEW o \in Operator,
         Linked(l), Linked(r), Joined(LastOf(l), o, FirstOf(r))
  PROVE  /\ Node(l, o, r) \in Term /\ Linked(Node(l, o, r))
         /\ Node(l, o, r).op = o
         /\ Node(l, o, r).exprs =
              {[term1 |-> l.op, op |-> o, term2 |-> r.op]} \cup l.exprs \cup r.exprs
         /\ FirstOf(Node(l, o, r)) = FirstOf(l)
         /\ LastOf(Node(l, o, r)) = LastOf(r)
<1> DEFINE t == Node(l, o, r)
           d == l.operands \o r.operands
           e == l.operators \o <<o>> \o r.operators
           x == {[term1 |-> l.op, op |-> o, term2 |-> r.op]} \cup l.exprs \cup r.exprs
<1>1. t = [op |-> o, operands |-> d, operators |-> e, exprs |-> x]
  BY DEF Node
<1>2. /\ d \in Seq(Operand) /\ d[1] = l.operands[1]
      /\ d[Len(d)] = r.operands[Len(r.operands)]
      /\ e \in Seq(Operator) /\ LinkedBy(d, e)
  <2>1. /\ l.operands \in Seq(Operand) /\ r.operands \in Seq(Operand)
        /\ l.operators \in Seq(Operator) /\ r.operators \in Seq(Operator)
    BY DEF Term
  <2>2. LinkedBy(l.operands, l.operators) /\ LinkedBy(r.operands, r.operators)
    BY DEF Linked
  <2>3. Joined(l.operands[Len(l.operands)], o, r.operands[1])
    BY DEF FirstOf, LastOf
  <2> DEFINE a == l.operands
             b == r.operands
             p == l.operators
             q == r.operators
  <2>4. /\ a \in Seq(Operand) /\ b \in Seq(Operand) /\ p \in Seq(Operator)
        /\ q \in Seq(Operator) /\ LinkedBy(a, p) /\ LinkedBy(b, q) /\ Joined(a[Len(a)], o, b[1])
    BY <2>1, <2>2, <2>3
  <2> HIDE DEF a, b, p, q
  <2>5. /\ a \o b \in Seq(Operand) /\ (a \o b)[1] = a[1]
        /\ (a \o b)[Len(a \o b)] = b[Len(b)]
        /\ p \o <<o>> \o q \in Seq(Operator) /\ LinkedBy(a \o b, p \o <<o>> \o q)
    BY <2>4, Concatenated
  <2>6. QED
    BY <2>5 DEF a, b, p, q
<1>3. x \in SUBSET Expr
  <2>1. /\ l.op \in Operator \cup {"none"} /\ r.op \in Operator \cup {"none"}
        /\ l.exprs \subseteq Expr /\ r.exprs \subseteq Expr
    BY DEF Term
  <2>2. [term1 |-> l.op, op |-> o, term2 |-> r.op] \in Expr
    BY <2>1 DEF Expr
  <2>3. QED
    BY <2>1, <2>2
<1> HIDE DEF d, e, x, t
<1>4. t.op = o /\ t.operands = d /\ t.operators = e /\ t.exprs = x
  BY <1>1
<1>5. t \in Term
  BY <1>1, <1>2, <1>3 DEF Term
<1>6. Linked(t) /\ FirstOf(t) = FirstOf(l) /\ LastOf(t) = LastOf(r)
  BY <1>2, <1>4 DEF Linked, FirstOf, LastOf
<1>7. QED
  BY <1>4, <1>5, <1>6 DEF t, x

(* A term without operators.                                               *)
LEMMA LeafOf ==
  ASSUME NEW u \in Operand
  PROVE  /\ Leaf(u) \in Term /\ Linked(Leaf(u))
         /\ Leaf(u).op = "none" /\ Leaf(u).exprs = {}
         /\ FirstOf(Leaf(u)) = u /\ LastOf(Leaf(u)) = u
<1>1. <<u>> \in Seq(Operand) /\ <<>> \in Seq(Operator) /\ Len(<<u>>) = 1 /\ <<u>>[1] = u
  OBVIOUS
<1>2. Leaf(u) \in Term
  BY <1>1 DEF Leaf, Term
<1>3. QED
  BY <1>1, <1>2 DEF Leaf, Linked, LinkedBy, FirstOf, LastOf

-----------------------------------------------------------------------------
(* Grouping.                                                               *)

LEMMA Facts ==
  ASSUME IInv
  PROVE  /\ Len(ops) \in Nat /\ Len(terms) = Len(ops) + 1 /\ Len(source) \in Nat
         /\ ops \in Seq(Operator) /\ terms \in Seq(Term)
         /\ \A h \in 1..Len(ops) : ops[h] \in Operator /\ PrecIndex(ops[h]) \in -1..14
         /\ \A k \in 1..Len(terms) :
              /\ terms[k] \in Term /\ Linked(terms[k])
              /\ FirstOf(terms[k]) \in Operand /\ LastOf(terms[k]) \in Operand
<1>1. /\ Len(ops) \in Nat /\ Len(terms) = Len(ops) + 1 /\ Len(source) \in Nat
      /\ ops \in Seq(Operator) /\ terms \in Seq(Term)
  BY DEF IInv, TypeOK
<1>2. \A h \in 1..Len(ops) : ops[h] \in Operator
  BY <1>1
<1>3. \A k \in 1..Len(terms) : terms[k] \in Term
  BY <1>1
<1>4. \A k \in 1..Len(terms) : Linked(terms[k])
  BY DEF IInv, OrderOK
<1>5. QED
  BY <1>1, <1>2, <1>3, <1>4, Precedences, LinkedTerm

(* Arithmetic joins terms between which no chain is split.                 *)
LEMMA PlainJoined ==
  ASSUME IInv, NEW k \in 1..Len(ops), Plain(k), PrecIndex(ops[k]) <= LastArithmetic
  PROVE  Joined(LastOf(terms[k]), ops[k], FirstOf(terms[k + 1]))
<1> DEFINE u == LastOf(terms[k])
           v == FirstOf(terms[k + 1])
<1>1. u.copied = FALSE /\ ops[k] = source[u.term] /\ u.term \in Nat
  <2>1. u \in Operand /\ ~u.copied /\ ops[k] = source[u.term]
    BY Facts DEF Plain
  <2>2. QED
    BY <2>1, Facts DEF Operand
<1>2. v = Parsed(u.term + 1) /\ v.term = u.term + 1 /\ v.copied = FALSE
  BY DEF Plain, Parsed
<1>3. PrecIndex(ops[k]) \notin 7..12
  BY Facts DEF LastArithmetic
<1> HIDE DEF u, v
<1>4. ~BeginsInside(v.term)
  <2>1. v.term - 1 = u.term
    BY <1>1, <1>2
  <2>2. ~CompareAt(u.term)
    BY <1>1, <1>3 DEF CompareAt
  <2>3. QED
    BY <2>1, <2>2 DEF BeginsInside, BetweenComparisons
<1>5. QED
  BY <1>1, <1>2, <1>4 DEF Joined, u, v

(* The operator at j, which is found, is taken out of the list.            *)
GroupedAt(j) ==
  /\ j \in 1..Len(ops) /\ Len(ops) >= 2 /\ PrecIndex(ops[j]) <= max_op_index
  /\ \A h \in 1..Len(ops) : PrecIndex(ops[j]) <= PrecIndex(ops[h])
  /\ \A h \in 1..Len(ops) :
       h < j => PrecIndex(ops[j]) < PrecIndex(ops[h]) \/ ops[j] = "||"
  /\ phase \in {"arithmetic", "rest"} /\ UNCHANGED <<source, phase, i>>
  /\ ops' \in Seq(Operator) /\ Len(ops') = Len(ops) - 1
  /\ \A k \in 1..(Len(ops) - 1) : ops'[k] = IF k < j THEN ops[k] ELSE ops[k + 1]
  /\ terms' \in Seq(Term) /\ Len(terms') = Len(ops)
  /\ \A k \in 1..Len(ops) :
       terms'[k] = IF k < j THEN terms[k]
                   ELSE IF k = j THEN Node(terms[j], ops[j], terms[j + 1])
                   ELSE terms[k + 1]
  /\ Joined(LastOf(terms[j]), ops[j], FirstOf(terms[j + 1]))

LEMMA GroupEffect ==
  ASSUME IInv, Group
  PROVE  \E j \in 1..Len(ops) : GroupedAt(j)
<1> DEFINE j == Found
           x == Node(terms[j], ops[j], terms[j + 1])
<1>1. /\ phase \in {"arithmetic", "rest"} /\ Len(terms) > 2
      /\ PrecIndex(FoundOp) <= max_op_index
      /\ UNCHANGED <<source, phase, i>>
  BY DEF Group, Grouping
<1>2. Len(ops) >= 2 /\ Len(ops) >= 1
  BY <1>1, Facts
<1>3. /\ j \in 1..Len(ops) /\ FoundOp = ops[j]
      /\ \A h \in 1..Len(ops) : PrecIndex(ops[j]) <= PrecIndex(ops[h])
      /\ \A h \in 1..Len(ops) :
           h < j => PrecIndex(ops[j]) < PrecIndex(ops[h]) \/ ops[j] = "||"
  BY <1>2, Facts, FoundBinds
<1>4. /\ ops' = RemoveAt(ops, j)
      /\ terms' = InsertAt(RemoveAt(RemoveAt(terms, j), j), j, x)
  BY <1>3 DEF Group
<1> HIDE DEF j, x
<1>5. Joined(LastOf(terms[j]), ops[j], FirstOf(terms[j + 1]))
  <2>1. CASE phase = "arithmetic"
    <3>1. Plain(j)
      BY <1>3, <2>1 DEF IInv, OrderOK, Seams, Passed
    <3>2. PrecIndex(ops[j]) <= LastArithmetic
      BY <1>1, <1>3, <2>1 DEF max_op_index
    <3>3. QED
      BY <1>3, <3>1, <3>2, PlainJoined
  <2>2. CASE phase = "rest"
    BY <1>3, <2>2 DEF IInv, OrderOK, Seams, Passed
  <2>3. QED
    BY <1>1, <2>1, <2>2
<1>6. /\ j \in 1..Len(terms) /\ j + 1 \in 1..Len(terms) /\ j \in 1..(Len(terms) - 1)
      /\ Len(terms) - 1 = Len(ops)
  BY <1>3, Facts
<1>7. x \in Term
  BY <1>3, <1>5, <1>6, Facts, NodeOf DEF x
<1>8. /\ ops' \in Seq(Operator) /\ Len(ops') = Len(ops) - 1
      /\ \A k \in 1..(Len(ops) - 1) : ops'[k] = IF k < j THEN ops[k] ELSE ops[k + 1]
  BY <1>3, <1>4, Facts, Removed
<1>9. /\ terms' \in Seq(Term) /\ Len(terms') = Len(terms) - 1
      /\ \A k \in 1..(Len(terms) - 1) :
           terms'[k] = IF k < j THEN terms[k] ELSE IF k = j THEN x ELSE terms[k + 1]
  <2> DEFINE t == InsertAt(RemoveAt(RemoveAt(terms, j), j), j, x)
  <2>1. terms \in Seq(Term)
    BY Facts
  <2>2. /\ t \in Seq(Term) /\ Len(t) = Len(terms) - 1
        /\ \A k \in 1..(Len(terms) - 1) :
             t[k] = IF k < j THEN terms[k] ELSE IF k = j THEN x ELSE terms[k + 1]
    <3>1. j \in 1..(Len(terms) - 1)
      BY <1>6
    <3>2. QED
      BY ZenonT(60), <3>1, <1>7, <2>1, Merged
  <2>3. terms' = t
    BY <1>4
  <2> HIDE DEF t
  <2>4. QED
    BY <2>2, <2>3
<1>10. GroupedAt(j)
  <2>1. PrecIndex(ops[j]) <= max_op_index
    BY <1>1, <1>3
  <2>2. /\ Len(terms') = Len(ops)
        /\ \A k \in 1..Len(ops) :
             terms'[k] = IF k < j THEN terms[k]
                         ELSE IF k = j THEN Node(terms[j], ops[j], terms[j + 1])
                         ELSE terms[k + 1]
    BY <1>6, <1>9 DEF x
  <2>3. QED
    BY <1>1, <1>2, <1>3, <1>5, <1>8, <1>9, <2>1, <2>2 DEF GroupedAt
<1>11. QED
  BY <1>3, <1>10

(* What is left of the operators stays in order, what was at k is there.   *)
LEMMA GroupedOps ==
  ASSUME IInv, NEW j \in 1..Len(ops), GroupedAt(j), NEW k \in 1..Len(ops')
  PROVE  \E h \in 1..Len(ops) :
           /\ h = (IF k < j THEN k ELSE k + 1) /\ h # j /\ ops'[k] = ops[h]
           /\ LastOf(terms'[k]) = LastOf(terms[h])
           /\ FirstOf(terms'[k + 1]) = FirstOf(terms[h + 1])
<1>1. Len(ops) \in Nat /\ Len(ops') = Len(ops) - 1 /\ Len(terms) = Len(ops) + 1
  BY Facts DEF GroupedAt
<1>2. /\ LastOf(Node(terms[j], ops[j], terms[j + 1])) = LastOf(terms[j + 1])
      /\ FirstOf(Node(terms[j], ops[j], terms[j + 1])) = FirstOf(terms[j])
  <2>1. j \in 1..Len(terms) /\ j + 1 \in 1..Len(terms)
    BY <1>1
  <2>2. QED
    BY <2>1, Facts, NodeOf DEF GroupedAt
<1>3. \A m \in 1..Len(ops) :
        terms'[m] = IF m < j THEN terms[m]
                    ELSE IF m = j THEN Node(terms[j], ops[j], terms[j + 1])
                    ELSE terms[m + 1]
  BY DEF GroupedAt
<1>4. \A m \in 1..(Len(ops) - 1) : ops'[m] = IF m < j THEN ops[m] ELSE ops[m + 1]
  BY DEF GroupedAt
<1>5. k \in 1..(Len(ops) - 1) /\ k \in 1..Len(ops) /\ k + 1 \in 1..Len(ops)
  BY <1>1
<1>6. CASE k < j
  <2>1. LastOf(terms'[k]) = LastOf(terms[k]) /\ ops'[k] = ops[k]
    BY <1>3, <1>4, <1>5, <1>6
  <2>2. FirstOf(terms'[k + 1]) = FirstOf(terms[k + 1])
    <3>1. k + 1 < j \/ k + 1 = j
      BY <1>5, <1>6
    <3>2. QED
      BY <1>2, <1>3, <1>5, <3>1
  <2>3. QED
    BY <1>5, <1>6, <2>1, <2>2
<1>7. CASE ~(k < j)
  <2>1. LastOf(terms'[k]) = LastOf(terms[k + 1]) /\ ops'[k] = ops[k + 1]
    BY <1>2, <1>3, <1>4, <1>5, <1>7
  <2>2. FirstOf(terms'[k + 1]) = FirstOf(terms[k + 1 + 1])
    <3>1. ~(k + 1 < j) /\ k + 1 # j
      BY <1>5, <1>7
    <3>2. QED
      BY <1>3, <1>5, <3>1
  <2>3. QED
    BY <1>5, <1>7, <2>1, <2>2
<1>8. QED
  BY <1>6, <1>7

LEMMA GroupedTerms ==
  ASSUME IInv, NEW j \in 1..Len(ops), GroupedAt(j), NEW k \in 1..Len(terms')
  PROVE  \/ /\ k = j /\ terms'[k] = Node(terms[j], ops[j], terms[j + 1])
         \/ \E h \in 1..Len(terms) :
              /\ h \notin {j, j + 1} /\ h = (IF k < j THEN k ELSE k + 1)
              /\ terms'[k] = terms[h]
<1>1. Len(ops) \in Nat /\ Len(terms') = Len(ops) /\ Len(terms) = Len(ops) + 1
  BY Facts DEF GroupedAt
<1>2. terms'[k] = IF k < j THEN terms[k]
                  ELSE IF k = j THEN Node(terms[j], ops[j], terms[j + 1])
                  ELSE terms[k + 1]
  BY <1>1 DEF GroupedAt
<1>3. k \in 1..Len(terms) /\ k + 1 \in 1..Len(terms)
  BY <1>1
<1>4. QED
  BY <1>2, <1>3

(* The Expr of two neighbours.                                             *)
LEMMA PairOf ==
  ASSUME IInv, NEW j \in 1..Len(ops), NEW e,
         e = [term1 |-> terms[j].op, op |-> ops[j], term2 |-> terms[j + 1].op]
  PROVE  Binds(e) /\ ComparesNone(e)
<1> DEFINE p == PrecIndex(ops[j])
<1>0. PrecedenceOK
  BY DEF IInv
<1>1. /\ Len(ops) \in Nat /\ Len(terms) = Len(ops) + 1
      /\ \A h \in 1..Len(ops) : ops[h] \in Operator /\ PrecIndex(ops[h]) \in -1..14
  BY Facts
<1>2. j \in 1..Len(terms) /\ j + 1 \in 1..Len(terms)
  BY <1>1
<1>3. e.term1 = terms[j].op /\ e.op = ops[j] /\ e.term2 = terms[j + 1].op
  OBVIOUS
<1>4. e.term1 # "none" => PrecIndex(e.term1) <= p
  BY <1>0, <1>2, <1>3 DEF PrecedenceOK, Strongest
<1>5. e.term2 # "none" =>
        PrecIndex(e.term2) < p \/ (PrecIndex(e.term2) = p /\ ops[j] = "||")
  <2>1. SUFFICES ASSUME terms[j + 1].op # "none"
                 PROVE  \/ PrecIndex(terms[j + 1].op) < p
                        \/ PrecIndex(terms[j + 1].op) = p /\ ops[j] = "||"
    BY <1>3
  <2>2. PrecIndex(terms[j + 1].op) < p \/ terms[j + 1].op = "||"
    BY <1>0, <1>1, <1>2, <2>1 DEF PrecedenceOK, FoundFirst
  <2>3. terms[j + 1].op = "||" => PrecIndex(terms[j + 1].op) <= p
    BY <1>0, <1>2, <2>1 DEF PrecedenceOK, Strongest
  <2>4. p \in -1..14 /\ (p = 14 <=> ops[j] = "||")
    BY <1>1, Precedences
  <2>5. "||" \in Operator /\ PrecIndex("||") = 14
    BY Precedences DEF Operator, Table, Range
  <2>6. QED
    BY <2>2, <2>3, <2>4, <2>5
<1>6. ComparesNone(e)
  BY <1>0, <1>2, <1>3 DEF PrecedenceOK, Alone, ComparesNone
<1>7. QED
  BY <1>3, <1>4, <1>5, <1>6 DEF Binds

LEMMA GroupPrecedence ==
  ASSUME IInv, NEW j \in 1..Len(ops), GroupedAt(j)
  PROVE  PrecedenceOK'
<1> DEFINE x == Node(terms[j], ops[j], terms[j + 1])
           p == PrecIndex(ops[j])
<1>0. PrecedenceOK
  BY DEF IInv
<1>1. /\ Len(ops) \in Nat /\ Len(terms) = Len(ops) + 1
      /\ \A h \in 1..Len(ops) : ops[h] \in Operator /\ PrecIndex(ops[h]) \in -1..14
  BY Facts
<1>2. /\ phase' = phase /\ i' = i /\ Len(ops') = Len(ops) - 1 /\ Len(terms') = Len(ops)
      /\ phase \in {"arithmetic", "rest"} /\ Len(ops) >= 2 /\ p <= max_op_index
      /\ \A h \in 1..Len(ops) : p <= PrecIndex(ops[h])
      /\ \A h \in 1..Len(ops) : h < j => p < PrecIndex(ops[h]) \/ ops[j] = "||"
  BY DEF GroupedAt
<1>3. j \in 1..Len(terms) /\ j + 1 \in 1..Len(terms) /\ 1..Len(terms') \subseteq Nat
  BY <1>1, <1>2
<1>4. x.op = ops[j] /\ x.op # "none"
      /\ x.exprs = {[term1 |-> terms[j].op, op |-> ops[j], term2 |-> terms[j + 1].op]}
                     \cup terms[j].exprs \cup terms[j + 1].exprs
  BY <1>1, <1>3, Facts, NodeOf, Precedences DEF GroupedAt
<1> HIDE DEF x
<1>5. ASSUME NEW k \in 1..Len(ops')
      PROVE  \E h \in 1..Len(ops) : h = (IF k < j THEN k ELSE k + 1) /\ h # j /\ ops'[k] = ops[h]
  BY <1>5, GroupedOps
<1>6. ASSUME NEW k \in 1..Len(terms')
      PROVE  \/ k = j /\ terms'[k] = x
             \/ \E h \in 1..Len(terms) :
                  /\ h \notin {j, j + 1} /\ h = (IF k < j THEN k ELSE k + 1)
                  /\ terms'[k] = terms[h]
  BY <1>6, GroupedTerms DEF x
<1>7. ExprsOK'
  <2>1. ASSUME NEW e, e = [term1 |-> terms[j].op, op |-> ops[j], term2 |-> terms[j + 1].op]
        PROVE  Binds(e) /\ ComparesNone(e)
    BY <2>1, PairOf
  <2>2. \A e \in x.exprs : Binds(e) /\ ComparesNone(e)
    BY <1>0, <1>3, <1>4, <2>1 DEF PrecedenceOK, ExprsOK
  <2>3. \A k \in 1..Len(terms') : \A e \in terms'[k].exprs : Binds(e) /\ ComparesNone(e)
    BY <1>0, <1>6, <2>2 DEF PrecedenceOK, ExprsOK
  <2>4. QED
    BY <2>3 DEF ExprsOK
<1>8. Strongest'
  <2>1. ASSUME NEW k \in 1..Len(terms'), NEW h \in 1..Len(ops'), terms'[k].op # "none"
        PROVE  PrecIndex(terms'[k].op) <= PrecIndex(ops'[h])
    <3>1. PICK m \in 1..Len(ops) : ops'[h] = ops[m]
      BY <1>5
    <3>2. CASE terms'[k] = x
      <4>1. p <= PrecIndex(ops[m])
        BY <1>2
      <4>2. QED
        BY <1>4, <3>1, <3>2, <4>1
    <3>3. CASE terms'[k] # x
      <4>1. PICK n \in 1..Len(terms) : terms'[k] = terms[n]
        BY <1>6, <3>3
      <4>2. QED
        BY <1>0, <2>1, <3>1, <4>1 DEF PrecedenceOK, Strongest
    <3>4. QED
      BY <3>2, <3>3
  <2>2. QED
    BY <2>1 DEF Strongest
<1>9. FoundFirst'
  <2>1. ASSUME NEW k \in 1..Len(terms'), NEW h \in 1..Len(ops'), terms'[k].op # "none", h < k
        PROVE  PrecIndex(terms'[k].op) < PrecIndex(ops'[h]) \/ terms'[k].op = "||"
    <3>1. PICK m \in 1..Len(ops) : m = (IF h < j THEN h ELSE h + 1) /\ ops'[h] = ops[m]
      BY <1>5
    <3>2. CASE k = j /\ terms'[k] = x
      <4>1. m < j
        BY <1>1, <1>2, <2>1, <3>1, <3>2
      <4>2. QED
        BY <1>2, <1>4, <3>1, <3>2, <4>1
    <3>3. CASE ~(k = j /\ terms'[k] = x)
      <4>1. PICK n \in 1..Len(terms) : n = (IF k < j THEN k ELSE k + 1) /\ terms'[k] = terms[n]
        BY <1>6, <3>3
      <4>2. m < n
        BY <1>1, <1>2, <2>1, <3>1, <4>1
      <4>3. QED
        BY <1>0, <2>1, <3>1, <4>1, <4>2 DEF PrecedenceOK, FoundFirst
    <3>4. QED
      BY <3>2, <3>3
  <2>2. QED
    BY <2>1 DEF FoundFirst
<1>10. Phases'
  <2>1. ASSUME phase' \in {"arithmetic", "chaining"}, NEW k \in 1..Len(terms'),
               terms'[k].op # "none"
        PROVE  PrecIndex(terms'[k].op) <= LastArithmetic
    <3>1. phase = "arithmetic" /\ p <= LastArithmetic
      BY <1>2, <2>1 DEF max_op_index
    <3>2. QED
      BY <1>0, <1>4, <1>6, <2>1, <3>1 DEF PrecedenceOK, Phases
  <2>2. ASSUME phase' \in {"chaining", "rest", "done"}, NEW h \in 1..Len(ops')
        PROVE  PrecIndex(ops'[h]) > LastArithmetic
    <3>1. \A m \in 1..Len(ops) : PrecIndex(ops[m]) > LastArithmetic
      BY <1>0, <1>1, <1>2, <2>2 DEF PrecedenceOK, Phases
    <3>2. QED
      BY <1>5, <3>1
  <2>3. phase' # "done"
    BY <1>2
  <2>4. QED
    BY <2>1, <2>2, <2>3 DEF Phases
<1>11. ASSUME phase = "rest", NEW h \in 1..Len(ops) PROVE PrecIndex(ops[h]) > LastArithmetic
  BY <1>0, <1>1, <1>2, <1>11 DEF PrecedenceOK, Phases
<1>12. Apart'
  <2>1. ASSUME NEW h \in 1..(Len(ops') - 1), phase = "rest",
               Compares(ops'[h]), Compares(ops'[h + 1])
        PROVE  FALSE
    <3>0. h \in 1..Len(ops') /\ h + 1 \in 1..Len(ops') /\ h \in Nat
      BY <1>1, <1>2
    <3>1. PICK m \in 1..Len(ops) : m = (IF h < j THEN h ELSE h + 1) /\ ops'[h] = ops[m]
      BY <1>5, <3>0
    <3>2. PICK n \in 1..Len(ops) :
            n = (IF h + 1 < j THEN h + 1 ELSE h + 1 + 1) /\ ops'[h + 1] = ops[n]
      BY <1>5, <3>0
    <3>3. \A a \in 1..(Len(ops) - 1) : ~(Compares(ops[a]) /\ Compares(ops[a + 1]))
      BY <1>0, <2>1 DEF PrecedenceOK, Apart
    <3>4. CASE n = m + 1
      <4>1. m \in 1..(Len(ops) - 1)
        BY <1>1, <3>4
      <4>2. QED
        BY <2>1, <3>1, <3>2, <3>3, <3>4, <4>1
    <3>5. CASE n # m + 1
      <4>1. m = j - 1 /\ n = j + 1
        BY <3>0, <3>1, <3>2, <3>5
      <4>2. m \in 1..(Len(ops) - 1) /\ m + 1 = j
        BY <1>1, <4>1
      <4>3. ~Compares(ops[j])
        BY <2>1, <3>1, <3>3, <4>2
      <4>4. p <= PrecIndex(ops[m]) /\ p > 6
        BY <1>2, <1>11, <2>1 DEF LastArithmetic
      <4>5. PrecIndex(ops[m]) \in 7..12 /\ p \in -1..14
        BY <1>1, <2>1, <3>1 DEF Compares
      <4>6. p \in 7..12
        <5> DEFINE q == PrecIndex(ops[m])
        <5>1. p <= q /\ p > 6 /\ q \in 7..12 /\ p \in -1..14
          BY <4>4, <4>5
        <5> HIDE DEF p, q
        <5>2. QED
          BY <5>1
      <4>7. QED
        BY <4>3, <4>6 DEF Compares
    <3>6. QED
      BY <3>4, <3>5
  <2>2. QED
    BY <1>2, <2>1 DEF Apart
<1>13. Alone'
  <2>1. ASSUME NEW k \in 1..Len(terms'), NEW h \in 1..Len(ops'), terms'[k].op # "none",
               Compares(terms'[k].op), h \in {k - 1, k}, Compares(ops'[h])
        PROVE  FALSE
    <3>0. k \in Nat /\ h \in Nat
      BY <1>1, <1>2
    <3>1. PICK m \in 1..Len(ops) : m = (IF h < j THEN h ELSE h + 1) /\ ops'[h] = ops[m]
      BY <1>5
    <3>2. CASE k = j /\ terms'[k] = x
      <4>1. Compares(ops[j]) /\ m \in {j - 1, j + 1}
        BY <1>4, <2>1, <3>0, <3>1, <3>2
      <4>2. phase = "rest"
        BY <1>2, <4>1 DEF max_op_index, Compares, LastArithmetic
      <4>3. \A a \in 1..(Len(ops) - 1) : ~(Compares(ops[a]) /\ Compares(ops[a + 1]))
        BY <1>0, <4>2 DEF PrecedenceOK, Apart
      <4>4. CASE m = j - 1
        <5>1. m \in 1..(Len(ops) - 1) /\ m + 1 = j
          BY <1>1, <4>4
        <5>2. QED
          BY <2>1, <3>1, <4>1, <4>3, <5>1
      <4>5. CASE m = j + 1
        <5>1. j \in 1..(Len(ops) - 1)
          BY <1>1, <4>5
        <5>2. QED
          BY <2>1, <3>1, <4>1, <4>3, <4>5, <5>1
      <4>6. QED
        BY <4>1, <4>4, <4>5
    <3>3. CASE ~(k = j /\ terms'[k] = x)
      <4>1. PICK n \in 1..Len(terms) :
              n \notin {j, j + 1} /\ n = (IF k < j THEN k ELSE k + 1) /\ terms'[k] = terms[n]
        BY <1>6, <3>3
      <4>2. m \in {n - 1, n}
        BY <2>1, <3>0, <3>1, <4>1
      <4>3. QED
        BY <1>0, <2>1, <3>1, <4>1, <4>2 DEF PrecedenceOK, Alone
    <3>4. QED
      BY <3>2, <3>3
  <2>2. QED
    BY <2>1 DEF Alone
<1>14. QED
  BY <1>7, <1>8, <1>9, <1>10, <1>12, <1>13 DEF PrecedenceOK


LEMMA GroupOrder ==
  ASSUME IInv, NEW j \in 1..Len(ops), GroupedAt(j)
  PROVE  TypeOK' /\ OrderOK'
<1> DEFINE x == Node(terms[j], ops[j], terms[j + 1])
<1>1. /\ Len(ops) \in Nat /\ Len(ops) >= 2 /\ Len(terms) = Len(ops) + 1
      /\ Len(ops') = Len(ops) - 1 /\ Len(terms') = Len(ops)
      /\ ops' \in Seq(Operator) /\ terms' \in Seq(Term)
      /\ phase \in {"arithmetic", "rest"} /\ phase' = phase /\ i' = i /\ source' = source
  BY Facts DEF GroupedAt
<1>2. /\ Term' = Term
      /\ \A u, o, v : Joined(u, o, v)' <=> Joined(u, o, v)
      /\ \A t : Linked(t)' <=> Linked(t)
      /\ \A t : Block(t)' <=> Block(t)
  BY <1>1, SameSource
<1>3. TypeOK'
  BY <1>1, <1>2 DEF IInv, TypeOK
<1>4. j \in 1..Len(terms) /\ j + 1 \in 1..Len(terms) /\ Len(terms') \in 1..Len(terms')
      /\ 1 \in 1..Len(terms')
  BY <1>1
<1>5. Linked(x) /\ FirstOf(x) = FirstOf(terms[j]) /\ LastOf(x) = LastOf(terms[j + 1])
  BY <1>4, Facts, NodeOf DEF GroupedAt
<1> HIDE DEF x
<1>6. ASSUME NEW k \in 1..Len(terms')
      PROVE  \/ k = j /\ terms'[k] = x
             \/ \E h \in 1..Len(terms) :
                  h \notin {j, j + 1} /\ h = (IF k < j THEN k ELSE k + 1) /\ terms'[k] = terms[h]
  BY <1>6, GroupedTerms DEF x
<1>7. ASSUME NEW k \in 1..Len(terms') PROVE Linked(terms'[k])
  BY <1>5, <1>6, Facts
<1>8. FirstOf(terms'[1]) = Parsed(1)
  <2>1. FirstOf(terms[1]) = Parsed(1)
    BY DEF IInv, OrderOK
  <2>2. CASE 1 = j /\ terms'[1] = x
    BY <1>5, <2>1, <2>2
  <2>3. CASE ~(1 = j /\ terms'[1] = x)
    <3>1. PICK h \in 1..Len(terms) :
            h \notin {j, j + 1} /\ h = (IF 1 < j THEN 1 ELSE 1 + 1) /\ terms'[1] = terms[h]
      BY <1>4, <1>6, <2>3
    <3>2. h = 1
      BY <1>1, <3>1
    <3>3. QED
      BY <2>1, <3>1, <3>2
  <2>4. QED
    BY <2>2, <2>3
<1>9. LastOf(terms'[Len(terms')]) = Parsed(Len(source) + 1)
  <2> DEFINE n == Len(terms')
  <2>1. LastOf(terms[Len(terms)]) = Parsed(Len(source) + 1) /\ n = Len(ops)
    BY <1>1 DEF IInv, OrderOK
  <2>2. CASE n = j /\ terms'[n] = x
    BY <1>1, <1>5, <2>1, <2>2
  <2>3. CASE ~(n = j /\ terms'[n] = x)
    <3>1. PICK h \in 1..Len(terms) :
            h \notin {j, j + 1} /\ h = (IF n < j THEN n ELSE n + 1) /\ terms'[n] = terms[h]
      BY <1>4, <1>6, <2>3
    <3>2. h = Len(terms)
      BY <1>1, <2>1, <3>1
    <3>3. QED
      BY <2>1, <3>1, <3>2
  <2>4. QED
    BY <2>2, <2>3
<1>10. ASSUME NEW k \in 1..Len(ops')
       PROVE  \E h \in 1..Len(ops) :
                /\ ops'[k] = ops[h] /\ LastOf(terms'[k]) = LastOf(terms[h])
                /\ FirstOf(terms'[k + 1]) = FirstOf(terms[h + 1])
  BY <1>10, GroupedOps
<1>11. Seams'
  <2>1. CASE phase = "rest"
    <3>1. ASSUME NEW k \in 1..Len(ops')
          PROVE  Joined(LastOf(terms'[k]), ops'[k], FirstOf(terms'[k + 1]))
      <4>1. PICK h \in 1..Len(ops) :
              /\ ops'[k] = ops[h] /\ LastOf(terms'[k]) = LastOf(terms[h])
              /\ FirstOf(terms'[k + 1]) = FirstOf(terms[h + 1])
        BY <1>10
      <4>2. Joined(LastOf(terms[h]), ops[h], FirstOf(terms[h + 1]))
        BY <2>1 DEF IInv, OrderOK, Seams, Passed
      <4>3. QED
        BY <4>1, <4>2
    <3>2. QED
      BY <1>1, <1>2, <2>1, <3>1 DEF Seams, Passed, FirstOf, LastOf
  <2>2. CASE phase = "arithmetic"
    <3>1. ASSUME NEW k \in 1..Len(ops') PROVE Plain(k)'
      <4>1. PICK h \in 1..Len(ops) :
              /\ ops'[k] = ops[h] /\ LastOf(terms'[k]) = LastOf(terms[h])
              /\ FirstOf(terms'[k + 1]) = FirstOf(terms[h + 1])
        BY <1>10
      <4>2. Plain(h)
        BY <2>2 DEF IInv, OrderOK, Seams, Passed
      <4>3. /\ ~LastOf(terms'[k]).copied /\ ops'[k] = source[LastOf(terms'[k]).term]
            /\ FirstOf(terms'[k + 1]) = Parsed(LastOf(terms'[k]).term + 1)
        BY <4>1, <4>2 DEF Plain
      <4>4. QED
        BY <1>1, <4>3 DEF Plain, FirstOf, LastOf
    <3>2. QED
      BY <1>1, <2>2, <3>1 DEF Seams, Passed
  <2>3. QED
    BY <1>1, <2>1, <2>2
<1>12. Blocks'
  <2>1. CASE phase = "arithmetic"
    <3>1. \A k \in 1..Len(terms) : Block(terms[k])
      BY <2>1 DEF IInv, OrderOK, Blocks
    <3>2. Block(x)
      <4> DEFINE a == FirstOf(terms[j]).term
                 b == LastOf(terms[j]).term
                 c == FirstOf(terms[j + 1]).term
                 d == LastOf(terms[j + 1]).term
      <4>1. a \in Nat /\ b \in Nat /\ c \in Nat /\ d \in Nat
        BY <1>4, Facts DEF Operand
      <4>2. /\ a <= b /\ \A p \in a..(b - 1) : IsArithmetic(p)
            /\ c <= d /\ \A p \in c..(d - 1) : IsArithmetic(p)
        BY <1>4, <3>1 DEF Block
      <4>3. c = b + 1 /\ ops[j] = source[b]
        <5>1. Plain(j)
          BY <2>1 DEF IInv, OrderOK, Seams, Passed
        <5>2. QED
          BY <5>1 DEF Plain, Parsed
      <4>4. IsArithmetic(b)
        BY <2>1, <4>3 DEF GroupedAt, max_op_index, IsArithmetic
      <4>5. FirstOf(x).term = a /\ LastOf(x).term = d
        BY <1>5
      <4> HIDE DEF a, b, c, d
      <4>6. a <= d /\ \A p \in a..(d - 1) : p \in a..(b - 1) \/ p = b \/ p \in c..(d - 1)
        BY <4>1, <4>2, <4>3
      <4>7. \A p \in a..(d - 1) : IsArithmetic(p)
        BY <4>2, <4>4, <4>6
      <4>8. QED
        BY <4>5, <4>6, <4>7 DEF Block
    <3>3. ASSUME NEW k \in 1..Len(terms') PROVE Block(terms'[k])
      BY <1>6, <3>1, <3>2
    <3>4. QED
      BY <1>2, <3>3 DEF Blocks
  <2>2. CASE phase = "rest"
    BY <1>1, <2>2 DEF Blocks
  <2>3. QED
    BY <1>1, <2>1, <2>2
<1>13. OrderOK'
  <2>1. \A k \in 1..Len(terms') : Linked(terms[k])'
    BY <1>2, <1>7
  <2>2. FirstOf(terms[1])' = Parsed(1) /\ LastOf(terms[Len(terms)])' = Parsed(Len(source) + 1)
    BY <1>8, <1>9 DEF FirstOf, LastOf
  <2>3. QED
    BY <1>1, <1>11, <1>12, <2>1, <2>2 DEF OrderOK
<1>14. QED
  BY <1>3, <1>13

-----------------------------------------------------------------------------
(* What a step that leaves the lists alone keeps.                          *)
LEMMA SameLists ==
  ASSUME IInv, UNCHANGED <<source, ops, terms>>
  PROVE  /\ ExprsOK' /\ Strongest' /\ FoundFirst' /\ Alone'
         /\ \A k \in 1..Len(terms') : Linked(terms[k])'
         /\ FirstOf(terms[1])' = Parsed(1)
         /\ LastOf(terms[Len(terms)])' = Parsed(Len(source') + 1)
         /\ \A k \in 1..Len(ops) : Plain(k) => Plain(k)'
<1>1. ExprsOK' /\ Strongest' /\ FoundFirst' /\ Alone'
  BY DEF IInv, PrecedenceOK, ExprsOK, Strongest, FoundFirst, Alone
<1>2. \A k \in 1..Len(terms') : Linked(terms'[k])
  BY DEF IInv, OrderOK
<1>3. \A k \in 1..Len(terms') : Linked(terms[k])'
  BY <1>2, SameSource
<1>4. /\ FirstOf(terms[1])' = Parsed(1)
      /\ LastOf(terms[Len(terms)])' = Parsed(Len(source') + 1)
  BY DEF IInv, OrderOK, FirstOf, LastOf
<1>5. \A k \in 1..Len(ops) : Plain(k) => Plain(k)'
  BY DEF Plain, FirstOf, LastOf
<1>6. QED
  BY <1>1, <1>3, <1>4, <1>5

LEMMA EndGroupingKeeps ==
  ASSUME IInv, EndGrouping
  PROVE  IInv'
<1>1. /\ phase \in {"arithmetic", "rest"} /\ ~Grouping
      /\ phase' = (IF phase = "arithmetic" THEN "chaining" ELSE "done")
      /\ UNCHANGED <<source, ops, terms, i>>
  BY DEF EndGrouping
<1>2. Len(ops) \in Nat /\ Len(terms) = Len(ops) + 1
  BY Facts
<1>3. \/ Len(terms) <= 2
      \/ \A h \in 1..Len(ops) : PrecIndex(ops[h]) > max_op_index
  <2>1. CASE Len(terms) > 2
    <3>1. ~(PrecIndex(FoundOp) <= max_op_index)
      BY <1>1, <2>1 DEF Grouping
    <3>2. /\ Found \in 1..Len(ops) /\ FoundOp = ops[Found]
          /\ \A h \in 1..Len(ops) : PrecIndex(ops[Found]) <= PrecIndex(ops[h])
      <4>1. Len(ops) >= 1
        BY <1>2, <2>1
      <4>2. QED
        BY <4>1, Facts, FoundBinds
    <3>3. max_op_index \in Int
      BY Precedences DEF max_op_index, LastArithmetic
    <3>4. \A h \in 1..Len(ops) : PrecIndex(ops[h]) \in Int
      BY SMTT(40), Facts
    <3>5. QED
      BY <3>1, <3>2, <3>3, <3>4
  <2>2. QED
    BY <1>2, <2>1
<1>4. /\ ExprsOK' /\ Strongest' /\ FoundFirst' /\ Alone'
      /\ \A k \in 1..Len(terms') : Linked(terms[k])'
      /\ FirstOf(terms[1])' = Parsed(1)
      /\ LastOf(terms[Len(terms)])' = Parsed(Len(source') + 1)
      /\ \A k \in 1..Len(ops) : Plain(k) => Plain(k)'
  BY <1>1, SameLists
<1>5. TypeOK'
  BY <1>1, SameSource DEF IInv, TypeOK
<1>6. CASE phase = "arithmetic"
  <2>1. phase' = "chaining" /\ i' = 1
    BY <1>1, <1>6 DEF IInv, TypeOK
  <2>2. Phases'
    BY <1>1, <1>3, <1>6, <2>1 DEF IInv, PrecedenceOK, Phases, max_op_index
  <2>3. Apart'
    BY <1>1, <1>2, <2>1 DEF Apart
  <2>4. Seams'
    <3>1. \A k \in 1..Len(ops) : Plain(k)
      BY <1>6 DEF IInv, OrderOK, Seams, Passed
    <3>2. \A k \in 1..Len(ops) : ~Passed(k)'
      BY <1>2, <2>1 DEF Passed
    <3>3. QED
      BY <1>1, <1>4, <3>1, <3>2 DEF Seams
  <2>5. Blocks'
    <3>1. \A k \in 1..Len(terms') : Block(terms'[k])
      BY <1>1, <1>6 DEF IInv, OrderOK, Blocks
    <3>2. QED
      BY <1>1, <3>1, SameSource DEF Blocks
  <2>6. QED
    BY <1>4, <1>5, <2>2, <2>3, <2>4, <2>5 DEF IInv, PrecedenceOK, OrderOK
<1>7. CASE phase = "rest"
  <2>1. phase' = "done"
    BY <1>1, <1>7
  <2>2. Len(terms) <= 2
    <3>1. max_op_index = 14
      BY <1>7, Precedences DEF max_op_index
    <3>2. Len(ops) = 0 \/ 1 \in 1..Len(ops)
      BY <1>2
    <3>3. 1 \in 1..Len(ops) => ~(PrecIndex(ops[1]) > 14)
      <4>1. SUFFICES ASSUME 1 \in 1..Len(ops) PROVE ~(PrecIndex(ops[1]) > 14)
        OBVIOUS
      <4>2. PrecIndex(ops[1]) \in -1..14
        BY <4>1, Facts
      <4>3. QED
        BY <4>2
    <3>4. Len(ops) = 0 \/ Len(terms) <= 2
      BY <1>3, <3>1, <3>2, <3>3
    <3>5. QED
      BY <1>2, <3>4
  <2>3. Phases'
    BY <1>1, <2>1, <2>2 DEF Phases
  <2>4. Apart'
    BY <1>1, <1>7, <2>1 DEF IInv, PrecedenceOK, Apart
  <2>5. Seams'
    <3>1. \A k \in 1..Len(ops) : Joined(LastOf(terms[k]), ops[k], FirstOf(terms[k + 1]))
      BY <1>7 DEF IInv, OrderOK, Seams, Passed
    <3>2. \A k \in 1..Len(ops') : Joined(LastOf(terms'[k]), ops'[k], FirstOf(terms'[k + 1]))
      BY <1>1, <3>1
    <3>3. QED
      BY <1>1, <2>1, <3>2, SameSource DEF Seams, Passed, FirstOf, LastOf
  <2>6. Blocks'
    BY <2>1 DEF Blocks
  <2>7. QED
    BY <1>4, <1>5, <2>3, <2>4, <2>5, <2>6 DEF IInv, PrecedenceOK, OrderOK
<1>8. QED
  BY <1>1, <1>6, <1>7

-----------------------------------------------------------------------------
(* Chaining.                                                               *)

(* All that is left when there is something to chain binds less than       *)
(* arithmetic, and the terms are arithmetic or were not grouped.           *)
LEMMA ChainingFacts ==
  ASSUME IInv, phase = "chaining"
  PROVE  /\ \A k \in 1..Len(terms) :
              terms[k].op # "none" => PrecIndex(terms[k].op) <= LastArithmetic
         /\ Len(ops) >= 2 => \A h \in 1..Len(ops) : PrecIndex(ops[h]) > LastArithmetic
         /\ \A k \in 1..Len(ops) : k > i => Plain(k)
         /\ i \in 1..Len(ops) => Plain(i) \/ Split(i)
         /\ \A k \in 1..Len(ops) : k < i => Joined(LastOf(terms[k]), ops[k], FirstOf(terms[k + 1]))
         /\ \A k \in 1..Len(terms) : k > i => Block(terms[k])
         /\ i \in Nat \ {0}
<1>1. PrecedenceOK /\ OrderOK /\ i \in Nat \ {0}
  BY DEF IInv, TypeOK
<1>2. Len(ops) \in Nat /\ Len(terms) = Len(ops) + 1
  BY Facts
<1>3. /\ \A k \in 1..Len(terms) :
           terms[k].op # "none" => PrecIndex(terms[k].op) <= LastArithmetic
      /\ Len(ops) >= 2 => \A h \in 1..Len(ops) : PrecIndex(ops[h]) > LastArithmetic
  BY <1>1, <1>2 DEF PrecedenceOK, Phases
<1>4. \A k \in 1..Len(ops) : Passed(k) <=> k < i
  BY DEF Passed
<1>5. /\ \A k \in 1..Len(ops) : k > i => Plain(k)
      /\ \A k \in 1..Len(ops) : k < i => Joined(LastOf(terms[k]), ops[k], FirstOf(terms[k + 1]))
  <2>1. Seams
    BY <1>1 DEF OrderOK
  <2>2. \A k \in 1..Len(ops) : k > i => ~(k < i) /\ k # i
    BY <1>1
  <2>3. QED
    BY <1>4, <2>1, <2>2 DEF Seams
<1>6. i \in 1..Len(ops) => Plain(i) \/ Split(i)
  <2>1. Seams /\ ~(i < i)
    BY <1>1 DEF OrderOK
  <2>2. QED
    BY <1>4, <2>1 DEF Seams
<1>7. \A k \in 1..Len(terms) : k > i => Block(terms[k])
  BY <1>1 DEF OrderOK, Blocks
<1>8. QED
  BY <1>1, <1>3, <1>5, <1>6, <1>7

(* A place is joined as it was written, if what follows is not between two *)
(* comparisons.                                                            *)
LEMMA PlainIsJoined ==
  ASSUME IInv, NEW k \in 1..Len(ops), Plain(k), ~BeginsInside(LastOf(terms[k]).term + 1)
  PROVE  Joined(LastOf(terms[k]), ops[k], FirstOf(terms[k + 1]))
<1> DEFINE u == LastOf(terms[k])
           v == FirstOf(terms[k + 1])
<1>1. u.copied = FALSE /\ ops[k] = source[u.term]
  <2>1. u \in Operand /\ ~u.copied /\ ops[k] = source[u.term]
    BY Facts DEF Plain
  <2>2. QED
    BY <2>1 DEF Operand
<1>2. v.term = u.term + 1 /\ v.copied = FALSE
  BY DEF Plain, Parsed
<1>3. ~BeginsInside(v.term)
  BY <1>2
<1> HIDE DEF u, v
<1>4. QED
  BY <1>1, <1>2, <1>3 DEF Joined, u, v

(* Where the group that follows reaches the end of the expression, or ends *)
(* before an operator that is no comparison, nothing is split.             *)
LEMMA NotInside ==
  ASSUME NEW t, NEW m \in Int, Block(t), FirstOf(t).term = m, LastOf(t).term \in Int,
         \/ LastOf(t).term > Len(source)
         \/ ~IsArithmetic(LastOf(t).term) /\ ~CompareAt(LastOf(t).term)
  PROVE  ~BeginsInside(m)
<1> DEFINE n == LastOf(t).term
<1>1. \A p \in m..(n - 1) : IsArithmetic(p)
  BY DEF Block
<1>2. m <= n
  BY DEF Block
<1>3. n > Len(source) \/ (~IsArithmetic(n) /\ ~CompareAt(n))
  OBVIOUS
<1>4. n \in Int
  OBVIOUS
<1> HIDE DEF n
<1>5. ASSUME NEW q \in 1..Len(source), BetweenComparisons(m, q)
      PROVE  FALSE
  <2>1. CompareAt(q) /\ m <= q /\ \A p \in m..(q - 1) : IsArithmetic(p)
    BY <1>5 DEF BetweenComparisons
  <2>2. q \in Nat
    OBVIOUS
  <2>3. CASE q < n
    <3>1. q \in m..(n - 1)
      BY <1>4, <2>1, <2>2, <2>3
    <3>2. IsArithmetic(q)
      BY <1>1, <3>1
    <3>3. PrecIndex(source[q]) \in 7..12 /\ PrecIndex(source[q]) <= 6
      BY <2>1, <3>2 DEF CompareAt, IsArithmetic, LastArithmetic
    <3>4. QED
      BY <3>3
  <2>4. CASE q >= n
    <3>2. ~(n > Len(source))
      BY <1>4, <2>2, <2>4
    <3>3. q # n /\ n \in m..(q - 1)
      BY <1>2, <1>3, <1>4, <2>1, <2>2, <2>4, <3>2
    <3>4. QED
      BY <1>3, <2>1, <3>2, <3>3
  <2>5. QED
    BY <1>4, <2>2, <2>3, <2>4
<1>6. QED
  BY <1>5 DEF BeginsInside

LEMMA PassByKeeps ==
  ASSUME IInv, PassBy
  PROVE  IInv'
<1>1. /\ phase = "chaining" /\ i < Len(ops) /\ ~Chained /\ i' = i + 1
      /\ UNCHANGED <<source, ops, terms, phase>>
  BY DEF PassBy
<1>2. /\ Len(ops) \in Nat /\ Len(terms) = Len(ops) + 1 /\ i \in Nat \ {0}
      /\ i \in 1..Len(ops) /\ i + 1 \in 1..Len(ops) /\ i + 1 \in 1..Len(terms)
  BY <1>1, Facts, ChainingFacts
<1>3. /\ ExprsOK' /\ Strongest' /\ FoundFirst' /\ Alone'
      /\ \A k \in 1..Len(terms') : Linked(terms[k])'
      /\ FirstOf(terms[1])' = Parsed(1)
      /\ LastOf(terms[Len(terms)])' = Parsed(Len(source') + 1)
      /\ \A k \in 1..Len(ops) : Plain(k) => Plain(k)'
  BY <1>1, SameLists
<1>4. TypeOK'
  BY <1>1, <1>2, SameSource DEF IInv, TypeOK
<1>5. Phases'
  BY <1>1 DEF IInv, PrecedenceOK, Phases
<1>6. Apart'
  <2>1. ASSUME NEW h \in 1..(Len(ops) - 1), h < i + 1
        PROVE  ~(Compares(ops[h]) /\ Compares(ops[h + 1]))
    <3>1. CASE h < i
      BY <1>1, <3>1 DEF IInv, PrecedenceOK, Apart
    <3>2. CASE h = i
      BY <1>1, <3>2 DEF Chained, IsComparison, Compares
    <3>3. QED
      BY <1>2, <2>1, <3>1, <3>2
  <2>2. QED
    BY <1>1, <2>1 DEF Apart
<1>7. Joined(LastOf(terms[i]), ops[i], FirstOf(terms[i + 1]))
  <2>1. CASE Plain(i)
    <3> DEFINE u == LastOf(terms[i]).term
               m == u + 1
               n == LastOf(terms[i + 1]).term
    <3>1. u \in Int /\ n \in Int /\ m \in Int
      BY <1>2, Facts DEF Operand
    <3>2. /\ Block(terms[i + 1]) /\ FirstOf(terms[i + 1]).term = m
          /\ ops[i] = source[u] /\ ops[i + 1] = source[n]
      <4>1. Plain(i + 1) /\ Block(terms[i + 1])
        BY <1>1, <1>2, ChainingFacts
      <4>2. QED
        BY <2>1, <4>1 DEF Plain, Parsed
    <3>3. PrecIndex(ops[i + 1]) > LastArithmetic
      BY <1>1, <1>2, ChainingFacts
    <3> HIDE DEF u, n
    <3>4. ~BeginsInside(m)
      <4>1. CASE Compares(ops[i])
        <5>1. ~Compares(ops[i + 1])
          BY <1>1, <4>1 DEF Chained, IsComparison, Compares
        <5>2. ~IsArithmetic(n)
          <6>1. PrecIndex(ops[i + 1]) \in Int
            BY SMTT(40), <1>2, Facts
          <6>2. QED
            BY <3>2, <3>3, <6>1 DEF IsArithmetic, LastArithmetic
        <5>3. ~CompareAt(n)
          BY <3>2, <5>1 DEF CompareAt, Compares
        <5>4. QED
          BY <3>1, <3>2, <5>2, <5>3, NotInside DEF n
      <4>2. CASE ~Compares(ops[i])
        <5>1. m - 1 = u
          BY <3>1
        <5>2. ~CompareAt(u)
          BY <3>2, <4>2 DEF CompareAt, Compares
        <5>3. QED
          BY <5>1, <5>2 DEF BeginsInside, BetweenComparisons
      <4>3. QED
        BY <4>1, <4>2
    <3>5. QED
      BY <1>2, <2>1, <3>4, PlainIsJoined DEF u
  <2>2. CASE Split(i)
    BY <2>2 DEF Split, Joined
  <2>3. QED
    BY <1>1, <1>2, <2>1, <2>2, ChainingFacts
<1>8. Seams'
  <2>1. ASSUME NEW k \in 1..Len(ops), k < i + 1
        PROVE  Joined(LastOf(terms'[k]), ops'[k], FirstOf(terms'[k + 1]))
    <3>1. k < i \/ k = i
      BY <1>2, <2>1
    <3>2. Joined(LastOf(terms[k]), ops[k], FirstOf(terms[k + 1]))
      BY <1>1, <1>7, <3>1, ChainingFacts
    <3>3. QED
      BY <1>1, <3>2
  <2>2. ASSUME NEW k \in 1..Len(ops), ~(k < i + 1)
        PROVE  Plain(k)'
    <3>1. k > i
      BY <1>2, <2>2
    <3>2. QED
      BY <1>1, <1>3, <3>1, ChainingFacts
  <2>3. \A k \in 1..Len(ops) : Passed(k)' <=> k < i + 1
    BY <1>1 DEF Passed
  <2>4. QED
    BY <1>1, <2>1, <2>2, <2>3, SameSource DEF Seams, FirstOf, LastOf
<1>9. Blocks'
  <2>1. ASSUME NEW k \in 1..Len(terms), k > i + 1
        PROVE  Block(terms'[k])
    <3>1. k > i
      BY <1>2, <2>1
    <3>2. QED
      BY <1>1, <3>1, ChainingFacts
  <2>2. QED
    BY <1>1, <2>1, SameSource DEF Blocks
<1>10. QED
  BY <1>3, <1>4, <1>5, <1>6, <1>8, <1>9 DEF IInv, PrecedenceOK, OrderOK

LEMMA EndChainingKeeps ==
  ASSUME IInv, EndChaining
  PROVE  IInv'
<1>1. /\ phase = "chaining" /\ i >= Len(ops) /\ phase' = "rest"
      /\ UNCHANGED <<source, ops, terms, i>>
  BY DEF EndChaining
<1>2. Len(ops) \in Nat /\ Len(terms) = Len(ops) + 1 /\ i \in Nat \ {0} /\ Len(source) \in Nat
  BY <1>1, Facts, ChainingFacts
<1>3. /\ ExprsOK' /\ Strongest' /\ FoundFirst' /\ Alone'
      /\ \A k \in 1..Len(terms') : Linked(terms[k])'
      /\ FirstOf(terms[1])' = Parsed(1)
      /\ LastOf(terms[Len(terms)])' = Parsed(Len(source') + 1)
  BY <1>1, SameLists
<1>4. TypeOK'
  BY <1>1, SameSource DEF IInv, TypeOK
<1>5. Phases'
  BY <1>1 DEF IInv, PrecedenceOK, Phases
<1>6. Apart'
  <2>1. \A h \in 1..(Len(ops) - 1) : h < i
    BY <1>1, <1>2
  <2>2. QED
    BY <1>1, <2>1 DEF IInv, PrecedenceOK, Apart
<1>7. ASSUME NEW k \in 1..Len(ops)
      PROVE  Joined(LastOf(terms[k]), ops[k], FirstOf(terms[k + 1]))
  <2>1. CASE k < i
    BY <1>1, <2>1, ChainingFacts
  <2>2. CASE k = i /\ Plain(k)
    <3>1. k + 1 = Len(terms) /\ k \in 1..Len(terms) /\ Len(terms) \in 1..Len(terms)
          /\ Len(terms) > i
      BY <1>1, <1>2, <2>2
    <3> DEFINE m == LastOf(terms[k]).term + 1
    <3>2. m \in Int
      BY <3>1, Facts DEF Operand
    <3>3. Block(terms[Len(terms)])
      BY <1>1, <3>1, ChainingFacts
    <3>4. FirstOf(terms[Len(terms)]).term = m
      BY <2>2, <3>1 DEF Plain, Parsed
    <3>5. LastOf(terms[Len(terms)]).term = Len(source) + 1
      BY DEF IInv, OrderOK, Parsed
    <3> HIDE DEF m
    <3>6. LastOf(terms[Len(terms)]).term \in Int /\ LastOf(terms[Len(terms)]).term > Len(source)
      BY <1>2, <3>5
    <3>7. ~BeginsInside(m)
      BY <3>2, <3>3, <3>4, <3>6, NotInside
    <3>8. QED
      BY <2>2, <3>7, PlainIsJoined DEF m
  <2>3. CASE k = i /\ Split(k)
    BY <2>3 DEF Split, Joined
  <2>4. QED
    BY <1>1, <1>2, <2>1, <2>2, <2>3, ChainingFacts
<1>8. Seams'
  <2>1. \A k \in 1..Len(ops') : Joined(LastOf(terms'[k]), ops'[k], FirstOf(terms'[k + 1]))
    BY <1>1, <1>7
  <2>2. QED
    BY <1>1, <2>1, SameSource DEF Seams, Passed, FirstOf, LastOf
<1>9. Blocks'
  BY <1>1 DEF Blocks
<1>10. QED
  BY <1>3, <1>4, <1>5, <1>6, <1>8, <1>9 DEF IInv, PrecedenceOK, OrderOK

(* What is put into the two lists.                                         *)
LEMMA ChainedOps ==
  ASSUME NEW s \in Seq(Operator), NEW j \in 1..(Len(s) + 1)
  PROVE  /\ InsertAt(s, j, "&&") \in Seq(Operator)
         /\ Len(InsertAt(s, j, "&&")) = Len(s) + 1
         /\ InsertAt(s, j, "&&")[j] = "&&"
         /\ \A k \in 1..Len(s) : k < j => InsertAt(s, j, "&&")[k] = s[k]
         /\ \A k \in 2..(Len(s) + 1) : k > j => InsertAt(s, j, "&&")[k] = s[k - 1]
<1>1. "&&" \in Operator
  BY Precedences
<1> DEFINE e == "&&"
<1>2. e \in Operator
  BY <1>1
<1> HIDE DEF e
<1>3. /\ InsertAt(s, j, e) \in Seq(Operator)
      /\ Len(InsertAt(s, j, e)) = Len(s) + 1
      /\ InsertAt(s, j, e)[j] = e
      /\ \A k \in 1..Len(s) : k < j => InsertAt(s, j, e)[k] = s[k]
      /\ \A k \in 2..(Len(s) + 1) : k > j => InsertAt(s, j, e)[k] = s[k - 1]
  BY <1>2, Inserted
<1>4. QED
  BY <1>3 DEF e

LEMMA ChainedTerms ==
  ASSUME NEW s \in Seq(Term), NEW e \in Term, NEW j \in 1..(Len(s) + 1)
  PROVE  /\ InsertAt(s, j, e) \in Seq(Term)
         /\ Len(InsertAt(s, j, e)) = Len(s) + 1
         /\ InsertAt(s, j, e)[j] = e
         /\ \A k \in 1..Len(s) : k < j => InsertAt(s, j, e)[k] = s[k]
         /\ \A k \in 2..(Len(s) + 1) : k > j => InsertAt(s, j, e)[k] = s[k - 1]
  BY Inserted

LEMMA ChainKeeps ==
  ASSUME IInv, Chain
  PROVE  IInv'
<1> DEFINE t == terms[i + 1]
           w == [term |-> FirstOf(t).term, copied |-> TRUE]
           c == Leaf(w)
<1>1. /\ phase = "chaining" /\ i < Len(ops) /\ Compares(ops[i]) /\ Compares(ops[i + 1])
      /\ i' = i + 1 /\ source' = source /\ phase' = phase
      /\ ops' = InsertAt(ops, i + 1, "&&") /\ terms' = InsertAt(terms, i + 1, c)
  <2>1. Head(t.operands) = FirstOf(t)
    BY DEF FirstOf
  <2>2. Copied(t) = c
    BY <2>1 DEF Copied
  <2>3. QED
    BY <2>2 DEF Chain, Chained, IsComparison, Compares
<1>2. /\ Len(ops) \in Nat /\ Len(terms) = Len(ops) + 1 /\ i \in Nat \ {0}
      /\ i \in 1..Len(ops) /\ i + 1 \in 1..Len(ops) /\ i \in 1..Len(terms)
      /\ i + 1 \in 1..Len(terms) /\ Len(ops) >= 2
  BY <1>1, Facts, ChainingFacts
<1>3. w \in Operand
  BY <1>2, Facts DEF Operand
<1> HIDE DEF w
<1>4. c \in Term /\ Linked(c) /\ c.op = "none" /\ c.exprs = {} /\ FirstOf(c) = w /\ LastOf(c) = w
  BY <1>3, LeafOf
<1> HIDE DEF c
<1>5. /\ ops' \in Seq(Operator) /\ Len(ops') = Len(ops) + 1 /\ ops'[i + 1] = "&&"
      /\ \A k \in 1..Len(ops) : k < i + 1 => ops'[k] = ops[k]
      /\ \A k \in 2..(Len(ops) + 1) : k > i + 1 => ops'[k] = ops[k - 1]
  <2> DEFINE j == i + 1
  <2>1. j \in 1..(Len(ops) + 1) /\ ops \in Seq(Operator) /\ "&&" \in Operator
    BY <1>2, Facts, Precedences
  <2>2. ops' = InsertAt(ops, j, "&&")
    BY <1>1
  <2> HIDE DEF j
  <2>3. /\ ops' \in Seq(Operator) /\ Len(ops') = Len(ops) + 1 /\ ops'[j] = "&&"
        /\ \A k \in 1..Len(ops) : k < j => ops'[k] = ops[k]
        /\ \A k \in 2..(Len(ops) + 1) : k > j => ops'[k] = ops[k - 1]
    BY <2>1, <2>2, ChainedOps
  <2>4. QED
    BY <2>3 DEF j
<1>6. /\ terms' \in Seq(Term) /\ Len(terms') = Len(terms) + 1 /\ terms'[i + 1] = c
      /\ \A k \in 1..Len(terms) : k < i + 1 => terms'[k] = terms[k]
      /\ \A k \in 2..(Len(terms) + 1) : k > i + 1 => terms'[k] = terms[k - 1]
  <2> DEFINE j == i + 1
  <2>1. j \in 1..(Len(terms) + 1) /\ terms \in Seq(Term)
    BY <1>2, Facts
  <2>2. terms' = InsertAt(terms, j, c)
    BY <1>1
  <2> HIDE DEF j
  <2> DEFINE r == InsertAt(terms, j, c)
  <2>3. c \in Term
    BY <1>4
  <2>4. /\ r \in Seq(Term) /\ Len(r) = Len(terms) + 1 /\ r[j] = c
        /\ \A k \in 1..Len(terms) : k < j => r[k] = terms[k]
        /\ \A k \in 2..(Len(terms) + 1) : k > j => r[k] = terms[k - 1]
    BY SMTT(40), <2>1, <2>3, ChainedTerms
  <2> HIDE DEF r
  <2>5. terms' = r
    BY <2>2 DEF r
  <2>6. QED
    BY <2>4, <2>5 DEF j
<1>7. ASSUME NEW k \in 1..Len(terms')
      PROVE  \/ k = i + 1 /\ terms'[k] = c
             \/ \E h \in 1..Len(terms) :
                  h = (IF k < i + 1 THEN k ELSE k - 1) /\ k # i + 1 /\ terms'[k] = terms[h]
  <2>1. CASE k < i + 1
    BY <1>2, <1>6, <2>1
  <2>2. CASE k = i + 1
    BY <1>6, <2>2
  <2>3. CASE k > i + 1
    <3>1. k \in 2..(Len(terms) + 1) /\ k - 1 \in 1..Len(terms)
      BY <1>2, <1>6, <2>3
    <3>2. terms'[k] = terms[k - 1] /\ k # i + 1 /\ ~(k < i + 1)
      BY <1>2, <1>6, <2>3, <3>1
    <3>3. QED
      BY <3>1, <3>2
  <2>4. QED
    BY <1>2, <2>1, <2>2, <2>3
<1>8. ASSUME NEW k \in 1..Len(ops')
      PROVE  \/ k = i + 1 /\ ops'[k] = "&&"
             \/ \E h \in 1..Len(ops) :
                  h = (IF k < i + 1 THEN k ELSE k - 1) /\ k # i + 1 /\ ops'[k] = ops[h]
  <2>1. CASE k < i + 1
    BY <1>2, <1>5, <2>1
  <2>2. CASE k = i + 1
    BY <1>5, <2>2
  <2>3. CASE k > i + 1
    <3>1. k \in 2..(Len(ops) + 1) /\ k - 1 \in 1..Len(ops)
      BY <1>2, <1>5, <2>3
    <3>2. ops'[k] = ops[k - 1] /\ k # i + 1 /\ ~(k < i + 1)
      BY <1>2, <1>5, <2>3, <3>1
    <3>3. QED
      BY <3>1, <3>2
  <2>4. QED
    BY <1>2, <2>1, <2>2, <2>3
<1>9. TypeOK'
  BY <1>1, <1>2, <1>5, <1>6, SameSource DEF IInv, TypeOK
<1>10. \A k \in 1..Len(terms') :
         terms'[k].op # "none" => PrecIndex(terms'[k].op) <= 6 /\ ~Compares(terms'[k].op)
  <2>1. ASSUME NEW k \in 1..Len(terms), terms[k].op # "none"
        PROVE  PrecIndex(terms[k].op) <= 6 /\ ~Compares(terms[k].op)
    <3>1. PrecIndex(terms[k].op) <= 6
      BY <1>1, <2>1, ChainingFacts DEF LastArithmetic
    <3>2. terms[k].op \in Operator
      BY <2>1, Facts DEF Term
    <3>3. PrecIndex(terms[k].op) \in -1..14
      BY <3>2, Precedences
    <3>4. QED
      BY <3>1, <3>3 DEF Compares
  <2>2. QED
    BY <1>4, <1>7, <2>1
<1>11. \A h \in 1..Len(ops') : PrecIndex(ops'[h]) > 6 /\ PrecIndex(ops'[h]) \in -1..14
  <2>1. \A h \in 1..Len(ops) : PrecIndex(ops[h]) > 6 /\ PrecIndex(ops[h]) \in -1..14
    BY <1>1, <1>2, Facts, ChainingFacts DEF LastArithmetic
  <2>2. PrecIndex("&&") = 13 /\ 13 > 6 /\ 13 \in -1..14
    BY Precedences
  <2>3. QED
    BY <1>8, <2>1, <2>2
<1>12. PrecedenceOK'
  <2>1. ExprsOK'
    <3>1. \A k \in 1..Len(terms') : \A e \in terms'[k].exprs : Binds(e) /\ ComparesNone(e)
      BY <1>4, <1>7 DEF IInv, PrecedenceOK, ExprsOK
    <3>2. QED
      BY <3>1 DEF ExprsOK
  <2>2. \A k \in 1..Len(terms'), h \in 1..Len(ops') :
          terms'[k].op # "none" => PrecIndex(terms'[k].op) < PrecIndex(ops'[h])
                                   /\ PrecIndex(terms'[k].op) <= PrecIndex(ops'[h])
    <3>1. ASSUME NEW k \in 1..Len(terms'), NEW h \in 1..Len(ops'), terms'[k].op # "none"
          PROVE  /\ PrecIndex(terms'[k].op) < PrecIndex(ops'[h])
                 /\ PrecIndex(terms'[k].op) <= PrecIndex(ops'[h])
      <4> DEFINE a == PrecIndex(terms'[k].op)
                 b == PrecIndex(ops'[h])
      <4>1. terms'[k].op \in Operator
        <5>1. terms'[k] \in Term
          BY <1>6, <3>1
        <5>2. QED
          BY <3>1, <5>1 DEF Term
      <4>2. a \in -1..14 /\ a <= 6 /\ b > 6 /\ b \in -1..14
        BY <1>10, <1>11, <3>1, <4>1, Precedences
      <4> HIDE DEF a, b
      <4>3. a < b /\ a <= b
        BY <4>2
      <4>4. QED
        BY <4>3 DEF a, b
    <3>2. QED
      BY <3>1
  <2>3. Strongest' /\ FoundFirst'
    BY <2>2 DEF Strongest, FoundFirst
  <2>4. Phases'
    BY <1>1, <1>10, <1>11 DEF Phases, LastArithmetic
  <2>5. Apart'
    <3>1. ASSUME NEW h \in 1..(Len(ops') - 1), h < i + 1
          PROVE  ~(Compares(ops'[h]) /\ Compares(ops'[h + 1]))
      <4>1. CASE h < i
        <5>1. h \in 1..(Len(ops) - 1) /\ h + 1 \in 1..Len(ops) /\ h + 1 < i + 1 /\ h \in 1..Len(ops)
          BY <1>2, <4>1
        <5>2. ~(Compares(ops[h]) /\ Compares(ops[h + 1]))
          BY <1>1, <4>1, <5>1 DEF IInv, PrecedenceOK, Apart
        <5>3. ops'[h] = ops[h] /\ ops'[h + 1] = ops[h + 1]
          BY <1>5, <3>1, <5>1
        <5>4. QED
          BY <5>2, <5>3
      <4>2. CASE h = i
        BY <1>5, <4>2, Precedences DEF Compares
      <4>3. QED
        BY <1>2, <3>1, <4>1, <4>2
    <3>2. QED
      BY <1>1, <3>1 DEF Apart
  <2>6. Alone'
    BY <1>10 DEF Alone
  <2>7. QED
    BY <2>1, <2>3, <2>4, <2>5, <2>6 DEF PrecedenceOK
<1>13. \A k \in 1..Len(terms') : Linked(terms[k])'
  <2>1. \A k \in 1..Len(terms') : Linked(terms'[k])
    BY <1>4, <1>7, Facts
  <2>2. QED
    BY <1>1, <2>1, SameSource
<1>14. FirstOf(terms[1])' = Parsed(1) /\ LastOf(terms[Len(terms)])' = Parsed(Len(source) + 1)'
  <2>1. FirstOf(terms[1]) = Parsed(1) /\ LastOf(terms[Len(terms)]) = Parsed(Len(source) + 1)
    BY DEF IInv, OrderOK
  <2>2. terms'[1] = terms[1]
    BY <1>2, <1>6
  <2>3. terms'[Len(terms')] = terms[Len(terms)]
    <3>1. /\ Len(terms') \in 2..(Len(terms) + 1) /\ Len(terms') > i + 1
          /\ Len(terms') - 1 = Len(terms)
      BY <1>2, <1>6
    <3>2. QED
      BY <1>6, <3>1
  <2>4. FirstOf(terms'[1]) = Parsed(1) /\ LastOf(terms'[Len(terms')]) = Parsed(Len(source) + 1)
    BY <2>1, <2>2, <2>3
  <2>5. QED
    BY <1>1, <2>4 DEF FirstOf, LastOf
<1> DEFINE u == LastOf(terms[i])
           n == LastOf(t).term
<1>15. /\ u \in Operand /\ u.term \in Nat \ {0} /\ u.copied = FALSE /\ ops[i] = source[u.term]
       /\ FirstOf(t) = Parsed(u.term + 1) /\ w = [term |-> u.term + 1, copied |-> TRUE]
       /\ u.term <= Len(source)
  <2>1. u \in Operand /\ FirstOf(t) \in Operand
    BY <1>2, Facts
  <2>2. ops[i] # "&&"
    BY <1>1, Precedences DEF Compares
  <2>3. Plain(i)
    BY <1>1, <1>2, <2>2, ChainingFacts DEF Split
  <2>4. FirstOf(t) = Parsed(u.term + 1) /\ FirstOf(t).term = u.term + 1
    BY <2>3 DEF Plain, Parsed
  <2>5. u.copied = FALSE /\ ops[i] = source[u.term]
    BY <2>1, <2>3 DEF Operand, Plain
  <2>6. w = [term |-> u.term + 1, copied |-> TRUE]
    BY <2>4 DEF w
  <2>7. u.term \in 1..(Len(source) + 1) /\ u.term + 1 \in 1..(Len(source) + 1)
    BY <2>1, <2>4 DEF Operand
  <2>8. Len(source) \in Nat
    BY Facts
  <2> HIDE DEF u, t
  <2>9. QED
    BY <2>1, <2>4, <2>5, <2>6, <2>7, <2>8
<1>16. BeginsInside(u.term + 1)
  <2>1. /\ n \in Int /\ Block(t) /\ ops[i + 1] = source[n]
        /\ FirstOf(terms[i + 1 + 1]).term = n + 1
        /\ FirstOf(terms[i + 1 + 1]) \in Operand
    <3>1. Plain(i + 1) /\ Block(t)
      BY <1>1, <1>2, ChainingFacts
    <3>2. i + 1 + 1 \in 1..Len(terms)
      BY <1>2
    <3>3. LastOf(t) \in Operand /\ FirstOf(terms[i + 1 + 1]) \in Operand
      BY <1>2, <3>2, Facts
    <3>4. QED
      BY <3>1, <3>3 DEF Plain, Parsed, Operand
  <2>2. Len(source) \in Nat
    BY Facts
  <2>3. n + 1 \in 1..(Len(source) + 1)
    BY <2>1 DEF Operand
  <2>4. FirstOf(t).term = u.term + 1
    BY <1>15 DEF Parsed
  <2>5. u.term + 1 <= n /\ \A p \in (u.term + 1)..(n - 1) : IsArithmetic(p)
    BY <2>1, <2>4 DEF Block
  <2> HIDE DEF u, n, t
  <2>6. u.term \in 1..Len(source) /\ n \in 1..Len(source) /\ (u.term + 1) - 1 = u.term
    BY <1>15, <2>1, <2>2, <2>3, <2>5
  <2>7. CompareAt(u.term) /\ CompareAt(n)
    BY <1>1, <1>15, <2>1, <2>6 DEF CompareAt, Compares
  <2>8. BetweenComparisons(u.term + 1, n)
    BY <2>5, <2>6, <2>7 DEF BetweenComparisons
  <2>9. QED
    BY <2>6, <2>8 DEF BeginsInside
<1>17. Joined(u, ops[i], w)
  BY <1>15, <1>16 DEF Joined
<1>18. Seams'
  <2>1. \A k \in 1..Len(ops') : Passed(k)' <=> k < i + 1
    BY <1>1 DEF Passed
  <2>2. ASSUME NEW k \in 1..Len(ops'), k < i + 1
        PROVE  Joined(LastOf(terms'[k]), ops'[k], FirstOf(terms'[k + 1]))
    <3>1. k \in 1..Len(terms) /\ k \in 1..Len(ops)
      BY <1>2, <2>2
    <3>2. terms'[k] = terms[k] /\ ops'[k] = ops[k]
      BY <1>5, <1>6, <2>2, <3>1
    <3>3. CASE k < i
      <4>1. k + 1 \in 1..Len(terms) /\ k + 1 < i + 1
        BY <1>2, <3>1, <3>3
      <4>2. terms'[k + 1] = terms[k + 1]
        BY <1>6, <4>1
      <4>3. Joined(LastOf(terms[k]), ops[k], FirstOf(terms[k + 1]))
        BY <1>1, <3>1, <3>3, ChainingFacts
      <4>4. QED
        BY <3>2, <4>2, <4>3
    <3>4. CASE k = i
      <4>1. FirstOf(terms'[k + 1]) = w
        BY <1>4, <1>6, <3>4
      <4>2. QED
        BY <1>17, <3>2, <3>4, <4>1
    <3>5. QED
      BY <1>2, <2>2, <3>3, <3>4
  <2>3. ASSUME NEW k \in 1..Len(ops'), k = i + 1
        PROVE  Split(k)'
    <3>1. k + 1 \in 2..(Len(terms) + 1) /\ k + 1 > i + 1 /\ (k + 1) - 1 = i + 1
      BY <1>2, <2>3
    <3>2. terms'[k] = c /\ ops'[k] = "&&"
      BY <1>5, <1>6, <2>3
    <3>3. terms'[k + 1] = t
      <4>1. terms'[k + 1] = terms[(k + 1) - 1]
        BY <1>6, <3>1
      <4>2. QED
        BY <3>1, <4>1
    <3>4. w.copied = TRUE /\ FirstOf(t) = Parsed(w.term)
      BY <1>15
    <3>5. /\ LastOf(terms'[k]).copied /\ ops'[k] = "&&"
          /\ FirstOf(terms'[k + 1]) = Parsed(LastOf(terms'[k]).term)
      BY <1>4, <3>2, <3>3, <3>4
    <3>6. QED
      BY <3>5 DEF Split, FirstOf, LastOf
  <2>4. ASSUME NEW k \in 1..Len(ops'), k > i + 1
        PROVE  Plain(k)'
    <3>1. /\ k \in 2..(Len(ops) + 1) /\ k \in 2..(Len(terms) + 1) /\ k - 1 \in 1..Len(ops)
          /\ k - 1 > i /\ k + 1 \in 2..(Len(terms) + 1) /\ k + 1 > i + 1 /\ (k + 1) - 1 = (k - 1) + 1
      BY <1>2, <1>5, <2>4
    <3>2. Plain(k - 1)
      BY <1>1, <3>1, ChainingFacts
    <3>3. ops'[k] = ops[k - 1] /\ terms'[k] = terms[k - 1]
      BY <1>5, <1>6, <2>4, <3>1
    <3>4. terms'[k + 1] = terms[(k - 1) + 1]
      <4>1. terms'[k + 1] = terms[(k + 1) - 1]
        BY <1>6, <3>1
      <4>2. QED
        BY <3>1, <4>1
    <3>5. /\ ~LastOf(terms'[k]).copied /\ ops'[k] = source[LastOf(terms'[k]).term]
          /\ FirstOf(terms'[k + 1]) = Parsed(LastOf(terms'[k]).term + 1)
      BY <3>2, <3>3, <3>4 DEF Plain
    <3>6. QED
      BY <1>1, <3>5 DEF Plain, FirstOf, LastOf
  <2>5. ASSUME NEW k \in 1..Len(ops')
        PROVE  IF Passed(k)' THEN Joined(LastOf(terms'[k]), ops'[k], FirstOf(terms'[k + 1]))
               ELSE Plain(k)' \/ (phase' = "chaining" /\ k = i' /\ Split(k)')
    <3>1. CASE k < i + 1
      BY <2>1, <2>2, <3>1
    <3>2. CASE k = i + 1
      <4>1. ~(k < i + 1)
        BY <1>2, <3>2
      <4>2. QED
        BY <1>1, <2>1, <2>3, <3>2, <4>1
    <3>3. CASE k > i + 1
      <4>1. ~(k < i + 1)
        BY <1>2, <3>3
      <4>2. QED
        BY <2>1, <2>4, <3>3, <4>1
    <3>4. QED
      BY <1>2, <3>1, <3>2, <3>3
  <2>6. QED
    BY <1>1, <2>5, SameSource DEF Seams, FirstOf, LastOf
<1>19. Blocks'
  <2>1. ASSUME NEW k \in 1..Len(terms'), k > i + 1
        PROVE  Block(terms'[k])
    <3>1. k \in 2..(Len(terms) + 1) /\ k - 1 \in 1..Len(terms) /\ k - 1 > i
      BY <1>2, <1>6, <2>1
    <3>2. terms'[k] = terms[k - 1]
      BY <1>6, <2>1, <3>1
    <3>3. QED
      BY <1>1, <3>1, <3>2, ChainingFacts
  <2>2. QED
    BY <1>1, <2>1, SameSource DEF Blocks
<1>20. QED
  BY <1>9, <1>12, <1>13, <1>14, <1>18, <1>19 DEF IInv, OrderOK

-----------------------------------------------------------------------------
(* The invariant.                                                          *)

LEMMA InitIInv ==
  ASSUME Init
  PROVE  IInv
<1> DEFINE m == Len(source) + 1
<1>1. /\ ops = source /\ terms = [j \in 1..m |-> Leaf(Parsed(j))]
      /\ phase = "arithmetic" /\ i = 1
  BY DEF Init
<1>2. source \in Seq(Operator) /\ Len(source) \in Nat
  <2>1. PICK n \in 0..MaxOps : source \in [1..n -> Operator]
    BY DEF Init
  <2>2. n \in Nat
    BY MaxOpsAssumption
  <2>3. QED
    BY <2>1, <2>2
<1>3. ASSUME NEW k \in 1..m
      PROVE  /\ terms[k] \in Term /\ Linked(terms[k])
             /\ terms[k].op = "none" /\ terms[k].exprs = {}
             /\ FirstOf(terms[k]) = Parsed(k) /\ LastOf(terms[k]) = Parsed(k)
  <2> DEFINE u == Parsed(k)
  <2>1. u \in Operand
    BY DEF Parsed, Operand
  <2>2. terms[k] = Leaf(u)
    BY <1>1
  <2> HIDE DEF u
  <2>3. /\ Leaf(u) \in Term /\ Linked(Leaf(u)) /\ Leaf(u).op = "none" /\ Leaf(u).exprs = {}
        /\ FirstOf(Leaf(u)) = u /\ LastOf(Leaf(u)) = u
    BY <2>1, LeafOf
  <2>4. QED
    BY <2>2, <2>3 DEF u
<1>4. terms \in Seq(Term) /\ Len(terms) = m
  <2>1. m \in Nat /\ terms = [j \in 1..m |-> terms[j]]
    BY <1>1, <1>2
  <2>2. \A k \in 1..m : terms[k] \in Term
    BY <1>3
  <2> HIDE DEF m
  <2>3. QED
    BY <2>1, <2>2
<1>5. TypeOK
  BY <1>1, <1>2, <1>4 DEF TypeOK
<1>6. PrecedenceOK
  <2>1. ExprsOK /\ Strongest /\ FoundFirst /\ Alone
    BY <1>3, <1>4 DEF ExprsOK, Strongest, FoundFirst, Alone
  <2>2. Phases /\ Apart
    BY <1>1, <1>3, <1>4 DEF Phases, Apart
  <2>3. QED
    BY <2>1, <2>2 DEF PrecedenceOK
<1>7. Seams
  <2>1. ASSUME NEW k \in 1..Len(ops) PROVE Plain(k) /\ ~Passed(k)
    <3>1. k \in 1..m /\ k + 1 \in 1..m
      BY <1>1, <1>2
    <3>2. LastOf(terms[k]) = Parsed(k) /\ FirstOf(terms[k + 1]) = Parsed(k + 1)
      BY <1>3, <3>1
    <3>3. Parsed(k).term = k /\ Parsed(k).copied = FALSE
      BY DEF Parsed
    <3>4. Plain(k)
      BY <1>1, <3>2, <3>3 DEF Plain
    <3>5. QED
      BY <1>1, <3>4 DEF Passed
  <2>2. QED
    BY <2>1 DEF Seams
<1>8. Blocks
  <2>1. ASSUME NEW k \in 1..m PROVE Block(terms[k])
    <3>1. FirstOf(terms[k]).term = k /\ LastOf(terms[k]).term = k
      <4>1. FirstOf(terms[k]) = Parsed(k) /\ LastOf(terms[k]) = Parsed(k)
        BY <1>3
      <4>2. QED
        BY <4>1 DEF Parsed
    <3>2. k <= k /\ k..(k - 1) = {}
      BY <1>2
    <3>3. QED
      BY <3>1, <3>2 DEF Block
  <2>2. QED
    BY <1>4, <2>1 DEF Blocks
<1>9. OrderOK
  <2>1. 1 \in 1..m /\ m \in 1..m
    BY <1>2
  <2>2. QED
    BY <1>3, <1>4, <1>7, <1>8, <2>1 DEF OrderOK
<1>10. QED
  BY <1>5, <1>6, <1>9 DEF IInv

LEMMA StutterKeeps ==
  ASSUME IInv, UNCHANGED vars
  PROVE  IInv'
<1>1. UNCHANGED <<source, ops, terms, phase, i>>
  BY DEF vars
<1>2. TypeOK'
  BY <1>1, SameSource DEF IInv, TypeOK
<1>3. PrecedenceOK'
  <2>1. ExprsOK' /\ Strongest' /\ FoundFirst' /\ Alone'
    BY <1>1, SameLists
  <2>2. Phases' /\ Apart'
    BY <1>1 DEF IInv, PrecedenceOK, Phases, Apart
  <2>3. QED
    BY <2>1, <2>2 DEF PrecedenceOK
<1>4. Seams'
  <2>1. /\ \A k \in 1..Len(ops) : Plain(k)' <=> Plain(k)
        /\ \A k \in 1..Len(ops) : Split(k)' <=> Split(k)
        /\ \A k \in 1..Len(ops) : Passed(k)' <=> Passed(k)
    BY <1>1 DEF Plain, Split, Passed, FirstOf, LastOf
  <2>2. ASSUME NEW k \in 1..Len(ops'), Passed(k)'
        PROVE  Joined(LastOf(terms'[k]), ops'[k], FirstOf(terms'[k + 1]))
    BY <1>1, <2>1, <2>2 DEF IInv, OrderOK, Seams
  <2>3. ASSUME NEW k \in 1..Len(ops'), ~Passed(k)'
        PROVE  Plain(k)' \/ (phase' = "chaining" /\ k = i' /\ Split(k)')
    BY <1>1, <2>1, <2>3 DEF IInv, OrderOK, Seams
  <2>4. QED
    BY <1>1, <2>2, <2>3, SameSource DEF Seams, FirstOf, LastOf
<1>5. Blocks'
  <2>1. \A k \in 1..Len(terms') :
          phase' = "arithmetic" \/ (phase' = "chaining" /\ k > i') => Block(terms'[k])
    BY <1>1 DEF IInv, OrderOK, Blocks
  <2>2. QED
    BY <1>1, <2>1, SameSource DEF Blocks
<1>6. QED
  BY <1>1, <1>2, <1>3, <1>4, <1>5, SameLists DEF IInv, OrderOK

LEMMA StepIInv ==
  ASSUME IInv, [Next]_vars
  PROVE  IInv'
<1>1. CASE Group
  <2>1. PICK j \in 1..Len(ops) : GroupedAt(j)
    BY <1>1, GroupEffect
  <2>2. QED
    BY <2>1, GroupPrecedence, GroupOrder DEF IInv
<1>2. CASE EndGrouping
  BY <1>2, EndGroupingKeeps
<1>3. CASE Chain
  BY <1>3, ChainKeeps
<1>4. CASE PassBy
  BY <1>4, PassByKeeps
<1>5. CASE EndChaining
  BY <1>5, EndChainingKeeps
<1>6. CASE UNCHANGED vars
  BY <1>6, StutterKeeps
<1>7. QED
  BY <1>1, <1>2, <1>3, <1>4, <1>5, <1>6 DEF Next

LEMMA InvariantHolds == Spec => []IInv
<1>1. Init => IInv
  BY InitIInv
<1>2. IInv /\ [Next]_vars => IInv'
  BY StepIInv
<1>3. QED
  BY <1>1, <1>2, PTL DEF Spec

-----------------------------------------------------------------------------
(* The tree that is returned is the one term that is left, or the Expr of  *)
(* the last two.                                                           *)
LEMMA ResultOf ==
  ASSUME IInv, phase = "done"
  PROVE  /\ Result \in Term /\ Linked(Result)
         /\ FirstOf(Result) = Parsed(1) /\ LastOf(Result) = Parsed(Len(source) + 1)
         /\ \A e \in Result.exprs : Binds(e) /\ ComparesNone(e)
<1>1. /\ Len(ops) \in Nat /\ Len(terms) = Len(ops) + 1 /\ ops \in Seq(Operator)
      /\ Len(terms) <= 2
  BY Facts DEF IInv, PrecedenceOK, Phases
<1>2. /\ FirstOf(terms[1]) = Parsed(1) /\ LastOf(terms[Len(terms)]) = Parsed(Len(source) + 1)
      /\ \A k \in 1..Len(terms) : \A e \in terms[k].exprs : Binds(e) /\ ComparesNone(e)
  BY DEF IInv, OrderOK, PrecedenceOK, ExprsOK
<1>3. CASE Len(ops) = 0
  <2>1. ops = <<>> /\ Result = terms[1]
    BY <1>1, <1>3 DEF Result
  <2>2. Len(terms) = 1 /\ 1 \in 1..Len(terms)
    BY <1>1, <1>3
  <2>3. QED
    BY <1>2, <2>1, <2>2, Facts
<1>4. CASE Len(ops) = 1
  <2>1. ops # <<>> /\ Result = Node(terms[1], ops[1], terms[2])
    BY <1>1, <1>4 DEF Result
  <2>2. Len(terms) = 2 /\ 1 \in 1..Len(terms) /\ 2 \in 1..Len(terms) /\ 1 \in 1..Len(ops) /\ 2 = 1 + 1
    BY <1>1, <1>4
  <2>3. Joined(LastOf(terms[1]), ops[1], FirstOf(terms[2]))
    BY <2>2 DEF IInv, OrderOK, Seams, Passed
  <2> DEFINE x == Node(terms[1], ops[1], terms[2])
             e1 == [term1 |-> terms[1].op, op |-> ops[1], term2 |-> terms[2].op]
  <2>4. /\ x \in Term /\ Linked(x) /\ FirstOf(x) = FirstOf(terms[1]) /\ LastOf(x) = LastOf(terms[2])
        /\ x.exprs = {e1} \cup terms[1].exprs \cup terms[2].exprs
    BY <2>2, <2>3, Facts, NodeOf
  <2>5. Binds(e1) /\ ComparesNone(e1)
    BY <2>2, PairOf
  <2> HIDE DEF x, e1
  <2>6. \A e \in x.exprs : Binds(e) /\ ComparesNone(e)
    BY <1>2, <2>2, <2>4, <2>5
  <2>7. FirstOf(x) = Parsed(1) /\ LastOf(x) = Parsed(Len(source) + 1)
    BY <1>2, <2>2, <2>4
  <2>8. Result = x
    BY <2>1 DEF x
  <2>9. Result \in Term /\ Linked(Result)
    BY <2>4, <2>8
  <2>10. FirstOf(Result) = Parsed(1) /\ LastOf(Result) = Parsed(Len(source) + 1)
    BY <2>7, <2>8
  <2>11. \A e \in Result.exprs : Binds(e) /\ ComparesNone(e)
    BY <2>6, <2>8
  <2>12. QED
    BY <2>9, <2>10, <2>11
<1>5. Len(ops) = 0 \/ Len(ops) = 1
  <2> DEFINE n == Len(ops)
             m == Len(terms)
  <2>1. n \in Nat /\ m = n + 1 /\ m <= 2
    BY <1>1
  <2> HIDE DEF n, m
  <2>2. n = 0 \/ n = 1
    BY <2>1
  <2>3. QED
    BY <2>2 DEF n
<1>6. QED
  BY <1>3, <1>4, <1>5

-----------------------------------------------------------------------------
(* The working lists keep their shape: one term more than operators.       *)
THEOREM TypeCorrect == Spec => []TypeOK
<1>1. IInv => TypeOK
  BY DEF IInv
<1>2. QED
  BY <1>1, InvariantHolds, PTL

(* Whatever its length and its operators, an expression keeps its operands *)
(* and operators in their order, with a copy where a chain of comparisons  *)
(* is split and nowhere else (fullTreeTransformation in Expr.c).           *)
THEOREM OperandsKeepOrder == Spec => []OperandsInOrder
<1>1. ASSUME IInv, phase = "done"
      PROVE  /\ Len(Result.operators) = Len(Result.operands) - 1
             /\ Result.operands[1] = Parsed(1)
             /\ Result.operands[Len(Result.operands)] = Parsed(Len(source) + 1)
             /\ \A j \in 1..Len(Result.operators) :
                  Joined(Result.operands[j], Result.operators[j], Result.operands[j + 1])
  BY <1>1, ResultOf DEF Linked, LinkedBy, FirstOf, LastOf
<1>2. IInv => OperandsInOrder
  BY <1>1 DEF OperandsInOrder
<1>3. QED
  BY <1>2, InvariantHolds, PTL

(* The order of prec_index keeps to the levels.                            *)
LEMMA LevelsInOrder ==
  ASSUME NEW n \in 1..Len(Levels), NEW a \in Operator, NEW b \in Operator,
         a \in Levels[n], PrecIndex(b) <= PrecIndex(a)
  PROVE  b \in OnLevel(n) \cup Bitwise
<1>1. Len(Levels) = 6 /\ n \in 1..6
  BY DEF Levels
<1>2. /\ Levels[1] = {"*", "/", "%"} /\ Levels[2] = {"+", "-"} /\ Levels[3] = {"<<", ">>"}
      /\ Levels[4] = {"!=", "==", ">=", "<=", ">", "<"} /\ Levels[5] = {"&&"} /\ Levels[6] = {"||"}
  BY DEF Levels
<1>3. \A op \in Operator \ Bitwise :
        \/ op \in Levels[1] /\ PrecIndex(op) \in 0..2
        \/ op \in Levels[2] /\ PrecIndex(op) \in 3..4
        \/ op \in Levels[3] /\ PrecIndex(op) \in 5..6
        \/ op \in Levels[4] /\ PrecIndex(op) \in 7..12
        \/ op \in Levels[5] /\ PrecIndex(op) = 13
        \/ op \in Levels[6] /\ PrecIndex(op) = 14
  <2>1. SUFFICES ASSUME NEW op \in Operator, op \notin Bitwise
                 PROVE  \/ op \in Levels[1] /\ PrecIndex(op) \in 0..2
                        \/ op \in Levels[2] /\ PrecIndex(op) \in 3..4
                        \/ op \in Levels[3] /\ PrecIndex(op) \in 5..6
                        \/ op \in Levels[4] /\ PrecIndex(op) \in 7..12
                        \/ op \in Levels[5] /\ PrecIndex(op) = 13
                        \/ op \in Levels[6] /\ PrecIndex(op) = 14
    OBVIOUS
  <2>2. PICK p \in 1..15 : Table[p] = op /\ PrecIndex(op) = p - 1
    BY <2>1, IndexInTable
  <2>3. CASE p \in 1..3
    BY <1>2, <2>2, <2>3 DEF Table
  <2>4. CASE p \in 4..5
    BY <1>2, <2>2, <2>4 DEF Table
  <2>5. CASE p \in 6..7
    BY <1>2, <2>2, <2>5 DEF Table
  <2>6. CASE p \in 8..10
    BY <1>2, <2>2, <2>6 DEF Table
  <2>7. CASE p \in 11..13
    BY <1>2, <2>2, <2>7 DEF Table
  <2>8. CASE p \in 14..15
    BY <1>2, <2>2, <2>8 DEF Table
  <2>9. QED
    BY <2>3, <2>4, <2>5, <2>6, <2>7, <2>8
<1>4. a \notin Bitwise
  BY <1>1, <1>2 DEF Bitwise
<1>5. SUFFICES ASSUME b \notin Bitwise PROVE \E m \in 1..n : b \in Levels[m]
  BY DEF OnLevel
<1>6. PICK m \in 1..6 : b \in Levels[m] /\ m <= n
  <2>1. \A k \in 1..6 : \A op \in Operator \ Bitwise : op \in Levels[k] =>
          /\ k = 1 => PrecIndex(op) \in 0..2
          /\ k = 2 => PrecIndex(op) \in 3..4
          /\ k = 3 => PrecIndex(op) \in 5..6
          /\ k = 4 => PrecIndex(op) \in 7..12
          /\ k = 5 => PrecIndex(op) = 13
          /\ k = 6 => PrecIndex(op) = 14
    BY <1>2, <1>3
  <2>2. PICK m \in 1..6 : b \in Levels[m]
    BY <1>3, <1>5
  <2>3. m <= n
    BY <1>1, <1>4, <1>5, <2>1, <2>2
  <2>4. QED
    BY <2>2, <2>3
<1>7. QED
  BY <1>1, <1>6

(* The tree of any expression keeps to the levels of the comment in        *)
(* prec_index, and groups a run of one operator from the left, but of ||   *)
(* (performTreeTransformation in Expr.c).                                  *)
THEOREM TreeBindsByLevel == Spec => []BindsByLevel
<1>1. ASSUME IInv, phase = "done", NEW e \in Result.exprs
      PROVE  /\ e.op \in Operator
             /\ e.term1 \in Operator \cup {"none"} /\ e.term2 \in Operator \cup {"none"}
             /\ e.term1 # "none" => PrecIndex(e.term1) <= PrecIndex(e.op)
             /\ e.term2 # "none" => PrecIndex(e.term2) <= PrecIndex(e.op)
             /\ e.term2 = e.op => e.op = "||"
  <2>1. Binds(e) /\ e \in Expr
    BY <1>1, ResultOf DEF Term
  <2>2. e.op \in Operator /\ e.term1 \in Operator \cup {"none"} /\ e.term2 \in Operator \cup {"none"}
    BY <2>1 DEF Expr
  <2>3. PrecIndex(e.op) \in Int /\ e.op # "none"
    BY <2>2, Precedences
  <2>4. e.term2 # "none" => PrecIndex(e.term2) \in Int
    BY <2>2, Precedences
  <2>5. QED
    BY <2>1, <2>2, <2>3, <2>4 DEF Binds
<1>2. ASSUME IInv, phase = "done", NEW e \in Result.exprs,
             NEW n \in 1..Len(Levels), e.op \in Levels[n]
      PROVE  {e.term1, e.term2} \subseteq OnLevel(n) \cup Bitwise \cup {"none"}
  <2>1. e.term1 # "none" => e.term1 \in OnLevel(n) \cup Bitwise
    BY <1>1, <1>2, LevelsInOrder
  <2>2. e.term2 # "none" => e.term2 \in OnLevel(n) \cup Bitwise
    BY <1>1, <1>2, LevelsInOrder
  <2>3. QED
    BY <2>1, <2>2
<1>3. IInv => BindsByLevel
  BY <1>1, <1>2 DEF BindsByLevel
<1>4. QED
  BY <1>3, InvariantHolds, PTL

(* In the tree of no expression the truth value of a comparison is         *)
(* compared: insertOperatorChaining (Expr.c) splits chains of any length.  *)
THEOREM NoTruthIsCompared == Spec => []NoComparisonCompared
<1>1. ASSUME IInv, phase = "done", NEW e \in Result.exprs, PrecIndex(e.op) \in 7..12,
             NEW term \in {e.term1, e.term2} \ {"none"}
      PROVE  PrecIndex(term) \notin 7..12
  <2>1. ComparesNone(e)
    BY <1>1, ResultOf
  <2>2. QED
    BY <1>1, <2>1 DEF ComparesNone, Compares
<1>2. IInv => NoComparisonCompared
  BY <1>1 DEF NoComparisonCompared
<1>3. QED
  BY <1>2, InvariantHolds, PTL
=============================================================================
