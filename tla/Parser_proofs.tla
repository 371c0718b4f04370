--------------------------- MODULE Parser_proofs ---------------------------
(***************************************************************************)
(* What holds of the parser's stack on every file, however long: no        *)
(* routine calls itself before a token was consumed.                       *)
(*                                                                         *)
(* Two facts of the tables carry it, which TablesOK establishes step by    *)
(* step.  The steps a routine can be at before it has consumed a token are *)
(* known (Fresh), and whatever is called from one of them has a lower rank *)
(* (Rank).  Hence the ranks of the frames that began at the same token     *)
(* fall from one to the next, and none of these is there twice.            *)
(***************************************************************************)
EXTENDS Parser, SequenceTheorems, TLAPS

(* The routines.                                                           *)
Names ==
  {"Namespace", "ExternC", "StructDecl", "StructMember", "Method",
   "MethodDecl", "DeclArg", "Type", "ArrayType", "TypeParam", "BasicType",
   "SimpleType", "PrimitiveType", "StructType", "SubrType", "NextArgType",
   "StmtBlock", "Stmt", "AssignStmt", "IfStmt", "WhileStmt", "LoopStmt",
   "ForStmt", "Range", "SwitchStmt", "CaseStmt", "TryCatchStmt", "RetStmt",
   "Call", "Expr", "OpTerm", "Op", "UnOpTerm", "Term", "Lambda", "ConstValue",
   "IntConst", "FloatConst", "Variable", "SimpleVar"}

(* The steps that may run before a routine has consumed a token.           *)
Fresh(r, s) ==
  CASE r \in {"ExternC", "NextArgType", "OpTerm", "Expr", "Lambda"} -> s <= 1
    [] r \in {"Call", "Method", "AssignStmt", "IfStmt", "LoopStmt", "TryCatchStmt",
              "StructType", "Variable"} -> s <= 3
    [] r \in {"Type", "TypeParam", "SimpleVar"} -> s <= 4
    [] r \in {"UnOpTerm", "ConstValue", "IntConst", "FloatConst"} -> s <= 5
    [] r = "SimpleType" -> s <= 6
    [] r = "BasicType"  -> s <= 4 \/ s = 7
    [] r = "StructDecl" -> s <= 4 \/ s = 11
    [] r = "Term"       -> s <= 5 \/ s \in 8..12
    [] r = "Stmt"       -> s <= 20
    [] r = "Namespace"  -> TRUE
    [] OTHER -> s <= 2

(* A call made in such a step leads to a routine of a lower rank.          *)
Rank(r) ==
  CASE r \in {"Stmt", "Range"} -> 5
    [] r \in {"StructMember", "DeclArg", "AssignStmt", "Expr"} -> 4
    [] r \in {"Type", "UnOpTerm"} -> 3
    [] r \in {"Namespace", "BasicType", "Term"} -> 2
    [] r \in {"OpTerm", "Method", "SimpleType", "ConstValue", "Variable"} -> 1
    [] OTHER -> 0

(* Those that may return a node without having consumed a token.           *)
Nullable == {"Namespace", "StructDecl"}

(* The operations that consume nothing.                                    *)
Calm == {"need", "room", "starts", "is", "second", "ahead", "annotations"}

After(st, s) == IF st.yes = 0 THEN s + 1 ELSE st.yes

(* What step s of routine r, with table t, leads to.                       *)
RowOK(r, t, s) ==
  LET st == t[s]
  IN  /\ st.op \notin {"accept", "exit"} => After(st, s) \in 1..Len(t)
      /\ st.no \in (-5)..(-1) \/ st.no \in 1..Len(t)
      /\ st.no = StoreNull => st.op = "expect" /\ ~Fresh(r, s)
      /\ st.op = "consume" => st.of \in Nat \ {0}
      /\ st.op = "call" => st.of \in Names \ {"Namespace"}
      /\ r = "Namespace" => st.op \in {"consume", "accept"} \/ st.no \notin {ReturnNull, ReadFreed}
      /\ Fresh(r, s) =>
           /\ st.op \in Calm \/ (st.op = "call" /\ st.of \in Nullable) => Fresh(r, After(st, s))
           /\ st.no > 0 => Fresh(r, st.no)
           /\ st.op = "accept" => r \in Nullable
           /\ st.op = "call" => Rank(st.of) < Rank(r)

(* Step `st`, read off its table; `of` matters to the steps that have one.  *)
Row(st, op, of, yes, no) ==
  /\ st.op = op /\ st.yes = yes /\ st.no = no
  /\ op \in {"call", "consume"} => st.of = of

TableOK(r, t) ==
  /\ Len(t) \in Nat \ {0}
  /\ \A s \in 1..Len(t) : RowOK(r, t, s)

-----------------------------------------------------------------------------
(* The inductive invariant.                                                *)

Frames == [routine : Names, step : Nat, from : Nat, pos : Nat, nulls : Nat]

StepOf(f) == Routine[f.routine][f.step]

FrameOK(f) ==
  /\ f.step \in 1..Len(Routine[f.routine])
  /\ f.from <= f.pos
  /\ f.pos = f.from => Fresh(f.routine, f.step)

(* Who calls whom.                                                         *)
Calling(f, g) == StepOf(f).op = "call" /\ StepOf(f).of = g.routine

(* Frame g is above frame f.                                               *)
Below(f, g) ==
  /\ f.from <= g.from
  /\ f.from = g.from => Rank(g.routine) < Rank(f.routine)

StackOK(s) ==
  /\ s \in Seq(Frames) /\ s # <<>>
  /\ \A a \in 1..Len(s) : FrameOK(s[a])
  /\ \A a \in 1..Len(s) : s[a].routine = "Namespace" <=> a = 1
  /\ \A a \in 1..(Len(s) - 1) : Calling(s[a], s[a + 1])
  /\ \A a, b \in 1..Len(s) : a < b => Below(s[a], s[b])
  /\ \A a \in 1..Len(s) : a + Rank(s[a].routine) <= 6 * s[a].from + 6

(* Only a step that called a routine learns that it returned NULL.         *)
StackInv ==
  /\ StackOK(stack)
  /\ phase = "parse" /\ failed => Now.op = "call"

-----------------------------------------------------------------------------
(* Every step of every table leads to a step of that table, and follows    *)
(* the rank.                                                               *)
LEMMA TablesOK ==
  /\ DOMAIN Routine = Names
  /\ \A r \in Names : TableOK(r, Routine[r])
<1> USE DEF Nullable, Calm, Names, After, ReturnNull, EndProcess, ReadFreed, UseFreed, StoreNull,
           Step, Or, Then, OrExit, Need, Annotations, Expect, Starts, Is, Second, Ahead,
           Consume, Room, Call, Accept, Exit, On, Make
<1>1. TableOK("Namespace", makeNamespace)
  <2>1. /\ Len(makeNamespace) = 13
        /\ \A s : Fresh("Namespace", s)
        /\ Rank("Namespace") = 2 /\ Rank("ExternC") = 0 /\ Rank("Method") = 1
        /\ Rank("StructDecl") = 0
    BY DEF makeNamespace, Fresh, Rank
  <2>2. /\ Row(makeNamespace[1], "need", 0, 0, 4)
        /\ Row(makeNamespace[2], "is", 0, 0, 4)
        /\ Row(makeNamespace[3], "consume", 1, 2, -1)
        /\ Row(makeNamespace[4], "need", 0, 0, 7)
        /\ Row(makeNamespace[5], "is", 0, 0, 7)
        /\ Row(makeNamespace[6], "call", "ExternC", 4, -2)
        /\ Row(makeNamespace[7], "need", 0, 0, 10)
        /\ Row(makeNamespace[8], "ahead", 0, 0, 10)
        /\ Row(makeNamespace[9], "call", "StructDecl", 7, -2)
        /\ Row(makeNamespace[10], "need", 0, 0, 13)
        /\ Row(makeNamespace[11], "ahead", 0, 0, 13)
        /\ Row(makeNamespace[12], "call", "Method", 10, -2)
        /\ Row(makeNamespace[13], "accept", 0, 0, -1)
    BY DEF Row, makeNamespace
  <2>3. /\ RowOK("Namespace", makeNamespace, 1) /\ RowOK("Namespace", makeNamespace, 2)
        /\ RowOK("Namespace", makeNamespace, 3) /\ RowOK("Namespace", makeNamespace, 4)
        /\ RowOK("Namespace", makeNamespace, 5) /\ RowOK("Namespace", makeNamespace, 6)
        /\ RowOK("Namespace", makeNamespace, 7) /\ RowOK("Namespace", makeNamespace, 8)
        /\ RowOK("Namespace", makeNamespace, 9) /\ RowOK("Namespace", makeNamespace, 10)
        /\ RowOK("Namespace", makeNamespace, 11) /\ RowOK("Namespace", makeNamespace, 12)
        /\ RowOK("Namespace", makeNamespace, 13)
    BY <2>1, <2>2 DEF Row, RowOK
  <2>4. QED
    BY <2>1, <2>3 DEF TableOK
<1>2. TableOK("ExternC", makeExternC)
  <2>1. /\ Len(makeExternC) = 7
        /\ \A s : Fresh("ExternC", s) <=> s <= 1
    BY DEF makeExternC, Fresh
  <2>2. /\ Row(makeExternC[1], "expect", 0, 0, -1)
        /\ Row(makeExternC[2], "is", 0, 0, 4)
        /\ Row(makeExternC[3], "call", "MethodDecl", 6, -2)
        /\ Row(makeExternC[4], "is", 0, 0, -2)
        /\ Row(makeExternC[5], "call", "StructDecl", 0, -2)
        /\ Row(makeExternC[6], "expect", 0, 0, -1)
        /\ Row(makeExternC[7], "accept", 0, 0, -1)
    BY DEF Row, makeExternC
  <2>3. /\ RowOK("ExternC", makeExternC, 1) /\ RowOK("ExternC", makeExternC, 2)
        /\ RowOK("ExternC", makeExternC, 3) /\ RowOK("ExternC", makeExternC, 4)
        /\ RowOK("ExternC", makeExternC, 5) /\ RowOK("ExternC", makeExternC, 6)
        /\ RowOK("ExternC", makeExternC, 7)
    BY <2>1, <2>2 DEF Row, RowOK
  <2>4. QED
    BY <2>1, <2>3 DEF TableOK
<1>3. TableOK("StructDecl", makeStructDecl)
  <2>1. /\ Len(makeStructDecl) = 11
        /\ \A s : Fresh("StructDecl", s) <=> (s <= 4 \/ s = 11)
    BY DEF makeStructDecl, Fresh
  <2>2. /\ Row(makeStructDecl[1], "annotations", 0, 0, -1)
        /\ Row(makeStructDecl[2], "need", 0, 0, 11)
        /\ Row(makeStructDecl[3], "is", 0, 0, -2)
        /\ Row(makeStructDecl[4], "consume", 1, 0, -1)
        /\ Row(makeStructDecl[5], "call", "SimpleType", 0, -2)
        /\ Row(makeStructDecl[6], "is", 0, 0, -2)
        /\ Row(makeStructDecl[7], "consume", 1, 0, -1)
        /\ Row(makeStructDecl[8], "call", "StructMember", 8, 9)
        /\ Row(makeStructDecl[9], "is", 0, 0, -2)
        /\ Row(makeStructDecl[10], "consume", 1, 0, -1)
        /\ Row(makeStructDecl[11], "accept", 0, 0, -1)
    BY DEF Row, makeStructDecl
  <2>3. /\ RowOK("StructDecl", makeStructDecl, 1) /\ RowOK("StructDecl", makeStructDecl, 2)
        /\ RowOK("StructDecl", makeStructDecl, 3) /\ RowOK("StructDecl", makeStructDecl, 4)
        /\ RowOK("StructDecl", makeStructDecl, 5) /\ RowOK("StructDecl", makeStructDecl, 6)
        /\ RowOK("StructDecl", makeStructDecl, 7) /\ RowOK("StructDecl", makeStructDecl, 8)
        /\ RowOK("StructDecl", makeStructDecl, 9) /\ RowOK("StructDecl", makeStructDecl, 10)
        /\ RowOK("StructDecl", makeStructDecl, 11)
    BY <2>1, <2>2 DEF Row, RowOK
  <2>4. QED
    BY <2>1, <2>3 DEF TableOK
<1>4. TableOK("StructMember", makeStructMember)
  <2>1. /\ Len(makeStructMember) = 6
        /\ \A s : Fresh("StructMember", s) <=> s <= 2
        /\ Rank("StructMember") = 4 /\ Rank("Type") = 3
    BY DEF makeStructMember, Fresh, Rank
  <2>2. /\ Row(makeStructMember[1], "annotations", 0, 0, -1)
        /\ Row(makeStructMember[2], "call", "Type", 0, -1)
        /\ Row(makeStructMember[3], "expect", 0, 0, -1)
        /\ Row(makeStructMember[4], "is", 0, 0, -1)
        /\ Row(makeStructMember[5], "consume", 1, 0, -1)
        /\ Row(makeStructMember[6], "accept", 0, 0, -1)
    BY DEF Row, makeStructMember
  <2>3. /\ RowOK("StructMember", makeStructMember, 1) /\ RowOK("StructMember", makeStructMember, 2)
        /\ RowOK("StructMember", makeStructMember, 3) /\ RowOK("StructMember", makeStructMember, 4)
        /\ RowOK("StructMember", makeStructMember, 5) /\ RowOK("StructMember", makeStructMember, 6)
    BY <2>1, <2>2 DEF Row, RowOK
  <2>4. QED
    BY <2>1, <2>3 DEF TableOK
<1>5. TableOK("Method", makeMethod)
  <2>1. /\ Len(makeMethod) = 4
        /\ \A s : Fresh("Method", s) <=> s <= 3
        /\ Rank("Method") = 1 /\ Rank("MethodDecl") = 0 /\ Rank("StmtBlock") = 0
    BY DEF makeMethod, Fresh, Rank
  <2>2. /\ Row(makeMethod[1], "annotations", 0, 0, -1)
        /\ Row(makeMethod[2], "call", "MethodDecl", 0, 3)
        /\ Row(makeMethod[3], "call", "StmtBlock", 0, -1)
        /\ Row(makeMethod[4], "accept", 0, 0, -1)
    BY DEF Row, makeMethod
  <2>3. /\ RowOK("Method", makeMethod, 1) /\ RowOK("Method", makeMethod, 2)
        /\ RowOK("Method", makeMethod, 3) /\ RowOK("Method", makeMethod, 4)
    BY <2>1, <2>2 DEF Row, RowOK
  <2>4. QED
    BY <2>1, <2>3 DEF TableOK
<1>6. TableOK("MethodDecl", makeMethodDecl)
  <2>1. /\ Len(makeMethodDecl) = 15
        /\ \A s : Fresh("MethodDecl", s) <=> s <= 2
    BY DEF makeMethodDecl, Fresh
  <2>2. /\ Row(makeMethodDecl[1], "annotations", 0, 0, -1)
        /\ Row(makeMethodDecl[2], "expect", 0, 0, -1)
        /\ Row(makeMethodDecl[3], "expect", 0, 0, -1)
        /\ Row(makeMethodDecl[4], "expect", 0, 0, -1)
        /\ Row(makeMethodDecl[5], "is", 0, 9, 6)
        /\ Row(makeMethodDecl[6], "call", "DeclArg", 0, -1)
        /\ Row(makeMethodDecl[7], "is", 0, 9, 8)
        /\ Row(makeMethodDecl[8], "expect", 0, 6, -1)
        /\ Row(makeMethodDecl[9], "expect", 0, 0, -1)
        /\ Row(makeMethodDecl[10], "is", 0, 0, -1)
        /\ Row(makeMethodDecl[11], "consume", 1, 0, -1)
        /\ Row(makeMethodDecl[12], "call", "Type", 0, -1)
        /\ Row(makeMethodDecl[13], "is", 0, 0, 15)
        /\ Row(makeMethodDecl[14], "consume", 1, 0, -1)
        /\ Row(makeMethodDecl[15], "accept", 0, 0, -1)
    BY DEF Row, makeMethodDecl
  <2>3. /\ RowOK("MethodDecl", makeMethodDecl, 1) /\ RowOK("MethodDecl", makeMethodDecl, 2)
        /\ RowOK("MethodDecl", makeMethodDecl, 3) /\ RowOK("MethodDecl", makeMethodDecl, 4)
        /\ RowOK("MethodDecl", makeMethodDecl, 5) /\ RowOK("MethodDecl", makeMethodDecl, 6)
        /\ RowOK("MethodDecl", makeMethodDecl, 7) /\ RowOK("MethodDecl", makeMethodDecl, 8)
        /\ RowOK("MethodDecl", makeMethodDecl, 9) /\ RowOK("MethodDecl", makeMethodDecl, 10)
        /\ RowOK("MethodDecl", makeMethodDecl, 11) /\ RowOK("MethodDecl", makeMethodDecl, 12)
        /\ RowOK("MethodDecl", makeMethodDecl, 13) /\ RowOK("MethodDecl", makeMethodDecl, 14)
        /\ RowOK("MethodDecl", makeMethodDecl, 15)
    BY <2>1, <2>2 DEF Row, RowOK
  <2>4. QED
    BY <2>1, <2>3 DEF TableOK
<1>7. TableOK("DeclArg", makeDeclArg)
  <2>1. /\ Len(makeDeclArg) = 4
        /\ \A s : Fresh("DeclArg", s) <=> s <= 2
        /\ Rank("DeclArg") = 4 /\ Rank("Type") = 3
    BY DEF makeDeclArg, Fresh, Rank
  <2>2. /\ Row(makeDeclArg[1], "annotations", 0, 0, -1)
        /\ Row(makeDeclArg[2], "call", "Type", 0, -1)
        /\ Row(makeDeclArg[3], "expect", 0, 0, -4)
        /\ Row(makeDeclArg[4], "accept", 0, 0, -1)
    BY DEF Row, makeDeclArg
  <2>3. /\ RowOK("DeclArg", makeDeclArg, 1) /\ RowOK("DeclArg", makeDeclArg, 2)
        /\ RowOK("DeclArg", makeDeclArg, 3) /\ RowOK("DeclArg", makeDeclArg, 4)
    BY <2>1, <2>2 DEF Row, RowOK
  <2>4. QED
    BY <2>1, <2>3 DEF TableOK
<1>8. TableOK("Type", makeType2)
  <2>1. /\ Len(makeType2) = 5
        /\ \A s : Fresh("Type", s) <=> s <= 4
        /\ Rank("Type") = 3 /\ Rank("ArrayType") = 0 /\ Rank("BasicType") = 2
        /\ Rank("TypeParam") = 0
    BY DEF makeType2, Fresh, Rank
  <2>2. /\ Row(makeType2[1], "annotations", 0, 0, -1)
        /\ Row(makeType2[2], "call", "ArrayType", 5, 3)
        /\ Row(makeType2[3], "call", "TypeParam", 5, 4)
        /\ Row(makeType2[4], "call", "BasicType", 0, -1)
        /\ Row(makeType2[5], "accept", 0, 0, -1)
    BY DEF Row, makeType2
  <2>3. /\ RowOK("Type", makeType2, 1) /\ RowOK("Type", makeType2, 2)
        /\ RowOK("Type", makeType2, 3) /\ RowOK("Type", makeType2, 4)
        /\ RowOK("Type", makeType2, 5)
    BY <2>1, <2>2 DEF Row, RowOK
  <2>4. QED
    BY <2>1, <2>3 DEF TableOK
<1>9. TableOK("ArrayType", makeArrayType2)
  <2>1. /\ Len(makeArrayType2) = 5
        /\ \A s : Fresh("ArrayType", s) <=> s <= 2
    BY DEF makeArrayType2, Fresh
  <2>2. /\ Row(makeArrayType2[1], "annotations", 0, 0, -1)
        /\ Row(makeArrayType2[2], "expect", 0, 0, -1)
        /\ Row(makeArrayType2[3], "call", "Type", 0, -1)
        /\ Row(makeArrayType2[4], "expect", 0, 0, -1)
        /\ Row(makeArrayType2[5], "accept", 0, 0, -1)
    BY DEF Row, makeArrayType2
  <2>3. /\ RowOK("ArrayType", makeArrayType2, 1) /\ RowOK("ArrayType", makeArrayType2, 2)
        /\ RowOK("ArrayType", makeArrayType2, 3) /\ RowOK("ArrayType", makeArrayType2, 4)
        /\ RowOK("ArrayType", makeArrayType2, 5)
    BY <2>1, <2>2 DEF Row, RowOK
  <2>4. QED
    BY <2>1, <2>3 DEF TableOK
<1>10. TableOK("TypeParam", makeTypeParam)
  <2>1. /\ Len(makeTypeParam) = 5
        /\ \A s : Fresh("TypeParam", s) <=> s <= 4
    BY DEF makeTypeParam, Fresh
  <2>2. /\ Row(makeTypeParam[1], "need", 0, 0, -1)
        /\ Row(makeTypeParam[2], "annotations", 0, 0, -1)
        /\ Row(makeTypeParam[3], "is", 0, 0, -1)
        /\ Row(makeTypeParam[4], "consume", 1, 0, -1)
        /\ Row(makeTypeParam[5], "accept", 0, 0, -1)
    BY DEF Row, makeTypeParam
  <2>3. /\ RowOK("TypeParam", makeTypeParam, 1) /\ RowOK("TypeParam", makeTypeParam, 2)
        /\ RowOK("TypeParam", makeTypeParam, 3) /\ RowOK("TypeParam", makeTypeParam, 4)
        /\ RowOK("TypeParam", makeTypeParam, 5)
    BY <2>1, <2>2 DEF Row, RowOK
  <2>4. QED
    BY <2>1, <2>3 DEF TableOK
<1>11. TableOK("BasicType", makeBasicType2)
  <2>1. /\ Len(makeBasicType2) = 8
        /\ \A s : Fresh("BasicType", s) <=> (s <= 4 \/ s = 7)
        /\ Rank("BasicType") = 2 /\ Rank("SimpleType") = 1
    BY DEF makeBasicType2, Fresh, Rank
  <2>2. /\ Row(makeBasicType2[1], "annotations", 0, 0, -1)
        /\ Row(makeBasicType2[2], "need", 0, 0, -1)
        /\ Row(makeBasicType2[3], "starts", 0, 0, 7)
        /\ Row(makeBasicType2[4], "expect", 0, 0, -1)
        /\ Row(makeBasicType2[5], "call", "SubrType", 0, -1)
        /\ Row(makeBasicType2[6], "expect", 0, 8, -1)
        /\ Row(makeBasicType2[7], "call", "SimpleType", 0, -1)
        /\ Row(makeBasicType2[8], "accept", 0, 0, -1)
    BY DEF Row, makeBasicType2
  <2>3. /\ RowOK("BasicType", makeBasicType2, 1) /\ RowOK("BasicType", makeBasicType2, 2)
        /\ RowOK("BasicType", makeBasicType2, 3) /\ RowOK("BasicType", makeBasicType2, 4)
        /\ RowOK("BasicType", makeBasicType2, 5) /\ RowOK("BasicType", makeBasicType2, 6)
        /\ RowOK("BasicType", makeBasicType2, 7) /\ RowOK("BasicType", makeBasicType2, 8)
    BY <2>1, <2>2 DEF Row, RowOK
  <2>4. QED
    BY <2>1, <2>3 DEF TableOK
<1>12. TableOK("SimpleType", makeSimpleType)
  <2>1. /\ Len(makeSimpleType) = 7
        /\ \A s : Fresh("SimpleType", s) <=> s <= 6
        /\ Rank("SimpleType") = 1 /\ Rank("PrimitiveType") = 0 /\ Rank("StructType") = 0
    BY DEF makeSimpleType, Fresh, Rank
  <2>2. /\ Row(makeSimpleType[1], "need", 0, 0, -1)
        /\ Row(makeSimpleType[2], "annotations", 0, 0, -1)
        /\ Row(makeSimpleType[3], "is", 0, 0, 5)
        /\ Row(makeSimpleType[4], "call", "PrimitiveType", 7, -1)
        /\ Row(makeSimpleType[5], "is", 0, 0, -1)
        /\ Row(makeSimpleType[6], "call", "StructType", 0, -1)
        /\ Row(makeSimpleType[7], "accept", 0, 0, -1)
    BY DEF Row, makeSimpleType
  <2>3. /\ RowOK("SimpleType", makeSimpleType, 1) /\ RowOK("SimpleType", makeSimpleType, 2)
        /\ RowOK("SimpleType", makeSimpleType, 3) /\ RowOK("SimpleType", makeSimpleType, 4)
        /\ RowOK("SimpleType", makeSimpleType, 5) /\ RowOK("SimpleType", makeSimpleType, 6)
        /\ RowOK("SimpleType", makeSimpleType, 7)
    BY <2>1, <2>2 DEF Row, RowOK
  <2>4. QED
    BY <2>1, <2>3 DEF TableOK
<1>13. TableOK("PrimitiveType", makePrimitiveType)
  <2>1. /\ Len(makePrimitiveType) = 3
        /\ \A s : Fresh("PrimitiveType", s) <=> s <= 2
    BY DEF makePrimitiveType, Fresh
  <2>2. /\ Row(makePrimitiveType[1], "annotations", 0, 0, -1)
        /\ Row(makePrimitiveType[2], "consume", 1, 0, -1)
        /\ Row(makePrimitiveType[3], "accept", 0, 0, -1)
    BY DEF Row, makePrimitiveType
  <2>3. /\ RowOK("PrimitiveType", makePrimitiveType, 1) /\ RowOK("PrimitiveType", makePrimitiveType, 2)
        /\ RowOK("PrimitiveType", makePrimitiveType, 3)
    BY <2>1, <2>2 DEF Row, RowOK
  <2>4. QED
    BY <2>1, <2>3 DEF TableOK
<1>14. TableOK("StructType", makeStructType)
  <2>1. /\ Len(makeStructType) = 13
        /\ \A s : Fresh("StructType", s) <=> s <= 3
    BY DEF makeStructType, Fresh
  <2>2. /\ Row(makeStructType[1], "annotations", 0, 0, -1)
        /\ Row(makeStructType[2], "is", 0, 0, -2)
        /\ Row(makeStructType[3], "consume", 1, 0, -1)
        /\ Row(makeStructType[4], "need", 0, 0, 13)
        /\ Row(makeStructType[5], "is", 0, 0, 13)
        /\ Row(makeStructType[6], "consume", 1, 0, -1)
        /\ Row(makeStructType[7], "is", 0, 0, -2)
        /\ Row(makeStructType[8], "consume", 1, 0, -1)
        /\ Row(makeStructType[9], "is", 0, 0, 11)
        /\ Row(makeStructType[10], "exit", 0, 0, -1)
        /\ Row(makeStructType[11], "is", 0, 0, -2)
        /\ Row(makeStructType[12], "consume", 1, 0, -1)
        /\ Row(makeStructType[13], "accept", 0, 0, -1)
    BY DEF Row, makeStructType
  <2>3. /\ RowOK("StructType", makeStructType, 1) /\ RowOK("StructType", makeStructType, 2)
        /\ RowOK("StructType", makeStructType, 3) /\ RowOK("StructType", makeStructType, 4)
        /\ RowOK("StructType", makeStructType, 5) /\ RowOK("StructType", makeStructType, 6)
        /\ RowOK("StructType", makeStructType, 7) /\ RowOK("StructType", makeStructType, 8)
        /\ RowOK("StructType", makeStructType, 9) /\ RowOK("StructType", makeStructType, 10)
        /\ RowOK("StructType", makeStructType, 11) /\ RowOK("StructType", makeStructType, 12)
        /\ RowOK("StructType", makeStructType, 13)
    BY <2>1, <2>2 DEF Row, RowOK
  <2>4. QED
    BY <2>1, <2>3 DEF TableOK
<1>15. TableOK("SubrType", makeSubrType)
  <2>1. /\ Len(makeSubrType) = 12
        /\ \A s : Fresh("SubrType", s) <=> s <= 2
    BY DEF makeSubrType, Fresh
  <2>2. /\ Row(makeSubrType[1], "annotations", 0, 0, -1)
        /\ Row(makeSubrType[2], "expect", 0, 0, -1)
        /\ Row(makeSubrType[3], "call", "Type", 0, 6)
        /\ Row(makeSubrType[4], "starts", 0, 0, 6)
        /\ Row(makeSubrType[5], "call", "NextArgType", 4, 4)
        /\ Row(makeSubrType[6], "expect", 0, 0, -1)
        /\ Row(makeSubrType[7], "is", 0, 0, -1)
        /\ Row(makeSubrType[8], "consume", 1, 0, -1)
        /\ Row(makeSubrType[9], "call", "Type", 0, -1)
        /\ Row(makeSubrType[10], "is", 0, 0, 12)
        /\ Row(makeSubrType[11], "consume", 1, 0, -1)
        /\ Row(makeSubrType[12], "accept", 0, 0, -1)
    BY DEF Row, makeSubrType
  <2>3. /\ RowOK("SubrType", makeSubrType, 1) /\ RowOK("SubrType", makeSubrType, 2)
        /\ RowOK("SubrType", makeSubrType, 3) /\ RowOK("SubrType", makeSubrType, 4)
        /\ RowOK("SubrType", makeSubrType, 5) /\ RowOK("SubrType", makeSubrType, 6)
        /\ RowOK("SubrType", makeSubrType, 7) /\ RowOK("SubrType", makeSubrType, 8)
        /\ RowOK("SubrType", makeSubrType, 9) /\ RowOK("SubrType", makeSubrType, 10)
        /\ RowOK("SubrType", makeSubrType, 11) /\ RowOK("SubrType", makeSubrType, 12)
    BY <2>1, <2>2 DEF Row, RowOK
  <2>4. QED
    BY <2>1, <2>3 DEF TableOK
<1>16. TableOK("NextArgType", NextArgType)
  <2>1. /\ Len(NextArgType) = 3
        /\ \A s : Fresh("NextArgType", s) <=> s <= 1
    BY DEF NextArgType, Fresh
  <2>2. /\ Row(NextArgType[1], "expect", 0, 0, -1)
        /\ Row(NextArgType[2], "call", "Type", 0, -1)
        /\ Row(NextArgType[3], "accept", 0, 0, -1)
    BY DEF Row, NextArgType
  <2>3. /\ RowOK("NextArgType", NextArgType, 1) /\ RowOK("NextArgType", NextArgType, 2)
        /\ RowOK("NextArgType", NextArgType, 3)
    BY <2>1, <2>2 DEF Row, RowOK
  <2>4. QED
    BY <2>1, <2>3 DEF TableOK
<1>17. TableOK("StmtBlock", makeStmtBlock)
  <2>1. /\ Len(makeStmtBlock) = 6
        /\ \A s : Fresh("StmtBlock", s) <=> s <= 2
    BY DEF makeStmtBlock, Fresh
  <2>2. /\ Row(makeStmtBlock[1], "need", 0, 0, -1)
        /\ Row(makeStmtBlock[2], "expect", 0, 0, -1)
        /\ Row(makeStmtBlock[3], "is", 0, 5, 4)
        /\ Row(makeStmtBlock[4], "call", "Stmt", 3, -1)
        /\ Row(makeStmtBlock[5], "expect", 0, 0, -1)
        /\ Row(makeStmtBlock[6], "accept", 0, 0, -1)
    BY DEF Row, makeStmtBlock
  <2>3. /\ RowOK("StmtBlock", makeStmtBlock, 1) /\ RowOK("StmtBlock", makeStmtBlock, 2)
        /\ RowOK("StmtBlock", makeStmtBlock, 3) /\ RowOK("StmtBlock", makeStmtBlock, 4)
        /\ RowOK("StmtBlock", makeStmtBlock, 5) /\ RowOK("StmtBlock", makeStmtBlock, 6)
    BY <2>1, <2>2 DEF Row, RowOK
  <2>4. QED
    BY <2>1, <2>3 DEF TableOK
<1>18. TableOK("Stmt", makeStmt)
  <2>1. /\ Len(makeStmt) = 22
        /\ \A s : Fresh("Stmt", s) <=> s <= 20
        /\ Rank("Stmt") = 5 /\ Rank("AssignStmt") = 4 /\ Rank("Call") = 0
        /\ Rank("ForStmt") = 0 /\ Rank("IfStmt") = 0 /\ Rank("LoopStmt") = 0
        /\ Rank("RetStmt") = 0 /\ Rank("SwitchStmt") = 0 /\ Rank("TryCatchStmt") = 0
        /\ Rank("WhileStmt") = 0
    BY DEF makeStmt, Fresh, Rank
  <2>2. /\ Row(makeStmt[1], "need", 0, 0, -1)
        /\ Row(makeStmt[2], "annotations", 0, 0, -1)
        /\ Row(makeStmt[3], "is", 0, 0, 5)
        /\ Row(makeStmt[4], "consume", 2, 22, -1)
        /\ Row(makeStmt[5], "is", 0, 0, 7)
        /\ Row(makeStmt[6], "call", "ForStmt", 22, -2)
        /\ Row(makeStmt[7], "is", 0, 0, 9)
        /\ Row(makeStmt[8], "call", "LoopStmt", 22, -2)
        /\ Row(makeStmt[9], "is", 0, 0, 11)
        /\ Row(makeStmt[10], "call", "WhileStmt", 22, -2)
        /\ Row(makeStmt[11], "is", 0, 0, 13)
        /\ Row(makeStmt[12], "call", "IfStmt", 22, -2)
        /\ Row(makeStmt[13], "is", 0, 0, 15)
        /\ Row(makeStmt[14], "call", "RetStmt", 22, -2)
        /\ Row(makeStmt[15], "is", 0, 0, 17)
        /\ Row(makeStmt[16], "call", "SwitchStmt", 22, -2)
        /\ Row(makeStmt[17], "is", 0, 0, 19)
        /\ Row(makeStmt[18], "call", "TryCatchStmt", 22, -2)
        /\ Row(makeStmt[19], "call", "AssignStmt", 22, 20)
        /\ Row(makeStmt[20], "call", "Call", 0, -2)
        /\ Row(makeStmt[21], "expect", 0, 0, -2)
        /\ Row(makeStmt[22], "accept", 0, 0, -1)
    BY ZenonT(60) DEF Row, makeStmt
  <2>3. /\ RowOK("Stmt", makeStmt, 1) /\ RowOK("Stmt", makeStmt, 2)
        /\ RowOK("Stmt", makeStmt, 3) /\ RowOK("Stmt", makeStmt, 4)
        /\ RowOK("Stmt", makeStmt, 5) /\ RowOK("Stmt", makeStmt, 6)
        /\ RowOK("Stmt", makeStmt, 7) /\ RowOK("Stmt", makeStmt, 8)
        /\ RowOK("Stmt", makeStmt, 9) /\ RowOK("Stmt", makeStmt, 10)
    BY <2>1, <2>2 DEF Row, RowOK
  <2>4. /\ RowOK("Stmt", makeStmt, 11) /\ RowOK("Stmt", makeStmt, 12)
        /\ RowOK("Stmt", makeStmt, 13) /\ RowOK("Stmt", makeStmt, 14)
        /\ RowOK("Stmt", makeStmt, 15) /\ RowOK("Stmt", makeStmt, 16)
        /\ RowOK("Stmt", makeStmt, 17) /\ RowOK("Stmt", makeStmt, 18)
        /\ RowOK("Stmt", makeStmt, 19) /\ RowOK("Stmt", makeStmt, 20)
        /\ RowOK("Stmt", makeStmt, 21) /\ RowOK("Stmt", makeStmt, 22)
    BY <2>1, <2>2 DEF Row, RowOK
  <2>5. QED
    BY <2>1, <2>3, <2>4 DEF TableOK
<1>19. TableOK("AssignStmt", makeAssignStmt)
  <2>1. /\ Len(makeAssignStmt) = 8
        /\ \A s : Fresh("AssignStmt", s) <=> s <= 3
        /\ Rank("AssignStmt") = 4 /\ Rank("Type") = 3 /\ Rank("Variable") = 1
    BY DEF makeAssignStmt, Fresh, Rank
  <2>2. /\ Row(makeAssignStmt[1], "annotations", 0, 0, -1)
        /\ Row(makeAssignStmt[2], "call", "Type", 0, 3)
        /\ Row(makeAssignStmt[3], "call", "Variable", 0, -1)
        /\ Row(makeAssignStmt[4], "is", 0, 0, -1)
        /\ Row(makeAssignStmt[5], "consume", 1, 0, -1)
        /\ Row(makeAssignStmt[6], "call", "Expr", 0, -1)
        /\ Row(makeAssignStmt[7], "expect", 0, 0, -1)
        /\ Row(makeAssignStmt[8], "accept", 0, 0, -1)
    BY DEF Row, makeAssignStmt
  <2>3. /\ RowOK("AssignStmt", makeAssignStmt, 1) /\ RowOK("AssignStmt", makeAssignStmt, 2)
        /\ RowOK("AssignStmt", makeAssignStmt, 3) /\ RowOK("AssignStmt", makeAssignStmt, 4)
        /\ RowOK("AssignStmt", makeAssignStmt, 5) /\ RowOK("AssignStmt", makeAssignStmt, 6)
        /\ RowOK("AssignStmt", makeAssignStmt, 7) /\ RowOK("AssignStmt", makeAssignStmt, 8)
    BY <2>1, <2>2 DEF Row, RowOK
  <2>4. QED
    BY <2>1, <2>3 DEF TableOK
<1>20. TableOK("IfStmt", makeIfStmt)
  <2>1. /\ Len(makeIfStmt) = 8
        /\ \A s : Fresh("IfStmt", s) <=> s <= 3
    BY DEF makeIfStmt, Fresh
  <2>2. /\ Row(makeIfStmt[1], "need", 0, 0, -1)
        /\ Row(makeIfStmt[2], "annotations", 0, 0, -1)
        /\ Row(makeIfStmt[3], "expect", 0, 0, -1)
        /\ Row(makeIfStmt[4], "call", "Expr", 0, -1)
        /\ Row(makeIfStmt[5], "call", "StmtBlock", 0, -1)
        /\ Row(makeIfStmt[6], "expect", 0, 0, 8)
        /\ Row(makeIfStmt[7], "call", "StmtBlock", 0, -1)
        /\ Row(makeIfStmt[8], "accept", 0, 0, -1)
    BY DEF Row, makeIfStmt
  <2>3. /\ RowOK("IfStmt", makeIfStmt, 1) /\ RowOK("IfStmt", makeIfStmt, 2)
        /\ RowOK("IfStmt", makeIfStmt, 3) /\ RowOK("IfStmt", makeIfStmt, 4)
        /\ RowOK("IfStmt", makeIfStmt, 5) /\ RowOK("IfStmt", makeIfStmt, 6)
        /\ RowOK("IfStmt", makeIfStmt, 7) /\ RowOK("IfStmt", makeIfStmt, 8)
    BY <2>1, <2>2 DEF Row, RowOK
  <2>4. QED
    BY <2>1, <2>3 DEF TableOK
<1>21. TableOK("WhileStmt", makeWhileStmt)
  <2>1. /\ Len(makeWhileStmt) = 5
        /\ \A s : Fresh("WhileStmt", s) <=> s <= 2
    BY DEF makeWhileStmt, Fresh
  <2>2. /\ Row(makeWhileStmt[1], "annotations", 0, 0, -1)
        /\ Row(makeWhileStmt[2], "expect", 0, 0, -2)
        /\ Row(makeWhileStmt[3], "call", "Expr", 0, -1)
        /\ Row(makeWhileStmt[4], "call", "StmtBlock", 0, -1)
        /\ Row(makeWhileStmt[5], "accept", 0, 0, -1)
    BY DEF Row, makeWhileStmt
  <2>3. /\ RowOK("WhileStmt", makeWhileStmt, 1) /\ RowOK("WhileStmt", makeWhileStmt, 2)
        /\ RowOK("WhileStmt", makeWhileStmt, 3) /\ RowOK("WhileStmt", makeWhileStmt, 4)
        /\ RowOK("WhileStmt", makeWhileStmt, 5)
    BY <2>1, <2>2 DEF Row, RowOK
  <2>4. QED
    BY <2>1, <2>3 DEF TableOK
<1>22. TableOK("LoopStmt", makeLoopStmt)
  <2>1. /\ Len(makeLoopStmt) = 6
        /\ \A s : Fresh("LoopStmt", s) <=> s <= 3
    BY DEF makeLoopStmt, Fresh
  <2>2. /\ Row(makeLoopStmt[1], "need", 0, 0, -1)
        /\ Row(makeLoopStmt[2], "annotations", 0, 0, -1)
        /\ Row(makeLoopStmt[3], "expect", 0, 0, -1)
        /\ Row(makeLoopStmt[4], "call", "Expr", 0, -1)
        /\ Row(makeLoopStmt[5], "call", "StmtBlock", 0, -1)
        /\ Row(makeLoopStmt[6], "accept", 0, 0, -1)
    BY DEF Row, makeLoopStmt
  <2>3. /\ RowOK("LoopStmt", makeLoopStmt, 1) /\ RowOK("LoopStmt", makeLoopStmt, 2)
        /\ RowOK("LoopStmt", makeLoopStmt, 3) /\ RowOK("LoopStmt", makeLoopStmt, 4)
        /\ RowOK("LoopStmt", makeLoopStmt, 5) /\ RowOK("LoopStmt", makeLoopStmt, 6)
    BY <2>1, <2>2 DEF Row, RowOK
  <2>4. QED
    BY <2>1, <2>3 DEF TableOK
<1>23. TableOK("ForStmt", makeForStmt)
  <2>1. /\ Len(makeForStmt) = 9
        /\ \A s : Fresh("ForStmt", s) <=> s <= 2
    BY DEF makeForStmt, Fresh
  <2>2. /\ Row(makeForStmt[1], "need", 0, 0, -1)
        /\ Row(makeForStmt[2], "expect", 0, 0, -1)
        /\ Row(makeForStmt[3], "is", 0, 0, -1)
        /\ Row(makeForStmt[4], "consume", 1, 0, -1)
        /\ Row(makeForStmt[5], "annotations", 0, 0, -1)
        /\ Row(makeForStmt[6], "expect", 0, 0, -1)
        /\ Row(makeForStmt[7], "call", "Range", 0, -1)
        /\ Row(makeForStmt[8], "call", "StmtBlock", 0, -1)
        /\ Row(makeForStmt[9], "accept", 0, 0, -1)
    BY DEF Row, makeForStmt
  <2>3. /\ RowOK("ForStmt", makeForStmt, 1) /\ RowOK("ForStmt", makeForStmt, 2)
        /\ RowOK("ForStmt", makeForStmt, 3) /\ RowOK("ForStmt", makeForStmt, 4)
        /\ RowOK("ForStmt", makeForStmt, 5) /\ RowOK("ForStmt", makeForStmt, 6)
        /\ RowOK("ForStmt", makeForStmt, 7) /\ RowOK("ForStmt", makeForStmt, 8)
        /\ RowOK("ForStmt", makeForStmt, 9)
    BY <2>1, <2>2 DEF Row, RowOK
  <2>4. QED
    BY <2>1, <2>3 DEF TableOK
<1>24. TableOK("Range", makeRange)
  <2>1. /\ Len(makeRange) = 5
        /\ \A s : Fresh("Range", s) <=> s <= 2
        /\ Rank("Range") = 5 /\ Rank("Expr") = 4
    BY DEF makeRange, Fresh, Rank
  <2>2. /\ Row(makeRange[1], "need", 0, 0, -1)
        /\ Row(makeRange[2], "call", "Expr", 0, -1)
        /\ Row(makeRange[3], "expect", 0, 0, -3)
        /\ Row(makeRange[4], "call", "Expr", 0, -1)
        /\ Row(makeRange[5], "accept", 0, 0, -1)
    BY DEF Row, makeRange
  <2>3. /\ RowOK("Range", makeRange, 1) /\ RowOK("Range", makeRange, 2)
        /\ RowOK("Range", makeRange, 3) /\ RowOK("Range", makeRange, 4)
        /\ RowOK("Range", makeRange, 5)
    BY <2>1, <2>2 DEF Row, RowOK
  <2>4. QED
    BY <2>1, <2>3 DEF TableOK
<1>25. TableOK("SwitchStmt", makeSwitchStmt)
  <2>1. /\ Len(makeSwitchStmt) = 8
        /\ \A s : Fresh("SwitchStmt", s) <=> s <= 2
    BY DEF makeSwitchStmt, Fresh
  <2>2. /\ Row(makeSwitchStmt[1], "annotations", 0, 0, -1)
        /\ Row(makeSwitchStmt[2], "expect", 0, 0, -2)
        /\ Row(makeSwitchStmt[3], "call", "Expr", 0, -1)
        /\ Row(makeSwitchStmt[4], "expect", 0, 0, -2)
        /\ Row(makeSwitchStmt[5], "is", 0, 0, 7)
        /\ Row(makeSwitchStmt[6], "call", "CaseStmt", 5, -2)
        /\ Row(makeSwitchStmt[7], "expect", 0, 0, -2)
        /\ Row(makeSwitchStmt[8], "accept", 0, 0, -1)
    BY DEF Row, makeSwitchStmt
  <2>3. /\ RowOK("SwitchStmt", makeSwitchStmt, 1) /\ RowOK("SwitchStmt", makeSwitchStmt, 2)
        /\ RowOK("SwitchStmt", makeSwitchStmt, 3) /\ RowOK("SwitchStmt", makeSwitchStmt, 4)
        /\ RowOK("SwitchStmt", makeSwitchStmt, 5) /\ RowOK("SwitchStmt", makeSwitchStmt, 6)
        /\ RowOK("SwitchStmt", makeSwitchStmt, 7) /\ RowOK("SwitchStmt", makeSwitchStmt, 8)
    BY <2>1, <2>2 DEF Row, RowOK
  <2>4. QED
    BY <2>1, <2>3 DEF TableOK
<1>26. TableOK("CaseStmt", makeCaseStmt)
  <2>1. /\ Len(makeCaseStmt) = 6
        /\ \A s : Fresh("CaseStmt", s) <=> s <= 2
    BY DEF makeCaseStmt, Fresh
  <2>2. /\ Row(makeCaseStmt[1], "need", 0, 0, -1)
        /\ Row(makeCaseStmt[2], "expect", 0, 0, -1)
        /\ Row(makeCaseStmt[3], "annotations", 0, 0, -1)
        /\ Row(makeCaseStmt[4], "call", "ConstValue", 0, -2)
        /\ Row(makeCaseStmt[5], "call", "StmtBlock", 0, 6)
        /\ Row(makeCaseStmt[6], "accept", 0, 0, -1)
    BY DEF Row, makeCaseStmt
  <2>3. /\ RowOK("CaseStmt", makeCaseStmt, 1) /\ RowOK("CaseStmt", makeCaseStmt, 2)
        /\ RowOK("CaseStmt", makeCaseStmt, 3) /\ RowOK("CaseStmt", makeCaseStmt, 4)
        /\ RowOK("CaseStmt", makeCaseStmt, 5) /\ RowOK("CaseStmt", makeCaseStmt, 6)
    BY <2>1, <2>2 DEF Row, RowOK
  <2>4. QED
    BY <2>1, <2>3 DEF TableOK
<1>27. TableOK("TryCatchStmt", makeTryCatchStmt)
  <2>1. /\ Len(makeTryCatchStmt) = 7
        /\ \A s : Fresh("TryCatchStmt", s) <=> s <= 3
    BY DEF makeTryCatchStmt, Fresh
  <2>2. /\ Row(makeTryCatchStmt[1], "need", 0, 0, -1)
        /\ Row(makeTryCatchStmt[2], "annotations", 0, 0, -1)
        /\ Row(makeTryCatchStmt[3], "expect", 0, 0, -2)
        /\ Row(makeTryCatchStmt[4], "call", "StmtBlock", 0, -2)
        /\ Row(makeTryCatchStmt[5], "expect", 0, 0, -2)
        /\ Row(makeTryCatchStmt[6], "call", "StmtBlock", 0, -2)
        /\ Row(makeTryCatchStmt[7], "accept", 0, 0, -1)
    BY DEF Row, makeTryCatchStmt
  <2>3. /\ RowOK("TryCatchStmt", makeTryCatchStmt, 1) /\ RowOK("TryCatchStmt", makeTryCatchStmt, 2)
        /\ RowOK("TryCatchStmt", makeTryCatchStmt, 3) /\ RowOK("TryCatchStmt", makeTryCatchStmt, 4)
        /\ RowOK("TryCatchStmt", makeTryCatchStmt, 5) /\ RowOK("TryCatchStmt", makeTryCatchStmt, 6)
        /\ RowOK("TryCatchStmt", makeTryCatchStmt, 7)
    BY <2>1, <2>2 DEF Row, RowOK
  <2>4. QED
    BY <2>1, <2>3 DEF TableOK
<1>28. TableOK("RetStmt", makeRetStmt)
  <2>1. /\ Len(makeRetStmt) = 5
        /\ \A s : Fresh("RetStmt", s) <=> s <= 2
    BY DEF makeRetStmt, Fresh
  <2>2. /\ Row(makeRetStmt[1], "annotations", 0, 0, -1)
        /\ Row(makeRetStmt[2], "expect", 0, 0, -1)
        /\ Row(makeRetStmt[3], "call", "Expr", 0, -1)
        /\ Row(makeRetStmt[4], "expect", 0, 0, -1)
        /\ Row(makeRetStmt[5], "accept", 0, 0, -1)
    BY DEF Row, makeRetStmt
  <2>3. /\ RowOK("RetStmt", makeRetStmt, 1) /\ RowOK("RetStmt", makeRetStmt, 2)
        /\ RowOK("RetStmt", makeRetStmt, 3) /\ RowOK("RetStmt", makeRetStmt, 4)
        /\ RowOK("RetStmt", makeRetStmt, 5)
    BY <2>1, <2>2 DEF Row, RowOK
  <2>4. QED
    BY <2>1, <2>3 DEF TableOK
<1>29. TableOK("Call", makeCall)
  <2>1. /\ Len(makeCall) = 12
        /\ \A s : Fresh("Call", s) <=> s <= 3
    BY DEF makeCall, Fresh
  <2>2. /\ Row(makeCall[1], "need", 0, 0, -1)
        /\ Row(makeCall[2], "annotations", 0, 0, -1)
        /\ Row(makeCall[3], "expect", 0, 0, -1)
        /\ Row(makeCall[4], "need", 0, 0, -1)
        /\ Row(makeCall[5], "expect", 0, 0, -1)
        /\ Row(makeCall[6], "need", 0, 0, -1)
        /\ Row(makeCall[7], "is", 0, 11, 8)
        /\ Row(makeCall[8], "call", "Expr", 0, -1)
        /\ Row(makeCall[9], "is", 0, 11, 10)
        /\ Row(makeCall[10], "expect", 0, 8, -1)
        /\ Row(makeCall[11], "expect", 0, 0, -1)
        /\ Row(makeCall[12], "accept", 0, 0, -1)
    BY DEF Row, makeCall
  <2>3. /\ RowOK("Call", makeCall, 1) /\ RowOK("Call", makeCall, 2)
        /\ RowOK("Call", makeCall, 3) /\ RowOK("Call", makeCall, 4)
        /\ RowOK("Call", makeCall, 5) /\ RowOK("Call", makeCall, 6)
        /\ RowOK("Call", makeCall, 7) /\ RowOK("Call", makeCall, 8)
        /\ RowOK("Call", makeCall, 9) /\ RowOK("Call", makeCall, 10)
        /\ RowOK("Call", makeCall, 11) /\ RowOK("Call", makeCall, 12)
    BY <2>1, <2>2 DEF Row, RowOK
  <2>4. QED
    BY <2>1, <2>3 DEF TableOK
<1>30. TableOK("Expr", makeExpr)
  <2>1. /\ Len(makeExpr) = 4
        /\ \A s : Fresh("Expr", s) <=> s <= 1
        /\ Rank("Expr") = 4 /\ Rank("UnOpTerm") = 3
    BY DEF makeExpr, Fresh, Rank
  <2>2. /\ Row(makeExpr[1], "call", "UnOpTerm", 0, -1)
        /\ Row(makeExpr[2], "need", 0, 0, 4)
        /\ Row(makeExpr[3], "call", "OpTerm", 2, 4)
        /\ Row(makeExpr[4], "accept", 0, 0, -1)
    BY DEF Row, makeExpr
  <2>3. /\ RowOK("Expr", makeExpr, 1) /\ RowOK("Expr", makeExpr, 2)
        /\ RowOK("Expr", makeExpr, 3) /\ RowOK("Expr", makeExpr, 4)
    BY <2>1, <2>2 DEF Row, RowOK
  <2>4. QED
    BY <2>1, <2>3 DEF TableOK
<1>31. TableOK("OpTerm", OpTerm)
  <2>1. /\ Len(OpTerm) = 3
        /\ \A s : Fresh("OpTerm", s) <=> s <= 1
        /\ Rank("OpTerm") = 1 /\ Rank("Op") = 0
    BY DEF OpTerm, Fresh, Rank
  <2>2. /\ Row(OpTerm[1], "call", "Op", 0, -1)
        /\ Row(OpTerm[2], "call", "UnOpTerm", 0, -1)
        /\ Row(OpTerm[3], "accept", 0, 0, -1)
    BY DEF Row, OpTerm
  <2>3. /\ RowOK("OpTerm", OpTerm, 1) /\ RowOK("OpTerm", OpTerm, 2)
        /\ RowOK("OpTerm", OpTerm, 3)
    BY <2>1, <2>2 DEF Row, RowOK
  <2>4. QED
    BY <2>1, <2>3 DEF TableOK
<1>32. TableOK("Op", makeOp)
  <2>1. /\ Len(makeOp) = 3
        /\ \A s : Fresh("Op", s) <=> s <= 2
    BY DEF makeOp, Fresh
  <2>2. /\ Row(makeOp[1], "is", 0, 0, -1)
        /\ Row(makeOp[2], "consume", 1, 0, -1)
        /\ Row(makeOp[3], "accept", 0, 0, -1)
    BY DEF Row, makeOp
  <2>3. /\ RowOK("Op", makeOp, 1) /\ RowOK("Op", makeOp, 2)
        /\ RowOK("Op", makeOp, 3)
    BY <2>1, <2>2 DEF Row, RowOK
  <2>4. QED
    BY <2>1, <2>3 DEF TableOK
<1>33. TableOK("UnOpTerm", makeUnOpTerm)
  <2>1. /\ Len(makeUnOpTerm) = 6
        /\ \A s : Fresh("UnOpTerm", s) <=> s <= 5
        /\ Rank("UnOpTerm") = 3 /\ Rank("Op") = 0 /\ Rank("Term") = 2
    BY DEF makeUnOpTerm, Fresh, Rank
  <2>2. /\ Row(makeUnOpTerm[1], "need", 0, 0, -1)
        /\ Row(makeUnOpTerm[2], "annotations", 0, 0, -1)
        /\ Row(makeUnOpTerm[3], "is", 0, 0, -1)
        /\ Row(makeUnOpTerm[4], "call", "Op", 0, 5)
        /\ Row(makeUnOpTerm[5], "call", "Term", 0, -1)
        /\ Row(makeUnOpTerm[6], "accept", 0, 0, -1)
    BY DEF Row, makeUnOpTerm
  <2>3. /\ RowOK("UnOpTerm", makeUnOpTerm, 1) /\ RowOK("UnOpTerm", makeUnOpTerm, 2)
        /\ RowOK("UnOpTerm", makeUnOpTerm, 3) /\ RowOK("UnOpTerm", makeUnOpTerm, 4)
        /\ RowOK("UnOpTerm", makeUnOpTerm, 5) /\ RowOK("UnOpTerm", makeUnOpTerm, 6)
    BY <2>1, <2>2 DEF Row, RowOK
  <2>4. QED
    BY <2>1, <2>3 DEF TableOK
<1>34. TableOK("Term", makeTerm)
  <2>1. /\ Len(makeTerm) = 13
        /\ \A s : Fresh("Term", s) <=> (s <= 5 \/ s \in 8..12)
        /\ Rank("Term") = 2 /\ Rank("Call") = 0 /\ Rank("ConstValue") = 1
        /\ Rank("Lambda") = 0 /\ Rank("Variable") = 1
    BY DEF makeTerm, Fresh, Rank
  <2>2. /\ Row(makeTerm[1], "need", 0, 0, -1)
        /\ Row(makeTerm[2], "annotations", 0, 0, -1)
        /\ Row(makeTerm[3], "is", 0, 0, 8)
        /\ Row(makeTerm[4], "call", "Lambda", 13, 5)
        /\ Row(makeTerm[5], "consume", 1, 0, -1)
        /\ Row(makeTerm[6], "call", "Expr", 0, -2)
        /\ Row(makeTerm[7], "expect", 0, 13, -2)
        /\ Row(makeTerm[8], "is", 0, 0, 10)
        /\ Row(makeTerm[9], "consume", 1, 13, -1)
        /\ Row(makeTerm[10], "call", "ConstValue", 13, 11)
        /\ Row(makeTerm[11], "call", "Call", 13, 12)
        /\ Row(makeTerm[12], "call", "Variable", 0, -1)
        /\ Row(makeTerm[13], "accept", 0, 0, -1)
    BY DEF Row, makeTerm
  <2>3. /\ RowOK("Term", makeTerm, 1) /\ RowOK("Term", makeTerm, 2)
        /\ RowOK("Term", makeTerm, 3) /\ RowOK("Term", makeTerm, 4)
        /\ RowOK("Term", makeTerm, 5) /\ RowOK("Term", makeTerm, 6)
        /\ RowOK("Term", makeTerm, 7) /\ RowOK("Term", makeTerm, 8)
        /\ RowOK("Term", makeTerm, 9) /\ RowOK("Term", makeTerm, 10)
        /\ RowOK("Term", makeTerm, 11) /\ RowOK("Term", makeTerm, 12)
        /\ RowOK("Term", makeTerm, 13)
    BY <2>1, <2>2 DEF Row, RowOK
  <2>4. QED
    BY <2>1, <2>3 DEF TableOK
<1>35. TableOK("Lambda", makeLambda)
  <2>1. /\ Len(makeLambda) = 10
        /\ \A s : Fresh("Lambda", s) <=> s <= 1
    BY DEF makeLambda, Fresh
  <2>2. /\ Row(makeLambda[1], "expect", 0, 0, -1)
        /\ Row(makeLambda[2], "expect", 0, 0, -1)
        /\ Row(makeLambda[3], "is", 0, 0, 7)
        /\ Row(makeLambda[4], "room", 0, 0, -2)
        /\ Row(makeLambda[5], "expect", 0, 0, -1)
        /\ Row(makeLambda[6], "expect", 0, 3, -5)
        /\ Row(makeLambda[7], "expect", 0, 0, -1)
        /\ Row(makeLambda[8], "expect", 0, 0, -1)
        /\ Row(makeLambda[9], "call", "Expr", 0, -1)
        /\ Row(makeLambda[10], "accept", 0, 0, -1)
    BY DEF Row, makeLambda
  <2>3. /\ RowOK("Lambda", makeLambda, 1) /\ RowOK("Lambda", makeLambda, 2)
        /\ RowOK("Lambda", makeLambda, 3) /\ RowOK("Lambda", makeLambda, 4)
        /\ RowOK("Lambda", makeLambda, 5) /\ RowOK("Lambda", makeLambda, 6)
        /\ RowOK("Lambda", makeLambda, 7) /\ RowOK("Lambda", makeLambda, 8)
        /\ RowOK("Lambda", makeLambda, 9) /\ RowOK("Lambda", makeLambda, 10)
    BY <2>1, <2>2 DEF Row, RowOK
  <2>4. QED
    BY <2>1, <2>3 DEF TableOK
<1>36. TableOK("ConstValue", makeConstValue)
  <2>1. /\ Len(makeConstValue) = 6
        /\ \A s : Fresh("ConstValue", s) <=> s <= 5
        /\ Rank("ConstValue") = 1 /\ Rank("FloatConst") = 0 /\ Rank("IntConst") = 0
    BY DEF makeConstValue, Fresh, Rank
  <2>2. /\ Row(makeConstValue[1], "need", 0, 0, -1)
        /\ Row(makeConstValue[2], "is", 0, 0, 4)
        /\ Row(makeConstValue[3], "consume", 1, 6, -1)
        /\ Row(makeConstValue[4], "call", "IntConst", 6, 5)
        /\ Row(makeConstValue[5], "call", "FloatConst", 0, -1)
        /\ Row(makeConstValue[6], "accept", 0, 0, -1)
    BY DEF Row, makeConstValue
  <2>3. /\ RowOK("ConstValue", makeConstValue, 1) /\ RowOK("ConstValue", makeConstValue, 2)
        /\ RowOK("ConstValue", makeConstValue, 3) /\ RowOK("ConstValue", makeConstValue, 4)
        /\ RowOK("ConstValue", makeConstValue, 5) /\ RowOK("ConstValue", makeConstValue, 6)
    BY <2>1, <2>2 DEF Row, RowOK
  <2>4. QED
    BY <2>1, <2>3 DEF TableOK
<1>37. TableOK("IntConst", makeIntConst)
  <2>1. /\ Len(makeIntConst) = 6
        /\ \A s : Fresh("IntConst", s) <=> s <= 5
    BY DEF makeIntConst, Fresh
  <2>2. /\ Row(makeIntConst[1], "is", 0, 0, 3)
        /\ Row(makeIntConst[2], "consume", 1, 6, -1)
        /\ Row(makeIntConst[3], "is", 0, 0, -1)
        /\ Row(makeIntConst[4], "second", 0, 0, -1)
        /\ Row(makeIntConst[5], "consume", 2, 0, -1)
        /\ Row(makeIntConst[6], "accept", 0, 0, -1)
    BY DEF Row, makeIntConst
  <2>3. /\ RowOK("IntConst", makeIntConst, 1) /\ RowOK("IntConst", makeIntConst, 2)
        /\ RowOK("IntConst", makeIntConst, 3) /\ RowOK("IntConst", makeIntConst, 4)
        /\ RowOK("IntConst", makeIntConst, 5) /\ RowOK("IntConst", makeIntConst, 6)
    BY <2>1, <2>2 DEF Row, RowOK
  <2>4. QED
    BY <2>1, <2>3 DEF TableOK
<1>38. TableOK("FloatConst", makeFloatConst)
  <2>1. /\ Len(makeFloatConst) = 6
        /\ \A s : Fresh("FloatConst", s) <=> s <= 5
    BY DEF makeFloatConst, Fresh
  <2>2. /\ Row(makeFloatConst[1], "need", 0, 0, -1)
        /\ Row(makeFloatConst[2], "expect", 0, 0, 3)
        /\ Row(makeFloatConst[3], "need", 0, 0, -1)
        /\ Row(makeFloatConst[4], "is", 0, 0, -1)
        /\ Row(makeFloatConst[5], "consume", 1, 0, -1)
        /\ Row(makeFloatConst[6], "accept", 0, 0, -1)
    BY DEF Row, makeFloatConst
  <2>3. /\ RowOK("FloatConst", makeFloatConst, 1) /\ RowOK("FloatConst", makeFloatConst, 2)
        /\ RowOK("FloatConst", makeFloatConst, 3) /\ RowOK("FloatConst", makeFloatConst, 4)
        /\ RowOK("FloatConst", makeFloatConst, 5) /\ RowOK("FloatConst", makeFloatConst, 6)
    BY <2>1, <2>2 DEF Row, RowOK
  <2>4. QED
    BY <2>1, <2>3 DEF TableOK
<1>39. TableOK("Variable", makeVariable)
  <2>1. /\ Len(makeVariable) = 8
        /\ \A s : Fresh("Variable", s) <=> s <= 3
        /\ Rank("Variable") = 1 /\ Rank("SimpleVar") = 0
    BY DEF makeVariable, Fresh, Rank
  <2>2. /\ Row(makeVariable[1], "need", 0, 0, -1)
        /\ Row(makeVariable[2], "annotations", 0, 0, -1)
        /\ Row(makeVariable[3], "call", "SimpleVar", 0, -1)
        /\ Row(makeVariable[4], "need", 0, 0, 8)
        /\ Row(makeVariable[5], "is", 0, 0, 8)
        /\ Row(makeVariable[6], "expect", 0, 0, -1)
        /\ Row(makeVariable[7], "call", "Variable", 0, -2)
        /\ Row(makeVariable[8], "accept", 0, 0, -1)
    BY DEF Row, makeVariable
  <2>3. /\ RowOK("Variable", makeVariable, 1) /\ RowOK("Variable", makeVariable, 2)
        /\ RowOK("Variable", makeVariable, 3) /\ RowOK("Variable", makeVariable, 4)
        /\ RowOK("Variable", makeVariable, 5) /\ RowOK("Variable", makeVariable, 6)
        /\ RowOK("Variable", makeVariable, 7) /\ RowOK("Variable", makeVariable, 8)
    BY <2>1, <2>2 DEF Row, RowOK
  <2>4. QED
    BY <2>1, <2>3 DEF TableOK
<1>40. TableOK("SimpleVar", makeSimpleVar)
  <2>1. /\ Len(makeSimpleVar) = 10
        /\ \A s : Fresh("SimpleVar", s) <=> s <= 4
    BY DEF makeSimpleVar, Fresh
  <2>2. /\ Row(makeSimpleVar[1], "need", 0, 0, -1)
        /\ Row(makeSimpleVar[2], "annotations", 0, 0, -1)
        /\ Row(makeSimpleVar[3], "is", 0, 0, -1)
        /\ Row(makeSimpleVar[4], "consume", 1, 0, -1)
        /\ Row(makeSimpleVar[5], "need", 0, 0, 10)
        /\ Row(makeSimpleVar[6], "is", 0, 0, 10)
        /\ Row(makeSimpleVar[7], "expect", 0, 0, -1)
        /\ Row(makeSimpleVar[8], "call", "Expr", 0, -1)
        /\ Row(makeSimpleVar[9], "expect", 0, 5, -1)
        /\ Row(makeSimpleVar[10], "accept", 0, 0, -1)
    BY DEF Row, makeSimpleVar
  <2>3. /\ RowOK("SimpleVar", makeSimpleVar, 1) /\ RowOK("SimpleVar", makeSimpleVar, 2)
        /\ RowOK("SimpleVar", makeSimpleVar, 3) /\ RowOK("SimpleVar", makeSimpleVar, 4)
        /\ RowOK("SimpleVar", makeSimpleVar, 5) /\ RowOK("SimpleVar", makeSimpleVar, 6)
        /\ RowOK("SimpleVar", makeSimpleVar, 7) /\ RowOK("SimpleVar", makeSimpleVar, 8)
        /\ RowOK("SimpleVar", makeSimpleVar, 9) /\ RowOK("SimpleVar", makeSimpleVar, 10)
    BY <2>1, <2>2 DEF Row, RowOK
  <2>4. QED
    BY <2>1, <2>3 DEF TableOK
<1>41. DOMAIN Routine = Names
  BY DEF Routine, Names
<1>42. /\ Routine["Namespace"] = makeNamespace /\ Routine["ExternC"] = makeExternC
      /\ Routine["StructDecl"] = makeStructDecl /\ Routine["StructMember"] = makeStructMember
      /\ Routine["Method"] = makeMethod /\ Routine["MethodDecl"] = makeMethodDecl
      /\ Routine["DeclArg"] = makeDeclArg /\ Routine["Type"] = makeType2
      /\ Routine["ArrayType"] = makeArrayType2 /\ Routine["TypeParam"] = makeTypeParam
      /\ Routine["BasicType"] = makeBasicType2 /\ Routine["SimpleType"] = makeSimpleType
      /\ Routine["PrimitiveType"] = makePrimitiveType /\ Routine["StructType"] = makeStructType
      /\ Routine["SubrType"] = makeSubrType /\ Routine["NextArgType"] = NextArgType
      /\ Routine["StmtBlock"] = makeStmtBlock /\ Routine["Stmt"] = makeStmt
      /\ Routine["AssignStmt"] = makeAssignStmt /\ Routine["IfStmt"] = makeIfStmt
      /\ Routine["WhileStmt"] = makeWhileStmt /\ Routine["LoopStmt"] = makeLoopStmt
      /\ Routine["ForStmt"] = makeForStmt /\ Routine["Range"] = makeRange
      /\ Routine["SwitchStmt"] = makeSwitchStmt /\ Routine["CaseStmt"] = makeCaseStmt
      /\ Routine["TryCatchStmt"] = makeTryCatchStmt /\ Routine["RetStmt"] = makeRetStmt
      /\ Routine["Call"] = makeCall /\ Routine["Expr"] = makeExpr
      /\ Routine["OpTerm"] = OpTerm /\ Routine["Op"] = makeOp
      /\ Routine["UnOpTerm"] = makeUnOpTerm /\ Routine["Term"] = makeTerm
      /\ Routine["Lambda"] = makeLambda /\ Routine["ConstValue"] = makeConstValue
      /\ Routine["IntConst"] = makeIntConst /\ Routine["FloatConst"] = makeFloatConst
      /\ Routine["Variable"] = makeVariable /\ Routine["SimpleVar"] = makeSimpleVar
  BY DEF Routine
<1>43. QED
  BY <1>1, <1>2, <1>3, <1>4, <1>5, <1>6, <1>7, <1>8, <1>9, <1>10, <1>11,
  <1>12, <1>13, <1>14, <1>15, <1>16, <1>17, <1>18, <1>19, <1>20, <1>21, <1>22,
  <1>23, <1>24, <1>25, <1>26, <1>27, <1>28, <1>29, <1>30, <1>31, <1>32, <1>33,
  <1>34, <1>35, <1>36, <1>37, <1>38, <1>39, <1>40, <1>41, <1>42 DEF Names

-----------------------------------------------------------------------------
LEMMA FirstIsFresh ==
  ASSUME NEW r \in Names
  PROVE  1 \in 1..Len(Routine[r]) /\ Fresh(r, 1)
<1>1. Fresh(r, 1)
  BY DEF Fresh, Names
<1>2. 1 \in 1..Len(Routine[r])
  BY TablesOK DEF TableOK
<1>3. QED
  BY <1>1, <1>2

LEMMA RankIs == \A r : Rank(r) \in 0..5
BY DEF Rank

(* What is known of the frame on top, and of the step it is at.            *)
LEMMA TopIs ==
  ASSUME NEW s, StackOK(s)
  PROVE  LET top == s[Len(s)]
         IN  /\ Len(s) \in Nat \ {0}
             /\ top \in Frames /\ FrameOK(top)
             /\ RowOK(top.routine, Routine[top.routine], top.step)
<1>1. s \in Seq(Frames) /\ Len(s) \in Nat \ {0} /\ s[Len(s)] \in Frames /\ FrameOK(s[Len(s)])
  BY EmptySeq DEF StackOK
<1>2. s[Len(s)].routine \in Names
  BY <1>1 DEF Frames
<1>3. QED
  BY <1>1, <1>2, TablesOK DEF TableOK, FrameOK

(* Frame g is f at another step, having consumed c tokens more.            *)
FromTo(f, g, to, c) ==
  /\ g.routine = f.routine /\ g.from = f.from
  /\ g.pos = f.pos + c
  /\ g.step = IF to = 0 THEN f.step + 1 ELSE to

LEMMA MovedIs ==
  ASSUME NEW f \in Frames, NEW to \in Nat, NEW c \in Nat, NEW k \in Nat,
         NEW g, g = Moved(f, to, c, k)
  PROVE  g \in Frames /\ FromTo(f, g, to, c)
<1> DEFINE t == IF to = 0 THEN f.step + 1 ELSE to
           p == f.pos + c
           q == f.nulls + k
<1>1. t \in Nat /\ p \in Nat /\ q \in Nat
  BY DEF Frames
<1>2. g = [f EXCEPT !.step = t, !.pos = p, !.nulls = q]
  BY DEF Moved
<1> HIDE DEF t, p, q
<1>3. g \in Frames
  BY <1>1, <1>2 DEF Frames
<1>4. g.routine = f.routine /\ g.from = f.from /\ g.pos = p /\ g.step = t
  BY <1>1, <1>2 DEF Frames
<1>5. QED
  BY <1>3, <1>4 DEF FromTo, t, p

(* The top frame goes to a step of its own table.                          *)
LEMMA MovedOn ==
  ASSUME NEW s, StackOK(s), NEW to \in Nat, NEW c \in Nat, NEW k \in Nat,
         Goto(s, to, c, k),
         LET top  == s[Len(s)]
             next == IF to = 0 THEN top.step + 1 ELSE to
         IN  /\ next \in 1..Len(Routine[top.routine])
             /\ top.pos = top.from /\ c = 0 => Fresh(top.routine, next)
  PROVE  StackOK(stack')
<1> DEFINE n == Len(s)
           f == Moved(s[n], to, c, k)
           t == [s EXCEPT ![n] = f]
<1>1. s \in Seq(Frames) /\ n \in Nat \ {0} /\ s[n] \in Frames /\ FrameOK(s[n])
  BY EmptySeq DEF StackOK
<1>2. /\ f \in Frames
      /\ f.routine = s[n].routine /\ f.from = s[n].from
      /\ f.step = IF to = 0 THEN s[n].step + 1 ELSE to
      /\ f.pos = s[n].pos + c
  <2> HIDE DEF n
  <2>1. s[n] \in Frames /\ to \in Nat /\ c \in Nat /\ k \in Nat
    BY <1>1
  <2>2. f = Moved(s[n], to, c, k)
    OBVIOUS
  <2> HIDE DEF f
  <2>3. f \in Frames /\ FromTo(s[n], f, to, c)
    BY <2>1, <2>2, MovedIs
  <2>4. QED
    BY <2>3 DEF FromTo
<1>3. FrameOK(f)
  BY <1>1, <1>2, SMTT(60) DEF FrameOK, Frames
<1> HIDE DEF f
<1>4. t \in Seq(Frames) /\ Len(t) = n /\ t # <<>>
  BY <1>1, <1>2
<1>5. \A a \in 1..n : t[a] = IF a = n THEN f ELSE s[a]
  BY <1>1
<1>6. \A a \in 1..n : t[a].routine = s[a].routine /\ t[a].from = s[a].from
  BY <1>2, <1>5
<1>7. \A a \in 1..n : FrameOK(t[a])
  BY <1>3, <1>5 DEF StackOK
<1>8. \A a \in 1..n : t[a].routine = "Namespace" <=> a = 1
  BY <1>6 DEF StackOK
<1>9. \A a \in 1..(n - 1) : Calling(t[a], t[a + 1])
  <2>1. TAKE a \in 1..(n - 1)
  <2>2. a \in 1..n /\ a + 1 \in 1..n /\ t[a] = s[a]
    BY <1>1, <1>5
  <2>3. QED
    BY <1>6, <2>2 DEF StackOK, Calling
<1>10. \A a, b \in 1..n : a < b => Below(t[a], t[b])
  BY <1>6 DEF StackOK, Below
<1>11. \A a \in 1..n : a + Rank(t[a].routine) <= 6 * t[a].from + 6
  BY <1>6 DEF StackOK
<1>12. StackOK(t)
  BY <1>4, <1>7, <1>8, <1>9, <1>10, <1>11 DEF StackOK
<1>13. stack' = t
  BY DEF Goto, f
<1>14. QED
  BY <1>12, <1>13

(* A routine is called, with the list as it is.                            *)
LEMMA Called ==
  ASSUME NEW s, StackOK(s), StepOf(s[Len(s)]).op = "call"
  PROVE  StackOK(Append(s, Frame(StepOf(s[Len(s)]).of, s[Len(s)].pos)))
<1> DEFINE n == Len(s)
           top == s[n]
           f == Frame(StepOf(top).of, top.pos)
           t == Append(s, f)
<1>1. s \in Seq(Frames) /\ n \in Nat \ {0} /\ top \in Frames /\ FrameOK(top)
  BY EmptySeq DEF StackOK
<1>2. top.routine \in Names /\ top.step \in 1..Len(Routine[top.routine])
  BY <1>1 DEF Frames, FrameOK
<1>3. RowOK(top.routine, Routine[top.routine], top.step)
  BY <1>2, TablesOK DEF TableOK
<1>4. /\ StepOf(top).of \in Names \ {"Namespace"}
      /\ Fresh(top.routine, top.step) => Rank(StepOf(top).of) < Rank(top.routine)
  BY <1>3 DEF RowOK, StepOf
<1>5. f \in Frames /\ f.routine = StepOf(top).of /\ f.from = top.pos /\ f.pos = top.pos /\ f.step = 1
  BY <1>1, <1>4 DEF Frame, Frames
<1>6. FrameOK(f)
  BY <1>4, <1>5, FirstIsFresh DEF FrameOK, Frames
<1>7. Below(top, f)
  BY <1>1, <1>4, <1>5 DEF Below, FrameOK, Frames
<1>8. t \in Seq(Frames) /\ Len(t) = n + 1 /\ t # <<>> /\ \A a \in 1..(n + 1) : t[a] = IF a = n + 1 THEN f ELSE s[a]
  BY <1>1, <1>5
<1>9. \A a \in 1..(n + 1) : FrameOK(t[a])
  BY <1>1, <1>6, <1>8 DEF StackOK
<1>10. \A a \in 1..(n + 1) : t[a].routine = "Namespace" <=> a = 1
  BY <1>1, <1>4, <1>5, <1>8 DEF StackOK
<1>11. \A a \in 1..n : Calling(t[a], t[a + 1])
  <2>1. TAKE a \in 1..n
  <2>2. CASE a = n
    BY <1>1, <1>5, <1>8, <2>2 DEF Calling
  <2>3. CASE a < n
    <3>1. t[a] = s[a] /\ t[a + 1] = s[a + 1] /\ a \in 1..(n - 1)
      BY <1>1, <1>8, <2>3
    <3>2. QED
      BY <3>1 DEF StackOK
  <2>4. QED
    BY <1>1, <2>2, <2>3
<1>12. \A a, b \in 1..(n + 1) : a < b => Below(t[a], t[b])
  <2>1. SUFFICES ASSUME NEW a \in 1..(n + 1), NEW b \in 1..(n + 1), a < b
                 PROVE  Below(t[a], t[b])
    OBVIOUS
  <2>2. a \in 1..n /\ t[a] = s[a] /\ s[a] \in Frames
    <3>1. a \in 1..n
      BY <1>1, <2>1
    <3>2. QED
      BY <1>1, <1>8, <3>1
  <2>3. CASE b <= n
    BY <1>1, <1>8, <2>1, <2>2, <2>3 DEF StackOK
  <2>4. CASE b = n + 1
    <3>1. t[b] = f
      BY <1>1, <1>8, <2>4
    <3>2. CASE a = n
      BY <1>7, <2>2, <3>1, <3>2
    <3>3. CASE a < n
      <4>1. Below(s[a], top)
        BY <1>1, <2>2, <3>3 DEF StackOK
      <4>2. s[a].routine \in Names /\ top.routine \in Names /\ f.routine \in Names
        BY <1>1, <1>5, <2>2 DEF Frames
      <4>3. s[a].from \in Nat /\ top.from \in Nat /\ f.from \in Nat
        BY <1>1, <1>5, <2>2 DEF Frames
      <4>4. QED
        BY <1>7, <2>2, <3>1, <4>1, <4>2, <4>3, RankIs DEF Below
    <3>4. QED
      BY <1>1, <2>2, <3>2, <3>3
  <2>5. QED
    BY <1>1, <2>1, <2>3, <2>4
<1>13. \A a \in 1..(n + 1) : a + Rank(t[a].routine) <= 6 * t[a].from + 6
  <2>1. n + Rank(top.routine) <= 6 * top.from + 6
    BY <1>1 DEF StackOK
  <2>2. /\ top.from \in Nat /\ f.from \in Nat
        /\ Rank(top.routine) \in 0..5 /\ Rank(f.routine) \in 0..5
    BY <1>1, <1>5, RankIs DEF Frames
  <2>3. /\ top.from <= f.from
        /\ top.from = f.from => Rank(f.routine) < Rank(top.routine)
    BY <1>7 DEF Below
  <2>4. \A i \in Nat, p, q \in Nat, k, l \in 0..5 :
          i + k <= 6 * p + 6 /\ p <= q /\ (p = q => l < k) => i + 1 + l <= 6 * q + 6
    OBVIOUS
  <2> HIDE DEF n, top, f
  <2>5. n + 1 + Rank(f.routine) <= 6 * f.from + 6
    BY <1>1, <2>1, <2>2, <2>3, <2>4
  <2>6. QED
    BY <1>1, <1>8, <2>5 DEF StackOK
<1>14. StackOK(t)
  BY <1>8, <1>9, <1>10, <1>11, <1>12, <1>13 DEF StackOK
<1>15. QED
  BY <1>14

(* A routine returns.                                                      *)
LEMMA Returned ==
  ASSUME NEW s, StackOK(s), Len(s) > 1
  PROVE  LET r == SubSeq(s, 1, Len(s) - 1)
         IN  /\ StackOK(r)
             /\ Len(r) = Len(s) - 1
             /\ r[Len(r)] = s[Len(s) - 1]
             /\ Calling(r[Len(r)], s[Len(s)])
<1> DEFINE n == Len(s)
           r == SubSeq(s, 1, n - 1)
<1>1. s \in Seq(Frames) /\ n \in Nat /\ n > 1
  BY DEF StackOK
<1>2. r \in Seq(Frames) /\ Len(r) = n - 1 /\ r # <<>> /\ \A a \in 1..(n - 1) : r[a] = s[a]
  <2>1. \A a \in 1..(n - 1) : s[a] \in Frames
    BY <1>1
  <2>2. r = [a \in 1..(n - 1) |-> s[a]]
    BY <1>1, SubSeqProperties
  <2>3. Len(r) = n - 1 /\ r \in Seq(Frames)
    BY <1>1, SubSeqProperties
  <2>4. \A a \in 1..(n - 1) : r[a] = s[a]
    BY ONLY <2>2
  <2> HIDE DEF n, r
  <2>5. n - 1 \in Nat \ {0}
    BY <1>1
  <2>6. QED
    BY <2>3, <2>4, <2>5
<1>3. n - 1 \in 1..(n - 1) /\ \A a \in 1..(n - 1) : a \in 1..n
  BY <1>1
<1>4. \A a \in 1..(n - 1) : FrameOK(r[a]) /\ (r[a].routine = "Namespace" <=> a = 1)
  BY <1>2, <1>3 DEF StackOK
<1>5. \A a \in 1..(n - 1 - 1) : Calling(r[a], r[a + 1])
  <2>1. TAKE a \in 1..(n - 1 - 1)
  <2>2. a \in 1..(n - 1) /\ a + 1 \in 1..(n - 1)
    BY <1>1
  <2>3. QED
    BY <1>2, <2>2 DEF StackOK
<1>6. \A a, b \in 1..(n - 1) : a < b => Below(r[a], r[b])
  BY <1>2, <1>3 DEF StackOK
<1>7. \A a \in 1..(n - 1) : a + Rank(r[a].routine) <= 6 * r[a].from + 6
  BY <1>2, <1>3 DEF StackOK
<1>8. StackOK(r)
  BY <1>2, <1>4, <1>5, <1>6, <1>7 DEF StackOK
<1>9. Calling(s[n - 1], s[n])
  <2>1. Calling(s[n - 1], s[n - 1 + 1])
    BY <1>3 DEF StackOK
  <2>2. QED
    BY <1>1, <2>1
<1>10. QED
  BY <1>2, <1>3, <1>8, <1>9

LEMMA Succeeds ==
  ASSUME StackInv, NEW c \in Nat, Succeed(c),
         Now.op \notin {"accept", "exit"},
         c = 0 => Now.op \in Calm
  PROVE  StackInv'
<1>1. /\ StackOK(stack)
      /\ Len(stack) \in Nat \ {0} /\ Top \in Frames /\ FrameOK(Top)
      /\ RowOK(Top.routine, Routine[Top.routine], Top.step)
  BY TopIs DEF StackInv, Top
<1>2. After(Now, Top.step) \in 1..Len(Routine[Top.routine])
  BY <1>1 DEF RowOK, Now
<1>3. Top.pos = Top.from /\ c = 0 => Fresh(Top.routine, After(Now, Top.step))
  BY <1>1 DEF RowOK, Now, FrameOK
<1>4. Now.yes \in Nat
  BY <1>2 DEF After
<1>5. Goto(stack, Now.yes, c, 0) /\ ~failed'
  BY DEF Succeed
<1>6. StackOK(stack')
  BY <1>1, <1>2, <1>3, <1>4, <1>5, MovedOn DEF After, Top
<1>7. QED
  BY <1>5, <1>6 DEF StackInv

LEMMA Fails ==
  ASSUME StackInv, Fail, Now.op \notin {"consume", "accept"}
  PROVE  StackInv'
<1>1. /\ StackOK(stack)
      /\ Len(stack) \in Nat \ {0} /\ Top \in Frames /\ FrameOK(Top)
      /\ RowOK(Top.routine, Routine[Top.routine], Top.step)
  BY TopIs DEF StackInv, Top
<1>2. CASE Now.no > 0 /\ Goto(stack, Now.no, 0, 0) /\ failed' = FALSE
  <2>1. Now.no \in (-5)..(-1) \/ Now.no \in 1..Len(Routine[Top.routine])
    BY <1>1 DEF RowOK, Now
  <2>2. Top.pos = Top.from => Fresh(Top.routine, Now.no)
    BY <1>1, <1>2 DEF RowOK, Now, FrameOK
  <2>3. /\ Now.no \in 1..Len(Routine[Top.routine])
        /\ Now.no \in Nat /\ Now.no # 0
    BY <1>2, <2>1
  <2>5. StackOK(stack')
    BY <1>1, <1>2, <2>2, <2>3, MovedOn DEF Top
  <2>6. QED
    BY <1>2, <2>5 DEF StackInv
<1>3. CASE Now.no \in {ReturnNull, ReadFreed} /\ stack' = Rest
  <2>1. Top.routine # "Namespace" 
    BY <1>1, <1>3 DEF RowOK, Now
  <2>2. Len(stack) > 1
    BY <1>1, <2>1 DEF StackOK, Top
  <2>3. StackOK(stack') /\ Calling(stack'[Len(stack')], Top)
    BY <1>1, <1>3, <2>2, Returned DEF Rest, Top
  <2>4. Now'.op = "call"
    BY <2>3 DEF Now, Top, Calling, StepOf
  <2>5. QED
    BY <2>3, <2>4 DEF StackInv
<1>4. CASE stack' = stack /\ phase' \in {"refused", "undefined"}
  BY <1>1, <1>4 DEF StackInv
<1>5. CASE Now.no = StoreNull /\ Goto(stack, Now.yes, 0, 1) /\ failed' = FALSE
  <2>1. After(Now, Top.step) \in 1..Len(Routine[Top.routine]) /\ Top.pos # Top.from
    BY <1>1, <1>5 DEF RowOK, Now, FrameOK
  <2>2. Now.yes \in Nat
    BY <2>1 DEF After
  <2>3. StackOK(stack')
    BY <1>1, <1>5, <2>1, <2>2, MovedOn DEF After, Top
  <2>4. QED
    BY <1>5, <2>3 DEF StackInv
<1>6. QED
  BY <1>2, <1>3, <1>4, <1>5 DEF Fail

LEMMA Accepts ==
  ASSUME StackInv, AcceptNode
  PROVE  StackInv'
<1> DEFINE c == Top.pos - Top.from
           f == Rest[Len(Rest)]
<1>1. /\ StackOK(stack)
      /\ Len(stack) \in Nat \ {0} /\ Top \in Frames /\ FrameOK(Top)
      /\ RowOK(Top.routine, Routine[Top.routine], Top.step)
  BY TopIs DEF StackInv, Top
<1>2. /\ StackOK(Rest) /\ Calling(f, Top)
  BY <1>1, Returned DEF AcceptNode, Rest, Top
<1>3. /\ f \in Frames /\ FrameOK(f)
      /\ RowOK(f.routine, Routine[f.routine], f.step)
  BY <1>2, TopIs
<1>4. Caller = StepOf(f) /\ Caller.op = "call" /\ Caller.of = Top.routine
  BY <1>2 DEF Caller, StepOf, Calling
<1>5. After(Caller, f.step) \in 1..Len(Routine[f.routine])
  BY <1>3, <1>4 DEF RowOK, StepOf
<1>6. c \in Nat /\ (c = 0 => Top.pos = Top.from)
  BY <1>1 DEF FrameOK, Frames
<1>7. c = 0 => Top.routine \in Nullable
  BY <1>1, <1>6 DEF AcceptNode, At, FrameOK, RowOK, Now
<1>8. f.pos = f.from /\ c = 0 => Fresh(f.routine, After(Caller, f.step))
  BY <1>3, <1>4, <1>7 DEF FrameOK, RowOK, StepOf
<1> HIDE DEF c
<1>9. Caller.yes \in Nat
  BY <1>5 DEF After
<1>10. Goto(Rest, Caller.yes, c, Top.nulls) /\ ~failed' /\ Top.nulls \in Nat
  BY <1>1 DEF AcceptNode, At, c, Frames
<1>11. StackOK(stack')
  BY <1>2, <1>5, <1>6, <1>8, <1>9, <1>10, MovedOn DEF After
<1>12. QED
  BY <1>10, <1>11 DEF StackInv

LEMMA StackHolds == SafeSpec => []StackInv
<1>1. Init => StackInv
  <2>1. SUFFICES ASSUME Init PROVE StackInv
    OBVIOUS
  <2> DEFINE f == Frame("Namespace", 0)
  <2>2. f \in Frames /\ f.routine = "Namespace" /\ f.step = 1 /\ f.from = 0 /\ f.pos = 0
    BY DEF Frame, Frames, Names
  <2>3. "Namespace" \in Names /\ Rank("Namespace") = 2
    BY DEF Names, Rank
  <2>4. FrameOK(f)
    BY <2>2, <2>3, FirstIsFresh DEF FrameOK
  <2>5. stack = <<f>> /\ failed = FALSE
    BY <2>1 DEF Init
  <2> HIDE DEF f
  <2>6. stack \in Seq(Frames) /\ Len(stack) = 1 /\ stack # <<>> /\ \A a \in 1..1 : a = 1 /\ stack[a] = f
    BY <2>2, <2>5
  <2>7. \A a \in 1..1 : a + Rank(stack[a].routine) <= 6 * stack[a].from + 6
    BY <2>2, <2>3, <2>6
  <2>8. QED
    BY <2>2, <2>4, <2>5, <2>6, <2>7 DEF StackInv, StackOK
<1>2. StackInv /\ [Next]_vars => StackInv'
  <2> SUFFICES ASSUME StackInv, [Next]_vars PROVE StackInv'
    OBVIOUS
  <2> USE DEF At
  <2>1. ASSUME NEW holds, Test(holds), Now.op \in Calm PROVE StackInv'
    BY <2>1, Succeeds, Fails DEF Test, Calm
  <2>2. CASE NeedTokens
    BY <2>1, <2>2 DEF NeedTokens, Calm
  <2>3. CASE HasRoom
    BY <2>1, <2>3 DEF HasRoom, Calm
  <2>4. CASE ExpectToken
    <3>1. CASE Succeed(1)
      BY <2>4, <3>1, Succeeds DEF ExpectToken
    <3>2. CASE Fail
      BY <2>4, <3>2, Fails DEF ExpectToken
    <3>3. QED
      BY <2>4, <3>1, <3>2 DEF ExpectToken
  <2>5. ASSUME Now.op \in Calm, Succeed(0) \/ Fail PROVE StackInv'
    BY <2>5, Succeeds, Fails DEF Calm
  <2>6. CASE StartsWith
    BY <2>5, <2>6 DEF StartsWith, Calm
  <2>7. CASE IsHead
    BY <2>5, <2>7 DEF IsHead, Look, Calm
  <2>8. CASE IsSecond
    BY <2>5, <2>8 DEF IsSecond, Look, Calm
  <2>9. CASE IsAhead
    BY <2>5, <2>9 DEF IsAhead, Calm
  <2>10. CASE TakeAnnotation
    <3>1. /\ StackOK(stack) /\ Top \in Frames /\ FrameOK(Top)
      BY TopIs DEF StackInv, Top
    <3>2. Top.step \in 1..Len(Routine[Top.routine]) /\ Top.step # 0
      BY <3>1 DEF FrameOK
    <3>3. Top.step \in Nat /\ 1 \in Nat /\ 1 # 0
      BY <3>2
    <3>4. Goto(stack, Top.step, 1, 0) /\ ~failed'
      BY <2>10 DEF TakeAnnotation
    <3>5. StackOK(stack')
      BY <3>1, <3>2, <3>3, <3>4, MovedOn DEF Top
    <3>6. QED
      BY <3>4, <3>5 DEF StackInv
  <2>11. CASE NoAnnotation
    BY <2>5, <2>11 DEF NoAnnotation, Calm
  <2>12. CASE stack' = stack /\ phase' # "parse"
    BY <2>12 DEF StackInv
  <2>13. CASE ReadBehindEnd
    BY <2>12, <2>13 DEF ReadBehindEnd
  <2>14. CASE ConsumeTokens
    <3>1. Now.of \in Nat \ {0}
      BY <2>14, TopIs DEF StackInv, ConsumeTokens, RowOK, Now, Top
    <3>2. QED
      BY <2>14, <3>1, Succeeds DEF ConsumeTokens
  <2>15. CASE CallRoutine
    <3>1. StackOK(stack')
      BY <2>15, Called DEF StackInv, CallRoutine, Now, Top, StepOf
    <3>2. QED
      BY <2>15, <3>1 DEF StackInv, CallRoutine
  <2>16. CASE CallFailed
    BY <2>16, Fails DEF StackInv, CallFailed
  <2>17. CASE AcceptNode
    BY <2>17, Accepts
  <2>18. CASE WriteFile
    BY <2>12, <2>18 DEF WriteFile
  <2>19. CASE ExitProcess
    BY <2>12, <2>19 DEF ExitProcess
  <2>20. CASE UNCHANGED vars
    BY <2>20 DEF vars, StackInv, Now, Top
  <2>21. QED
    BY <2>2, <2>3, <2>4, <2>6, <2>7, <2>8, <2>9, <2>10, <2>11, <2>13, <2>14,
       <2>15, <2>16, <2>17, <2>18, <2>19, <2>20 DEF Next
<1>3. QED
  BY <1>1, <1>2, PTL DEF SafeSpec

-----------------------------------------------------------------------------
(* A routine that is at work already is called again only when tokens were *)
(* consumed in between.                                                    *)
THEOREM CallsConsume == Spec => []NoLeftRecursion
<1>1. StackInv => NoLeftRecursion
  <2>1. SUFFICES ASSUME StackInv, NEW a \in 1..Len(stack), NEW b \in 1..Len(stack),
                        a < b, stack[a].routine = stack[b].routine
                 PROVE  stack[a].from < stack[b].from
    BY DEF NoLeftRecursion
  <2>2. Below(stack[a], stack[b]) /\ stack[a] \in Frames /\ stack[b] \in Frames
    BY <2>1 DEF StackInv, StackOK
  <2>3. stack[a].from \in Nat /\ stack[b].from \in Nat /\ Rank(stack[a].routine) \in 0..5
    BY <2>2, RankIs DEF Frames
  <2>4. QED
    BY <2>1, <2>2, <2>3 DEF Below
<1>2. QED
  BY <1>1, StackHolds, PTL DEF Spec

(* The routines at work are never more than six for each token consumed,   *)
(* and six: the depth of the recursion, which the code does not limit, is  *)
(* linear in the length of the file.                                       *)
Shallow == Len(stack) <= 6 * (Top.pos + 1)

THEOREM RecursionIsBounded == Spec => []Shallow
<1>1. StackInv => Shallow
  <2>1. SUFFICES ASSUME StackInv PROVE Shallow
    OBVIOUS
  <2>2. Len(stack) \in Nat \ {0} /\ Top \in Frames /\ FrameOK(Top)
    BY <2>1, TopIs DEF StackInv, Top
  <2>3. /\ Top.from \in Nat /\ Top.pos \in Nat /\ Rank(Top.routine) \in 0..5
        /\ Top.from <= Top.pos
    BY <2>2, RankIs DEF Frames, FrameOK
  <2>4. Len(stack) + Rank(Top.routine) <= 6 * Top.from + 6
    BY <2>1, <2>2 DEF StackInv, StackOK, Top
  <2>5. QED
    BY <2>2, <2>3, <2>4 DEF Shallow
<1>2. QED
  BY <1>1, StackHolds, PTL DEF Spec

(* Whoever is called is one of the routines; it is at a step of its own,   *)
(* began where its caller is, and never behind it; the Namespace is the    *)
(* first and is never called again.                                        *)
InTables ==
  /\ \A a \in 1..Len(stack) :
       /\ stack[a].step \in 1..Len(Routine[stack[a].routine])
       /\ stack[a].from <= stack[a].pos
       /\ stack[a].routine = "Namespace" <=> a = 1
  /\ \A a \in 1..(Len(stack) - 1) : Calling(stack[a], stack[a + 1])

THEOREM TypeCorrect == Spec => [](stack \in Seq(Frames) \ {<<>>} /\ InTables)
<1>1. StackInv => stack \in Seq(Frames) \ {<<>>} /\ InTables
  BY DEF StackInv, StackOK, FrameOK, InTables
<1>2. QED
  BY <1>1, StackHolds, PTL DEF Spec

=============================================================================
