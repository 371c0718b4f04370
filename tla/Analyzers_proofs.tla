-------------------------- MODULE Analyzers_proofs --------------------------
(* What the function analyzer leaves in the symbol table of any program,   *)
(* and what the analyses guarantee of it when they run one after           *)
(* another, each on what the ones before it left in the symbol table.      *)
EXTENDS Analyzers, SequenceTheorems, TLAPS

(***************************************************************************)
(* The function analyzer.                                                  *)
(***************************************************************************)

(* The lists of names.                                                     *)

(* A name added to a list is in it, with those that were.                  *)
LEMMA AddedName ==
  ASSUME NEW list \in Seq(Line), NEW name \in Line
  PROVE  /\ AddNode(list, name) \in Seq(Line)
         /\ Range(AddNode(list, name)) = Range(list) \cup {name}
<1>1. CASE name \in Range(list)
  BY <1>1 DEF AddNode
<1>2. CASE name \notin Range(list)
  <2> DEFINE longer == Append(list, name)
  <2>1. /\ longer \in Seq(Line) /\ Len(longer) = Len(list) + 1 /\ Len(list) \in Nat
        /\ \A j \in 1..Len(list) : longer[j] = list[j]
        /\ longer[Len(list) + 1] = name
        /\ DOMAIN longer = 1..(Len(list) + 1) /\ DOMAIN list = 1..Len(list)
    BY AppendProperties, LenProperties
  <2>2. AddNode(list, name) = longer
    BY <1>2 DEF AddNode
  <2> HIDE DEF longer
  <2>3. DOMAIN longer = (DOMAIN list) \cup {Len(list) + 1}
    BY <2>1
  <2>4. Range(longer) = Range(list) \cup {name}
    BY <2>1, <2>3 DEF Range
  <2>5. QED
    BY <2>1, <2>2, <2>4
<1>3. QED
  BY <1>1, <1>2

-----------------------------------------------------------------------------
(* The inductive invariant: the walk has recorded what it was shown so     *)
(* far, of the bodies behind it and of a prefix of the one it is in.       *)

Before(l) == {j \in 1..Len(body[l]) : l < m \/ (l = m /\ j < k)}

Shown(l) == {body[l][j].name : j \in {x \in Before(l) : /\ body[l][x].node = "call"
                                                        /\ body[l][x].seen}}

WalkOK ==
  /\ k > 0 => m \in user /\ k <= Len(body[m]) + 1
  /\ \A l \in Line : Range(callees[l]) = Shown(l) \ {Local}
  /\ \A l \in Line : l \notin calls_fn_ptrs <=>
       /\ l \in user /\ (l < m \/ (l = m /\ k > 0))
       /\ Local \notin Shown(l)

IInv == TypeOK /\ CallersInvertCallees /\ WalkOK

-----------------------------------------------------------------------------

(* Where the walk is.                                                      *)
LEMMA Position ==
  ASSUME TypeOK
  PROVE  /\ m \in Nat /\ m > 0 /\ m <= Size + 1 /\ k \in Nat
         /\ m <= Size => m \in Line
         /\ \A l \in Line : l \in Nat /\ l > 0 /\ l <= Size
         /\ \A l \in Line : body[l] \in Seq(Item) /\ Len(body[l]) \in Nat
         /\ \A l \in Line : \A j \in 1..Len(body[l]) :
              body[l][j] \in Item /\ body[l][j].name \in Line \cup {Local}
<1>1. m \in Nat /\ m > 0 /\ m <= Size + 1 /\ k \in Nat
  BY SizeAssumption DEF TypeOK
<1>2. \A l \in Line : body[l] \in Seq(Item) /\ Len(body[l]) \in Nat
  BY LenProperties DEF TypeOK, ProgramOK
<1>3. ASSUME NEW l \in Line, NEW j \in 1..Len(body[l])
      PROVE  body[l][j] \in Item /\ body[l][j].name \in Line \cup {Local}
  <2>1. body[l][j] \in Item
    BY <1>2, ElementOfSeq
  <2>2. QED
    BY <2>1 DEF Item, Name
<1>4. QED
  BY <1>1, <1>2, <1>3, SizeAssumption DEF Line

LEMMA InitIInv == Init => IInv
<1> SUFFICES ASSUME Init PROVE IInv
  OBVIOUS
<1> USE DEF Init, Start
<1>1. TypeOK
  BY SizeAssumption, EmptySeq DEF TypeOK, ProgramOK
<1>2. \A l \in Line : Range(callees[l]) = {} /\ Range(callers[l]) = {}
  BY DEF Range
<1>3. \A l \in Line : Before(l) = {}
  BY <1>1, Position DEF Before
<1>5. CallersInvertCallees
  BY <1>2 DEF CallersInvertCallees
<1>6. \A l \in Line : Shown(l) = {}
  BY <1>3 DEF Shown
<1>7. WalkOK
  BY <1>1, <1>2, <1>6, Position DEF WalkOK
<1>8. QED
  BY <1>1, <1>5, <1>7 DEF IInv

(* Passing an item adds it to what the body has shown.                     *)
LEMMA ShowItem ==
  ASSUME TypeOK, AtItem, m' = m, k' = k + 1, UNCHANGED program
  PROVE  /\ \A l \in Line : l # m => Shown(l)' = Shown(l)
         /\ Shown(m)' = IF AtCall THEN Shown(m) \cup {body[m][k].name} ELSE Shown(m)
<1>1. m \in Line /\ k \in 1..Len(body[m]) /\ body' = body
  BY Position DEF AtItem, program
<1>2. \A l \in Line : l # m => Before(l)' = Before(l)
  BY <1>1, Position DEF Before
<1>3. Before(m)' = Before(m) \cup {k}
  BY <1>1, Position DEF Before
<1>4. \A l \in Line : l # m => Shown(l)' = Shown(l)
  BY <1>1, <1>2 DEF Shown
<1>5. Shown(m)' = IF AtCall THEN Shown(m) \cup {body[m][k].name} ELSE Shown(m)
  <2>1. Shown(m)' = {body[m][j].name : j \in {x \in Before(m) \cup {k} :
                          body[m][x].node = "call" /\ body[m][x].seen}}
    BY <1>1, <1>3 DEF Shown
  <2>2. AtCall <=> body[m][k].node = "call" /\ body[m][k].seen
    BY <1>1 DEF AtCall, AtItem, Line
  <2>3. QED
    BY <2>1, <2>2 DEF Shown
<1>6. QED
  BY <1>4, <1>5

(* At a body's ends nothing more is shown.                                 *)
LEMMA ShowNothing ==
  ASSUME TypeOK, UNCHANGED program, m <= Size,
         \/ k = 0 /\ m' = m /\ k' = 1
         \/ k = Len(body[m]) + 1 /\ m' = m + 1 /\ k' = 0
         \/ body[m] = <<>> /\ m' = m + 1 /\ k' = 0
  PROVE  \A l \in Line : Shown(l)' = Shown(l)
<1>1. m \in Line /\ body' = body
  BY Position DEF program
<1>2. ASSUME NEW l \in Line
      PROVE  Before(l)' = Before(l)
  BY <1>1, Position DEF Before
<1>3. QED
  BY <1>1, <1>2 DEF Shown

LEMMA NextIInv == IInv /\ [Next]_vars => IInv'
<1> SUFFICES ASSUME IInv, [Next]_vars PROVE IInv'
  OBVIOUS
<1>0. TypeOK /\ CallersInvertCallees /\ WalkOK
  BY DEF IInv
<1> DEFINE Quiet == UNCHANGED <<program, callees, callers>>
<1>1. ASSUME Quiet
      PROVE  CallersInvertCallees'
  BY <1>0, <1>1 DEF CallersInvertCallees
<1>2. CASE NoMethod
  <2>1. body[m] = <<>> /\ m \in Line /\ k = 0
    BY <1>0, <1>2, Position DEF NoMethod, TypeOK, ProgramOK, WalkOK
  <2>2. \A l \in Line : Shown(l)' = Shown(l)
    BY <1>0, <1>2, <2>1, ShowNothing DEF NoMethod
  <2>3. TypeOK'
    <3>1. m' \in 1..(Size + 1)
      BY <1>0, <1>2, Position, SizeAssumption DEF NoMethod
    <3>2. QED
      BY <1>0, <1>2, <3>1 DEF NoMethod, TypeOK, ProgramOK, program
  <2>4. WalkOK'
    BY <1>0, <1>2, <2>1, <2>2, Position DEF NoMethod, WalkOK, program
  <2>5. QED
    BY <1>1, <1>2, <2>3, <2>4 DEF IInv, NoMethod
<1>3. CASE VisitMethod
  <2>1. \A l \in Line : Shown(l)' = Shown(l)
    BY <1>0, <1>3, ShowNothing DEF VisitMethod
  <2>2. m \in Line /\ m \in user /\ k = 0
    BY <1>0, <1>3, Position DEF VisitMethod
  <2>3. Shown(m) = {}
    BY <2>2, <1>0, Position DEF Shown, Before
  <2>4. TypeOK'
    BY <1>0, <1>3, Position DEF VisitMethod, TypeOK, ProgramOK, program
  <2>5. WalkOK'
    <3>1. k' > 0 => (m \in user /\ k <= Len(body[m]) + 1)'
      BY <1>0, <1>3, <2>2, Position DEF VisitMethod, program
    <3>2. \A l \in Line : (Range(callees[l]) = Shown(l) \ {Local})'
      BY <1>0, <1>3, <2>1 DEF VisitMethod, WalkOK
    <3>3. ASSUME NEW l \in Line
          PROVE  (l \notin calls_fn_ptrs <=>
                   /\ l \in user /\ (l < m \/ (l = m /\ k > 0))
                   /\ Local \notin Shown(l))'
      BY <1>0, <1>3, <2>1, <2>2, <2>3, Position DEF VisitMethod, WalkOK, program
    <3>4. QED
      BY <3>1, <3>2, <3>3 DEF WalkOK
  <2>6. QED
    BY <1>1, <1>3, <2>4, <2>5 DEF IInv, VisitMethod
<1>4. CASE VisitOther
  <2>1. AtItem /\ ~AtCall /\ m' = m /\ k' = k + 1 /\ Quiet /\ calls_fn_ptrs' = calls_fn_ptrs
    BY <1>4 DEF VisitOther
  <2>2. m \in Line /\ m \in user /\ k \in 1..Len(body[m])
    BY <1>0, <2>1, Position DEF AtItem, WalkOK
  <2>3. \A l \in Line : Shown(l)' = Shown(l)
    BY <1>0, <2>1, ShowItem
  <2>4. TypeOK'
    BY <1>0, <2>1, Position DEF TypeOK, ProgramOK, program
  <2>5. WalkOK'
    BY <1>0, <2>1, <2>2, <2>3, Position DEF WalkOK, program
  <2>6. QED
    BY <1>1, <2>1, <2>4, <2>5 DEF IInv
<1>5. CASE VisitUnknownCall
  <2>1. /\ AtItem /\ AtCall /\ m' = m /\ k' = k + 1 /\ Quiet
        /\ body[m][k].name = Local /\ calls_fn_ptrs' = calls_fn_ptrs \cup {m}
    BY <1>5 DEF VisitUnknownCall, AtCall
  <2>2. m \in Line /\ m \in user /\ k \in 1..Len(body[m])
    BY <1>0, <2>1, Position DEF AtItem, WalkOK
  <2>3. /\ \A l \in Line : l # m => Shown(l)' = Shown(l)
        /\ Shown(m)' = Shown(m) \cup {Local}
    BY <1>0, <2>1, ShowItem
  <2>4. TypeOK'
    BY SMTT(40), <1>0, <2>1, <2>2, Position DEF TypeOK, ProgramOK, program
  <2>5. WalkOK'
    <3>1. k' > 0 => (m \in user /\ k <= Len(body[m]) + 1)'
      BY <1>0, <2>1, <2>2, Position DEF program
    <3>2. \A l \in Line : (Range(callees[l]) = Shown(l) \ {Local})'
      BY <1>0, <2>1, <2>3 DEF WalkOK
    <3>3. ASSUME NEW l \in Line
          PROVE  (l \notin calls_fn_ptrs <=>
                   /\ l \in user /\ (l < m \/ (l = m /\ k > 0))
                   /\ Local \notin Shown(l))'
      BY <1>0, <2>1, <2>2, <2>3, Position DEF WalkOK, program
    <3>4. QED
      BY <3>1, <3>2, <3>3 DEF WalkOK
  <2>6. QED
    BY <1>1, <2>1, <2>4, <2>5 DEF IInv
<1>6. CASE VisitCall
  <2> DEFINE name == body[m][k].name
  <2>1. /\ AtItem /\ AtCall /\ m' = m /\ k' = k + 1 /\ UNCHANGED program
        /\ name # Local /\ calls_fn_ptrs' = calls_fn_ptrs
        /\ callees' = [callees EXCEPT ![m] = AddNode(@, name)]
        /\ callers' = [callers EXCEPT ![name] = AddNode(@, m)]
    BY <1>6 DEF VisitCall, AtCall
  <2>2. m \in Line /\ m \in user /\ k \in 1..Len(body[m]) /\ name \in Line
    BY <1>0, <2>1, Position DEF AtItem, WalkOK
  <2>3. /\ \A l \in Line : l # m => Shown(l)' = Shown(l)
        /\ Shown(m)' = Shown(m) \cup {name}
    BY <1>0, <2>1, ShowItem
  <2> HIDE DEF name
  <2>4. callees \in [Line -> Seq(Line)] /\ callers \in [Line -> Seq(Line)]
    BY <1>0 DEF TypeOK
  <2>5. /\ callees' \in [Line -> Seq(Line)] /\ callers' \in [Line -> Seq(Line)]
        /\ \A l \in Line : Range(callees'[l]) =
             IF l = m THEN Range(callees[l]) \cup {name} ELSE Range(callees[l])
        /\ \A l \in Line : Range(callers'[l]) =
             IF l = name THEN Range(callers[l]) \cup {m} ELSE Range(callers[l])
    <3>1. /\ AddNode(callees[m], name) \in Seq(Line)
          /\ Range(AddNode(callees[m], name)) = Range(callees[m]) \cup {name}
      BY <2>2, <2>4, AddedName
    <3>2. /\ AddNode(callers[name], m) \in Seq(Line)
          /\ Range(AddNode(callers[name], m)) = Range(callers[name]) \cup {m}
      BY <2>2, <2>4, AddedName
    <3>3. /\ callees'[m] = AddNode(callees[m], name)
          /\ \A l \in Line : l # m => callees'[l] = callees[l]
          /\ callers'[name] = AddNode(callers[name], m)
          /\ \A l \in Line : l # name => callers'[l] = callers[l]
      BY <2>1, <2>2, <2>4
    <3>4. callees' \in [Line -> Seq(Line)] /\ callers' \in [Line -> Seq(Line)]
      BY <2>1, <2>2, <2>4, <3>1, <3>2
    <3>5. QED
      BY <2>2, <3>1, <3>2, <3>3, <3>4
  <2>6. TypeOK'
    BY <1>0, <2>1, <2>5, Position DEF TypeOK, ProgramOK, program
  <2>7. CallersInvertCallees'
    <3>1. ASSUME NEW a \in Line, NEW b \in Line
          PROVE  b \in Range(callees'[a]) <=> a \in Range(callers'[b])
      <4>1. b \in Range(callees'[a]) <=> b \in Range(callees[a]) \/ (a = m /\ b = name)
        BY <2>5
      <4>2. a \in Range(callers'[b]) <=> a \in Range(callers[b]) \/ (a = m /\ b = name)
        BY <2>5
      <4>3. b \in Range(callees[a]) <=> a \in Range(callers[b])
        BY <1>0 DEF CallersInvertCallees
      <4>4. QED
        BY <4>1, <4>2, <4>3
    <3>2. QED
      BY <3>1 DEF CallersInvertCallees
  <2>9. WalkOK'
    <3>1. k' > 0 => (m \in user /\ k <= Len(body[m]) + 1)'
      BY <1>0, <2>1, <2>2, Position DEF program
    <3>2. \A l \in Line : (Range(callees[l]) = Shown(l) \ {Local})'
      BY <1>0, <2>1, <2>2, <2>3, <2>5 DEF WalkOK
    <3>3. ASSUME NEW l \in Line
          PROVE  (l \notin calls_fn_ptrs <=>
                   /\ l \in user /\ (l < m \/ (l = m /\ k > 0))
                   /\ Local \notin Shown(l))'
      BY <1>0, <2>1, <2>2, <2>3, Position DEF WalkOK, program
    <3>4. QED
      BY <3>1, <3>2, <3>3 DEF WalkOK
  <2>10. QED
    BY <2>6, <2>7, <2>9 DEF IInv
<1>7. CASE LeaveMethod
  <2>1. \A l \in Line : Shown(l)' = Shown(l)
    BY <1>0, <1>7, ShowNothing DEF LeaveMethod
  <2>2. m \in Line /\ m \in user
    BY <1>0, <1>7, Position DEF LeaveMethod, WalkOK
  <2>3. TypeOK'
    <3>1. m' \in 1..(Size + 1) /\ k' \in Nat
      BY <1>0, <1>7, Position, SizeAssumption DEF LeaveMethod
    <3>2. QED
      BY <1>0, <1>7, <3>1 DEF LeaveMethod, TypeOK, ProgramOK, program
  <2>4. WalkOK'
    <3>1. k > 0
      BY <1>0, <1>7, <2>2, Position DEF LeaveMethod
    <3>2. QED
      BY <1>0, <1>7, <2>1, <2>2, <3>1, Position DEF LeaveMethod, WalkOK, program
  <2>5. QED
    BY <1>1, <1>7, <2>3, <2>4 DEF IInv, LeaveMethod
<1>8. CASE UNCHANGED vars
  <2>1. Quiet /\ UNCHANGED <<calls_fn_ptrs, m, k>>
    BY <1>8 DEF vars
  <2>2. TypeOK'
    BY <1>0, <2>1 DEF TypeOK, ProgramOK, program
  <2>3. \A l \in Line : Shown(l)' = Shown(l)
    BY <2>1 DEF Shown, Before, program
  <2>4. WalkOK'
    BY <1>0, <2>1, <2>3 DEF WalkOK, program
  <2>5. QED
    BY <1>1, <2>1, <2>2, <2>4 DEF IInv
<1>9. QED
  BY <1>2, <1>3, <1>4, <1>5, <1>6, <1>7, <1>8 DEF Next

LEMMA Invariance == Spec => []IInv
BY InitIInv, NextIInv, PTL DEF Spec

-----------------------------------------------------------------------------

(* Type correctness.                                                       *)
THEOREM TypeCorrect == Spec => []TypeOK
<1>1. IInv => TypeOK
  BY DEF IInv
<1>2. QED
  BY Invariance, <1>1, PTL

(* Callees and callers are each other's inverse at every step of the walk. *)
THEOREM ListsAgree == Spec => []CallersInvertCallees
<1>1. IInv => CallersInvertCallees
  BY DEF IInv
<1>2. QED
  BY Invariance, <1>1, PTL

(* After the walk everything a body could show has been shown.             *)
LEMMA AllShown ==
  ASSUME TypeOK, m > Size
  PROVE  \A l \in Line : Shown(l) = Reported(body[l], "call")
<1> SUFFICES ASSUME NEW l \in Line PROVE Shown(l) = Reported(body[l], "call")
  OBVIOUS
<1>1. Before(l) = 1..Len(body[l]) /\ DOMAIN body[l] = 1..Len(body[l])
  <2>1. body[l] \in Seq(Item) /\ l < m
    BY Position, SizeAssumption
  <2>2. DOMAIN body[l] = 1..Len(body[l])
    BY <2>1, LenProperties
  <2>3. QED
    BY <2>1, <2>2 DEF Before
<1>2. QED
  BY <1>1 DEF Shown, Reported, Range

(* After the walk the callees of a line are exactly the calls it was shown.*)
THEOREM CalleesAreExact == Spec => []CalleesAreTheCalls
<1>1. IInv => CalleesAreTheCalls
  BY AllShown DEF IInv, WalkOK, CalleesAreTheCalls
<1>2. QED
  BY Invariance, <1>1, PTL

(* After the walk a line is cleared of calling function pointers exactly   *)
(* if it was shown no such call.                                           *)
THEOREM PointersAreExact == Spec => []PointersNoticed
<1>1. ASSUME IInv PROVE PointersNoticed
  <2> SUFFICES ASSUME m > Size, NEW l \in Line
               PROVE  l \notin calls_fn_ptrs <=>
                        l \in user /\ Local \notin Reported(body[l], "call")
    BY DEF PointersNoticed
  <2>1. Shown(l) = Reported(body[l], "call")
    BY <1>1, AllShown DEF IInv
  <2>2. l < m
    BY <1>1, Position, SizeAssumption DEF IInv
  <2>3. QED
    BY <1>1, <2>1, <2>2 DEF IInv, WalkOK
<1>2. QED
  BY Invariance, <1>1, PTL

-----------------------------------------------------------------------------
(***************************************************************************)
(* The termination analyzer, on any callees that are in the table.         *)
(***************************************************************************)

(* The inductive invariant.                                                *)

(* A line the pass has no reason to mark.                                  *)
Settled(l) ==
  \/ halts[l] = "always"
  \/ l \in WithWhile
  \/ l \in H!User \cap calls_fn_ptrs
  \/ line_kind[l] = "libc" /\ halts[l] = "unknown"
  \/ \E c \in CalleeSets[l] : halts[c] # "always"

(* What the pass has learnt: the lines behind it are settled, as long as   *)
(* it marked none; when it ends so, all are.                               *)
PassOK ==
  /\ halt_pc = "scan" => ~changed /\ \A l \in H!Line : l < i => Settled(l)
  /\ halt_pc = "while" /\ ~changed => \A l \in H!Line : Settled(l)
  /\ halt_pc = "done" => \A l \in H!Line : Settled(l)

ConstructorsHalt == \A l \in H!Line : line_kind[l] = "struct" => halts[l] = "always"

HaltInv == H!TypeOK /\ ConstructorsHalt /\ H!MarkedHalt /\ PassOK

-----------------------------------------------------------------------------

(* A line passed over is settled.                                          *)
LEMMA SkippedIsSettled ==
  ASSUME H!TypeOK, ConstructorsHalt, NEW l \in H!Line,
         ~(H!Candidate(l) /\ H!TerminatesByConstruction(l))
  PROVE  Settled(l)
<1>1. CASE halts[l] # "unknown"
  BY <1>1 DEF H!TypeOK, Settled
<1>2. CASE line_kind[l] = "libc" /\ halts[l] = "unknown"
  BY <1>2 DEF Settled
<1>3. CASE line_kind[l] # "libc" /\ halts[l] = "unknown"
  <2>1. line_kind[l] = "user" /\ l \in H!User
    BY <1>3 DEF H!TypeOK, H!ProgramOK, H!Kind, ConstructorsHalt, H!User
  <2>2. QED
    BY <1>3, <2>1 DEF H!Candidate, H!TerminatesByConstruction, H!AllCalleesTerminate,
                      Settled
<1>4. QED
  BY <1>1, <1>2, <1>3

(* A line that is marked has a body.                                       *)
LEMMA MarkedIsUser ==
  ASSUME H!TypeOK, ConstructorsHalt, NEW l \in H!Line, H!Candidate(l)
  PROVE  l \in H!User /\ halts[l] = "unknown" /\ l \notin calls_fn_ptrs
<1>1. line_kind[l] = "user"
  BY DEF H!TypeOK, H!ProgramOK, H!Kind, ConstructorsHalt, H!Candidate
<1>2. QED
  BY <1>1 DEF H!User, H!Candidate, H!AllCalleesTerminate

(* Marking one line disturbs no other.                                     *)
LEMMA MarkOne ==
  ASSUME H!TypeOK, ConstructorsHalt, H!Mark
  PROVE  /\ i \in H!Line /\ i \in H!User /\ halts[i] = "unknown"
         /\ i \notin WithWhile /\ i \notin calls_fn_ptrs
         /\ CalleeSets[i] \subseteq H!Always
         /\ halts' \in [H!Line -> {"always", "unknown"}]
         /\ halts'[i] = "always"
         /\ \A l \in H!Line : l # i => halts'[l] = halts[l]
         /\ H!Always' = H!Always \cup {i}
<1>1. i \in H!Line
  BY SizeAssumption DEF H!TypeOK, H!Mark, H!Line
<1>2. i \in H!User /\ halts[i] = "unknown" /\ i \notin calls_fn_ptrs
  BY <1>1, MarkedIsUser DEF H!Mark
<1>3. CalleeSets[i] \subseteq H!Always /\ i \notin WithWhile
  BY <1>1 DEF H!Mark, H!Candidate, H!AllCalleesTerminate, H!TerminatesByConstruction,
              H!TypeOK, H!ProgramOK, H!Always
<1>4. halts' = [halts EXCEPT ![i] = "always"] /\ halts \in [H!Line -> {"always", "unknown"}]
  BY DEF H!Mark, H!TypeOK
<1>5. /\ halts' \in [H!Line -> {"always", "unknown"}]
      /\ halts'[i] = "always"
      /\ \A l \in H!Line : l # i => halts'[l] = halts[l]
  BY <1>1, <1>4
<1>6. H!Always' = H!Always \cup {i}
  BY <1>1, <1>5 DEF H!Always
<1>7. QED
  BY <1>1, <1>2, <1>3, <1>5, <1>6

-----------------------------------------------------------------------------

LEMMA HaltInitInv == H!Init => HaltInv
<1> SUFFICES ASSUME H!Init PROVE HaltInv
  OBVIOUS
<1> USE DEF H!Init, H!ProgramOK, H!DeclaredHalts, H!Start
<1>1. H!TypeOK
  BY SizeAssumption DEF H!TypeOK
<1>2. ConstructorsHalt /\ PassOK
  BY DEF ConstructorsHalt, PassOK
<1>3. ASSUME NEW S \in SUBSET H!Line, H!Evasive(S), NEW l \in S \cap H!Always
      PROVE  FALSE
  <2>1. l \in H!Line /\ halts[l] = "always" /\ line_kind[l] # "user"
    BY <1>3 DEF H!Always
  <2>2. l \notin H!User /\ CalleeSets[l] = {}
    BY <2>1 DEF H!User
  <2>3. QED
    BY <1>3, <2>1, <2>2 DEF H!Evasive
<1>4. H!MarkedHalt
  BY <1>3 DEF H!MarkedHalt
<1>5. QED
  BY <1>1, <1>2, <1>4 DEF HaltInv

LEMMA HaltNextInv == HaltInv /\ [H!Next]_(H!vars) => HaltInv'
<1> SUFFICES ASSUME HaltInv, [H!Next]_(H!vars) PROVE HaltInv'
  OBVIOUS
<1>0. H!TypeOK /\ ConstructorsHalt /\ H!MarkedHalt /\ PassOK
  BY DEF HaltInv
<1> DEFINE Quiet == UNCHANGED <<H!program, halts>>
<1>1. ASSUME Quiet
      PROVE  /\ ConstructorsHalt' /\ H!MarkedHalt'
             /\ \A l \in H!Line : Settled(l)' <=> Settled(l)
  <2>1. /\ line_kind' = line_kind /\ WithWhile' = WithWhile /\ CalleeSets' = CalleeSets
        /\ calls_fn_ptrs' = calls_fn_ptrs /\ halts' = halts
    BY <1>1 DEF H!program
  <2>2. H!User' = H!User /\ H!Always' = H!Always
    BY <2>1 DEF H!User, H!Always
  <2>3. ConstructorsHalt' /\ (\A l \in H!Line : Settled(l)' <=> Settled(l))
    BY <1>0, <2>1, <2>2 DEF ConstructorsHalt, Settled
  <2>4. \A S : H!Evasive(S)' <=> H!Evasive(S)
    BY <2>1, <2>2 DEF H!Evasive
  <2>5. QED
    BY <1>0, <2>2, <2>3, <2>4 DEF H!MarkedHalt
<1>2. CASE H!EnterPass
  <2>1. Quiet /\ H!TypeOK'
    <3>1. Quiet /\ H!ProgramOK' /\ (halts \in [H!Line -> {"always", "unknown"}])'
      BY <1>2, <1>0 DEF H!EnterPass, H!TypeOK, H!ProgramOK, H!program, H!User
    <3>2. i' \in 1..(Size + 1)
      BY <1>2, SizeAssumption DEF H!EnterPass
    <3>3. changed' \in BOOLEAN /\ halt_pc' \in {"while", "scan", "done"}
      BY <1>2, Zenon DEF H!EnterPass
    <3>4. QED
      BY <3>1, <3>2, <3>3 DEF H!TypeOK
  <2>2. PassOK'
    BY <1>2, SizeAssumption DEF H!EnterPass, PassOK, H!Line
  <2>3. QED
    BY <1>1, <2>1, <2>2 DEF HaltInv
<1>3. CASE H!Skip
  <2>1. Quiet /\ H!TypeOK'
    BY <1>3, <1>0, SizeAssumption DEF H!Skip, H!TypeOK, H!ProgramOK, H!program, H!User
  <2>2. i \in H!Line
    BY <1>3, <1>0, SizeAssumption DEF H!Skip, H!TypeOK, H!Line
  <2>3. Settled(i)
    BY <1>3, <1>0, <2>2, SkippedIsSettled DEF H!Skip
  <2>4. \A l \in H!Line : l < i + 1 => Settled(l)
    <3>1. \A l \in H!Line : l < i + 1 => l < i \/ l = i
      BY <2>2, SizeAssumption DEF H!Line
    <3>2. QED
      BY <1>0, <1>3, <2>3, <3>1 DEF PassOK, H!Skip
  <2>5. PassOK'
    BY <1>0, <1>1, <1>3, <2>1, <2>4 DEF PassOK, H!Skip
  <2>6. QED
    BY <1>1, <2>1, <2>5 DEF HaltInv
<1>4. CASE H!Mark
  <2>1. /\ i \in H!Line /\ i \in H!User /\ halts[i] = "unknown"
        /\ i \notin WithWhile /\ i \notin calls_fn_ptrs
        /\ CalleeSets[i] \subseteq H!Always
        /\ halts' \in [H!Line -> {"always", "unknown"}]
        /\ halts'[i] = "always"
        /\ \A l \in H!Line : l # i => halts'[l] = halts[l]
        /\ H!Always' = H!Always \cup {i}
    BY <1>0, <1>4, MarkOne
  <2>2. /\ line_kind' = line_kind /\ WithWhile' = WithWhile /\ CalleeSets' = CalleeSets
        /\ calls_fn_ptrs' = calls_fn_ptrs /\ H!User' = H!User
        /\ changed' = TRUE /\ halt_pc' = "while" /\ i' = i
    BY <1>4 DEF H!Mark, H!program, H!User
  <2>3. H!TypeOK'
    BY <1>0, <2>1, <2>2 DEF H!TypeOK, H!ProgramOK
  <2>4. ConstructorsHalt' /\ PassOK'
    BY <1>0, <2>1, <2>2 DEF ConstructorsHalt, PassOK
  <2>5. ASSUME NEW S \in SUBSET H!Line, H!Evasive(S)'
        PROVE  S \cap H!Always' = {}
    <3>1. H!Evasive(S)
      BY <2>1, <2>2, <2>5 DEF H!Evasive, H!User
    <3>2. S \cap H!Always = {}
      BY <1>0, <3>1 DEF H!MarkedHalt
    <3>3. i \notin S
      BY <2>1, <3>1, <3>2 DEF H!Evasive, H!User
    <3>4. QED
      BY <2>1, <3>2, <3>3
  <2>6. H!MarkedHalt'
    BY <2>5 DEF H!MarkedHalt
  <2>7. QED
    BY <2>3, <2>4, <2>6 DEF HaltInv
<1>5. CASE H!EndPass
  <2>1. Quiet /\ H!TypeOK'
    BY <1>5, <1>0 DEF H!EndPass, H!TypeOK, H!ProgramOK, H!program, H!User
  <2>2. \A l \in H!Line : l < i
    BY <1>5, <1>0, SizeAssumption DEF H!EndPass, H!TypeOK, H!Line
  <2>3. PassOK'
    BY <1>0, <1>1, <1>5, <2>1, <2>2 DEF PassOK, H!EndPass
  <2>4. QED
    BY <1>1, <2>1, <2>3 DEF HaltInv
<1>6. CASE H!Return
  <2>1. Quiet /\ H!TypeOK'
    BY <1>6, <1>0 DEF H!Return, H!TypeOK, H!ProgramOK, H!program, H!User
  <2>2. PassOK'
    BY <1>0, <1>1, <1>6, <2>1 DEF PassOK, H!Return
  <2>3. QED
    BY <1>1, <2>1, <2>2 DEF HaltInv
<1>7. CASE UNCHANGED H!vars
  <2>1. Quiet /\ H!TypeOK' /\ UNCHANGED <<i, changed, halt_pc>>
    BY <1>7, <1>0 DEF H!vars, H!TypeOK, H!ProgramOK, H!program, H!User
  <2>2. PassOK'
    BY <1>0, <1>1, <2>1 DEF PassOK
  <2>3. QED
    BY <1>1, <2>1, <2>2 DEF HaltInv
<1>8. QED
  BY <1>2, <1>3, <1>4, <1>5, <1>6, <1>7 DEF H!Next

LEMMA HaltInvariance == H!SafeSpec => []HaltInv
BY HaltInitInv, HaltNextInv, PTL DEF H!SafeSpec

-----------------------------------------------------------------------------

(* At the end every line is settled.                                       *)
LEMMA SettledAtEnd == HaltInv => H!NothingMissed
<1> SUFFICES ASSUME HaltInv, halt_pc = "done", NEW l \in H!Line \ H!Always
             PROVE  \/ l \in WithWhile
                    \/ l \in H!User \cap calls_fn_ptrs
                    \/ line_kind[l] = "libc" /\ halts[l] = "unknown"
                    \/ CalleeSets[l] \cap (H!Line \ H!Always) # {}
  BY DEF H!NothingMissed, H!Evasive
<1>1. Settled(l) /\ halts[l] # "always" /\ CalleeSets[l] \subseteq H!Line
  BY DEF HaltInv, PassOK, H!TypeOK, H!ProgramOK, H!Always
<1>2. QED
  BY <1>1 DEF Settled, H!Always

(* Only a mark changes a verdict.                                          *)
LEMMA VerdictStep ==
  HaltInv /\ [H!Next]_(H!vars) =>
    \A l \in H!Line : halts'[l] # halts[l] => halts[l] = "unknown" /\ l \in H!User
<1> SUFFICES ASSUME HaltInv, [H!Next]_(H!vars), NEW l \in H!Line, halts'[l] # halts[l]
             PROVE  halts[l] = "unknown" /\ l \in H!User
  OBVIOUS
<1>1. H!Mark
  BY DEF H!Next, H!EnterPass, H!Skip, H!EndPass, H!Return, H!vars
<1>2. QED
  BY <1>1, MarkOne DEF HaltInv

(* Type correctness.                                                       *)
THEOREM HaltTypeCorrect == H!SafeSpec => []H!TypeOK
<1>1. HaltInv => H!TypeOK
  BY DEF HaltInv
<1>2. QED
  BY HaltInvariance, <1>1, PTL

(* Soundness of the verdicts, for any symbol table and any call graph: a   *)
(* subroutine that can reach a while loop, a function pointer, a prototype *)
(* not known to halt or itself is never marked HALTS_ALWAYS.               *)
THEOREM VerdictsAreSound == H!SafeSpec => []H!MarkedHalt
<1>1. HaltInv => H!MarkedHalt
  BY DEF HaltInv
<1>2. QED
  BY HaltInvariance, <1>1, PTL

(* Completeness of the analysis: when it returns, no further application   *)
(* of its rule would mark another subroutine.                              *)
THEOREM VerdictsAreComplete == H!SafeSpec => []H!NothingMissed
BY HaltInvariance, SettledAtEnd, PTL

(* A verdict is given once, to a line with a body, and never taken back.   *)
THEOREM VerdictsStay == H!SafeSpec => H!VerdictsAreFinal
<1>1. HaltInv /\ [H!Next]_(H!vars) =>
        [\A l \in H!Line : halts'[l] # halts[l] => halts[l] = "unknown" /\ l \in H!User]_(H!vars)
  BY VerdictStep
<1>2. QED
  BY HaltInvariance, <1>1, PTL DEF H!SafeSpec, H!VerdictsAreFinal

-----------------------------------------------------------------------------
(***************************************************************************)
(* The four analyses, one after another.                                   *)
(***************************************************************************)

(* The analyses with what is proved of each by itself.                     *)
DP == INSTANCE DeadAnalyzer_proofs WITH pc <- dead_pc

-----------------------------------------------------------------------------
(* The inductive invariant: that of each analysis, which waits for its     *)
(* turn as fill_tables left it.                                            *)

InTurn ==
  /\ m <= Size => D!Start /\ H!DeclaredHalts
  /\ dead_pc # "done" => H!Start
  /\ halt_pc # "done" => A!Start

(* What annot_halts and annot_deprecated say of a method, and annot_private *)
(* of an item of its block.                                                *)
Said(l) == A!annot_halts(l) \cup A!annot_deprecated(l)

CallAt(l, j) ==
  body[l][j].node = "call" /\ body[l][j].seen /\ body[l][j].name # Local

Told(l, j) ==
  LET name == body[l][j].name
  IN  A!Warns("private", name, l, namespace[name] # namespace[l])

(* The walk over the annotations has warned of all it has passed.          *)
Warned ==
  /\ am \in Nat /\ ak \in Nat /\ am > 0
  /\ ak > 0 => am \in user /\ current_namespace = namespace[am]
  /\ \A l \in user : l < am \/ (l = am /\ ak > 0) => Said(l) \subseteq warnings
  /\ \A l \in user : \A j \in 1..Len(body[l]) :
       (l < am \/ (l = am /\ j < ak)) /\ CallAt(l, j) => Told(l, j) \subseteq warnings

TableOK ==
  /\ user = {l \in Line : line_kind[l] = "user"}
  /\ line_kind \in [Line -> H!Kind] /\ main \in Line \cup {Local}
  /\ variables \in Seq(Name)
  /\ Range(variables) = UNION {Reported(body[l], "var") : l \in Line}

PInv == TableOK /\ IInv /\ DP!IInv /\ HaltInv /\ InTurn /\ Warned

-----------------------------------------------------------------------------
(* D and DP are the same definitions twice.                                *)

LEMMA SameDead ==
  /\ D!Next => DP!Next
  /\ D!Start => DP!Start
  /\ D!Live = DP!Live /\ D!Roots = DP!Roots
BY DEF D!Next, D!NoMain, D!HasMain, D!VisitVar, D!VisitMain, D!NextCallee, D!Leave,
       D!Return, D!Enter, D!Top, D!Rest, D!program, D!Start, D!Live, D!Roots, D!None,
       DP!Next, DP!NoMain, DP!HasMain, DP!VisitVar, DP!VisitMain, DP!NextCallee,
       DP!Leave, DP!Return, DP!Enter, DP!Top, DP!Rest, DP!program, DP!Start, DP!Live,
       DP!Roots, DP!None, D!Line, DP!Line, D!Range, DP!Range

-----------------------------------------------------------------------------
(* Each analysis finds what it may assume.                                 *)

LEMMA DeadInit == TableOK /\ TypeOK /\ D!Start => DP!IInv
<1> SUFFICES ASSUME TableOK, TypeOK, D!Start PROVE DP!IInv
  OBVIOUS
<1>1. DP!ProgramOK
  BY DEF TableOK, TypeOK, DP!ProgramOK, DP!None, DP!Line, Line, Local, Name
<1>2. QED
  BY <1>1, SameDead, DP!InitIInv, SizeAssumption DEF DP!Init

LEMMA HaltProgram ==
  ASSUME TableOK, IInv
  PROVE  H!ProgramOK
<1>1. H!User = user
  BY DEF TableOK, H!User, H!Line, Line
<1>2. ASSUME NEW l \in Line \ user
      PROVE  body[l] = <<>> /\ Reported(body[l], "while") = {} /\ Shown(l) = {}
  <2>1. body[l] = <<>> /\ Len(body[l]) = 0 /\ Range(body[l]) = {}
    BY <1>2 DEF IInv, TypeOK, ProgramOK, Range
  <2>2. QED
    BY <2>1 DEF Reported, Shown, Before
<1>3. WithWhile \subseteq H!User
  BY <1>1, <1>2 DEF WithWhile
<1>4. ASSUME NEW l \in Line
      PROVE  Range(callees[l]) \subseteq Line /\ (l \notin user => Range(callees[l]) = {})
  <2>1. callees[l] \in Seq(Line)
    BY DEF IInv, TypeOK
  <2>2. Range(callees[l]) \subseteq Line
    BY <2>1 DEF Range
  <2>3. QED
    BY <1>2, <2>2 DEF IInv, WalkOK
<1>5. calls_fn_ptrs \subseteq Line /\ Line \ user \subseteq calls_fn_ptrs
  BY DEF IInv, TypeOK, WalkOK
<1>6. line_kind \in [Line -> H!Kind]
  BY DEF TableOK, H!Kind, H!Line, Line
<1>7. QED
  BY <1>1, <1>3, <1>4, <1>5, <1>6 DEF H!ProgramOK, H!Line, Line, CalleeSets

LEMMA HaltInit == TableOK /\ IInv /\ H!DeclaredHalts /\ H!Start => HaltInv
BY HaltProgram, HaltInitInv DEF H!Init

-----------------------------------------------------------------------------
(* The steps of each analysis.                                             *)

LEMMA InitPInv == AnalysesInit => PInv
<1> SUFFICES ASSUME AnalysesInit PROVE PInv
  OBVIOUS
<1> USE DEF AnalysesInit, FilledTables
<1>1. TableOK
  BY DEF TableOK
<1>2. IInv
  BY InitIInv DEF Init
<1>3. TypeOK /\ D!Start /\ H!DeclaredHalts /\ H!Start /\ A!Start
  BY <1>2 DEF IInv
<1>4. DP!IInv /\ HaltInv
  BY <1>1, <1>2, <1>3, DeadInit, HaltInit
<1>5. InTurn
  BY <1>3 DEF InTurn
<1>6. Warned
  BY <1>2, <1>3, Position DEF Warned, A!Start, IInv, Line, TableOK
<1>7. QED
  BY <1>1, <1>2, <1>4, <1>5, <1>6 DEF PInv

(* While the functions are analyzed the other analyses wait.               *)
LEMMA FunctionsStep ==
  ASSUME PInv, AnalyzeFunctions
  PROVE  PInv' /\ m <= Size
<1>1. m <= Size /\ [Next]_vars
  BY DEF AnalyzeFunctions, Next, NoMethod, VisitMethod, VisitOther, VisitUnknownCall,
         VisitCall, LeaveMethod, AtCall, AtItem
<1>2. IInv'
  BY <1>1, NextIInv DEF PInv
<1>3. /\ UNCHANGED <<line_kind, main, variables, annotations, namespace>>
      /\ UNCHANGED <<dead_vars, halt_vars, annot_vars>> /\ UNCHANGED program
  BY DEF AnalyzeFunctions, Next, NoMethod, VisitMethod, VisitOther, VisitUnknownCall,
         VisitCall, LeaveMethod
<1>4. D!Start /\ H!DeclaredHalts /\ H!Start /\ A!Start
  BY <1>1 DEF PInv, InTurn, D!Start, H!Start
<1>5. TableOK'
  BY <1>3 DEF PInv, TableOK, program
<1>6. (D!Start /\ H!DeclaredHalts /\ H!Start /\ A!Start)'
  BY <1>3, <1>4 DEF dead_vars, halt_vars, annot_vars, D!Start, H!DeclaredHalts, H!Start,
                    A!Start, D!Line, H!Line
<1>7. (DP!IInv)'
  <2>1. TypeOK'
    BY <1>2 DEF IInv
  <2>2. QED
    BY <1>5, <1>6, <2>1, DeadInit, PTL
<1>8. (HaltInv)'
  BY <1>2, <1>5, <1>6, HaltInit, PTL
<1>9. InTurn'
  BY <1>6 DEF InTurn
<1>10. Warned'
  BY <1>2, <1>5, <1>6, Position DEF Warned, A!Start, IInv, Line, TableOK
<1>11. QED
  BY <1>1, <1>2, <1>5, <1>7, <1>8, <1>9, <1>10 DEF PInv

(* What the dead code analysis does not write stays as it is for the rest. *)
LEMMA DeadStep ==
  ASSUME PInv, AnalyzeDeadCode
  PROVE  PInv' /\ m > Size /\ [DP!Next]_(DP!vars)
<1>1. m > Size /\ DP!Next /\ UNCHANGED <<source, fn_vars, halt_vars, annot_vars>>
  BY SameDead DEF AnalyzeDeadCode
<1>2. dead_pc # "done"
  BY <1>1 DEF PInv, DP!IInv, DP!RootsOK, DP!Next, DP!NoMain, DP!HasMain, DP!VisitVar,
              DP!VisitMain, DP!NextCallee, DP!Leave, DP!Return
<1>3. DP!IInv'
  BY <1>1, DP!NextIInv, SizeAssumption DEF PInv
<1>4. IInv'
  <2>1. UNCHANGED vars
    BY <1>1 DEF source, fn_vars, vars, program
  <2>2. QED
    BY <2>1, NextIInv DEF PInv
<1>5. HaltInv'
  <2>1. UNCHANGED H!vars
    BY <1>1 DEF source, fn_vars, halt_vars, H!vars, H!program, program, CalleeSets,
                WithWhile, Reported
  <2>2. QED
    BY <2>1, HaltNextInv DEF PInv
<1>6. TableOK'
  BY <1>1 DEF PInv, TableOK, source, program, H!Kind, Reported
<1>7. H!Start /\ A!Start
  BY <1>2 DEF PInv, InTurn, H!Start
<1>8. (H!Start /\ A!Start)'
  BY <1>1, <1>7 DEF halt_vars, annot_vars, H!Start, A!Start
<1>9. m' = m /\ InTurn'
  <2>1. m' = m /\ ~(m' <= Size)
    BY <1>1, Position, SizeAssumption DEF fn_vars, PInv, IInv
  <2>2. QED
    BY <1>8, <2>1 DEF InTurn
<1>10. Warned'
  BY <1>4, <1>6, <1>8, Position DEF Warned, A!Start, IInv, Line, TableOK
<1>11. QED
  BY <1>1, <1>3, <1>4, <1>5, <1>6, <1>9, <1>10 DEF PInv

(* Nor does the termination analysis write what is not its own.            *)
LEMMA HaltStep ==
  ASSUME PInv, AnalyzeTermination
  PROVE  PInv' /\ m > Size /\ [H!Next]_(H!vars)
<1>1. /\ m > Size /\ dead_pc = "done" /\ H!Next
      /\ UNCHANGED <<source, fn_vars, dead_vars, annot_vars>>
  BY DEF AnalyzeTermination
<1>2. halt_pc # "done"
  BY <1>1 DEF H!Next, H!EnterPass, H!Skip, H!Mark, H!EndPass, H!Return
<1>3. HaltInv'
  BY <1>1, HaltNextInv DEF PInv
<1>4. IInv'
  <2>1. UNCHANGED vars
    BY <1>1 DEF source, fn_vars, vars, program
  <2>2. QED
    BY <2>1, NextIInv DEF PInv
<1>5. DP!IInv'
  <2>1. UNCHANGED DP!vars
    BY <1>1 DEF source, fn_vars, dead_vars, DP!vars, DP!program
  <2>2. QED
    BY <2>1, DP!NextIInv, SizeAssumption DEF PInv
<1>6. TableOK'
  BY <1>1 DEF PInv, TableOK, source, program, H!Kind, Reported
<1>7. A!Start'
  BY <1>1, <1>2 DEF PInv, InTurn, A!Start, annot_vars
<1>8. m' = m /\ InTurn'
  <2>1. m' = m /\ ~(m' <= Size) /\ dead_pc' = "done"
    BY <1>1, Position, SizeAssumption DEF fn_vars, dead_vars, PInv, IInv
  <2>2. QED
    BY <1>7, <2>1 DEF InTurn
<1>9. Warned'
  BY <1>4, <1>6, <1>7, Position DEF Warned, A!Start, IInv, Line, TableOK
<1>10. QED
  BY <1>1, <1>3, <1>4, <1>5, <1>6, <1>8, <1>9 DEF PInv

(* All three stay as they are while the annotations are looked at.         *)
LEMMA AnnotationsQuiet ==
  ASSUME PInv, \/ AnalyzeAnnotations
               \/ UNCHANGED all_vars
  PROVE  /\ (TableOK /\ IInv /\ DP!IInv /\ HaltInv)'
         /\ UNCHANGED <<source, fn_vars, dead_vars, halt_vars>>
<1>1. UNCHANGED <<source, fn_vars, dead_vars, halt_vars>>
  BY DEF AnalyzeAnnotations, all_vars
<1>2. UNCHANGED vars /\ UNCHANGED H!vars /\ UNCHANGED DP!vars
  BY <1>1 DEF source, fn_vars, halt_vars, dead_vars, vars, program, H!vars, H!program,
              DP!vars, DP!program, CalleeSets, WithWhile, Reported
<1>3. IInv' /\ DP!IInv' /\ HaltInv'
  BY <1>2, NextIInv, DP!NextIInv, HaltNextInv, SizeAssumption DEF PInv
<1>4. TableOK'
  BY <1>1 DEF PInv, TableOK, source, program, H!Kind, Reported
<1>5. QED
  BY <1>1, <1>3, <1>4

LEMMA AnnotationsStep ==
  ASSUME PInv, AnalyzeAnnotations
  PROVE  PInv'
<1>1. /\ (TableOK /\ IInv /\ DP!IInv /\ HaltInv)'
      /\ UNCHANGED <<source, fn_vars, dead_vars, halt_vars>>
      /\ halt_pc = "done" /\ A!Next
  BY AnnotationsQuiet DEF AnalyzeAnnotations
<1>2. /\ user' = user /\ body' = body /\ annotations' = annotations
      /\ namespace' = namespace /\ callers' = callers /\ halts' = halts
      /\ halt_pc' = halt_pc
  BY <1>1 DEF source, program, fn_vars, halt_vars
<1>3. InTurn'
  BY <1>1 DEF PInv, InTurn, fn_vars, dead_vars, halt_vars, D!Start, H!DeclaredHalts,
              H!Start, D!Line, H!Line
<1>4. /\ warnings \subseteq warnings' /\ am' \in {am, am + 1} /\ ak' \in Nat
      /\ am \in Nat /\ ak \in Nat /\ am > 0
  BY <1>1 DEF PInv, Warned, A!Next, A!NoMethod, A!VisitNamespace, A!VisitMethod,
              A!VisitCall, A!VisitOther, A!LeaveMethod
<1>5. \A l \in user : l \in Nat /\ l \in Line /\ l <= Size
  BY SizeAssumption DEF PInv, TableOK, Line
<1>6. \A l \in Line : Len(body[l]) \in Nat
  BY Position DEF PInv, IInv
<1>7. Warned'
  <2>0. /\ \A l : Said(l)' = Said(l)
        /\ \A l, j : Told(l, j)' = Told(l, j) /\ CallAt(l, j)' = CallAt(l, j)
    BY <1>2 DEF Said, Told, CallAt, A!annot_halts, A!annot_deprecated, A!Warns, A!Warning,
                A!Range
  <2> USE <1>2, <1>4, <1>5, <1>6, <2>0 DEF PInv, Warned
  <2>1. CASE A!NoMethod
    BY <2>1 DEF A!NoMethod
  <2>2. CASE A!VisitNamespace
    BY <2>2 DEF A!VisitNamespace
  <2>3. CASE A!VisitMethod
    BY <2>3 DEF A!VisitMethod, Said
  <2>4. CASE A!VisitCall
    BY <2>4 DEF A!VisitCall, Told, CallAt, A!AtCall, A!AtItem, A!annot_private
  <2>5. CASE A!VisitOther
    BY <2>5 DEF A!VisitOther, CallAt, A!AtCall, A!AtItem, A!Local, Local
  <2>6. CASE A!LeaveMethod
    BY <2>6 DEF A!LeaveMethod
  <2>7. QED
    BY <1>1, <2>1, <2>2, <2>3, <2>4, <2>5, <2>6 DEF A!Next
<1>8. QED
  BY <1>1, <1>3, <1>7 DEF PInv

LEMMA NextPInv == PInv /\ [AnalysesNext]_all_vars => PInv'
<1> SUFFICES ASSUME PInv, [AnalysesNext]_all_vars PROVE PInv'
  OBVIOUS
<1>1. CASE UNCHANGED all_vars
  <2>1. (TableOK /\ IInv /\ DP!IInv /\ HaltInv)'
    BY <1>1, AnnotationsQuiet
  <2>2. UNCHANGED <<source, fn_vars, dead_vars, halt_vars, annot_vars>>
    BY <1>1 DEF all_vars
  <2>3. InTurn'
    BY <2>2 DEF PInv, InTurn, source, fn_vars, dead_vars, halt_vars, annot_vars, D!Start,
                H!DeclaredHalts, H!Start, A!Start, D!Line, H!Line
  <2>4. Warned'
    <3>1. /\ user' = user /\ body' = body /\ namespace' = namespace /\ am' = am /\ ak' = ak
          /\ current_namespace' = current_namespace /\ warnings' = warnings
      BY <2>2 DEF source, program, annot_vars
    <3>2. /\ \A l : Said(l)' = Said(l)
          /\ \A l, j : Told(l, j)' = Told(l, j) /\ CallAt(l, j)' = CallAt(l, j)
      BY <2>2 DEF source, program, fn_vars, halt_vars, Said, Told, CallAt, A!annot_halts,
                  A!annot_deprecated, A!Warns, A!Warning, A!Range
    <3>3. QED
      BY <3>1, <3>2 DEF PInv, Warned
  <2>5. QED
    BY <2>1, <2>3, <2>4 DEF PInv
<1>2. QED
  BY <1>1, FunctionsStep, DeadStep, HaltStep, AnnotationsStep DEF AnalysesNext

LEMMA PipelineInvariance == AnalysesSafeSpec => []PInv
BY InitPInv, NextPInv, PTL DEF AnalysesSafeSpec

-----------------------------------------------------------------------------
(* What holds of the verdicts, for every program.                          *)

(* What the visitor has shown is on record once the first walk is over.    *)
LEMMA Recorded ==
  ASSUME PInv, m > Size, NEW l \in Line
  PROVE  /\ Range(callees[l]) = Reported(body[l], "call") \ {Local}
         /\ l \notin calls_fn_ptrs <=> l \in user /\ Local \notin Reported(body[l], "call")
<1>1. Shown(l) = Reported(body[l], "call") /\ l < m
  BY AllShown, Position, SizeAssumption DEF PInv, IInv
<1>2. QED
  BY <1>1 DEF PInv, IInv, WalkOK

(* A name in a body is a name of a line that has one.                      *)
LEMMA NamedByUser ==
  ASSUME PInv, NEW l \in Line, NEW node, NamesOf(body[l], node) # {}
  PROVE  l \in user
<1>1. Range(body[l]) # {}
  BY DEF NamesOf
<1>2. body[l] # <<>>
  BY <1>1 DEF Range
<1>3. QED
  BY <1>2 DEF PInv, IInv, TypeOK, ProgramOK

(* Everything the visitor passes by aside, it shows what is there.         *)
LEMMA SeenIsReported ==
  ASSUME AllSeen, NEW l \in Line, NEW node
  PROVE  NamesOf(body[l], node) = Reported(body[l], node)
BY DEF AllSeen, NamesOf, Reported

(* A subroutine marked HALTS_ALWAYS is in no set of subroutines that may   *)
(* keep each other running, whatever the program and its call graph.       *)
LEMMA HaltingIsSound == PInv => MarkedTerminates
<1> SUFFICES ASSUME PInv, AllSeen, NEW S \in SUBSET Line, MayRunForever(S), NEW l \in S,
                    halts[l] = "always"
             PROVE  FALSE
  BY DEF MarkedTerminates
<1>1. CASE m <= Size
  <2>1. line_kind[l] # "user"
    BY <1>1 DEF PInv, InTurn, H!DeclaredHalts, H!Line, Line
  <2>2. l \notin user
    BY <2>1 DEF PInv, TableOK
  <2>3. NamesOf(body[l], "while") = {} /\ NamesOf(body[l], "call") = {}
    BY <2>2, NamedByUser
  <2>4. QED
    BY <2>3 DEF MayRunForever
<1>2. CASE m > Size
  <2>1. ASSUME NEW c \in S
        PROVE  \/ c \in WithWhile
               \/ c \in user \cap calls_fn_ptrs
               \/ line_kind[c] = "libc" /\ halts[c] = "unknown"
               \/ Range(callees[c]) \cap S # {}
    <3>1. /\ Range(callees[c]) = NamesOf(body[c], "call") \ {Local}
          /\ c \notin calls_fn_ptrs <=> c \in user /\ Local \notin NamesOf(body[c], "call")
          /\ c \in WithWhile <=> NamesOf(body[c], "while") # {}
      BY <1>2, Recorded, SeenIsReported DEF WithWhile
    <3>2. S \subseteq Line /\ Local \notin Line
      BY SizeAssumption DEF Local, Line
    <3>3. CASE NamesOf(body[c], "while") # {}
      BY <3>1, <3>3
    <3>4. CASE Local \in NamesOf(body[c], "call")
      BY <3>1, <3>4, NamedByUser
    <3>5. CASE NamesOf(body[c], "call") \cap S # {}
      BY <3>1, <3>2, <3>5
    <3>6. QED
      BY <2>1, <3>3, <3>4, <3>5 DEF MayRunForever
  <2>2. H!Evasive(S)
    <3>1. H!User = user
      BY DEF PInv, TableOK, H!User, H!Line, Line
    <3>2. QED
      BY <2>1, <3>1 DEF H!Evasive, CalleeSets
  <2>3. S \cap H!Always = {}
    BY <2>2 DEF PInv, HaltInv, H!MarkedHalt, H!Line, Line
  <2>4. QED
    BY <2>3 DEF H!Always, H!Line, Line
<1>3. QED
  BY <1>1, <1>2, Position, SizeAssumption DEF PInv, IInv

(* The lines marked live are those that main and the variables lead to.    *)
LEMMA LiveIsExact == PInv => LiveIsReachable
<1> DEFINE Mentioned == (UNION {NamesOf(body[l], "var") : l \in Line}) \ {Local}
           Closed(S) == /\ {main} \cup Mentioned \subseteq S
                        /\ \A l \in S : NamesOf(body[l], "call") \ {Local} \subseteq S
<1> SUFFICES ASSUME PInv, AllSeen, dead_pc = "done", main # Local
             PROVE  Closed(D!Live) /\ \A S \in SUBSET Line : Closed(S) => D!Live \subseteq S
  BY DEF LiveIsReachable, D!Live, D!Line, Line
<1>1. m > Size
  BY Position, SizeAssumption DEF PInv, IInv, InTurn, D!Start
<1>2. \A l \in Line : Range(callees[l]) = NamesOf(body[l], "call") \ {Local}
  BY <1>1, Recorded, SeenIsReported
<1>3. DP!Roots = {main} \cup Mentioned
  <2>1. DP!Roots = {main} \cup (Range(variables) \ {Local})
    BY DEF DP!Roots, DP!None, DP!Range, Range, Local
  <2>2. \A l \in Line : NamesOf(body[l], "var") = Reported(body[l], "var")
    BY SeenIsReported
  <2>3. Range(variables) = UNION {NamesOf(body[l], "var") : l \in Line}
    BY <2>2 DEF PInv, TableOK
  <2>4. QED
    BY <2>1, <2>3
<1>4. D!Live = DP!Live /\ DP!Live \subseteq Line
  BY SameDead DEF DP!Live, DP!Line, Line
<1>5. ASSUME NEW S \in SUBSET Line
      PROVE  Closed(S) <=> DP!Roots \subseteq S /\ DP!ClosedUnderCalls(S)
  BY <1>2, <1>3 DEF DP!ClosedUnderCalls, DP!Range, Range
<1>6. DP!LiveIsClosed /\ DP!LiveIsReached
  BY DP!ClosedAtEnd, SizeAssumption DEF PInv, DP!IInv
<1>7. QED
  BY <1>4, <1>5, <1>6 DEF DP!LiveIsClosed, DP!LiveIsReached, DP!Line, Line

(* An annotation nothing was said about can be relied on.                  *)
LEMMA SilenceIsSound == PInv => SilenceIsEarned
<1> DEFINE Silent(annotation, l) ==
             /\ annotation \in annotations[l]
             /\ \A w \in warnings : w.annotation = annotation => w.line # l
           CallersOf(l) == {c \in Line : l \in NamesOf(body[c], "call")}
<1> SUFFICES ASSUME PInv, AllSeen, am > Size, NEW l \in user
             PROVE  /\ Silent("halts", l) =>
                         \A S \in SUBSET Line : MayRunForever(S) => l \notin S
                    /\ Silent("deprecated", l) => CallersOf(l) = {}
                    /\ Silent("private", l) =>
                         \A c \in CallersOf(l) : namespace[c] = namespace[l]
  BY DEF SilenceIsEarned
<1>1. m > Size
  BY Position, SizeAssumption DEF PInv, IInv, InTurn, A!Start, H!Start, D!Start
<1>2. \A c \in user : c \in Line /\ c < am /\ Said(c) \subseteq warnings
  BY SizeAssumption DEF PInv, TableOK, Line, Warned
<1>3. ASSUME Silent("halts", l)
      PROVE  halts[l] = "always"
  <2>1. halts[l] # "always" => A!Warning("halts", l, l) \in warnings
    BY <1>2, <1>3 DEF Said, A!annot_halts, A!Warns
  <2>2. QED
    BY <1>3, <2>1 DEF A!Warning
<1>4. ASSUME NEW c \in CallersOf(l)
      PROVE  c \in Range(callers[l]) /\ c \in user
  <2>1. l \in Line /\ l # Local
    BY <1>2, SizeAssumption DEF Line, Local
  <2>2. l \in Range(callees[c])
    BY <1>1, <2>1, Recorded, SeenIsReported
  <2>3. QED
    BY <1>4, <2>1, <2>2, NamedByUser DEF PInv, IInv, CallersInvertCallees
<1>5. ASSUME Silent("deprecated", l), NEW c \in CallersOf(l)
      PROVE  FALSE
  <2>1. A!Warning("deprecated", l, c) \in warnings
    BY <1>2, <1>4, <1>5 DEF Said, A!annot_deprecated, A!Warns, A!Range, Range
  <2>2. QED
    BY <1>5, <2>1 DEF A!Warning
<1>6. ASSUME Silent("private", l), NEW c \in CallersOf(l), namespace[c] # namespace[l]
      PROVE  FALSE
  <2>1. c \in user /\ body[c] \in Seq(Item) /\ l \in NamesOf(body[c], "call")
    BY <1>4, Position DEF PInv, IInv
  <2>2. PICK j \in 1..Len(body[c]) : body[c][j].node = "call" /\ body[c][j].name = l
    BY <2>1, LenProperties DEF NamesOf, Range
  <2>3. CallAt(c, j)
    <3>1. body[c][j].seen
      BY <1>2, <2>1, <2>2, LenProperties DEF AllSeen, Range
    <3>2. l # Local
      BY <1>2, SizeAssumption DEF Line, Local
    <3>3. QED
      BY <2>2, <3>1, <3>2 DEF CallAt
  <2>4. Told(c, j) \subseteq warnings
    BY <1>2, <2>1, <2>3 DEF PInv, Warned
  <2>5. A!Warning("private", l, c) \in warnings
    BY <1>6, <2>2, <2>4 DEF Told, A!Warns
  <2>6. QED
    BY <1>6, <2>5 DEF A!Warning
<1>7. ASSUME Silent("halts", l), NEW S \in SUBSET Line, MayRunForever(S)
      PROVE  l \notin S
  BY <1>3, <1>7, HaltingIsSound DEF MarkedTerminates
<1>8. QED
  BY <1>5, <1>6, <1>7

-----------------------------------------------------------------------------

(* The verdict on a subroutine can be trusted: one that is marked as       *)
(* terminating calls, directly or through others, no loop, no function     *)
(* pointer, no prototype that may not return and no one that calls it.     *)
THEOREM HaltingCanBeTrusted == AnalysesSafeSpec => []MarkedTerminates
BY PipelineInvariance, HaltingIsSound, PTL

(* What is left out as dead is never called, nothing live is left out, and *)
(* nothing else is kept.                                                   *)
THEOREM LiveIsWhatIsCalled == AnalysesSafeSpec => []LiveIsReachable
BY PipelineInvariance, LiveIsExact, PTL

(* No warning means that the annotation holds.                             *)
THEOREM AnnotationsHold == AnalysesSafeSpec => []SilenceIsEarned
BY PipelineInvariance, SilenceIsSound, PTL

(* The passes give up on no subroutine that their rule would still mark.   *)
THEOREM PassesMissNothing == AnalysesSafeSpec => []NothingMissed
<1>1. PInv => NothingMissed
  BY SettledAtEnd DEF PInv, NothingMissed
<1>2. QED
  BY PipelineInvariance, <1>1, PTL

(* mark_live never works on a line twice at a time: however subroutines    *)
(* call each other, its recursion is no deeper than the table is long.     *)
THEOREM RecursionStaysShallow == AnalysesSafeSpec => []NoLineTwice
<1>1. PInv => NoLineTwice
  BY DEF PInv, DP!IInv, DP!FramesOK, NoLineTwice, D!NoLineTwice
<1>2. QED
  BY PipelineInvariance, <1>1, PTL

(* A verdict is given by a mark of the passes and by nothing else.         *)
LEMMA VerdictIsMark ==
  ASSUME PInv, [AnalysesNext]_all_vars, NEW l \in Line, halts'[l] # halts[l]
  PROVE  m > Size /\ HaltInv /\ H!Mark /\ UNCHANGED source
<1>1. AnalyzeTermination
  BY DEF AnalysesNext, AnalyzeFunctions, AnalyzeDeadCode, AnalyzeAnnotations, all_vars,
         halt_vars
<1>2. m > Size /\ [H!Next]_(H!vars) /\ UNCHANGED source
  BY <1>1, HaltStep DEF AnalyzeTermination
<1>3. H!Mark
  BY <1>2 DEF H!Next, H!EnterPass, H!Skip, H!EndPass, H!Return, H!vars
<1>4. QED
  BY <1>2, <1>3 DEF PInv

(* No analysis takes a verdict back, and none is given to a prototype.     *)
THEOREM VerdictsStand == AnalysesSafeSpec => VerdictsAreFinal
<1>1. PInv /\ [AnalysesNext]_all_vars =>
        [\A l \in H!Line : halts'[l] # halts[l] => halts[l] = "unknown" /\ l \in H!User]_(H!vars)
  <2> SUFFICES ASSUME PInv, [AnalysesNext]_all_vars, NEW l \in Line, halts'[l] # halts[l]
               PROVE  halts[l] = "unknown" /\ l \in H!User
    BY DEF H!Line, Line
  <2>1. HaltInv /\ [H!Next]_(H!vars)
    BY VerdictIsMark DEF H!Next
  <2>2. QED
    BY <2>1, VerdictStep DEF H!Line, Line
<1>2. QED
  BY PipelineInvariance, <1>1, PTL DEF AnalysesSafeSpec, VerdictsAreFinal, H!VerdictsAreFinal

-----------------------------------------------------------------------------
(* The pipeline implements what the two analyses promise.                  *)

(* What T is told of the program does not change.                          *)
LEMMA SourceStays ==
  ASSUME PInv, [AnalysesNext]_all_vars
  PROVE  UNCHANGED source
BY FunctionsStep DEF AnalysesNext, AnalyzeFunctions, AnalyzeDeadCode, AnalyzeTermination,
       AnalyzeAnnotations, all_vars, source, program, Next, NoMethod, VisitMethod,
       VisitOther, VisitUnknownCall, VisitCall, LeaveMethod

LEMMA ShownAreLines ==
  ASSUME PInv, NEW l \in Line
  PROVE  ShownCalls[l] \subseteq Line
<1>1. \A j \in 1..Len(body[l]) : body[l][j].name \in Line \cup {Local}
  BY Position DEF PInv, IInv
<1>2. DOMAIN body[l] = 1..Len(body[l])
  BY Position, LenProperties DEF PInv, IInv
<1>3. QED
  BY <1>1, <1>2 DEF ShownCalls, Reported, Range

(* Every mark of the passes, on the callees the first walk has recorded,   *)
(* is one application of the rule to the calls of the source.              *)
THEOREM AppliesTheRule == AnalysesSafeSpec => T!SafeSpec
<1>1. AnalysesInit => T!Init
  <2> SUFFICES ASSUME AnalysesInit PROVE T!Init
    OBVIOUS
  <2>1. PInv
    BY InitPInv
  <2>2. user \subseteq Line /\ WithWhile \subseteq Line
    BY <2>1 DEF PInv, TableOK, WithWhile
  <2>3. ShownCalls \in [Line -> SUBSET Line]
    BY <2>1, ShownAreLines DEF ShownCalls
  <2>4. H!Always \subseteq Line /\ H!Always \cap user = {}
    BY <2>1 DEF AnalysesInit, FilledTables, H!DeclaredHalts, H!Always, H!Line, Line
  <2>5. QED
    BY <2>2, <2>3, <2>4 DEF T!Init, T!TypeOK, T!Line, Line
<1>2. PInv /\ [AnalysesNext]_all_vars => [T!Next]_(T!vars)
  <2> SUFFICES ASSUME PInv, [AnalysesNext]_all_vars PROVE [T!Next]_(T!vars)
    OBVIOUS
  <2>1. UNCHANGED T!program
    <3>1. body' = body /\ user' = user
      BY SourceStays DEF source, program
    <3>2. QED
      BY <3>1 DEF T!program, WithWhile, ShownCalls, Reported
  <2>2. CASE \A l \in Line : halts'[l] = halts[l]
    BY <2>1, <2>2 DEF T!vars, H!Always, H!Line, Line
  <2>3. CASE \E l \in Line : halts'[l] # halts[l]
    <3>1. m > Size /\ HaltInv /\ H!Mark
      BY <2>3, VerdictIsMark
    <3>2. /\ i \in Line /\ i \in user /\ halts[i] = "unknown"
          /\ i \notin WithWhile /\ i \notin calls_fn_ptrs
          /\ Range(callees[i]) \subseteq H!Always
          /\ H!Always' = H!Always \cup {i}
      <4>1. H!User = user
        BY DEF PInv, TableOK, H!User, H!Line, Line
      <4>2. /\ i \in H!Line /\ i \in H!User /\ halts[i] = "unknown"
            /\ i \notin WithWhile /\ i \notin calls_fn_ptrs
            /\ CalleeSets[i] \subseteq H!Always
            /\ H!Always' = H!Always \cup {i}
        BY <3>1, MarkOne DEF HaltInv
      <4>3. i \in Line
        BY <4>2 DEF H!Line, Line
      <4>4. QED
        BY <4>1, <4>2, <4>3 DEF CalleeSets
    <3>3. ShownCalls[i] = Range(callees[i]) /\ Local \notin Reported(body[i], "call")
      BY <3>1, <3>2, Recorded DEF ShownCalls
    <3>4. i \notin H!Always
      BY <3>2 DEF H!Always
    <3>5. T!Infer(i)
      BY <2>1, <3>2, <3>3, <3>4 DEF T!Infer, T!Justified
    <3>6. QED
      BY <3>2, <3>5 DEF T!Next, T!Line, Line
  <2>4. QED
    BY <2>2, <2>3
<1>3. QED
  BY <1>1, <1>2, PipelineInvariance, PTL DEF AnalysesSafeSpec, T!SafeSpec

(* Every subroutine found live is a root, or called by a live one in the   *)
(* source.                                                                 *)
THEOREM SearchesTheCalls == AnalysesSafeSpec => R!SafeSpec
<1>1. AnalysesInit => R!Init
  <2> SUFFICES ASSUME AnalysesInit PROVE R!Init
    OBVIOUS
  <2>1. PInv
    BY InitPInv
  <2>2. ShownCalls \in [Line -> SUBSET Line]
    BY <2>1, ShownAreLines DEF ShownCalls
  <2>3. D!Live = {}
    BY DEF AnalysesInit, FilledTables, D!Start, D!Live, D!Line
  <2>4. D!Roots \subseteq Line
    <3>1. variables \in Seq(Line \cup {0}) /\ main \in Line \cup {0}
      BY DEF AnalysesInit, FilledTables, Name, Local
    <3>2. DOMAIN variables = 1..Len(variables)
      BY <3>1, LenProperties
    <3>3. Range(variables) \subseteq Line \cup {0}
      BY <3>1, <3>2, ElementOfSeq DEF Range
    <3>4. QED
      BY <3>1, <3>3 DEF D!Roots, D!None, D!Range, Range, D!Line, Line
  <2>5. QED
    BY <2>2, <2>3, <2>4 DEF R!Init, R!Line, Line
<1>2. PInv /\ [AnalysesNext]_all_vars => [R!Grow]_(R!vars)
  <2> SUFFICES ASSUME PInv, [AnalysesNext]_all_vars PROVE [R!Grow]_(R!vars)
    OBVIOUS
  <2>1. UNCHANGED <<D!Roots, ShownCalls>>
    <3>1. body' = body /\ main' = main /\ variables' = variables
      BY SourceStays DEF source, program
    <3>2. QED
      BY <3>1 DEF D!Roots, D!Range, ShownCalls, Reported
  <2>2. CASE ~AnalyzeDeadCode
    <3>1. dead' = dead
      BY <2>2 DEF AnalysesNext, AnalyzeFunctions, AnalyzeTermination, AnalyzeAnnotations,
                  all_vars, dead_vars
    <3>2. QED
      BY <2>1, <3>1 DEF R!vars, D!Live
  <2>3. CASE AnalyzeDeadCode
    <3>1. m > Size /\ [DP!Next]_(DP!vars) /\ DP!IInv
      BY <2>3, DeadStep DEF PInv
    <3>2. /\ DP!Live \subseteq DP!Live'
          /\ \A l \in DP!Live' \ DP!Live :
               l \in DP!Roots \/ \E q \in DP!Live : l \in DP!Range(callees[q])
      BY <3>1, DP!LiveGrows, SizeAssumption
    <3>3. D!Live = DP!Live /\ D!Live' = DP!Live' /\ D!Roots = DP!Roots /\ D!Live \subseteq Line
      BY SameDead DEF D!Live, DP!Live, D!Line, DP!Line, Line
    <3>4. \A q \in D!Live : DP!Range(callees[q]) = ShownCalls[q]
      BY <3>1, <3>3, Recorded DEF ShownCalls, DP!Range, Range
    <3> DEFINE found == D!Live' \ D!Live
    <3>5. found \subseteq R!Frontier /\ D!Live' = D!Live \cup found
      BY <3>2, <3>3, <3>4 DEF R!Frontier
    <3>6. CASE found = {}
      BY <2>1, <3>5, <3>6 DEF R!vars
    <3>7. CASE found # {}
      BY <2>1, <3>5, <3>7 DEF R!Grow
    <3>8. QED
      BY <3>6, <3>7
  <2>4. QED
    BY <2>2, <2>3
<1>3. QED
  BY <1>1, <1>2, PipelineInvariance, PTL DEF AnalysesSafeSpec, R!SafeSpec

=============================================================================
