------------------------- MODULE DeadAnalyzer_proofs ------------------------
(* What the dead code analysis guarantees of every call graph.             *)
EXTENDS DeadAnalyzer, SequenceTheorems, TLAPS

Frame == [line : Line, next : Nat \ {0}]

-----------------------------------------------------------------------------
(* The inductive invariant.                                                *)

(* A call of mark_live is still going to look at callee j of l.            *)
Pending(frames, l, j) ==
  \E f \in 1..Len(frames) : frames[f].line = l /\ frames[f].next <= j

(* Every callee of a live line is live, or about to be looked at.          *)
Covered(frames, seen) ==
  \A l \in Live : \A j \in 1..Len(callees[l]) :
    callees[l][j] \in seen \/ Pending(frames, l, j)

(* The frames of mark_live are of live lines, all different.               *)
FramesOK(frames) ==
  /\ \A f \in 1..Len(frames) : frames[f].line \in Live
  /\ \A a, b \in 1..Len(frames) : frames[a].line = frames[b].line => a = b

(* What the walk has done of the roots.                                    *)
RootsOK ==
  /\ pc = "start" => Live = {}
  /\ pc \in {"start", "done"} => stack = <<>>
  /\ pc \in {"visit", "main"} => main # None
  /\ main = None /\ pc = "done" => Live = Line
  /\ \A w \in 1..Len(variables) : w < v /\ variables[w] # None => variables[w] \in Live
  /\ pc = "start" => v = 1
  /\ v \in 1..(Len(variables) + 1)
  /\ pc \in {"main", "done"} /\ main # None => main \in Live /\ v > Len(variables)

IInv ==
  /\ TypeOK
  /\ dead \in [Line -> {"islive", "unknown"}]
  /\ RootsOK
  /\ FramesOK(stack)
  /\ Covered(stack, Live)
  /\ LiveIsReached

-----------------------------------------------------------------------------
(* The calls of mark_live.                                                 *)

LEMMA Types ==
  ASSUME TypeOK
  PROVE  /\ stack \in Seq(Frame) /\ Len(stack) \in Nat
         /\ callees \in [Line -> Seq(Line)]
         /\ \A l \in Line : Len(callees[l]) \in Nat
         /\ \A l \in Line : \A j \in 1..Len(callees[l]) : callees[l][j] \in Line
         /\ Len(variables) \in Nat
         /\ \A w \in 1..Len(variables) : variables[w] \in Line \cup {None}
         /\ Live \subseteq Line /\ Roots \subseteq Line
<1>1. stack \in Seq(Frame) /\ Len(stack) \in Nat
  BY LenProperties DEF TypeOK, Frame
<1>2. callees \in [Line -> Seq(Line)]
  BY DEF TypeOK, ProgramOK
<1>3. \A l \in Line : Len(callees[l]) \in Nat
  BY <1>2, LenProperties
<1>4. \A l \in Line : \A j \in 1..Len(callees[l]) : callees[l][j] \in Line
  BY <1>2, ElementOfSeq
<1>5. variables \in Seq(Line \cup {None}) /\ main \in Line \cup {None}
  BY DEF TypeOK, ProgramOK
<1>6. Len(variables) \in Nat
  BY <1>5, LenProperties
<1>7. \A w \in 1..Len(variables) : variables[w] \in Line \cup {None}
  BY <1>5, ElementOfSeq
<1>8. DOMAIN variables = 1..Len(variables)
  BY <1>5, LenProperties
<1>9. Live \subseteq Line /\ Roots \subseteq Line
  BY <1>5, <1>7, <1>8 DEF Live, Roots, Range
<1>10. QED
  BY <1>1, <1>2, <1>3, <1>4, <1>6, <1>7, <1>9

LEMMA EmptyStack ==
  /\ <<>> \in Seq(Frame) /\ Len(<<>>) = 0
  /\ \A l, j : ~Pending(<<>>, l, j)
BY EmptySeq DEF Pending

(* What mark_live does at once: the line is live, and if it was not, its   *)
(* frame is on top of the others.                                          *)
LEMMA Entered ==
  ASSUME NEW frames \in Seq(Frame), NEW l \in Line,
         dead \in [Line -> {"islive", "unknown"}], Enter(frames, l)
  PROVE  /\ dead' \in [Line -> {"islive", "unknown"}]
         /\ Live' = Live \cup {l}
         /\ stack' \in Seq(Frame)
         /\ \A f \in 1..Len(frames) : f \in 1..Len(stack') /\ stack'[f] = frames[f]
         /\ l \in Live => stack' = frames
         /\ l \notin Live => /\ Len(stack') = Len(frames) + 1
                             /\ stack'[Len(frames) + 1] = [line |-> l, next |-> 1]
<1>1. CASE dead[l] = "unknown"
  <2> DEFINE top == [line |-> l, next |-> 1]
  <2>1. top \in Frame
    BY DEF Frame
  <2>2. /\ dead' = [dead EXCEPT ![l] = "islive"]
        /\ stack' = Append(frames, top)
    BY <1>1 DEF Enter
  <2>3. /\ stack' \in Seq(Frame) /\ Len(stack') = Len(frames) + 1 /\ Len(frames) \in Nat
        /\ \A f \in 1..Len(frames) : stack'[f] = frames[f]
        /\ stack'[Len(frames) + 1] = top
    BY <2>1, <2>2, AppendProperties, LenProperties
  <2>4. l \notin Live /\ Live' = Live \cup {l}
    BY <1>1, <2>2 DEF Live
  <2>5. QED
    BY <2>2, <2>3, <2>4
<1>2. CASE dead[l] = "islive"
  <2>1. stack' = frames /\ dead' = dead /\ Live' = Live /\ l \in Live
    BY <1>2 DEF Enter, Live
  <2>2. QED
    BY <2>1
<1>3. QED
  BY <1>1, <1>2

(* Entering a line keeps the frames in order, if the line itself was all   *)
(* they left open.                                                         *)
LEMMA EnterStep ==
  ASSUME TypeOK, callees' = callees,
         NEW frames \in Seq(Frame), NEW l \in Line,
         dead \in [Line -> {"islive", "unknown"}], Enter(frames, l),
         FramesOK(frames), Covered(frames, Live \cup {l})
  PROVE  FramesOK(stack)' /\ Covered(stack, Live)'
<1>1. /\ Live' = Live \cup {l}
      /\ stack' \in Seq(Frame)
      /\ \A f \in 1..Len(frames) : f \in 1..Len(stack') /\ stack'[f] = frames[f]
      /\ l \in Live => stack' = frames
      /\ l \notin Live => /\ Len(stack') = Len(frames) + 1
                          /\ stack'[Len(frames) + 1] = [line |-> l, next |-> 1]
  BY Entered
<1>2. Len(frames) \in Nat
  BY LenProperties
<1>3. ASSUME NEW f \in 1..Len(stack')
      PROVE  \/ f \in 1..Len(frames) /\ stack'[f] = frames[f]
             \/ l \notin Live /\ f = Len(frames) + 1 /\ stack'[f] = [line |-> l, next |-> 1]
  BY <1>1, <1>2
<1>4. FramesOK(stack)'
  <2>1. ASSUME NEW f \in 1..Len(stack')
        PROVE  stack'[f].line \in Live'
    BY <1>1, <1>3 DEF FramesOK
  <2>2. ASSUME NEW a \in 1..Len(stack'), NEW b \in 1..Len(stack'),
               stack'[a].line = stack'[b].line
        PROVE  a = b
    BY <1>3, <2>2 DEF FramesOK
  <2>3. QED
    BY <2>1, <2>2 DEF FramesOK
<1>5. Covered(stack, Live)'
  <2>1. ASSUME NEW q \in Live', NEW j \in 1..Len(callees[q])
        PROVE  callees[q][j] \in Live' \/ Pending(stack', q, j)
    <3>1. CASE q \in Live
      BY <1>1, <2>1, <3>1 DEF Covered, Pending
    <3>2. CASE q = l /\ l \notin Live
      <4>1. Len(callees[l]) \in Nat
        BY Types
      <4>2. Len(frames) + 1 \in 1..Len(stack') /\ 1 <= j
        BY <1>1, <1>2, <3>2, <2>1, <4>1
      <4>3. QED
        BY <1>1, <3>2, <4>2 DEF Pending
    <3>3. QED
      BY <1>1, <2>1, <3>1, <3>2
  <2>2. QED
    BY <2>1 DEF Covered, Pending
<1>6. QED
  BY <1>4, <1>5

(* The frame on top, and the others.                                       *)
LEMMA TopAndRest ==
  ASSUME TypeOK, stack # <<>>
  PROVE  LET n == Len(stack)
         IN  /\ n \in Nat \ {0} /\ Top = stack[n] /\ Top \in Frame
             /\ Rest \in Seq(Frame) /\ Len(Rest) = n - 1
             /\ \A f \in 1..(n - 1) : Rest[f] = stack[f]
<1> DEFINE n == Len(stack)
<1>1. stack \in Seq(Frame) /\ n \in Nat \ {0} /\ stack \in [1..n -> Frame]
  BY Types, EmptySeq, LenProperties
<1>2. \A f \in 1..(n - 1) : stack[f] \in Frame
  BY <1>1
<1>3. /\ SubSeq(stack, 1, n - 1) \in Seq(Frame)
      /\ Len(SubSeq(stack, 1, n - 1)) = IF 1 <= n - 1 THEN n - 1 - 1 + 1 ELSE 0
      /\ \A f \in 1..(n - 1 - 1 + 1) : SubSeq(stack, 1, n - 1)[f] = stack[1 + f - 1]
  BY <1>1, <1>2, SubSeqProperties
<1>4. QED
  BY <1>1, <1>3 DEF Top, Rest

-----------------------------------------------------------------------------

LEMMA InitIInv == Init => IInv
<1> SUFFICES ASSUME Init PROVE IInv
  OBVIOUS
<1> USE DEF Init, Start
<1>1. TypeOK
  BY EmptySeq DEF TypeOK, ProgramOK, DEAD
<1>2. dead \in [Line -> {"islive", "unknown"}] /\ Live = {}
  BY DEF Live
<1>3. v \in 1..(Len(variables) + 1) /\ \A w \in 1..Len(variables) : ~(w < v)
  BY <1>1, Types
<1>4. RootsOK
  BY <1>2, <1>3 DEF RootsOK
<1>5. FramesOK(stack) /\ Covered(stack, Live)
  BY <1>2, EmptyStack DEF FramesOK, Covered
<1>6. LiveIsReached
  BY DEF LiveIsReached
<1>7. QED
  BY <1>1, <1>2, <1>4, <1>5, <1>6 DEF IInv

(* Nothing but a root or the callee of a live line is entered.             *)
LEMMA ReachedStep ==
  ASSUME LiveIsReached, pc # "start", UNCHANGED program, TypeOK,
         NEW l, Live' = Live \cup {l},
         l \in Roots \/ \E q \in Live : l \in Range(callees[q])
  PROVE  LiveIsReached'
<1>1. Roots' = Roots /\ callees' = callees
  BY DEF program, Roots
<1> SUFFICES ASSUME NEW S \in SUBSET Line, Roots \subseteq S, ClosedUnderCalls(S)
             PROVE  Live' \subseteq S
  BY <1>1 DEF LiveIsReached, ClosedUnderCalls
<1>2. Live \subseteq S
  BY DEF LiveIsReached
<1>3. l \in S
  BY <1>2 DEF ClosedUnderCalls
<1>4. QED
  BY <1>2, <1>3

LEMMA NoMainStep == IInv /\ NoMain => IInv'
<1> SUFFICES ASSUME IInv, NoMain PROVE IInv'
  OBVIOUS
<1> USE DEF NoMain
<1>1. dead' \in [Line -> {"islive", "unknown"}] /\ Live' = Line
  BY DEF Live
<1>2. TypeOK'
  BY <1>1 DEF IInv, TypeOK, ProgramOK, program, DEAD
<1>3. Roots' = Line /\ stack' = <<>> /\ stack = <<>>
  BY DEF Roots, program, IInv, RootsOK
<1>4. RootsOK'
  BY <1>1, <1>2, <1>3, Types DEF IInv, RootsOK, program
<1>5. FramesOK(stack)'
  BY <1>3, EmptyStack DEF FramesOK
<1>6. Covered(stack, Live)'
  <2>1. callees' = callees /\ TypeOK
    BY DEF program, IInv
  <2>2. QED
    BY <1>1, <2>1, Types DEF Covered
<1>7. LiveIsReached'
  BY <1>1, <1>3 DEF LiveIsReached
<1>8. QED
  BY <1>1, <1>2, <1>4, <1>5, <1>6, <1>7 DEF IInv

LEMMA HasMainStep == IInv /\ HasMain => IInv'
<1> SUFFICES ASSUME IInv, HasMain PROVE IInv'
  OBVIOUS
<1> USE DEF HasMain
<1>1. dead' \in [Line -> {"islive", "unknown"}] /\ Live' = {}
  BY DEF Live
<1>2. TypeOK'
  BY <1>1 DEF IInv, TypeOK, ProgramOK, program, DEAD
<1>3. stack' = <<>>
  BY DEF IInv, RootsOK
<1>4. v' = 1 /\ variables' = variables /\ main' = main /\ Len(variables) \in Nat
  BY Types DEF IInv, RootsOK, program
<1>5. RootsOK'
  BY <1>1, <1>4 DEF RootsOK
<1>6. FramesOK(stack)' /\ Covered(stack, Live)'
  BY <1>1, <1>3, EmptyStack DEF FramesOK, Covered
<1>7. LiveIsReached'
  BY <1>1 DEF LiveIsReached
<1>8. QED
  BY <1>1, <1>2, <1>5, <1>6, <1>7 DEF IInv

(* The types after a line has been entered.                                *)
LEMMA EnteredTypes ==
  ASSUME TypeOK, UNCHANGED program, v' \in Nat, pc' \in {"start", "visit", "main", "done"},
         dead' \in [Line -> {"islive", "unknown"}], stack' \in Seq(Frame)
  PROVE  TypeOK'
BY DEF TypeOK, ProgramOK, program, DEAD, Frame

LEMMA VisitVarStep == IInv /\ VisitVar => IInv'
<1> SUFFICES ASSUME IInv, VisitVar PROVE IInv'
  OBVIOUS
<1>1. /\ TypeOK /\ dead \in [Line -> {"islive", "unknown"}] /\ RootsOK
      /\ FramesOK(stack) /\ Covered(stack, Live) /\ LiveIsReached
  BY DEF IInv
<1>2. /\ pc = "visit" /\ pc' = "visit" /\ stack = <<>> /\ v' = v + 1
      /\ UNCHANGED program /\ callees' = callees /\ variables' = variables
      /\ main' = main /\ main # None
  BY <1>1 DEF VisitVar, program, RootsOK
<1>3. v \in 1..Len(variables) /\ v \in Nat /\ v' \in 1..(Len(variables) + 1)
  BY <1>1, <1>2, Types DEF VisitVar, RootsOK
<1>4. CASE variables[v] = None
  <2>1. dead' = dead /\ stack' = stack /\ Live' = Live
    BY <1>4 DEF VisitVar, Live
  <2>2. TypeOK'
    BY <1>1, <1>2, <1>3, <2>1, Types, EnteredTypes
  <2>3. RootsOK'
    BY <1>1, <1>2, <1>3, <1>4, <2>1, Types DEF RootsOK
  <2>4. FramesOK(stack)' /\ Covered(stack, Live)'
    BY <1>1, <1>2, <2>1 DEF FramesOK, Covered, Pending
  <2>5. LiveIsReached'
    BY <1>1, <1>2, <2>1 DEF LiveIsReached, Roots, ClosedUnderCalls
  <2>6. QED
    BY <1>1, <2>1, <2>2, <2>3, <2>4, <2>5 DEF IInv
<1>5. CASE variables[v] # None
  <2> DEFINE l == variables[v]
  <2>1. l \in Line /\ Enter(<<>>, l)
    BY <1>1, <1>3, <1>5, Types DEF VisitVar
  <2>2. l \in Roots
    <3>1. DOMAIN variables = 1..Len(variables)
      BY <1>1, LenProperties DEF TypeOK, ProgramOK
    <3>2. QED
      BY <1>2, <1>3, <1>5, <3>1 DEF Roots, Range
  <2> HIDE DEF l
  <2>3. /\ dead' \in [Line -> {"islive", "unknown"}]
        /\ Live' = Live \cup {l} /\ stack' \in Seq(Frame)
    BY <1>1, <2>1, Entered, EmptyStack
  <2>4. FramesOK(<<>>) /\ Covered(<<>>, Live \cup {l})
    BY <1>1, <1>2 DEF FramesOK, Covered
  <2>5. FramesOK(stack)' /\ Covered(stack, Live)'
    BY <1>1, <1>2, <2>1, <2>4, EnterStep, EmptyStack
  <2>6. TypeOK'
    BY <1>1, <1>2, <1>3, <2>3, Types, EnteredTypes
  <2>7. RootsOK'
    BY <1>1, <1>2, <1>3, <2>3, Types DEF RootsOK, l
  <2>8. LiveIsReached'
    BY <1>1, <1>2, <2>2, <2>3, ReachedStep
  <2>9. QED
    BY <2>3, <2>5, <2>6, <2>7, <2>8 DEF IInv
<1>6. QED
  BY <1>4, <1>5

LEMMA VisitMainStep == IInv /\ VisitMain => IInv'
<1> SUFFICES ASSUME IInv, VisitMain PROVE IInv'
  OBVIOUS
<1>1. /\ TypeOK /\ dead \in [Line -> {"islive", "unknown"}] /\ RootsOK
      /\ FramesOK(stack) /\ Covered(stack, Live) /\ LiveIsReached
  BY DEF IInv
<1>2. /\ pc = "visit" /\ pc' = "main" /\ stack = <<>> /\ v' = v /\ v > Len(variables)
      /\ UNCHANGED program /\ callees' = callees /\ variables' = variables
      /\ main' = main /\ main # None /\ Enter(<<>>, main)
  BY <1>1 DEF VisitMain, program, RootsOK
<1>3. main \in Line /\ main \in Roots
  BY <1>1, <1>2 DEF TypeOK, ProgramOK, Roots
<1>4. /\ dead' \in [Line -> {"islive", "unknown"}]
      /\ Live' = Live \cup {main} /\ stack' \in Seq(Frame)
  BY <1>1, <1>2, <1>3, Entered, EmptyStack
<1>5. FramesOK(<<>>) /\ Covered(<<>>, Live \cup {main})
  BY <1>1, <1>2 DEF FramesOK, Covered
<1>6. FramesOK(stack)' /\ Covered(stack, Live)'
  BY <1>1, <1>2, <1>3, <1>5, EnterStep, EmptyStack
<1>7. TypeOK'
  BY <1>1, <1>2, <1>4, EnteredTypes DEF TypeOK
<1>8. RootsOK'
  BY <1>1, <1>2, <1>4 DEF RootsOK
<1>9. LiveIsReached'
  BY <1>1, <1>2, <1>3, <1>4, ReachedStep
<1>10. QED
  BY <1>4, <1>6, <1>7, <1>8, <1>9 DEF IInv

LEMMA NextCalleeStep == IInv /\ NextCallee => IInv'
<1> SUFFICES ASSUME IInv, NextCallee PROVE IInv'
  OBVIOUS
<1> DEFINE n == Len(stack)
           caller == Top.line
           next == Top.next
           l == callees[caller][next]
           frames == Append(Rest, [Top EXCEPT !.next = @ + 1])
<1>1. /\ TypeOK /\ dead \in [Line -> {"islive", "unknown"}] /\ RootsOK
      /\ FramesOK(stack) /\ Covered(stack, Live) /\ LiveIsReached
  BY DEF IInv
<1>2. /\ stack # <<>> /\ next <= Len(callees[caller]) /\ Enter(frames, l)
      /\ pc' = pc /\ v' = v /\ UNCHANGED program
      /\ callees' = callees /\ variables' = variables /\ main' = main
  BY DEF NextCallee, program
<1>3. pc \in {"visit", "main"} /\ main # None
  BY <1>1, <1>2 DEF TypeOK, RootsOK
<1>4. /\ n \in Nat \ {0} /\ Top = stack[n] /\ Top \in Frame
      /\ Rest \in Seq(Frame) /\ Len(Rest) = n - 1
      /\ \A f \in 1..(n - 1) : Rest[f] = stack[f]
  BY <1>1, <1>2, TopAndRest
<1>5. /\ caller \in Line /\ next \in Nat \ {0}
      /\ [Top EXCEPT !.next = @ + 1] = [line |-> caller, next |-> next + 1]
      /\ [line |-> caller, next |-> next + 1] \in Frame
  BY <1>4 DEF Frame
<1>6. /\ frames \in Seq(Frame) /\ Len(frames) = n
      /\ \A f \in 1..(n - 1) : frames[f] = stack[f]
      /\ frames[n] = [line |-> caller, next |-> next + 1]
  BY <1>4, <1>5, AppendProperties
<1>7. /\ l \in Line /\ caller \in Live /\ next \in 1..Len(callees[caller])
      /\ l \in Range(callees[caller])
  <2>1. Len(callees[caller]) \in Nat /\ callees[caller] \in Seq(Line)
    BY <1>1, <1>5, Types
  <2>2. next \in 1..Len(callees[caller]) /\ next \in DOMAIN callees[caller]
    BY <1>2, <1>5, <2>1, LenProperties
  <2>3. caller \in Live
    BY <1>1, <1>4 DEF FramesOK
  <2>4. QED
    BY <1>1, <1>5, <2>2, <2>3, Types DEF Range
<1>8. FramesOK(frames)
  <2>1. \A f \in 1..n : frames[f].line = stack[f].line
    <3>1. frames[n].line = stack[n].line
      BY <1>4, <1>6
    <3>2. \A f \in 1..n : f = n \/ f \in 1..(n - 1)
      BY <1>4
    <3>3. QED
      BY <1>6, <3>1, <3>2
  <2> HIDE DEF frames
  <2>2. QED
    BY <1>1, <1>6, <2>1 DEF FramesOK
<1>9. Covered(frames, Live \cup {l})
  <2> SUFFICES ASSUME NEW q \in Live, NEW j \in 1..Len(callees[q]),
                      callees[q][j] \notin Live \cup {l}
               PROVE  Pending(frames, q, j)
    BY DEF Covered
  <2>1. PICK f \in 1..n : stack[f].line = q /\ stack[f].next <= j
    BY <1>1 DEF Covered, Pending
  <2>2. CASE f \in 1..(n - 1)
    BY <1>4, <1>6, <2>1, <2>2 DEF Pending
  <2>3. CASE f = n
    <3>1. q = caller /\ next <= j /\ j # next
      BY <1>4, <2>1, <2>3
    <3>2. q \in Line
      BY <1>5, <3>1
    <3>3. Len(callees[q]) \in Nat
      BY <1>1, <3>2, Types
    <3>4. next + 1 <= j
      BY <1>5, <3>1, <3>3
    <3>5. QED
      BY <1>4, <1>6, <3>1, <3>4 DEF Pending
  <2>4. QED
    BY <1>4, <2>1, <2>2, <2>3
<1> HIDE DEF frames, l, caller, next
<1>10. /\ dead' \in [Line -> {"islive", "unknown"}]
       /\ Live' = Live \cup {l} /\ stack' \in Seq(Frame)
  BY <1>1, <1>2, <1>6, <1>7, Entered
<1>11. FramesOK(stack)' /\ Covered(stack, Live)'
  BY <1>1, <1>2, <1>6, <1>7, <1>8, <1>9, EnterStep
<1>12. TypeOK'
  BY <1>1, <1>2, <1>10, EnteredTypes DEF TypeOK
<1>13. RootsOK'
  BY <1>1, <1>2, <1>3, <1>10 DEF RootsOK
<1>14. LiveIsReached'
  BY <1>1, <1>2, <1>3, <1>7, <1>10, ReachedStep
<1>15. QED
  BY <1>10, <1>11, <1>12, <1>13, <1>14 DEF IInv

LEMMA LeaveStep == IInv /\ Leave => IInv'
<1> SUFFICES ASSUME IInv, Leave PROVE IInv'
  OBVIOUS
<1> DEFINE n == Len(stack)
<1>1. /\ TypeOK /\ dead \in [Line -> {"islive", "unknown"}] /\ RootsOK
      /\ FramesOK(stack) /\ Covered(stack, Live) /\ LiveIsReached
  BY DEF IInv
<1>2. /\ stack # <<>> /\ Top.next > Len(callees[Top.line]) /\ stack' = Rest
      /\ pc' = pc /\ v' = v /\ dead' = dead /\ Live' = Live /\ UNCHANGED program
      /\ callees' = callees /\ variables' = variables /\ main' = main
  BY DEF Leave, program, Live
<1>3. pc \in {"visit", "main"}
  BY <1>1, <1>2 DEF TypeOK, RootsOK
<1>4. /\ n \in Nat \ {0} /\ Top = stack[n] /\ Top \in Frame
      /\ Rest \in Seq(Frame) /\ Len(Rest) = n - 1
      /\ \A f \in 1..(n - 1) : Rest[f] = stack[f]
  BY <1>1, <1>2, TopAndRest
<1>5. TypeOK'
  BY <1>1, <1>2, <1>4, EnteredTypes DEF TypeOK
<1>6. RootsOK'
  BY <1>1, <1>2, <1>3 DEF RootsOK
<1>7. FramesOK(stack)'
  <2>1. \A f \in 1..(n - 1) : f \in 1..n /\ Rest[f] = stack[f]
    BY <1>4
  <2>2. FramesOK(Rest)
    BY <1>1, <1>4, <2>1 DEF FramesOK
  <2>3. QED
    BY <1>2, <2>2 DEF FramesOK
<1>8. Covered(stack, Live)'
  <2> SUFFICES ASSUME NEW q \in Live, NEW j \in 1..Len(callees[q]), callees[q][j] \notin Live
               PROVE  Pending(Rest, q, j)
    BY <1>2 DEF Covered, Pending
  <2>1. PICK f \in 1..n : stack[f].line = q /\ stack[f].next <= j
    BY <1>1 DEF Covered, Pending
  <2>2. f # n
    <3>1. q \in Line
      BY <1>1, Types
    <3>2. Len(callees[q]) \in Nat
      BY <1>1, <3>1, Types
    <3>3. QED
      BY <1>2, <1>4, <2>1, <3>2 DEF Frame
  <2>3. f \in 1..(n - 1)
    BY <1>4, <2>1, <2>2
  <2>4. QED
    BY <1>4, <2>1, <2>3 DEF Pending
<1>9. LiveIsReached'
  BY <1>1, <1>2 DEF LiveIsReached, Roots, ClosedUnderCalls
<1>10. QED
  BY <1>1, <1>2, <1>5, <1>6, <1>7, <1>8, <1>9 DEF IInv

LEMMA QuietStep == IInv /\ (Return \/ UNCHANGED vars) => IInv'
<1> SUFFICES ASSUME IInv, Return \/ UNCHANGED vars PROVE IInv'
  OBVIOUS
<1>1. /\ UNCHANGED <<dead, v, stack, main, variables, callees>>
      /\ pc' = pc \/ (pc = "main" /\ pc' = "done" /\ stack = <<>>)
  BY DEF Return, vars, program
<1>2. Live' = Live /\ Roots' = Roots
  BY <1>1 DEF Live, Roots
<1>3. TypeOK'
  BY <1>1 DEF IInv, TypeOK, ProgramOK
<1>4. RootsOK'
  BY <1>1, <1>2 DEF IInv, RootsOK
<1>5. FramesOK(stack)' /\ Covered(stack, Live)'
  BY <1>1, <1>2 DEF IInv, FramesOK, Covered, Pending
<1>6. LiveIsReached'
  BY <1>1, <1>2 DEF IInv, LiveIsReached, ClosedUnderCalls
<1>7. QED
  BY <1>1, <1>3, <1>4, <1>5, <1>6 DEF IInv

LEMMA NextIInv == IInv /\ [Next]_vars => IInv'
BY NoMainStep, HasMainStep, VisitVarStep, VisitMainStep, NextCalleeStep, LeaveStep,
   QuietStep DEF Next

LEMMA Invariance == SafeSpec => []IInv
BY InitIInv, NextIInv, PTL DEF SafeSpec

-----------------------------------------------------------------------------

(* At the end no frame is left in which a callee could be pending.         *)
LEMMA ClosedAtEnd == IInv => LiveIsClosed
<1> SUFFICES ASSUME IInv, pc = "done" PROVE Roots \subseteq Live /\ ClosedUnderCalls(Live)
  BY DEF LiveIsClosed
<1>0. TypeOK /\ RootsOK /\ Covered(stack, Live)
  BY DEF IInv
<1>1. Roots \subseteq Live
  <2>1. CASE main = None
    BY <1>0, <2>1 DEF RootsOK, Roots
  <2>2. CASE main # None
    <3>1. DOMAIN variables = 1..Len(variables)
      BY <1>0, LenProperties DEF TypeOK, ProgramOK
    <3>2. \A w \in 1..Len(variables) : variables[w] # None => variables[w] \in Live
      BY <1>0, <2>2, Types DEF RootsOK
    <3>3. QED
      BY <1>0, <2>2, <3>1, <3>2 DEF RootsOK, Roots, Range
  <2>3. QED
    BY <2>1, <2>2
<1>2. ASSUME NEW q \in Live, NEW x \in Range(callees[q])
      PROVE  x \in Live
  <2>1. q \in Line /\ callees[q] \in Seq(Line)
    BY <1>0, Types
  <2>2. PICK j \in 1..Len(callees[q]) : callees[q][j] = x
    BY <2>1, LenProperties DEF Range
  <2>3. ~Pending(stack, q, j)
    BY <1>0, EmptyStack DEF RootsOK
  <2>4. QED
    BY <1>0, <2>2, <2>3 DEF Covered
<1>3. QED
  BY <1>1, <1>2 DEF ClosedUnderCalls

(* A step adds to the live lines roots and callees of live ones only.      *)
LEMMA LiveGrows ==
  IInv /\ [Next]_vars =>
    /\ Live \subseteq Live'
    /\ \A l \in Live' \ Live : l \in Roots \/ \E q \in Live : l \in Range(callees[q])
<1> SUFFICES ASSUME IInv, [Next]_vars
             PROVE  /\ Live \subseteq Live'
                    /\ \A l \in Live' \ Live :
                         l \in Roots \/ \E q \in Live : l \in Range(callees[q])
  OBVIOUS
<1>0. TypeOK /\ RootsOK /\ FramesOK(stack) /\ dead \in [Line -> {"islive", "unknown"}]
  BY DEF IInv
<1>1. CASE NoMain
  BY <1>0, <1>1, Types DEF NoMain, RootsOK, Live, Roots
<1>2. CASE VisitVar
  <2>1. v \in 1..Len(variables) /\ stack = <<>>
    BY <1>0, <1>2, Types DEF VisitVar, RootsOK
  <2>2. CASE variables[v] = None
    BY <1>2, <2>1, <2>2 DEF VisitVar, Live
  <2>3. CASE variables[v] # None
    <3>1. variables[v] \in Line /\ Enter(<<>>, variables[v])
      BY <1>0, <1>2, <2>1, <2>3, Types DEF VisitVar
    <3>2. Live' = Live \cup {variables[v]}
      BY <1>0, <3>1, Entered, EmptyStack
    <3>3. DOMAIN variables = 1..Len(variables) /\ main # None
      BY <1>0, <1>2, LenProperties DEF TypeOK, ProgramOK, VisitVar, RootsOK
    <3>4. variables[v] \in Roots
      BY <2>1, <2>3, <3>3 DEF Roots, Range
    <3>5. QED
      BY <3>2, <3>4
  <2>4. QED
    BY <2>2, <2>3
<1>3. CASE VisitMain
  <2>1. main \in Line /\ main \in Roots /\ Enter(<<>>, main)
    BY <1>0, <1>3 DEF VisitMain, RootsOK, TypeOK, ProgramOK, Roots
  <2>2. Live' = Live \cup {main}
    BY <1>0, <2>1, Entered, EmptyStack
  <2>3. QED
    BY <2>1, <2>2
<1>4. CASE NextCallee
  <2> DEFINE l == callees[Top.line][Top.next]
             frames == Append(Rest, [Top EXCEPT !.next = @ + 1])
  <2>1. stack # <<>> /\ Top.next <= Len(callees[Top.line]) /\ Enter(frames, l)
    BY <1>4 DEF NextCallee
  <2>2. /\ Len(stack) \in Nat \ {0} /\ Top = stack[Len(stack)] /\ Top \in Frame
        /\ Rest \in Seq(Frame)
    BY <1>0, <2>1, TopAndRest
  <2>3. /\ Top.line \in Line /\ Top.next \in Nat \ {0}
        /\ [Top EXCEPT !.next = @ + 1] \in Frame
    BY <2>2 DEF Frame
  <2>4. frames \in Seq(Frame)
    BY <2>2, <2>3, AppendProperties
  <2>5. Top.line \in Live
    BY <1>0, <2>2 DEF FramesOK
  <2>6. callees[Top.line] \in Seq(Line) /\ Top.next \in 1..Len(callees[Top.line])
    BY <1>0, <2>1, <2>3, Types
  <2>7. l \in Line /\ l \in Range(callees[Top.line])
    BY <1>0, <2>3, <2>6, Types, LenProperties DEF Range
  <2> HIDE DEF l, frames
  <2>8. Live' = Live \cup {l}
    BY <1>0, <2>1, <2>4, <2>7, Entered
  <2>9. QED
    BY <2>5, <2>7, <2>8
<1>5. CASE HasMain
  BY <1>0, <1>5 DEF HasMain, Live, RootsOK
<1>6. CASE Leave \/ Return \/ UNCHANGED vars
  BY <1>6 DEF Leave, Return, vars, Live
<1>7. QED
  BY <1>1, <1>2, <1>3, <1>4, <1>5, <1>6 DEF Next

(* Type correctness.                                                       *)
THEOREM TypeCorrect == SafeSpec => []TypeOK
<1>1. IInv => TypeOK
  BY DEF IInv
<1>2. QED
  BY Invariance, <1>1, PTL

(* Only what main or a variable reaches is marked live.                    *)
THEOREM LiveOnlyIfReached == SafeSpec => []LiveIsReached
<1>1. IInv => LiveIsReached
  BY DEF IInv
<1>2. QED
  BY Invariance, <1>1, PTL

(* All of it is, when the analysis returns: with LiveOnlyIfReached, the    *)
(* live lines are the least closed set that holds the roots.               *)
THEOREM LiveIfReached == SafeSpec => []LiveIsClosed
BY Invariance, ClosedAtEnd, PTL

(* mark_live never works on a line it is already working on.               *)
THEOREM RecursionIsBounded == SafeSpec => []NoLineTwice
<1>1. IInv => NoLineTwice
  BY DEF IInv, FramesOK, NoLineTwice
<1>2. QED
  BY Invariance, <1>1, PTL

=============================================================================
