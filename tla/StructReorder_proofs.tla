------------------------ MODULE StructReorder_proofs ------------------------
(***************************************************************************)
(* Proofs about StructReorder, for structures of any number of members.    *)
(***************************************************************************)
EXTENDS StructReorder, TLAPS

(* What a swap does, said once.                                            *)
LEMMA SwapMoves ==
  ASSUME TypeOK, Swap
  PROVE  /\ i \in Place /\ i + 1 \in Place
         /\ size' = size /\ n' = n /\ i' = i + 1 /\ pc' = pc
         /\ size[res[i]] < size[res[i + 1]]
         /\ res' \in [Place -> Place]
         /\ res'[i] = res[i + 1] /\ res'[i + 1] = res[i]
         /\ \A p \in Place : p # i /\ p # i + 1 => res'[p] = res[p]
<1>1. i \in Place /\ i + 1 \in Place /\ i # i + 1
  BY CountAssumption DEF TypeOK, Place, Swap, Comparing, AtPair
<1>2. size[res[i]] < size[res[i + 1]]
  <2>1. size[res[i]] \in Sizes /\ size[res[i + 1]] \in Sizes
    BY <1>1 DEF TypeOK
  <2>2. ~(size[res[i]] >= size[res[i + 1]])
    BY DEF Swap, Before
  <2> QED
    BY <2>1, <2>2 DEF Sizes, NoSize
<1>3. res' = [res EXCEPT ![i] = res[i + 1], ![i + 1] = res[i]]
  BY DEF Swap
<1>4. res \in [Place -> Place]
  BY DEF TypeOK
<1>5. res' \in [Place -> Place]
  BY <1>1, <1>3, <1>4
<1>6. /\ res'[i] = res[i + 1] /\ res'[i + 1] = res[i]
      /\ \A p \in Place : p # i /\ p # i + 1 => res'[p] = res[p]
  BY <1>1, <1>3, <1>4
<1>7. size' = size /\ n' = n /\ i' = i + 1 /\ pc' = pc
  BY DEF Swap
<1> QED
  BY <1>1, <1>2, <1>5, <1>6, <1>7

(* Whatever does not touch the array keeps what is said of it alone.       *)
LEMMA OnlySwapMoves ==
  ASSUME [Next]_vars, ~Swap
  PROVE  UNCHANGED <<size, res>>
BY DEF Next, vars, Exit, Keep, EndPass, Return

-----------------------------------------------------------------------------

(* The indices stay inside the arrays.                                     *)
THEOREM TypeCorrect == Spec => []TypeOK
<1>1. Init => TypeOK
  BY CountAssumption DEF Init, TypeOK, Place
<1>2. TypeOK /\ [Next]_vars => TypeOK'
  <2> SUFFICES ASSUME TypeOK, [Next]_vars PROVE TypeOK'
    OBVIOUS
  <2>1. CASE Exit
    BY <2>1 DEF Exit, TypeOK
  <2>2. CASE Keep
    BY <2>2, CountAssumption DEF Keep, Comparing, AtPair, TypeOK
  <2>3. CASE Swap
    <3>1. i' <= Count \/ i' = 1
      BY <2>3, SwapMoves, CountAssumption DEF Place
    <3> QED
      BY <2>3, <3>1, SwapMoves DEF TypeOK
  <2>4. CASE EndPass
    BY <2>4, CountAssumption DEF EndPass, TypeOK
  <2>5. CASE Return
    BY <2>5 DEF Return, TypeOK
  <2>6. CASE UNCHANGED vars
    BY <2>6 DEF vars, TypeOK
  <2> QED
    BY <2>1, <2>2, <2>3, <2>4, <2>5, <2>6 DEF Next
<1> QED
  BY <1>1, <1>2, PTL DEF Spec

-----------------------------------------------------------------------------

(* No member is lost or doubled (struct_reorder).                          *)
THEOREM MembersAreKept == Spec => []EachMemberOnce
<1>1. Init => EachMemberOnce
  BY DEF Init, EachMemberOnce
<1>2. TypeOK /\ EachMemberOnce /\ [Next]_vars => EachMemberOnce'
  <2> SUFFICES ASSUME TypeOK, EachMemberOnce, [Next]_vars
               PROVE  EachMemberOnce'
    OBVIOUS
  <2>1. CASE Swap
    <3> USE <2>1, SwapMoves
    <3>1. \A p, q \in Place : res'[p] = res'[q] => p = q
      BY DEF EachMemberOnce
    <3>2. ASSUME NEW x \in Place PROVE \E p \in Place : res'[p] = x
      <4>1. PICK p \in Place : res[p] = x
        BY DEF EachMemberOnce
      <4>2. CASE p = i
        BY <4>1, <4>2
      <4>3. CASE p = i + 1
        BY <4>1, <4>3
      <4>4. CASE p # i /\ p # i + 1
        BY <4>1, <4>4
      <4> QED
        BY <4>2, <4>3, <4>4
    <3> QED
      BY <3>1, <3>2 DEF EachMemberOnce
  <2>2. CASE ~Swap
    BY <2>2, OnlySwapMoves DEF EachMemberOnce
  <2> QED
    BY <2>1, <2>2
<1> QED
  BY <1>1, <1>2, TypeCorrect, PTL DEF Spec

-----------------------------------------------------------------------------

(* Members of one size stay in the declared order: a swap is of neighbours *)
(* of different size, so that it changes the order of no other pair.       *)
THEOREM OrderIsStable == Spec => []EqualsStayInOrder
<1>1. Init => EqualsStayInOrder
  BY DEF Init, EqualsStayInOrder
<1>2. TypeOK /\ EqualsStayInOrder /\ [Next]_vars => EqualsStayInOrder'
  <2> SUFFICES ASSUME TypeOK, EqualsStayInOrder, [Next]_vars
               PROVE  EqualsStayInOrder'
    OBVIOUS
  <2>1. CASE Swap
    <3>s. size' = size
      BY <2>1, SwapMoves
    <3> SUFFICES ASSUME NEW p \in Place, NEW q \in Place,
                        p < q, size[res'[p]] = size[res'[q]]
                 PROVE  res'[p] < res'[q]
      BY <3>s DEF EqualsStayInOrder
    <3>i. i \in Nat /\ p \in Nat /\ q \in Nat
      BY <2>1, CountAssumption, SwapMoves DEF Place
    <3>r. \A x \in Place : res[x] \in Nat /\ res'[x] \in Nat
      <4>1. res \in [Place -> Place] /\ res' \in [Place -> Place]
        BY <2>1, SwapMoves DEF TypeOK
      <4>2. \A x \in Place : x \in Nat
        BY CountAssumption DEF Place
      <4> QED
        BY <4>1, <4>2
    <3> USE <3>i, <3>r, SwapMoves
    <3>1. ~(p = i /\ q = i + 1)
      <4>1. size[res[i]] \in Int /\ size[res[i + 1]] \in Int
        BY <2>1 DEF TypeOK, Sizes, NoSize
      <4> QED
        BY <2>1, <4>1
    <3>2. CASE p = i
      BY <2>1, <3>1, <3>2 DEF EqualsStayInOrder
    <3>3. CASE p = i + 1
      BY <2>1, <3>3 DEF EqualsStayInOrder
    <3>4. CASE p # i /\ p # i + 1
      BY <2>1, <3>4 DEF EqualsStayInOrder
    <3> QED
      BY <3>2, <3>3, <3>4
  <2>2. CASE ~Swap
    BY <2>2, OnlySwapMoves DEF EqualsStayInOrder
  <2> QED
    BY <2>1, <2>2
<1> QED
  BY <1>1, <1>2, TypeCorrect, PTL DEF Spec

-----------------------------------------------------------------------------

(* The member at q is no larger than any before it.                        *)
Smallest(q) == \A p \in Place : p < q => size[res[p]] >= size[res[q]]

(* n passes have brought the n smallest to the end, in order; the pass     *)
(* that runs carries the smallest it has seen along, up to those.          *)
Bubble ==
  /\ \A q \in Place : q > Count - n => Smallest(q)
  /\ \A q \in Place : q <= Count - n /\ (q = i \/ (q = Count - n /\ q <= i)) => Smallest(q)
  /\ pc = "done" => n = Count

LEMMA SizesAreNumbers ==
  ASSUME TypeOK
  PROVE  \A p \in Place : size[res[p]] \in Int
BY DEF TypeOK, Sizes, NoSize

LEMMA BubbleStep == TypeOK /\ Bubble /\ [Next]_vars => Bubble'
<1> SUFFICES ASSUME TypeOK, Bubble, [Next]_vars PROVE Bubble'
  OBVIOUS
<1>n. n \in 0..Count /\ i \in Nat \ {0} /\ Count \in Nat
  BY CountAssumption DEF TypeOK
<1>s. \A p \in Place : size[res[p]] \in Int
  BY SizesAreNumbers
<1>1. CASE Exit \/ UNCHANGED vars
  BY <1>1 DEF Exit, vars, Bubble, Smallest
<1>2. CASE Keep
  <2>1. /\ i \in Place /\ i + 1 \in Place
        /\ size' = size /\ res' = res /\ n' = n /\ i' = i + 1 /\ pc' = pc
        /\ pc = "sorting"
        /\ size[res[i]] >= size[res[i + 1]]
    BY <1>2, <1>n DEF Keep, Comparing, AtPair, Before, Place
  <2>2. ASSUME NEW q \in Place, q <= Count - n,
               q = i + 1 \/ (q = Count - n /\ q <= i + 1)
        PROVE  Smallest(q)
    <3>1. CASE q = i + 1
      <4>1. Smallest(i)
        BY <1>n, <2>1, <2>2, <3>1 DEF Bubble, Place
      <4> QED
        BY <1>n, <1>s, <2>1, <3>1, <4>1 DEF Smallest, Place
    <3>2. CASE q # i + 1
      BY <1>n, <2>1, <2>2, <3>2 DEF Bubble, Place
    <3> QED
      BY <3>1, <3>2
  <2> QED
    BY <2>1, <2>2 DEF Bubble, Smallest
<1>3. CASE Swap
  <2>1. pc = "sorting"
    BY <1>3 DEF Swap, Comparing, AtPair
  <2>2. i + 1 <= Count - n
    \* beyond, neighbours are in order already
    <3> SUFFICES ASSUME i + 1 > Count - n PROVE FALSE
      BY <1>3, <1>n, SwapMoves
    <3>1. Smallest(i + 1)
      BY <1>3, SwapMoves DEF Bubble
    <3> QED
      BY <1>3, <1>n, <1>s, <3>1, SwapMoves DEF Smallest
  <2>3. Smallest(i)
    BY <1>3, <1>n, <2>2, SwapMoves DEF Bubble
  <2>4. ASSUME NEW q \in Place, q > Count - n PROVE Smallest(q)'
    <3>1. Smallest(q)
      BY <2>4 DEF Bubble
    <3>2. q # i /\ q # i + 1 /\ i < q /\ i + 1 < q
      BY <1>3, <1>n, <2>2, <2>4, SwapMoves DEF Place
    <3> QED
      BY <1>3, <1>n, <3>1, <3>2, SwapMoves DEF Smallest
  <2>5. ASSUME NEW q \in Place, q = i + 1 PROVE Smallest(q)'
    <3>1. i \in Place /\ i + 1 \in Place /\ size' = size
      BY <1>3, SwapMoves
    <3>2. res'[q] = res[i]
      BY <1>3, <2>5, SwapMoves
    <3>3. ASSUME NEW p \in Place, p < q PROVE size[res'[p]] >= size[res[i]]
      <4>1. CASE p = i
        BY <1>3, <1>s, <3>1, <4>1, SwapMoves
      <4>2. CASE p # i
        <5>1. p < i /\ p # i + 1
          BY <1>n, <2>5, <3>3, <4>2 DEF Place
        <5>2. res'[p] = res[p]
          BY <1>3, <4>2, <5>1, SwapMoves
        <5> QED
          BY <2>3, <5>1, <5>2 DEF Smallest
      <4> QED
        BY <4>1, <4>2
    <3> QED
      BY <3>1, <3>2, <3>3 DEF Smallest
  <2>6. ASSUME NEW q \in Place, q <= Count - n,
               q = i + 1 \/ (q = Count - n /\ q <= i + 1)
        PROVE  Smallest(q)'
    <3>1. q = i + 1
      BY <1>3, <1>n, <2>2, <2>6, SwapMoves DEF Place
    <3> QED
      BY <2>5, <3>1
  <2> QED
    BY <1>3, <2>1, <2>4, <2>6, SwapMoves DEF Bubble
<1>4. CASE EndPass
  <2>1. /\ size' = size /\ res' = res /\ n' = n + 1 /\ i' = 1 /\ pc' = pc
        /\ pc = "sorting" /\ i >= Count /\ n < Count
    BY <1>4 DEF EndPass
  <2>2. ASSUME NEW q \in Place, q > Count - n - 1 PROVE Smallest(q)
    BY <1>n, <2>1, <2>2 DEF Bubble, Place
  <2>3. ASSUME NEW q \in Place,
               q <= Count - n - 1, q = 1 \/ (q = Count - n - 1 /\ q <= 1)
        PROVE  Smallest(q)
    BY <1>n, <2>3 DEF Smallest, Place
  <2> QED
    BY <1>n, <2>1, <2>2, <2>3 DEF Bubble, Smallest
<1>5. CASE Return
  BY <1>5, <1>n DEF Return, Bubble, Smallest
<1> QED
  BY <1>1, <1>2, <1>3, <1>4, <1>5 DEF Next

(* The members end up in order of their sizes (struct_reorder), although   *)
(* the passes are as many as the members and none is cut short.            *)
THEOREM EndsSorted == Spec => []LargestFirst
<1>1. Init => Bubble
  BY CountAssumption DEF Init, Bubble, Smallest, Place
<1>2. TypeOK /\ Bubble => LargestFirst
  <2> SUFFICES ASSUME TypeOK, Bubble, pc = "done",
                      NEW p \in Place, NEW q \in Place, p < q
               PROVE  size[res[p]] >= size[res[q]]
    BY DEF LargestFirst
  <2>1. q > Count - n
    BY CountAssumption DEF Bubble, Place
  <2> QED
    BY <2>1 DEF Bubble, Smallest
<1> QED
  BY <1>1, <1>2, BubbleStep, TypeCorrect, PTL DEF Spec

=============================================================================
