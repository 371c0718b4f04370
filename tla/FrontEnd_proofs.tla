-------------------------- MODULE FrontEnd_proofs ---------------------------
(***************************************************************************)
(* What the list of tokens, the lexer and the reader promise, each by      *)
(* itself and composed: for fields of any width, any files, and a source   *)
(* of any length.                                                          *)
(***************************************************************************)
EXTENDS FrontEnd, SequenceTheorems, FiniteSetTheorems, WellFoundedInduction, TLAPS

(***************************************************************************)
(* The list of tokens.  No number of a list wraps but the capacity, and    *)
(* when that one does the reader has left its array and the program's      *)
(* behaviour is undefined.                                                 *)
(***************************************************************************)

LEMMA SizesArePositive ==
  /\ Modulus \in Nat \ {0} /\ InitialSize \in Nat \ {0}
  /\ 2 * InitialSize < Modulus /\ Modulus % 2 = 0
BY WidthAssumption, RoomAssumption

(* What fits is not changed.                                               *)
LEMMA WrapFits ==
  ASSUME NEW k \in Nat, k < Modulus
  PROVE  Wrap(k) = k
<1> DEFINE M == Modulus
           q == (k + M) \div M
           r == (k + M) % M
<1> HIDE DEF M
<1>1. M \in Nat \ {0} /\ k < M
  BY SizesArePositive DEF M
<1>2. q \in Int /\ r \in Int /\ 0 <= r /\ r < M /\ k + M = M * q + r
  BY <1>1
<1> HIDE DEF q, r
<1>3. q = 1
  <2>1. ASSUME q >= 2 PROVE FALSE
    <3>1. M * q >= M * 2
      BY <1>1, <1>2, <2>1
    <3> QED BY <3>1, <1>1, <1>2
  <2>2. ASSUME q <= 0 PROVE FALSE
    <3>1. M * q <= 0
      BY <1>1, <1>2, <2>2
    <3> QED BY <3>1, <1>1, <1>2
  <2> QED BY <2>1, <2>2, <1>2
<1>4. r = k
  BY <1>1, <1>2, <1>3
<1> QED BY <1>4 DEF Wrap, r, M

(* The doubled capacity that does not fit is taken down once.              *)
LEMMA WrapOver ==
  ASSUME NEW k \in Nat, Modulus <= k, k < 2 * Modulus
  PROVE  Wrap(k) = k - Modulus
<1> DEFINE M == Modulus
           q == (k + M) \div M
           r == (k + M) % M
<1> HIDE DEF M
<1>1. M \in Nat \ {0} /\ M <= k /\ k < 2 * M
  BY SizesArePositive DEF M
<1>2. q \in Int /\ r \in Int /\ 0 <= r /\ r < M /\ k + M = M * q + r
  BY <1>1
<1> HIDE DEF q, r
<1>3. q = 2
  <2>1. ASSUME q >= 3 PROVE FALSE
    <3>1. M * q >= M * 3
      BY <1>1, <1>2, <2>1
    <3> QED BY <3>1, <1>1, <1>2
  <2>2. ASSUME q <= 1 PROVE FALSE
    <3>1. M * q <= M
      BY <1>1, <1>2, <2>2
    <3> QED BY <3>1, <1>1, <1>2
  <2> QED BY <2>1, <2>2, <1>2
<1>4. r = k - M
  BY <1>1, <1>2, <1>3
<1> QED BY <1>4 DEF Wrap, r, M

-----------------------------------------------------------------------------

(* The node of routine d is made of the tokens between the two heads.      *)
Node(d) ==
  /\ Before(d) <= lists[d].index_head
  /\ made[d] = [i \in 1..(lists[d].index_head - Before(d)) |-> Before(d) + i]

Filling ==
  /\ Len(lists) = 1 /\ made[1] = <<>>
  /\ lists[1].index_head = 0
  /\ lists[1].tokensc = Len(lists[1].tokens)
  /\ lists[1].tokens_stored = Len(lists[1].tokens)

(* List l holds the tokens t, from its own place on.                       *)
ListOf(l, t) == l \in List /\ l.tokens = t /\ CountsTheRest(l)

Parsing ==
  /\ Len(lists[1].tokens) < Modulus - 1
  /\ \A d \in 1..Len(lists) : ListOf(lists[d], lists[1].tokens) /\ Node(d)

(* The reader is inside of an array of `capacity` places, which leaves one *)
(* number for the token that does not fit and one for the token that is    *)
(* taken behind the last; the routines of the parser see the same tokens,  *)
(* each from its own place on.                                             *)
IInv ==
  /\ TypeOK
  /\ phase = "fill" =>
       /\ Filling /\ ~overrun
       /\ lists[1].capacity = memory /\ 0 < memory /\ memory < Modulus - 1
       /\ Len(lists[1].tokens) <= memory
  /\ phase = "parse" => ~overrun
  /\ overrun => Filling /\ 2 * Len(lists[1].tokens) > Modulus
  /\ phase # "fill" /\ ~overrun => Parsing

(* Two neighbouring parts of the file are one.                             *)
LEMMA Joined ==
  ASSUME NEW b \in Nat, NEW h \in Nat, NEW g \in Nat, b <= h, h <= g
  PROVE  /\ [i \in 1..(g - b) |-> b + i] \in Seq(Nat)
         /\ [i \in 1..(h - b) |-> b + i] \o [i \in 1..(g - h) |-> h + i]
            = [i \in 1..(g - b) |-> b + i]
<1> DEFINE s == [i \in 1..(h - b) |-> b + i]
           t == [i \in 1..(g - h) |-> h + i]
           u == [i \in 1..(g - b) |-> b + i]
<1>1. h - b \in Nat /\ g - h \in Nat /\ g - b \in Nat /\ (h - b) + (g - h) = g - b
  OBVIOUS
<1>2. s \in Seq(Nat) /\ t \in Seq(Nat) /\ u \in Seq(Nat)
  BY <1>1
<1>3. Len(s) = h - b /\ Len(t) = g - h /\ Len(u) = g - b
  BY <1>1
<1>4. \A i \in 1..(g - b) : (s \o t)[i] = u[i]
  <2>1. SUFFICES ASSUME NEW i \in 1..(g - b) PROVE (s \o t)[i] = u[i]
    OBVIOUS
  <2>2. CASE i <= h - b
    <3>1. (s \o t)[i] = s[i]
      BY <1>1, <1>2, <1>3, <2>2
    <3> QED BY <1>1, <2>2, <3>1
  <2>3. CASE i > h - b
    <3>1. i - (h - b) \in 1..(g - h)
      BY <1>1, <2>3
    <3>2. (s \o t)[i] = t[i - (h - b)]
      BY <1>1, <1>2, <1>3, <2>3
    <3>3. t[i - (h - b)] = h + (i - (h - b))
      BY <3>1
    <3>4. h + (i - (h - b)) = b + i
      BY <1>1
    <3> QED BY <3>2, <3>3, <3>4
  <2> QED BY <1>1, <2>2, <2>3
<1>5. s \o t \in Seq(Nat) /\ Len(s \o t) = g - b
  BY <1>1, <1>2, <1>3
<1>6. s \o t = u
  <2> HIDE DEF s, t, u
  <2> QED BY <1>2, <1>3, <1>4, <1>5, SeqEqual
<1> QED BY <1>2, <1>6

LEMMA IInvInit == Init => IInv
<1> SUFFICES ASSUME Init PROVE IInv
  OBVIOUS
<1>1. makeTokenList \in List
  BY SizesArePositive DEF makeTokenList, List
<1>2. lists \in Seq(List) /\ Len(lists) = 1 /\ lists[1] = makeTokenList
  BY <1>1 DEF Init
<1>3. made \in Seq(Seq(Nat)) /\ Len(made) = 1 /\ made[1] = <<>>
  BY DEF Init
<1>4. /\ Len(lists[1].tokens) = 0
      /\ lists[1].capacity = InitialSize /\ lists[1].index_head = 0
      /\ lists[1].tokensc = 0 /\ lists[1].tokens_stored = 0
  BY <1>2 DEF makeTokenList
<1>5. Filling
  BY <1>2, <1>3, <1>4 DEF Filling
<1>6. phase = "fill" /\ memory = InitialSize /\ overrun = FALSE
  BY DEF Init
<1>7. TypeOK
  <2>1. overrun \in BOOLEAN
    BY <1>6, Zenon
  <2>2. lists # <<>>
    BY <1>2
  <2>3. phase \in {"fill", "parse", "undefined"} /\ memory \in Nat
    BY <1>6, SizesArePositive
  <2> QED BY <1>2, <1>3, <2>1, <2>2, <2>3 DEF TypeOK
<1>8. 0 < memory /\ memory < Modulus - 1 /\ Len(lists[1].tokens) <= memory
  BY <1>4, <1>6, SizesArePositive
<1>9. ~overrun /\ phase # "undefined" /\ phase # "parse"
  BY <1>6
<1> QED BY <1>4, <1>5, <1>6, <1>7, <1>8, <1>9 DEF IInv

LEMMA AddStep ==
  ASSUME IInv, NEW token \in Token, Add(token)
  PROVE  IInv'
<1> DEFINE M == Modulus
           L == lists[1]
           c == Len(L.tokens)
           size == IF Full THEN Wrap(L.capacity * 2) ELSE L.capacity
           T == Append(L.tokens, token)
           N == [L EXCEPT !.capacity = size, !.tokens = T,
                          !.tokensc = c + 1, !.tokens_stored = c + 1]
<1>1. /\ phase = "fill" /\ Top = L /\ lists \in Seq(List) /\ Len(lists) = 1
      /\ made \in Seq(Seq(Nat)) /\ Len(made) = 1 /\ made[1] = <<>>
      /\ L \in List /\ L.index_head = 0 /\ L.tokensc = c /\ L.tokens_stored = c
      /\ L.tokens \in Seq(Token) /\ c \in Nat
      /\ L.capacity = memory /\ memory \in Nat /\ 0 < memory /\ memory < M - 1 /\ c <= memory
  <2>1. /\ phase = "fill" /\ Filling /\ memory \in Nat /\ lists \in Seq(List)
        /\ made \in Seq(Seq(Nat)) /\ Len(made) = Len(lists)
        /\ L.capacity = memory /\ 0 < memory /\ memory < M - 1 /\ c <= memory
    BY DEF Add, IInv, TypeOK
  <2>2. Len(lists) = 1 /\ Top = L /\ L \in List
    <3>1. Len(lists) = 1
      BY <2>1 DEF Filling
    <3>2. Top = L
      BY <3>1 DEF Top
    <3>3. L \in List
      <4>1. lists \in Seq(List) /\ 1 \in 1..Len(lists)
        BY <2>1, <3>1
      <4> QED BY ONLY <4>1, ElementOfSeq
    <3> QED BY <3>1, <3>2, <3>3
  <2>3. L.tokens \in Seq(Token) /\ c \in Nat
    BY <2>2 DEF List
  <2> QED BY <2>1, <2>2, <2>3 DEF Filling
<1>2. M \in Nat \ {0} /\ M % 2 = 0
  BY SizesArePositive
<1>3. Wrap(c + 1) = c + 1 /\ c + 1 < M
  BY <1>1, <1>2, WrapFits, SMTT(40)
<1>4. /\ memory' = size /\ overrun' = (c >= size)
      /\ made' = made /\ phase' = IF overrun' THEN "undefined" ELSE "fill"
      /\ lists' = [lists EXCEPT ![1] = N]
  <2>1. memory' = size
    BY <1>1 DEF Add
  <2>2. overrun' = (c >= size)
    BY <1>1, <2>1 DEF Add
  <2>3. made' = made /\ phase' = IF overrun' THEN "undefined" ELSE "fill"
    BY <1>1 DEF Add
  <2>4. SetTop([L EXCEPT !.capacity = size, !.tokens = Append(@, token),
                         !.tokensc = Wrap(@ + 1), !.tokens_stored = Wrap(@ + 1)])
    BY <1>1 DEF Add
  <2>5. lists' = [lists EXCEPT ![1] = N]
    BY <1>1, <1>3, <2>4 DEF SetTop, List
  <2> HIDE DEF size, N
  <2> QED BY <2>1, <2>2, <2>3, <2>5
<1>5. /\ size \in 0..(M - 1)
      /\ c < size => 0 < size /\ size < M - 1 /\ c + 1 <= size
      /\ c >= size => 2 * (c + 1) > M
  <2>1. CASE ~Full
    <3>1. size = memory /\ c + 1 <= memory
      BY <1>1, <2>1 DEF Full
    <3> QED BY <1>1, <1>2, <3>1
  <2>2. CASE Full
    <3>1. c = memory /\ size = Wrap(2 * memory)
      BY <1>1, <2>2 DEF Full
    <3>2. CASE 2 * memory < M
      <4>1. size = 2 * memory
        BY <1>1, <3>1, <3>2, WrapFits
      <4>2. 2 * memory # M - 1
        <5>1. M = 2 * (M \div 2)
          BY <1>2
        <5> HIDE DEF M
        <5>2. M \div 2 \in Int
          BY <1>2
        <5> QED BY <1>1, <5>1, <5>2
      <4> HIDE DEF size
      <4> QED BY <1>1, <1>2, <3>1, <3>2, <4>1, <4>2
    <3>3. CASE 2 * memory >= M
      <4>1. size = 2 * memory - M
        BY <1>1, <1>2, <3>1, <3>3, WrapOver
      <4> HIDE DEF size, c, M
      <4>2. /\ c \in Nat /\ M \in Nat /\ memory \in Nat /\ memory < M - 1
            /\ c = memory /\ 2 * memory >= M
        BY <1>1, <1>2, <3>1, <3>3
      <4>3. size \in 0..(M - 1) /\ size < c /\ 2 * (c + 1) > M
        BY <4>1, <4>2
      <4> QED BY <4>2, <4>3
    <3> HIDE DEF size
    <3> QED BY <1>1, <1>2, <3>2, <3>3
  <2> HIDE DEF size
  <2> QED BY <2>1, <2>2
<1>6. T \in Seq(Token) /\ Len(T) = c + 1
  BY <1>1
<1> HIDE DEF size, T
<1>7. /\ N \in List /\ N.capacity = size /\ N.index_head = 0
      /\ N.tokensc = c + 1 /\ N.tokens_stored = c + 1 /\ N.tokens = T
  <2>1. c \in Nat /\ size \in 0..(M - 1) /\ T \in Seq(Token)
    BY <1>1, <1>5, <1>6
  <2>2. c + 1 < M /\ M \in Nat
    BY <1>2, <1>3
  <2> HIDE DEF c, M
  <2>3. c + 1 \in 0..(M - 1)
    BY <2>1, <2>2
  <2> QED BY <1>1, <2>1, <2>3 DEF List, M
<1> HIDE DEF N
<1>8. lists' \in Seq(List) /\ Len(lists') = 1 /\ lists'[1] = N
  BY <1>1, <1>4, <1>7
<1>9. Filling'
  BY <1>1, <1>4, <1>6, <1>7, <1>8 DEF Filling
<1>10. TypeOK'
  <2>1. phase' \in {"fill", "parse", "undefined"} /\ overrun' \in BOOLEAN /\ memory' \in Nat
    BY <1>4, <1>5
  <2>2. made' \in Seq(Seq(Nat)) /\ Len(made') = Len(lists') /\ lists' # <<>>
    <3> HIDE DEF L
    <3>1. made' = made /\ made \in Seq(Seq(Nat)) /\ Len(made) = 1
      BY <1>1, <1>4
    <3>2. lists' \in Seq(List) /\ Len(lists') = 1
      BY <1>8
    <3>3. lists' # <<>>
      BY <3>2
    <3> QED BY <3>1, <3>2, <3>3
  <2> QED BY <1>8, <2>1, <2>2 DEF TypeOK
<1>11. CASE c < size
  <2>1. ~overrun' /\ phase' = "fill"
    <3>1. ~(c >= size)
      BY <1>1, <1>5, <1>11
    <3> QED BY <1>4, <3>1, Zenon
  <2>2. /\ lists'[1].capacity = memory' /\ 0 < memory' /\ memory' < M - 1
        /\ Len(lists'[1].tokens) <= memory'
    BY <1>4, <1>5, <1>6, <1>7, <1>8, <1>11
  <2> QED BY <1>9, <1>10, <2>1, <2>2 DEF IInv
<1>12. CASE c >= size
  <2>1. phase' = "undefined" /\ overrun'
    BY <1>4, <1>12
  <2>2. 2 * Len(lists'[1].tokens) > M
    BY <1>5, <1>6, <1>7, <1>8, <1>12
  <2> QED BY <1>9, <1>10, <2>1, <2>2 DEF IInv
<1> QED BY <1>1, <1>5, <1>11, <1>12

LEMMA StartParserStep == IInv /\ StartParser => IInv'
<1> SUFFICES ASSUME IInv, StartParser PROVE IInv'
  OBVIOUS
<1> DEFINE L == lists[1]
<1>1. /\ memory' = memory /\ overrun' = overrun /\ lists' = lists /\ made' = made
      /\ phase = "fill" /\ phase' = "parse"
  BY DEF StartParser
<1>2. TypeOK /\ Filling /\ ~overrun /\ memory \in Nat
  BY <1>1 DEF IInv, TypeOK
<1>3. memory < Modulus - 1 /\ Len(L.tokens) <= memory
  BY <1>1 DEF IInv
<1>4. Len(lists) = 1 /\ L \in List
  <2>1. Len(lists) = 1 /\ lists \in Seq(List)
    BY <1>2 DEF Filling, TypeOK
  <2> QED BY <2>1, ElementOfSeq
<1>5. L.tokens \in Seq(Token)
  BY <1>4 DEF List
<1>6. Len(L.tokens) \in Nat /\ Len(L.tokens) < Modulus - 1
  BY <1>2, <1>3, <1>5, SizesArePositive
<1>7. ListOf(L, L.tokens)
  BY <1>2, <1>4, <1>6 DEF Filling, ListOf, CountsTheRest
<1>8. Node(1)
  <2>1. L.index_head = 0 /\ made[1] = <<>> /\ Before(1) = 0
    BY <1>2 DEF Filling, Before
  <2>2. [i \in 1..(0 - 0) |-> 0 + i] = <<>>
    OBVIOUS
  <2> QED BY <2>1, <2>2 DEF Node
<1>9. Parsing
  BY <1>4, <1>6, <1>7, <1>8 DEF Parsing
<1>10. TypeOK' /\ Parsing'
  <2>1. TypeOK'
    BY <1>1, <1>2 DEF TypeOK
  <2>2. \A d : Node(d)' <=> Node(d)
    BY <1>1 DEF Node, Before
  <2>3. \A d : lists'[d] = lists[d]
    BY <1>1
  <2>4. Parsing'
    BY <1>1, <1>9, <2>2, <2>3 DEF Parsing, ListOf, CountsTheRest, List
  <2> QED BY <2>1, <2>4
<1> QED BY <1>1, <1>2, <1>10 DEF IInv

(* The state of a routine that is at work.                                 *)
LEMMA AtWork ==
  ASSUME IInv, phase = "parse"
  PROVE  /\ TypeOK /\ lists \in Seq(List) /\ made \in Seq(Seq(Nat)) /\ ~overrun
         /\ Len(lists) \in Nat \ {0} /\ Len(made) = Len(lists)
         /\ lists[1].tokens \in Seq(Token) /\ Len(lists[1].tokens) \in Nat
         /\ Len(lists[1].tokens) < Modulus - 1
         /\ \A d \in 1..Len(lists) : ListOf(lists[d], lists[1].tokens) /\ Node(d)
         /\ \A d \in 1..Len(lists) : /\ lists[d].index_head \in Nat /\ Before(d) \in Nat
                                     /\ Before(d) <= lists[d].index_head
                                     /\ made[d] \in Seq(Nat)
<1>1. TypeOK /\ ~overrun /\ Parsing
  BY DEF IInv
<1>2. lists \in Seq(List) /\ lists # <<>> /\ made \in Seq(Seq(Nat)) /\ Len(made) = Len(lists)
  BY <1>1 DEF TypeOK
<1>3. Len(lists) \in Nat \ {0}
  BY <1>2
<1>4. \A d \in 1..Len(lists) : lists[d] \in List
  BY <1>2, ElementOfSeq
<1>5. \A d \in 1..Len(lists) : lists[d].index_head \in Nat /\ lists[d].tokens \in Seq(Token)
  BY <1>4, SizesArePositive DEF List
<1>6. \A d \in 1..Len(lists) : Before(d) \in Nat
  <2>1. SUFFICES ASSUME NEW d \in 1..Len(lists) PROVE Before(d) \in Nat
    OBVIOUS
  <2>2. d = 1 \/ d - 1 \in 1..Len(lists)
    BY <1>3
  <2> QED BY <1>5, <2>2 DEF Before
<1>7. \A d \in 1..Len(lists) : made[d] \in Seq(Nat)
  BY <1>2
<1>8. lists[1].tokens \in Seq(Token) /\ Len(lists[1].tokens) \in Nat
  BY <1>3, <1>5
<1> QED BY <1>1, <1>2, <1>3, <1>5, <1>6, <1>7, <1>8 DEF Parsing, Node

(* A step of a routine that leaves lists of this file and their nodes.     *)
LEMMA ParsingStep ==
  ASSUME IInv, phase = "parse", UNCHANGED <<phase, memory, overrun>>,
         lists' \in Seq(List), made' \in Seq(Seq(Nat)), Len(lists') > 0, Len(made') = Len(lists'),
         \A d \in 1..Len(lists') :
           /\ lists'[d].tokens = lists[1].tokens /\ CountsTheRest(lists'[d])
           /\ Node(d)'
  PROVE  IInv'
<1>1. TypeOK /\ ~overrun /\ Len(lists[1].tokens) < Modulus - 1
  BY AtWork
<1>2. phase' = "parse" /\ memory' = memory /\ overrun' = overrun
  OBVIOUS
<1>3. TypeOK'
  <2>1. lists' # <<>>
    OBVIOUS
  <2> QED BY <1>1, <1>2, <2>1 DEF TypeOK
<1>4. Len(lists') \in Nat /\ 1 \in 1..Len(lists')
  BY LenProperties
<1>5. \A d \in 1..Len(lists') : lists'[d] \in List
  BY ElementOfSeq
<1>6. Parsing'
  <2>1. lists'[1].tokens = lists[1].tokens
    BY <1>4
  <2>2. \A d \in 1..Len(lists') : ListOf(lists'[d], lists'[1].tokens)
    BY <1>5, <2>1 DEF ListOf
  <2>3. \A d \in 1..Len(lists') : ListOf(lists[d], lists[1].tokens)'
    BY <2>2 DEF ListOf, List, CountsTheRest
  <2> QED BY <1>1, <2>1, <2>3 DEF Parsing
<1> QED BY <1>1, <1>2, <1>3, <1>6 DEF IInv

LEMMA NodeIs ==
  ASSUME NEW d, NEW b, NEW h, Before(d)' = b, lists'[d].index_head = h, b <= h,
         made'[d] = [i \in 1..(h - b) |-> b + i]
  PROVE  Node(d)'
BY DEF Node

LEMMA NodeKept ==
  ASSUME NEW d, Node(d), Before(d)' = Before(d), lists'[d] = lists[d], made'[d] = made[d]
  PROVE  Node(d)'
BY DEF Node

LEMMA CopyStep == IInv /\ Copy => IInv'
<1> SUFFICES ASSUME IInv, Copy PROVE IInv'
  OBVIOUS
<1> PICK n : n = Len(lists)
  OBVIOUS
<1> PICK t : t = lists[1].tokens
  OBVIOUS
<1>1. /\ phase = "parse" /\ UNCHANGED <<phase, memory, overrun>>
      /\ lists' = Append(lists, Top) /\ made' = Append(made, <<>>)
  BY DEF Copy
<1>2. /\ lists \in Seq(List) /\ n \in Nat \ {0} /\ made \in Seq(Seq(Nat)) /\ Len(made) = n
      /\ \A d \in 1..n : ListOf(lists[d], t) /\ Node(d)
      /\ lists[n].index_head \in Nat
  BY <1>1, AtWork
<1>3. Top = lists[n] /\ Top \in List /\ ListOf(Top, t)
  BY <1>2 DEF Top, ListOf
<1>4. /\ lists' \in Seq(List) /\ Len(lists') = n + 1
      /\ made' \in Seq(Seq(Nat)) /\ Len(made') = n + 1
  <2>1. <<>> \in Seq(Nat)
    OBVIOUS
  <2> QED BY <1>1, <1>2, <1>3, <2>1, AppendProperties
<1>5. /\ \A d \in 1..n : lists'[d] = lists[d] /\ made'[d] = made[d]
      /\ lists'[n + 1] = Top /\ made'[n + 1] = <<>>
  <2>1. <<>> \in Seq(Nat)
    OBVIOUS
  <2> QED BY <1>1, <1>2, <1>3, <2>1, AppendProperties
<1>6. \A d \in 1..n : Node(d)'
  <2>1. SUFFICES ASSUME NEW d \in 1..n PROVE Node(d)'
    OBVIOUS
  <2>2. d = 1 \/ d - 1 \in 1..n
    BY <1>2
  <2>3. Before(d)' = Before(d)
    BY <1>5, <2>2 DEF Before
  <2> QED BY <1>2, <1>5, <2>3, NodeKept
<1>7. Node(n + 1)'
  <2>1. n + 1 # 1 /\ (n + 1) - 1 = n /\ n \in 1..n
    BY <1>2
  <2>2. Before(n + 1)' = lists[n].index_head
    BY <1>5, <2>1 DEF Before
  <2>3. \A h \in Nat : [i \in 1..(h - h) |-> h + i] = <<>> /\ h <= h
    OBVIOUS
  <2> QED BY <1>2, <1>3, <1>5, <2>2, <2>3, NodeIs
<1>8. \A d \in 1..(n + 1) :
        lists'[d].tokens = t /\ CountsTheRest(lists'[d]) /\ Node(d)'
  <2>1. \A d \in 1..n : lists'[d].tokens = t /\ CountsTheRest(lists'[d])
    BY <1>2, <1>5 DEF ListOf
  <2>2. lists'[n + 1].tokens = t /\ CountsTheRest(lists'[n + 1])
    BY <1>3, <1>5 DEF ListOf
  <2>3. \A d \in 1..(n + 1) : d \in 1..n \/ d = n + 1
    BY <1>2
  <2> QED BY <1>6, <1>7, <2>1, <2>2, <2>3
<1>9. Len(lists') > 0
  BY <1>2, <1>4
<1> QED BY <1>1, <1>4, <1>8, <1>9, ParsingStep

(* Consuming tokens, the one behind the end of the file included where the *)
(* last one is a break.                                                    *)
LEMMA ConsumeStep ==
  ASSUME IInv, phase = "parse", AtToken, NEW amount \in 1..2, Consume(amount),
         amount = 2 => Top.tokens[Top.index_head + 1] = "break"
  PROVE  IInv'
<1> DEFINE N == [Top EXCEPT !.tokensc = Wrap(@ - amount), !.index_head = Wrap(@ + amount)]
           M == Modulus
           h == Top.index_head
           k == Top.tokensc
<1> PICK n : n = Len(lists)
  OBVIOUS
<1> PICK t : t = lists[1].tokens
  OBVIOUS
<1> PICK b : b = Before(n)
  OBVIOUS
<1>1. /\ lists \in Seq(List) /\ n \in Nat \ {0} /\ made \in Seq(Seq(Nat)) /\ Len(made) = n
      /\ t \in Seq(Token) /\ Len(t) \in Nat /\ Len(t) < M - 1
      /\ \A d \in 1..n : ListOf(lists[d], t) /\ Node(d)
      /\ \A d \in 1..n : Before(d) \in Nat /\ Before(d) <= lists[d].index_head /\ made[d] \in Seq(Nat)
  BY AtWork
<1>2. Top = lists[n] /\ Top \in List /\ Top.tokens = t /\ CountsTheRest(Top) /\ Node(n)
  BY <1>1 DEF Top, ListOf
<1>3. k \in 0..(M - 1) /\ h \in 0..(M - 1) /\ h \in Nat /\ k \in Nat /\ M \in Nat
  BY <1>2, SizesArePositive DEF List
<1>4. h < Len(t) /\ h + k = Len(t)
  <2>1. h < Len(t)
    BY <1>2 DEF AtToken
  <2> QED BY <1>1, <1>2, <1>3, <2>1 DEF CountsTheRest
<1> HIDE DEF N, M, h, k
<1>5. Wrap(h + amount) = h + amount /\ h + amount < M
  <2>1. h + amount \in Nat /\ h + amount < M
    BY <1>1, <1>3, <1>4
  <2> QED BY <2>1, WrapFits DEF M
<1>6. /\ N.capacity = Top.capacity /\ N.tokens = t /\ N.tokens_stored = Top.tokens_stored
      /\ N.index_head = h + amount /\ N.tokensc = Wrap(k - amount)
  BY <1>2, <1>5 DEF N, List, h, k
<1>9. N.tokensc \in 0..(M - 1) /\ CountsTheRest(N)
  <2>1. CASE k - amount >= 0
    <3>1. Wrap(k - amount) = k - amount
      BY <1>3, <2>1, WrapFits DEF M
    <3>2. (h + amount) + (k - amount) = Len(t)
      <4>1. amount \in Int /\ h + k = Len(t) /\ h \in Int /\ k \in Int
        BY <1>3, <1>4
      <4> QED BY <4>1
    <3>3. k - amount \in 0..(M - 1)
      BY <1>3, <2>1
    <3> QED BY <1>6, <3>1, <3>2, <3>3 DEF CountsTheRest
  <2>2. CASE k - amount < 0
    <3>1. k = 1 /\ amount = 2 /\ h + 1 = Len(t)
      BY <1>1, <1>3, <1>4, <2>2
    <3>2. Wrap(k - amount) = M - 1
      <4>1. (k - amount) + M = M - 1 /\ M - 1 \in Nat /\ M - 1 < M
        BY <1>1, <1>3, <3>1
      <4>2. (M - 1) % M = M - 1
        BY <1>3, <4>1
      <4> QED BY <4>1, <4>2 DEF Wrap, M
    <3>3. t # <<>> /\ t[Len(t)] = "break"
      <4>1. t[h + 1] = "break"
        BY <1>2, <3>1 DEF h
      <4>2. Len(t) # 0
        BY <1>3, <3>1
      <4>3. t # <<>>
        BY <4>2
      <4> QED BY <3>1, <4>1, <4>3
    <3>4. h + amount = Len(t) + 1 /\ M - 1 \in 0..(M - 1)
      BY <1>1, <1>3, <3>1
    <3> QED BY <1>6, <3>2, <3>3, <3>4 DEF CountsTheRest, M
  <2> QED BY <1>3, <2>1, <2>2
<1>10. N \in List
  <2>1. h + amount \in 0..(M - 1)
    BY <1>3, <1>5
  <2> QED BY <1>2, <1>5, <1>6, <1>9, <2>1 DEF N, List, M, h, k
<1>11. /\ lists' = [lists EXCEPT ![n] = N]
       /\ made' = [made EXCEPT ![n] = @ \o [i \in 1..amount |-> h + i]]
       /\ UNCHANGED <<phase, memory, overrun>>
  BY <1>1 DEF Consume, SetTop, N, h
<1> PICK g : g = h + amount
  OBVIOUS
<1> DEFINE s == made[n] \o [i \in 1..amount |-> h + i]
<1>12. s = [i \in 1..(g - b) |-> b + i] /\ s \in Seq(Nat) /\ b <= g
  <2>1. b \in Nat /\ b <= h /\ made[n] = [i \in 1..(h - b) |-> b + i]
    BY <1>1, <1>2, <1>3 DEF Node, h
  <2>2. g \in Nat /\ h <= g /\ b <= g /\ g - h = amount
    BY <1>3, <2>1
  <2>3. [i \in 1..(h - b) |-> b + i] \o [i \in 1..(g - h) |-> h + i] = [i \in 1..(g - b) |-> b + i]
        /\ [i \in 1..(g - b) |-> b + i] \in Seq(Nat)
    <3>1. b \in Nat /\ h \in Nat /\ g \in Nat /\ b <= h /\ h <= g
      BY <1>3, <2>1, <2>2
    <3> QED BY ONLY <3>1, Joined
  <2>4. s = [i \in 1..(g - b) |-> b + i]
    BY <2>1, <2>2, <2>3
  <2> HIDE DEF s
  <2> QED BY <2>2, <2>3, <2>4
<1> HIDE DEF s
<1>13. /\ lists' \in Seq(List) /\ Len(lists') = n
       /\ made' \in Seq(Seq(Nat)) /\ Len(made') = n
  BY <1>1, <1>10, <1>11, <1>12 DEF s
<1>14. \A d \in 1..n : /\ lists'[d] = IF d = n THEN N ELSE lists[d]
                       /\ made'[d] = IF d = n THEN s ELSE made[d]
  BY <1>1, <1>11 DEF s
<1>15. \A d \in 1..n : Before(d)' = Before(d)
  <2>1. SUFFICES ASSUME NEW d \in 1..n PROVE Before(d)' = Before(d)
    OBVIOUS
  <2>2. d = 1 \/ (d - 1 \in 1..n /\ d - 1 # n)
    BY <1>1
  <2> QED BY <1>14, <2>2 DEF Before
<1>16. \A d \in 1..n : lists'[d].tokens = t /\ CountsTheRest(lists'[d]) /\ Node(d)'
  <2>1. SUFFICES ASSUME NEW d \in 1..n
                 PROVE  lists'[d].tokens = t /\ CountsTheRest(lists'[d]) /\ Node(d)'
    OBVIOUS
  <2>2. CASE d = n
    <3>1. Before(d)' = b /\ lists'[d] = N /\ made'[d] = s
      BY <1>14, <1>15, <2>2
    <3>2. lists'[d].index_head = g /\ lists'[d].tokens = t
      BY <1>6, <3>1
    <3>3. Node(d)'
      BY <1>12, <3>1, <3>2, NodeIs
    <3> QED BY <1>9, <3>1, <3>2, <3>3
  <2>3. CASE d # n
    <3>1. lists'[d] = lists[d] /\ made'[d] = made[d] /\ Before(d)' = Before(d)
      BY <1>14, <1>15, <2>3
    <3>2. Node(d)'
      BY <1>1, <3>1, NodeKept
    <3> QED BY <1>1, <3>1, <3>2 DEF ListOf
  <2> QED BY <2>2, <2>3
<1>17. Len(lists') > 0
  BY <1>1, <1>13
<1> QED BY <1>11, <1>13, <1>16, <1>17, ParsingStep

LEMMA ExpectStep == IInv /\ Expect => IInv'
<1> SUFFICES ASSUME IInv, Expect PROVE IInv'
  OBVIOUS
<1>1. phase = "parse" /\ AtToken /\ Consume(1)
  BY DEF Expect, AtToken, OnCopy
<1> QED BY <1>1, ConsumeStep

LEMMA JumpStep == IInv /\ Jump => IInv'
<1> SUFFICES ASSUME IInv, Jump PROVE IInv'
  OBVIOUS
<1>1. phase = "parse" /\ AtToken /\ Consume(2) /\ Top.tokens[Top.index_head + 1] = "break"
  BY DEF Jump, AtToken, OnCopy
<1> QED BY <1>1, ConsumeStep

LEMMA LookBehindStep == IInv /\ LookBehind => IInv'
<1> SUFFICES ASSUME IInv, LookBehind PROVE IInv'
  OBVIOUS
<1>1. /\ phase = "parse" /\ phase' = "undefined" /\ memory' = memory /\ overrun' = overrun
      /\ lists' = lists /\ made' = made
  BY DEF LookBehind, OnCopy
<1>2. TypeOK /\ ~overrun /\ Parsing
  BY <1>1 DEF IInv
<1>3. TypeOK'
  BY <1>1, <1>2 DEF TypeOK
<1>4. Parsing'
  BY <1>1, <1>2 DEF Parsing, ListOf, List, CountsTheRest, Node, Before
<1> QED BY <1>1, <1>2, <1>3, <1>4 DEF IInv

(* The lists, or the nodes, without the innermost.                         *)
LEMMA Front ==
  ASSUME NEW S, NEW q \in Seq(S), NEW n \in Nat \ {0}, n < Len(q)
  PROVE  /\ SubSeq(q, 1, n) \in Seq(S) /\ Len(SubSeq(q, 1, n)) = n
         /\ \A d \in 1..n : SubSeq(q, 1, n)[d] = q[d]
<1>1. Len(q) \in Nat /\ \A i \in 1..n : i \in 1..Len(q)
  BY LenProperties
<1>2. \A i \in 1..n : q[i] \in S
  BY <1>1, ElementOfSeq
<1>3. n - 1 + 1 = n /\ 1 <= n /\ \A i \in 1..n : 1 + i - 1 = i
  OBVIOUS
<1> QED BY <1>2, <1>3, SubSeqProperties

LEMMA Inner ==
  ASSUME NEW m \in Nat, m > 1, NEW n, n = m - 1
  PROVE  /\ n \in Nat \ {0} /\ n < m /\ n \in 1..m /\ m \in 1..m /\ m # 1 /\ m - 1 = n
         /\ n \in 1..n /\ \A d \in 1..n : d \in 1..m
OBVIOUS

LEMMA AcceptStep == IInv /\ Accept => IInv'
<1> SUFFICES ASSUME IInv, Accept PROVE IInv'
  OBVIOUS
<1> PICK m : m = Len(lists)
  OBVIOUS
<1> PICK n : n = m - 1
  OBVIOUS
<1> PICK t : t = lists[1].tokens
  OBVIOUS
<1> PICK s : s = made[n] \o made[m]
  OBVIOUS
<1> DEFINE outer == SubSeq(lists, 1, n)
           nodes == SubSeq(made, 1, n)
<1>1. /\ phase = "parse" /\ UNCHANGED <<phase, memory, overrun>> /\ m > 1
      /\ lists' = [outer EXCEPT ![n] = Top]
      /\ made' = [nodes EXCEPT ![n] = nodes[n] \o made[Len(made)]]
  BY DEF Accept
<1>2. /\ lists \in Seq(List) /\ m \in Nat \ {0} /\ made \in Seq(Seq(Nat)) /\ Len(made) = m
      /\ \A d \in 1..m : ListOf(lists[d], t) /\ Node(d)
      /\ \A d \in 1..m : /\ lists[d].index_head \in Nat /\ Before(d) \in Nat
                         /\ Before(d) <= lists[d].index_head /\ made[d] \in Seq(Nat)
  BY <1>1, AtWork
<1>3. /\ n \in Nat \ {0} /\ n < m /\ n \in 1..m /\ m \in 1..m /\ m # 1 /\ m - 1 = n
      /\ n \in 1..n /\ \A d \in 1..n : d \in 1..m
  <2>1. m \in Nat /\ m > 1
    BY <1>1, <1>2
  <2> QED BY <2>1, Inner
<1>4. Top = lists[m] /\ Top \in List /\ ListOf(Top, t)
  BY <1>2, <1>3 DEF Top, ListOf
<1>5. /\ outer \in Seq(List) /\ Len(outer) = n
      /\ nodes \in Seq(Seq(Nat)) /\ Len(nodes) = n
      /\ \A d \in 1..n : outer[d] = lists[d] /\ nodes[d] = made[d]
  BY <1>2, <1>3, Front, SMTT(40)
<1> HIDE DEF outer, nodes
<1>6. s = [i \in 1..(lists[m].index_head - Before(n)) |-> Before(n) + i] /\ s \in Seq(Nat)
      /\ Before(n) <= lists[m].index_head
  <2> DEFINE b == Before(n)
             h == lists[n].index_head
             g == lists[m].index_head
  <2>1. b \in Nat /\ h \in Nat /\ g \in Nat /\ b <= h /\ h <= g
        /\ made[n] = [i \in 1..(h - b) |-> b + i] /\ made[m] = [i \in 1..(g - h) |-> h + i]
    <3>1. Before(m) = h
      BY <1>3 DEF Before
    <3> QED BY <1>2, <1>3, <3>1 DEF Node
  <2> HIDE DEF b, h, g
  <2>2. [i \in 1..(h - b) |-> b + i] \o [i \in 1..(g - h) |-> h + i] = [i \in 1..(g - b) |-> b + i]
        /\ [i \in 1..(g - b) |-> b + i] \in Seq(Nat)
    BY <2>1, Joined
  <2>3. s = [i \in 1..(g - b) |-> b + i] /\ b <= g
    BY <2>1, <2>2
  <2> QED BY <2>2, <2>3 DEF b, g
<1>7. made' = [nodes EXCEPT ![n] = s]
  <2>1. nodes[n] = made[n] /\ made[Len(made)] = made[m]
    BY <1>2, <1>3, <1>5
  <2> QED BY <1>1, <2>1
<1>8. /\ lists' \in Seq(List) /\ Len(lists') = n
      /\ made' \in Seq(Seq(Nat)) /\ Len(made') = n
      /\ \A d \in 1..n : /\ lists'[d] = IF d = n THEN Top ELSE lists[d]
                         /\ made'[d] = IF d = n THEN s ELSE made[d]
  <2>1. lists' \in Seq(List) /\ Len(lists') = n
        /\ \A d \in 1..n : lists'[d] = IF d = n THEN Top ELSE lists[d]
    BY <1>1, <1>3, <1>4, <1>5, ExceptSeq
  <2>2. made' \in Seq(Seq(Nat)) /\ Len(made') = n
        /\ \A d \in 1..n : made'[d] = IF d = n THEN s ELSE made[d]
    BY <1>3, <1>5, <1>6, <1>7, ExceptSeq
  <2> QED BY <2>1, <2>2
<1>9. \A d \in 1..n : Before(d)' = Before(d)
  <2>1. SUFFICES ASSUME NEW d \in 1..n PROVE Before(d)' = Before(d)
    OBVIOUS
  <2>2. d = 1 \/ (d - 1 \in 1..n /\ d - 1 # n)
    BY <1>3
  <2> QED BY <1>8, <2>2 DEF Before
<1>10. \A d \in 1..n : lists'[d].tokens = t /\ CountsTheRest(lists'[d]) /\ Node(d)'
  <2>1. SUFFICES ASSUME NEW d \in 1..n
                 PROVE  lists'[d].tokens = t /\ CountsTheRest(lists'[d]) /\ Node(d)'
    OBVIOUS
  <2>2. CASE d = n
    <3>1. Before(d)' = Before(n) /\ lists'[d] = lists[m] /\ made'[d] = s
      BY <1>4, <1>8, <1>9, <2>2
    <3>2. Node(d)'
      BY <1>6, <3>1, NodeIs
    <3> QED BY <1>4, <3>1, <3>2 DEF ListOf
  <2>3. CASE d # n
    <3>1. lists'[d] = lists[d] /\ made'[d] = made[d] /\ Before(d)' = Before(d)
      BY <1>8, <1>9, <2>3
    <3>2. Node(d)'
      BY <1>2, <1>3, <3>1, NodeKept
    <3> QED BY <1>2, <1>3, <3>1, <3>2 DEF ListOf
  <2> QED BY <2>2, <2>3
<1>11. Len(lists') > 0
  BY <1>3, <1>8
<1> QED BY <1>1, <1>8, <1>10, <1>11, ParsingStep

LEMMA RejectStep == IInv /\ Reject => IInv'
<1> SUFFICES ASSUME IInv, Reject PROVE IInv'
  OBVIOUS
<1> PICK m : m = Len(lists)
  OBVIOUS
<1> PICK n : n = m - 1
  OBVIOUS
<1> PICK t : t = lists[1].tokens
  OBVIOUS
<1>1. /\ phase = "parse" /\ UNCHANGED <<phase, memory, overrun>> /\ m > 1
      /\ lists' = SubSeq(lists, 1, n) /\ made' = SubSeq(made, 1, Len(made) - 1)
  BY DEF Reject
<1>2. /\ lists \in Seq(List) /\ m \in Nat \ {0} /\ made \in Seq(Seq(Nat)) /\ Len(made) = m
      /\ \A d \in 1..m : ListOf(lists[d], t) /\ Node(d)
  BY <1>1, AtWork
<1>3. n \in Nat \ {0} /\ n < m /\ \A d \in 1..n : d \in 1..m
  <2>1. m \in Nat /\ m > 1
    BY <1>1, <1>2
  <2> QED BY <2>1, Inner
<1>4. /\ lists' \in Seq(List) /\ Len(lists') = n
      /\ made' \in Seq(Seq(Nat)) /\ Len(made') = n
      /\ \A d \in 1..n : lists'[d] = lists[d] /\ made'[d] = made[d]
  <2>1. made' = SubSeq(made, 1, n)
    BY <1>1, <1>2
  <2> QED BY <1>1, <1>2, <1>3, <2>1, Front
<1>5. \A d \in 1..n : Before(d)' = Before(d)
  <2>1. SUFFICES ASSUME NEW d \in 1..n PROVE Before(d)' = Before(d)
    OBVIOUS
  <2>2. d = 1 \/ d - 1 \in 1..n
    BY <1>3
  <2> QED BY <1>4, <2>2 DEF Before
<1>6. \A d \in 1..n : lists'[d].tokens = t /\ CountsTheRest(lists'[d]) /\ Node(d)'
  <2>1. SUFFICES ASSUME NEW d \in 1..n
                 PROVE  lists'[d].tokens = t /\ CountsTheRest(lists'[d]) /\ Node(d)'
    OBVIOUS
  <2>2. lists'[d] = lists[d] /\ made'[d] = made[d] /\ Before(d)' = Before(d)
    BY <1>4, <1>5
  <2>3. Node(d)'
    BY <1>2, <1>3, <2>2, NodeKept
  <2> QED BY <1>2, <1>3, <2>2, <2>3 DEF ListOf
<1>7. Len(lists') > 0
  BY <1>3, <1>4
<1> QED BY <1>1, <1>4, <1>6, <1>7, ParsingStep

-----------------------------------------------------------------------------

LEMMA IInvStep == IInv /\ [Next]_vars => IInv'
<1> SUFFICES ASSUME IInv, [Next]_vars PROVE IInv'
  OBVIOUS
<1>1. CASE \E token \in Token : Add(token)
  BY <1>1, AddStep
<1>2. CASE StartParser
  BY <1>2, StartParserStep
<1>3. CASE Copy
  BY <1>3, CopyStep
<1>4. CASE Expect
  BY <1>4, ExpectStep
<1>5. CASE Jump
  BY <1>5, JumpStep
<1>6. CASE LookBehind
  BY <1>6, LookBehindStep
<1>7. CASE Accept
  BY <1>7, AcceptStep
<1>8. CASE Reject
  BY <1>8, RejectStep
<1>9. CASE UNCHANGED vars
  <2>1. /\ phase' = phase /\ memory' = memory /\ overrun' = overrun
        /\ lists' = lists /\ made' = made
    BY <1>9 DEF vars
  <2>2. TypeOK' /\ (Filling' <=> Filling)
    BY <2>1 DEF IInv, TypeOK, Filling
  <2>3. Parsing' <=> Parsing
    BY <2>1 DEF Parsing, ListOf, List, CountsTheRest, Node, Before
  <2> QED BY <2>1, <2>2, <2>3 DEF IInv
<1> QED BY <1>1, <1>2, <1>3, <1>4, <1>5, <1>6, <1>7, <1>8, <1>9 DEF Next

LEMMA IInvHolds == Spec => []IInv
BY IInvInit, IInvStep, PTL DEF Spec

LEMMA IInvTokens == IInv => EachTokenOnce
<1> SUFFICES ASSUME IInv, NEW d \in 1..Len(lists)
             PROVE  /\ made[d] = [i \in 1..(lists[d].index_head - Before(d)) |-> Before(d) + i]
                    /\ CountsTheRest(lists[d])
  BY DEF EachTokenOnce
<1>1. phase \in {"fill", "parse", "undefined"} /\ lists \in Seq(List)
  BY DEF IInv, TypeOK
<1>2. CASE Filling
  <2>1. Len(lists) = 1
    BY <1>2 DEF Filling
  <2>2. d = 1 /\ Before(1) = 0
    BY <2>1 DEF Before
  <2>3. lists[1] \in List
    <3>1. lists \in Seq(List) /\ 1 \in 1..Len(lists)
      BY <1>1, <2>1
    <3> QED BY ONLY <3>1, ElementOfSeq
  <2>4. lists[1].tokens \in Seq(Token)
    BY <2>3 DEF List
  <2>5. 0 + Len(lists[1].tokens) = Len(lists[1].tokens)
    BY <2>4
  <2>6. [i \in 1..(0 - 0) |-> 0 + i] = <<>>
    OBVIOUS
  <2> QED BY <1>2, <2>2, <2>5, <2>6 DEF Filling, CountsTheRest
<1>3. CASE Parsing
  BY <1>3 DEF Parsing, ListOf, Node
<1> QED BY <1>1, <1>2, <1>3 DEF IInv

LEMMA IInvWrites == IInv => WritesInside
<1> SUFFICES ASSUME IInv, overrun PROVE ~(Len(lists[1].tokens) <= Modulus \div 2)
  BY DEF WritesInside
<1>1. Filling /\ 2 * Len(lists[1].tokens) > Modulus /\ lists \in Seq(List)
  BY DEF IInv, TypeOK
<1>2. Len(lists) = 1
  BY <1>1 DEF Filling
<1>3. lists[1] \in List
  BY <1>1, <1>2, ElementOfSeq
<1>4. lists[1].tokens \in Seq(Token)
  BY <1>3 DEF List
<1>5. Len(lists[1].tokens) \in Nat
  BY <1>4
<1> QED BY <1>1, <1>5, SizesArePositive

(* Whichever alternatives the parser tried and gave up (list_copy, then    *)
(* list_set or freeTokenListShallow), every token before the head of a     *)
(* list went into one node, and a list counts what it still holds, but     *)
(* where a break ends the file: for fields of any width, any file, and any *)
(* number of routines at work.                                             *)
THEOREM TokensGoIntoOneNode == Spec => []EachTokenOnce
BY IInvTokens, IInvHolds, PTL

(* list_add never writes outside its array before the tokens are more than *)
(* half of what a field can count, whatever the width and the first size.  *)
THEOREM ArrayIsLargeEnough == Spec => []WritesInside
BY IInvWrites, IInvHolds, PTL

(***************************************************************************)
(* The source and its pieces.  What holds for every place in it is proved  *)
(* by induction: a set of numbers that has 0 and with each number the next *)
(* is Nat, since any number it lacked would have a smallest before it.     *)
(***************************************************************************)

LEMMA SmallestOf ==
  ASSUME NEW T \in SUBSET Nat, T # {}
  PROVE  \E x \in T : \A y \in T : x <= y
<1> DEFINE R == OpToRel(<, Nat)
<1>1. IsWellFoundedOn(R, Nat)
  BY NatLessThanWellFounded
<1>2. \A x, y \in Nat : x < y => <<x, y>> \in R
  BY DEF OpToRel
<1> HIDE DEF R
<1>3. T \subseteq Nat
  OBVIOUS
<1>4. PICK x \in T : \A y \in T : ~ (<<y, x>> \in R)
  BY <1>1, <1>3, WFMin
<1>5. \A y \in T : x \in Nat /\ y \in Nat /\ ~ (y < x)
  BY <1>2, <1>4
<1>6. QED
  BY <1>4, <1>5

LEMMA Inductive ==
  ASSUME NEW S \in SUBSET Nat, 0 \in S, \A n \in S : n + 1 \in S
  PROVE  S = Nat
<1>1. SUFFICES ASSUME Nat \ S # {} PROVE FALSE
  OBVIOUS
<1>2. PICK x \in Nat \ S : \A y \in Nat \ S : x <= y
  BY <1>1, SmallestOf
<1>3. x # 0 /\ x - 1 \in Nat
  BY <1>2
<1>4. x - 1 \in S
  BY <1>2, <1>3
<1>5. QED
  BY <1>2, <1>3, <1>4

Count == Len(pieces)

LEMMA TextOfPiece ==
  ASSUME NEW p \in F!Piece, F!PieceOK(p)
  PROVE  LET t == F!TextOf(p)
             k == Len(p.text)
         IN  /\ k \in Nat
             /\ p.kind = "code" => t = p.text /\ k = 1 /\ p.text[1] \in F!Code
             /\ p.kind # "code" =>
                  /\ Len(t) = k + 2
                  /\ t[1] = IF p.kind = "line" THEN "//" ELSE "/*"
                  /\ t[k + 2] = IF p.kind = "line" THEN "newline" ELSE "*/"
                  /\ \A i \in 2..(k + 1) : t[i] = p.text[i - 1]
<1>1. p.text \in Seq(F!Symbol) /\ Len(p.text) \in Nat /\ p.kind \in {"code", "line", "block"}
  BY DEF F!Piece
<1>2. CASE p.kind = "code"
  BY <1>1, <1>2 DEF F!TextOf, F!PieceOK
<1>3. ASSUME NEW a, NEW b
      PROVE  LET t == <<a>> \o p.text \o <<b>>
                 k == Len(p.text)
             IN  /\ Len(t) = k + 2 /\ t[1] = a /\ t[k + 2] = b
                 /\ \A i \in 2..(k + 1) : t[i] = p.text[i - 1]
  <2> DEFINE k == Len(p.text)
             u == <<a>> \o p.text
             t == u \o <<b>>
  <2>1. Len(u) = k + 1 /\ u[1] = a /\ \A i \in 2..(k + 1) : u[i] = p.text[i - 1]
    BY <1>1
  <2>2. Len(t) = k + 2 /\ t[k + 2] = b /\ \A i \in 1..(k + 1) : t[i] = u[i]
    BY <1>1
  <2>3. QED
    BY <1>1, <2>1, <2>2
<1>4. CASE p.kind = "line"
  BY <1>1, <1>3, <1>4 DEF F!TextOf
<1>5. CASE p.kind = "block"
  BY <1>1, <1>3, <1>5 DEF F!TextOf
<1>6. QED
  BY <1>1, <1>2, <1>4, <1>5

(* Where piece j stands in the text, and what is there.                    *)
PieceAt(j) ==
  LET b == begin[j]
      e == begin[j + 1]
  IN  /\ b \in Nat \ {0} /\ e \in Nat \ {0} /\ b < e
      /\ pieces[j].kind \in {"code", "line", "block"}
      /\ pieces[j].kind = "code" =>
           e = b + 1 /\ text[b] = pieces[j].text[1] /\ text[b] \in F!Code /\ pieces[j].text = <<text[b]>>
      /\ pieces[j].kind = "line" =>
           /\ b + 2 <= e /\ text[b] = "//" /\ text[e - 1] = "newline"
           /\ \A p \in (b + 1)..(e - 2) : text[p] # "newline"
      /\ pieces[j].kind = "block" =>
           /\ b + 2 <= e /\ text[b] = "/*" /\ text[e - 1] = "*/"
           /\ \A p \in (b + 1)..(e - 2) : text[p] # "*/"
           /\ \A p \in (b + 1)..(e - 2) : text[p] = "newline" => F!Contains(pieces[j].text, "newline")

LEMMA PieceIs ==
  ASSUME F!TextIsPieces, NEW j \in 1..Count
  PROVE  PieceAt(j)
<1> DEFINE p == pieces[j]
           t == F!TextOf(p)
           k == Len(p.text)
           b == begin[j]
           e == begin[j + 1]
<1>1. p \in F!Piece /\ F!PieceOK(p) /\ j \in 1..(Count + 1) /\ j + 1 \in 1..(Count + 1)
  BY DEF F!TextIsPieces, Count
<1>2. b \in Nat \ {0} /\ e \in Nat \ {0} /\ e = b + Len(t)
  BY <1>1 DEF F!TextIsPieces, Count
<1>3. \A i \in 1..Len(t) : text[b + i - 1] = t[i]
  BY DEF F!TextIsPieces, Count
<1>4. /\ k \in Nat
      /\ p.kind = "code" => t = p.text /\ k = 1 /\ p.text[1] \in F!Code
      /\ p.kind # "code" =>
           /\ Len(t) = k + 2
           /\ t[1] = IF p.kind = "line" THEN "//" ELSE "/*"
           /\ t[k + 2] = IF p.kind = "line" THEN "newline" ELSE "*/"
           /\ \A i \in 2..(k + 1) : t[i] = p.text[i - 1]
  BY <1>1, TextOfPiece
<1>5. p.kind \in {"code", "line", "block"} /\ p.text \in Seq(F!Symbol)
  BY <1>1 DEF F!Piece
<1> HIDE DEF p, t, k, b, e
<1>6. CASE p.kind = "code"
  <2>1. e = b + 1 /\ text[b] = p.text[1] /\ text[b] \in F!Code
    BY <1>2, <1>3, <1>4, <1>6 DEF k
  <2>2. p.text = <<p.text[1]>>
    BY <1>4, <1>5, <1>6 DEF k
  <2>3. QED
    BY <1>2, <1>6, <2>1, <2>2 DEF PieceAt, p, b, e
<1>7. ASSUME p.kind # "code"
      PROVE  /\ e = b + k + 2 /\ text[b] = t[1] /\ text[e - 1] = t[k + 2]
             /\ \A q \in (b + 1)..(e - 2) : text[q] = p.text[q - b] /\ q - b \in 1..k
  <2>1. e = b + k + 2 /\ Len(t) = k + 2
    BY <1>2, <1>4, <1>7
  <2>2. text[b] = t[1]
    <3>1. text[b + 1 - 1] = t[1]
      BY <1>3, <1>4, <2>1
    <3>2. QED
      BY <1>2, <3>1
  <2>3. text[e - 1] = t[k + 2]
    <3>1. text[b + (k + 2) - 1] = t[k + 2]
      BY <1>3, <1>4, <2>1
    <3>2. b + (k + 2) - 1 = e - 1
      BY <1>2, <1>4, <2>1
    <3>3. QED
      BY <3>1, <3>2
  <2>4. ASSUME NEW q \in (b + 1)..(e - 2)
        PROVE  text[q] = p.text[q - b] /\ q - b \in 1..k
    <3>1. q - b + 1 \in 2..(k + 1) /\ q - b + 1 \in 1..(k + 2) /\ q - b \in 1..k
      BY <1>2, <1>4, <2>1
    <3>2. text[b + (q - b + 1) - 1] = t[q - b + 1]
      BY <1>3, <2>1, <3>1
    <3>3. t[q - b + 1] = p.text[(q - b + 1) - 1]
      BY <1>4, <1>7, <3>1
    <3>4. b + (q - b + 1) - 1 = q /\ (q - b + 1) - 1 = q - b
      BY <1>2
    <3>5. QED
      BY <3>1, <3>2, <3>3, <3>4
  <2>5. QED
    BY <2>1, <2>2, <2>3, <2>4
<1>8. CASE p.kind = "line"
  <2>1. \A i \in 1..k : p.text[i] # "newline"
    BY <1>1, <1>8 DEF F!PieceOK, F!Contains, k
  <2>2. /\ b + 2 <= e /\ b < e /\ text[b] = "//" /\ text[e - 1] = "newline"
        /\ \A q \in (b + 1)..(e - 2) : text[q] # "newline"
    <3>1. p.kind # "code" /\ t[1] = "//" /\ t[k + 2] = "newline"
      BY <1>4, <1>8
    <3>2. /\ e = b + k + 2 /\ text[b] = t[1] /\ text[e - 1] = t[k + 2]
          /\ \A q \in (b + 1)..(e - 2) : text[q] = p.text[q - b] /\ q - b \in 1..k
      BY <1>7, <3>1
    <3>3. b + 2 <= e /\ b < e
      BY <1>2, <1>4, <3>2
    <3>4. QED
      BY <2>1, <3>1, <3>2, <3>3
  <2>3. QED
    BY <1>2, <1>8, <2>2 DEF PieceAt, p, b, e
<1>9. CASE p.kind = "block"
  <2>1. \A i \in 1..k : /\ p.text[i] # "*/"
                        /\ p.text[i] = "newline" => F!Contains(p.text, "newline")
    BY <1>1, <1>9 DEF F!PieceOK, F!Contains, k
  <2>2. /\ b + 2 <= e /\ b < e /\ text[b] = "/*" /\ text[e - 1] = "*/"
        /\ \A q \in (b + 1)..(e - 2) : text[q] # "*/"
        /\ \A q \in (b + 1)..(e - 2) : text[q] = "newline" => F!Contains(p.text, "newline")
    <3>1. p.kind # "code" /\ t[1] = "/*" /\ t[k + 2] = "*/"
      BY <1>4, <1>9
    <3>2. /\ e = b + k + 2 /\ text[b] = t[1] /\ text[e - 1] = t[k + 2]
          /\ \A q \in (b + 1)..(e - 2) : text[q] = p.text[q - b] /\ q - b \in 1..k
      BY <1>7, <3>1
    <3>3. b + 2 <= e /\ b < e
      BY <1>2, <1>4, <3>2
    <3>4. \A q \in (b + 1)..(e - 2) : text[q] # "*/"
      BY <2>1, <3>2
    <3>5. \A q \in (b + 1)..(e - 2) : text[q] = "newline" => F!Contains(p.text, "newline")
      BY <2>1, <3>2
    <3>6. QED
      BY <3>1, <3>2, <3>3, <3>4, <3>5
  <2>3. QED
    BY <1>2, <1>9, <2>2 DEF PieceAt, p, b, e
<1>10. QED
  BY <1>5, <1>6, <1>8, <1>9

LEMMA CountNat ==
  ASSUME F!TextIsPieces
  PROVE  Count \in Nat /\ \A j \in 1..(Count + 1) : begin[j] \in Nat \ {0}
<1>1. pieces \in Seq(F!Piece) /\ begin \in [1..(Count + 1) -> Nat \ {0}]
  BY DEF F!TextIsPieces, Count
<1>2. Count \in Nat
  BY <1>1, LenProperties DEF Count
<1>3. QED
  BY <1>1, <1>2

(* The pieces follow each other.                                           *)
LEMMA Ordered ==
  ASSUME F!TextIsPieces, NEW i \in 1..(Count + 1), NEW j \in 1..(Count + 1), i < j
  PROVE  begin[i] < begin[j]
<1> DEFINE S == {d \in Nat : \A k, l \in 1..(Count + 1) : k < l /\ l <= d => begin[k] < begin[l]}
<1>1. Count \in Nat /\ \A k \in 1..(Count + 1) : begin[k] \in Nat
  BY CountNat
<1>2. 0 \in S
  BY <1>1
<1>3. ASSUME NEW d \in S PROVE d + 1 \in S
  <2>1. ASSUME NEW k \in 1..(Count + 1), NEW l \in 1..(Count + 1), k < l, l <= d + 1
        PROVE  begin[k] < begin[l]
    <3>1. CASE l <= d
      BY <2>1, <3>1
    <3>2. CASE l = d + 1
      <4>1. d \in 1..Count
        BY <1>1, <2>1, <3>2
      <4>2. begin[d] < begin[d + 1]
        BY <4>1, PieceIs DEF PieceAt
      <4>3. CASE k = d
        BY <3>2, <4>2, <4>3
      <4>4. CASE k < d
        <5>1. begin[k] < begin[d]
          BY <1>1, <2>1, <4>1, <4>4
        <5>2. begin[k] \in Nat /\ begin[d] \in Nat /\ begin[l] \in Nat
          BY <1>1, <4>1
        <5>3. QED
          BY <3>2, <4>2, <5>1, <5>2
      <4>5. QED
        BY <2>1, <3>2, <4>1, <4>3, <4>4
    <3>3. QED
      BY <1>1, <2>1, <3>1, <3>2
  <2>2. QED
    BY <2>1
<1>4. S = Nat
  <2> HIDE DEF S
  <2>1. \A d \in S : d + 1 \in S
    BY <1>3
  <2>2. S \in SUBSET Nat
    BY DEF S
  <2>3. QED
    BY <1>2, <2>1, <2>2, Inductive
<1>5. j \in S
  BY <1>1, <1>4
<1>6. QED
  BY <1>5

(***************************************************************************)
(* The records.                                                            *)
(***************************************************************************)

Record == [id : {"LINE_NO", "token"}, value : Nat]

IsToken(r, i) == r[i].id = "token"

(* The places in r of the tokens that are made at p.                       *)
PlacesOf(r, p) == {i \in 1..Len(r) : IsToken(r, i) /\ r[i].value = p}

(* The tokens in r are those of the code before q, but for what a string   *)
(* constant that is longer than meant has swallowed or what is behind one  *)
(* that reaches into a comment.                                            *)
TokensBefore(r, q) ==
  /\ r \in Seq(Record)
  /\ \A i \in 1..Len(r) : IsToken(r, i) =>
       r[i].value < q /\ (F!Astray(r[i].value) \/ r[i].value \in F!CodeAt)
  /\ \A i, j \in 1..Len(r) :
       i < j /\ IsToken(r, i) /\ IsToken(r, j) => r[i].value <= r[j].value
  /\ \A p \in F!CodeAt : p < q =>
       \/ F!Astray(p)
       \/ F!Swallowed(p) /\ PlacesOf(r, p) = {}
       \/ /\ ~F!Swallowed(p)
          /\ \E i \in 1..Len(r) : PlacesOf(r, p) = IF text[p] = "++" THEN {i, i + 1} ELSE {i}

(* The last line number before record i of r is v.                         *)
LastLine(r, i, v) ==
  \/ v = 1 /\ \A h \in 1..(i - 1) : IsToken(r, h)
  \/ \E h \in 1..(i - 1) : r[h] = F!LineNo(v) /\ \A g \in (h + 1)..(i - 1) : IsToken(r, g)

(* The line of p is n, or is not known to the lexer.                       *)
LineIs(p, n) == F!Uncounted(p) \/ F!Astray(p) \/ n = F!LineOf(p)

LinesBefore(r) ==
  \A i \in 1..Len(r), v \in Nat :
    IsToken(r, i) /\ LastLine(r, i, v) => LineIs(r[i].value, v)

LEMMA CodeAtNat ==
  ASSUME F!TextIsPieces, NEW p \in F!CodeAt
  PROVE  /\ p \in 1..Len(text)
         /\ \E c \in 1..Count : p = begin[c] /\ pieces[c].kind = "code" /\ text[p] # "newline"
<1>1. PICK c \in 1..Count : p = begin[c] /\ pieces[c].kind = "code" /\ pieces[c].text # <<"newline">>
  BY DEF F!CodeAt, Count
<1>2. PieceAt(c)
  BY PieceIs
<1>3. Count \in Nat /\ begin[Count + 1] \in Nat
  <2>1. Count \in Nat /\ Count + 1 \in 1..(Count + 1)
    BY CountNat
  <2>2. QED
    BY <2>1, CountNat
<1>4. c = Count \/ begin[c + 1] < begin[Count + 1]
  BY <1>3, Ordered
<1>5. Len(text) = begin[Count + 1] - 1
  BY DEF F!TextIsPieces, Count
<1>6. p \in 1..Len(text)
  <2>1. begin[c] \in Nat \ {0} /\ begin[c + 1] \in Nat /\ begin[c] < begin[c + 1]
    BY <1>2 DEF PieceAt
  <2>2. begin[c] < begin[Count + 1]
    BY <1>3, <1>4, <2>1
  <2>3. QED
    BY <1>1, <1>3, <1>5, <2>1, <2>2
<1>7. text[p] # "newline"
  BY <1>1, <1>2 DEF PieceAt
<1>8. QED
  BY <1>1, <1>6, <1>7

LEMMA NotCode ==
  ASSUME F!TextIsPieces, NEW c \in 1..Count,
         pieces[c].kind # "code" \/ text[begin[c]] = "newline"
  PROVE  begin[c] \notin F!CodeAt
<1>1. SUFFICES ASSUME begin[c] \in F!CodeAt PROVE FALSE
  OBVIOUS
<1>2. PICK d \in 1..Count : begin[c] = begin[d] /\ pieces[d].kind = "code" /\ text[begin[c]] # "newline"
  BY <1>1, CodeAtNat
<1>3. Count \in Nat /\ PieceAt(c)
  BY CountNat, PieceIs
<1>4. c = d
  <2>1. c < d => begin[c] < begin[d]
    BY <1>3, Ordered
  <2>2. d < c => begin[d] < begin[c]
    BY <1>3, Ordered
  <2>3. QED
    BY <1>2, <1>3, <2>1, <2>2 DEF PieceAt
<1>5. QED
  BY <1>2, <1>4

(* Records appended to r do not change what was there.                     *)
LEMMA Appended ==
  ASSUME NEW r \in Seq(Record), NEW x \in Record
  PROVE  LET s == Append(r, x)
         IN  /\ s \in Seq(Record) /\ Len(s) = Len(r) + 1 /\ Len(r) \in Nat
             /\ \A i \in 1..Len(r) : s[i] = r[i]
             /\ s[Len(r) + 1] = x
             /\ \A i \in 1..(Len(r) + 1) : \A v : LastLine(s, i, v) <=> LastLine(r, i, v)
             /\ x.id = "token" => \A v : LastLine(s, Len(s) + 1, v) <=> LastLine(r, Len(r) + 1, v)
             /\ \A v : x = F!LineNo(v) => LastLine(s, Len(s) + 1, v)
<1> DEFINE s == Append(r, x)
           n == Len(r)
<1>1. s \in Seq(Record) /\ Len(s) = n + 1 /\ n \in Nat
  BY AppendProperties, LenProperties
<1>2. (\A i \in 1..n : s[i] = r[i]) /\ s[n + 1] = x
  BY AppendProperties
<1> HIDE DEF s, n
<1>3. ASSUME NEW i \in 1..(n + 1), NEW v
      PROVE  LastLine(s, i, v) <=> LastLine(r, i, v)
  <2>1. \A h \in 1..(i - 1) : h \in 1..n /\ s[h] = r[h] /\ (IsToken(s, h) <=> IsToken(r, h))
    BY <1>1, <1>2 DEF IsToken
  <2>2. \A h \in 1..(i - 1) : \A g \in (h + 1)..(i - 1) : IsToken(s, g) <=> IsToken(r, g)
    BY <2>1
  <2>3. QED
    BY <2>1, <2>2 DEF LastLine
<1>4. ASSUME x.id = "token", NEW v
      PROVE  LastLine(s, n + 2, v) <=> LastLine(s, n + 1, v)
  <2>1. IsToken(s, n + 1)
    BY <1>2, <1>4 DEF IsToken
  <2>2. (n + 2) - 1 = n + 1 /\ (n + 1) - 1 = n
    BY <1>1
  <2>3. (\A h \in 1..(n + 1) : IsToken(s, h)) <=> (\A h \in 1..n : IsToken(s, h))
    BY <1>1, <2>1
  <2>4. \A h \in 1..n : (\A g \in (h + 1)..(n + 1) : IsToken(s, g))
                         <=> (\A g \in (h + 1)..n : IsToken(s, g))
    BY <1>1, <2>1
  <2>5. s[n + 1] # F!LineNo(v)
    BY <1>2, <1>4 DEF F!LineNo
  <2>6. (\E h \in 1..(n + 1) : s[h] = F!LineNo(v) /\ \A g \in (h + 1)..(n + 1) : IsToken(s, g))
        <=> (\E h \in 1..n : s[h] = F!LineNo(v) /\ \A g \in (h + 1)..n : IsToken(s, g))
    <3>1. 1..(n + 1) = (1..n) \cup {n + 1}
      BY <1>1
    <3>2. QED
      BY <2>4, <2>5, <3>1
  <2>7. QED
    BY <2>2, <2>3, <2>6 DEF LastLine
<1>5. ASSUME NEW v, x = F!LineNo(v)
      PROVE  LastLine(s, n + 2, v)
  <2>1. n + 1 \in 1..((n + 2) - 1) /\ (n + 1 + 1)..((n + 2) - 1) = {}
    BY <1>1
  <2>2. QED
    BY <1>2, <1>5, <2>1 DEF LastLine
<1>6. Len(s) + 1 = n + 2 /\ n + 1 \in 1..(n + 1)
  BY <1>1
<1>7. QED
  BY <1>1, <1>2, <1>3, <1>4, <1>5, <1>6 DEF s, n

LEMMA OneLastLine ==
  ASSUME NEW r, NEW i \in Nat, NEW v, NEW w, LastLine(r, i, v), LastLine(r, i, w)
  PROVE  v = w
<1>1. \A h \in 1..(i - 1) : \A u : r[h] = F!LineNo(u) => ~IsToken(r, h)
  BY DEF F!LineNo, IsToken
<1>2. CASE v = 1 /\ \A h \in 1..(i - 1) : IsToken(r, h)
  BY <1>1, <1>2 DEF LastLine
<1>3. CASE w = 1 /\ \A h \in 1..(i - 1) : IsToken(r, h)
  BY <1>1, <1>3 DEF LastLine
<1>4. ASSUME NEW h \in 1..(i - 1), r[h] = F!LineNo(v), \A g \in (h + 1)..(i - 1) : IsToken(r, g),
             NEW k \in 1..(i - 1), r[k] = F!LineNo(w), \A g \in (k + 1)..(i - 1) : IsToken(r, g)
      PROVE  v = w
  <2>1. ~IsToken(r, h) /\ ~IsToken(r, k)
    BY <1>1, <1>4
  <2>2. h = k
    BY <1>4, <2>1
  <2>3. F!LineNo(v).value = v /\ F!LineNo(w).value = w
    BY DEF F!LineNo
  <2>4. QED
    BY <1>4, <2>2, <2>3
<1>5. QED
  BY <1>2, <1>3, <1>4 DEF LastLine

LEMMA SameCardinality ==
  ASSUME NEW S
  PROVE  F!Cardinality(S) = Cardinality(S)
BY DEF F!Cardinality, Cardinality

(* The line of the symbol behind p.                                        *)
LEMMA LineNext ==
  ASSUME NEW p \in Nat \ {0}
  PROVE  /\ F!LineOf(p) \in Nat
         /\ F!LineOf(p + 1) = IF text[p] = "newline" THEN F!LineOf(p) + 1 ELSE F!LineOf(p)
<1> DEFINE A == {q \in 1..(p - 1) : text[q] = "newline"}
           B == {q \in 1..p : text[q] = "newline"}
<1>1. IsFiniteSet(A) /\ p \notin A
  <2>1. IsFiniteSet(1..(p - 1))
    BY FS_Interval
  <2>2. QED
    BY <2>1, FS_Subset
<1>2. Cardinality(A) \in Nat
  BY <1>1, FS_CardinalityType
<1>3. Cardinality(A \cup {p}) = Cardinality(A) + 1
  BY <1>1, FS_AddElement
<1>4. B = IF text[p] = "newline" THEN A \cup {p} ELSE A
  <2>1. 1..p = (1..(p - 1)) \cup {p}
    OBVIOUS
  <2>2. QED
    BY <2>1
<1>5. F!LineOf(p) = 1 + Cardinality(A) /\ F!LineOf(p + 1) = 1 + Cardinality(B)
  <2>1. (p + 1) - 1 = p
    OBVIOUS
  <2>2. QED
    BY <2>1, SameCardinality DEF F!LineOf
<1> HIDE DEF A, B
<1>6. QED
  BY <1>2, <1>3, <1>4, <1>5

(* What the lexer has done when it is at q and counts line n.              *)
Lexed(r, q, n) ==
  /\ q \in Nat \ {0} /\ n \in Nat
  /\ TokensBefore(r, q) /\ LinesBefore(r)
  /\ LastLine(r, Len(r) + 1, n)
  /\ LineIs(q, n)

LEMMA UncountedNext ==
  ASSUME F!TextIsPieces, NEW q \in Nat, NEW o \in Nat, q <= o, F!Uncounted(q)
  PROVE  F!Uncounted(o)
<1>1. PICK j \in 1..Len(pieces) :
        pieces[j].kind = "block" /\ F!Contains(pieces[j].text, "newline") /\ begin[j] <= q
  BY DEF F!Uncounted
<1>2. begin[j] \in Nat
  BY CountNat DEF Count
<1>3. begin[j] <= o
  BY <1>1, <1>2
<1>4. QED
  BY <1>1, <1>3 DEF F!Uncounted

LEMMA AstrayNext ==
  ASSUME F!TextIsPieces, NEW q \in Nat, NEW o \in Nat, q <= o, F!Astray(q)
  PROVE  F!Astray(o)
<1>1. PICK j \in 1..Len(pieces), e \in 1..Len(text) :
        /\ begin[j] < q /\ F!ReachesTo(j, e)
        /\ ~\E k \in 1..Len(pieces) : F!IsString(k) /\ begin[k] = e
  BY DEF F!Astray
<1>2. begin[j] \in Nat
  BY CountNat DEF Count
<1>3. begin[j] < o
  BY <1>1, <1>2
<1>4. QED
  BY <1>1, <1>3 DEF F!Astray

(* Places that give no token and no line.                                  *)
LEMMA Passed ==
  ASSUME F!TextIsPieces, NEW r, NEW q, NEW n, Lexed(r, q, n), NEW o \in Nat, q <= o,
         F!Astray(q) \/ \A p \in F!CodeAt : q <= p /\ p < o => F!Swallowed(p),
         LineIs(o, n)
  PROVE  Lexed(r, o, n)
<1>1. q \in Nat \ {0} /\ r \in Seq(Record) /\ TokensBefore(r, q)
  BY DEF Lexed, TokensBefore
<1>2. \A i \in 1..Len(r) : IsToken(r, i) => r[i].value \in Nat
  <2>1. \A i \in 1..Len(r) : r[i] \in Record
    BY <1>1, ElementOfSeq
  <2> QED BY <2>1 DEF Record
<1>3. \A i \in 1..Len(r) : IsToken(r, i) =>
        r[i].value < o /\ (F!Astray(r[i].value) \/ r[i].value \in F!CodeAt)
  BY <1>1, <1>2 DEF TokensBefore
<1>4. ASSUME NEW p \in F!CodeAt, p < o
      PROVE  \/ F!Astray(p)
             \/ F!Swallowed(p) /\ PlacesOf(r, p) = {}
             \/ /\ ~F!Swallowed(p)
                /\ \E i \in 1..Len(r) : PlacesOf(r, p) = IF text[p] = "++" THEN {i, i + 1} ELSE {i}
  <2>1. p \in Nat
    BY CodeAtNat
  <2>2. CASE p < q
    BY <1>1, <2>2 DEF TokensBefore
  <2>3. CASE q <= p
    <3>1. CASE F!Astray(q)
      BY <1>1, <2>1, <2>3, <3>1, AstrayNext
    <3>2. CASE F!Swallowed(p)
      <4>1. PlacesOf(r, p) = {}
        BY <1>1, <1>2, <2>1, <2>3 DEF PlacesOf, TokensBefore
      <4>2. QED
        BY <3>2, <4>1
    <3>3. QED
      BY <1>4, <2>3, <3>1, <3>2
  <2>4. QED
    BY <1>1, <2>1, <2>2, <2>3
<1>5. TokensBefore(r, o)
  BY <1>1, <1>3, <1>4 DEF TokensBefore
<1>6. QED
  BY <1>1, <1>5 DEF Lexed

(* A symbol that is passed over: one of a comment, a newline that is not   *)
(* counted only where lines are not known any more.                        *)
LEMMA SymbolSkipped ==
  ASSUME F!TextIsPieces, NEW r, NEW q, NEW n, Lexed(r, q, n),
         q \notin F!CodeAt \/ F!Astray(q),
         text[q] = "newline" => F!Uncounted(q) \/ F!Astray(q)
  PROVE  Lexed(r, q + 1, n)
<1>1. q \in Nat \ {0} /\ n \in Nat /\ LineIs(q, n)
  BY DEF Lexed
<1>2. F!Astray(q) \/ \A p \in F!CodeAt : q <= p /\ p < q + 1 => F!Swallowed(p)
  <2>1. \A p \in F!CodeAt : q <= p /\ p < q + 1 => p = q
    BY <1>1, CodeAtNat
  <2>2. QED
    BY <2>1
<1>3. LineIs(q + 1, n)
  <2>1. CASE F!Uncounted(q) \/ F!Astray(q)
    BY <1>1, <2>1, UncountedNext, AstrayNext DEF LineIs
  <2>2. CASE text[q] # "newline"
    BY <1>1, <2>2, LineNext, UncountedNext, AstrayNext DEF LineIs
  <2>3. QED
    BY <2>1, <2>2
<1>4. QED
  BY <1>1, <1>2, <1>3, Passed

(* A line that is counted.                                                 *)
LEMMA LineCounted ==
  ASSUME F!TextIsPieces, NEW r, NEW q, NEW n, Lexed(r, q, n), text[q] = "newline"
  PROVE  Lexed(Append(r, F!LineNo(n + 1)), q + 1, n + 1)
<1> DEFINE x == F!LineNo(n + 1)
           s == Append(r, x)
           k == Len(r)
<1>1. q \in Nat \ {0} /\ n \in Nat /\ r \in Seq(Record) /\ x \in Record /\ x.id = "LINE_NO"
  BY DEF Lexed, TokensBefore, F!LineNo, Record
<1>2. /\ s \in Seq(Record) /\ Len(s) = k + 1 /\ k \in Nat
      /\ \A i \in 1..k : s[i] = r[i]
      /\ s[k + 1] = x
      /\ \A i \in 1..(k + 1) : \A v : LastLine(s, i, v) <=> LastLine(r, i, v)
      /\ LastLine(s, Len(s) + 1, n + 1)
  BY <1>1, Appended
<1> HIDE DEF x, s, k
<1>3. \A i \in 1..Len(s) : IsToken(s, i) => i \in 1..k /\ s[i] = r[i] /\ IsToken(r, i)
  BY <1>1, <1>2 DEF IsToken
<1>4. \A p : PlacesOf(s, p) = PlacesOf(r, p)
  <2>1. \A i \in 1..k : i \in 1..Len(s) /\ (IsToken(s, i) <=> IsToken(r, i)) /\ s[i] = r[i]
    BY <1>2 DEF IsToken
  <2>2. QED
    BY <1>3, <2>1 DEF PlacesOf, k
<1>5. \A i \in 1..k : IsToken(r, i) =>
        /\ r[i].value \in Nat /\ r[i].value < q
        /\ F!Astray(r[i].value) \/ r[i].value \in F!CodeAt
  <2>1. \A i \in 1..k : r[i] \in Record
    BY <1>1, ElementOfSeq DEF k
  <2>2. \A i \in 1..k : r[i].value \in Nat
    BY <2>1 DEF Record
  <2> QED BY <2>2 DEF Lexed, TokensBefore, k
<1>6. \A p \in F!CodeAt : p < q + 1 => p < q
  <2>1. q \notin F!CodeAt
    BY CodeAtNat
  <2>2. QED
    BY <1>1, <2>1, CodeAtNat
<1>7. TokensBefore(s, q + 1)
  <2>1. \A i \in 1..Len(s) : IsToken(s, i) =>
          s[i].value < q + 1 /\ (F!Astray(s[i].value) \/ s[i].value \in F!CodeAt)
    <3>1. \A v \in Nat : v < q => v < q + 1
      BY <1>1
    <3>2. QED
      BY <1>3, <1>5, <3>1
  <2>2. \A i, j \in 1..Len(s) :
          i < j /\ IsToken(s, i) /\ IsToken(s, j) => s[i].value <= s[j].value
    BY <1>3 DEF Lexed, TokensBefore, k
  <2>3. \A p \in F!CodeAt : p < q + 1 =>
          \/ F!Astray(p)
          \/ F!Swallowed(p) /\ PlacesOf(s, p) = {}
          \/ /\ ~F!Swallowed(p)
             /\ \E i \in 1..Len(s) : PlacesOf(s, p) = IF text[p] = "++" THEN {i, i + 1} ELSE {i}
    <3>1. \A i \in 1..k : i \in 1..Len(s)
      BY <1>2
    <3>2. QED
      BY <1>4, <1>6, <3>1 DEF Lexed, TokensBefore, k
  <2>4. QED
    BY <1>2, <2>1, <2>2, <2>3 DEF TokensBefore
<1>8. LinesBefore(s)
  <2>1. LinesBefore(r)
    BY DEF Lexed
  <2>2. QED
    BY <1>2, <1>3, <2>1 DEF LinesBefore, k
<1>9. LineIs(q + 1, n + 1)
  <2>1. LineIs(q, n)
    BY DEF Lexed
  <2>2. CASE F!Uncounted(q) \/ F!Astray(q)
    BY <1>1, <2>2, UncountedNext, AstrayNext DEF LineIs
  <2>3. CASE n = F!LineOf(q)
    BY <1>1, <2>3, LineNext DEF LineIs
  <2> QED BY <2>1, <2>2, <2>3 DEF LineIs
<1>10. QED
  BY <1>1, <1>2, <1>7, <1>8, <1>9 DEF Lexed, s, x

(* m tokens made at q are added to r.                                      *)
Made(r, s, q, m) ==
  /\ s \in Seq(Record) /\ Len(s) = Len(r) + m /\ Len(r) \in Nat /\ m \in 1..2
  /\ \A i \in 1..Len(r) : s[i] = r[i]
  /\ \A i \in (Len(r) + 1)..Len(s) : s[i] = F!TokenOf(q)
  /\ \A i \in 1..(Len(r) + 1) : \A v : LastLine(s, i, v) <=> LastLine(r, i, v)
  /\ \A i \in (Len(r) + 1)..(Len(s) + 1) : \A v : LastLine(s, i, v) <=> LastLine(r, Len(r) + 1, v)

LEMMA MadeOne ==
  ASSUME NEW r \in Seq(Record), NEW q \in Nat
  PROVE  Made(r, Append(r, F!TokenOf(q)), q, 1)
<1> DEFINE x == F!TokenOf(q)
           s == Append(r, x)
           k == Len(r)
<1>1. x \in Record /\ x.id = "token"
  BY DEF F!TokenOf, Record
<1>2. /\ s \in Seq(Record) /\ Len(s) = k + 1 /\ k \in Nat
      /\ \A i \in 1..k : s[i] = r[i]
      /\ s[k + 1] = x
      /\ \A i \in 1..(k + 1) : \A v : LastLine(s, i, v) <=> LastLine(r, i, v)
      /\ \A v : LastLine(s, Len(s) + 1, v) <=> LastLine(r, k + 1, v)
  BY <1>1, Appended
<1> HIDE DEF x, s, k
<1>3. \A i \in (k + 1)..Len(s) : s[i] = x
  BY <1>2
<1>4. \A i \in (k + 1)..(Len(s) + 1) : \A v : LastLine(s, i, v) <=> LastLine(r, k + 1, v)
  <2>1. SUFFICES ASSUME NEW i \in (k + 1)..(Len(s) + 1), NEW v
                 PROVE  LastLine(s, i, v) <=> LastLine(r, k + 1, v)
    OBVIOUS
  <2>2. (i = k + 1 \/ i = Len(s) + 1) /\ k + 1 \in 1..(k + 1)
    BY <1>2
  <2>3. QED
    BY <1>2, <2>2
<1>5. 1 \in 1..2
  OBVIOUS
<1>6. QED
  BY <1>2, <1>3, <1>4, <1>5 DEF Made, s, x, k

LEMMA MadeTwo ==
  ASSUME NEW r \in Seq(Record), NEW q \in Nat
  PROVE  Made(r, r \o <<F!TokenOf(q), F!TokenOf(q)>>, q, 2)
<1> DEFINE x == F!TokenOf(q)
           s == Append(r, x)
           t == Append(s, x)
           k == Len(r)
<1>1. x \in Record
  BY DEF F!TokenOf, Record
<1>2. r \o <<x, x>> = t
  BY <1>1
<1>3. Made(r, s, q, 1)
  BY MadeOne
<1>4. Made(s, t, q, 1)
  <2>1. s \in Seq(Record)
    BY <1>3 DEF Made
  <2> HIDE DEF s, x
  <2>2. Made(s, Append(s, F!TokenOf(q)), q, 1)
    BY <2>1, MadeOne
  <2>3. QED
    BY <2>2 DEF x
<1> HIDE DEF s, t, x, k
<1>5. k \in Nat /\ Len(s) = k + 1 /\ Len(t) = k + 2 /\ t \in Seq(Record) /\ 2 \in 1..2
  BY <1>3, <1>4 DEF Made, k
<1>6. \A i \in 1..k : t[i] = r[i]
  BY <1>3, <1>4, <1>5 DEF Made, k
<1>7. \A i \in (k + 1)..Len(t) : t[i] = F!TokenOf(q)
  <2>1. t[k + 2] = F!TokenOf(q)
    BY <1>4, <1>5 DEF Made
  <2>2. t[k + 1] = s[k + 1]
    BY <1>4, <1>5 DEF Made
  <2>3. s[k + 1] = F!TokenOf(q)
    BY <1>3, <1>5 DEF Made, k
  <2>4. QED
    BY <1>5, <2>1, <2>2, <2>3
<1>8. \A i \in 1..(k + 1) : \A v : LastLine(t, i, v) <=> LastLine(r, i, v)
  BY <1>3, <1>4, <1>5 DEF Made, k
<1>9. \A i \in (k + 1)..(Len(t) + 1) : \A v : LastLine(t, i, v) <=> LastLine(r, k + 1, v)
  <2>1. SUFFICES ASSUME NEW i \in (k + 1)..(Len(t) + 1), NEW v
                 PROVE  LastLine(t, i, v) <=> LastLine(r, k + 1, v)
    OBVIOUS
  <2>2. LastLine(s, k + 2, v) <=> LastLine(r, k + 1, v)
    BY <1>3, <1>5 DEF Made, k
  <2>3. CASE i = k + 1
    BY <1>5, <1>8, <2>3
  <2>4. CASE i \in (k + 2)..(k + 3)
    <3>1. LastLine(t, i, v) <=> LastLine(s, k + 2, v)
      BY <1>4, <1>5, <2>4 DEF Made
    <3>2. QED
      BY <2>2, <3>1
  <2>5. QED
    BY <1>5, <2>3, <2>4
<1>10. Made(r, t, q, 2)
  BY <1>5, <1>6, <1>7, <1>8, <1>9 DEF Made, k
<1>11. QED
  BY <1>2, <1>10 DEF x

(* The tokens of a piece of code, or of anything that is taken for code.   *)
LEMMA TokenMade ==
  ASSUME F!TextIsPieces, NEW r, NEW s, NEW q, NEW n, NEW m, Lexed(r, q, n),
         Made(r, s, q, m), text[q] # "newline",
         \/ F!Astray(q)
         \/ q \in F!CodeAt /\ ~F!Swallowed(q) /\ m = IF text[q] = "++" THEN 2 ELSE 1
  PROVE  Lexed(s, q + 1, n)
<1> DEFINE k == Len(r)
<1>1. q \in Nat \ {0} /\ n \in Nat /\ r \in Seq(Record) /\ k \in Nat /\ Len(s) = k + m /\ m \in 1..2
      /\ s \in Seq(Record)
  BY DEF Lexed, TokensBefore, Made
<1>2. \A i \in 1..k : s[i] = r[i] /\ (IsToken(s, i) <=> IsToken(r, i)) /\ i \in 1..Len(s)
  BY <1>1 DEF Made, IsToken
<1>3. \A i \in (k + 1)..Len(s) : IsToken(s, i) /\ s[i].value = q
  BY DEF Made, IsToken, F!TokenOf
<1>4. \A i \in 1..Len(s) : i \in 1..k \/ i \in (k + 1)..Len(s)
  BY <1>1
<1>5. \A p \in F!CodeAt : p \in Nat
  BY CodeAtNat
<1>6. \A i \in 1..k : IsToken(r, i) =>
        /\ r[i].value \in Nat /\ r[i].value < q
        /\ F!Astray(r[i].value) \/ r[i].value \in F!CodeAt
  <2>1. \A i \in 1..k : r[i] \in Record
    BY <1>1, ElementOfSeq
  <2>2. \A i \in 1..k : r[i].value \in Nat
    BY <2>1 DEF Record
  <2> QED BY <2>2 DEF Lexed, TokensBefore
<1> HIDE DEF k
<1>7. \A i \in 1..Len(s) : IsToken(s, i) =>
        /\ s[i].value \in Nat /\ s[i].value < q + 1
        /\ F!Astray(s[i].value) \/ s[i].value \in F!CodeAt
  <2>1. ASSUME NEW i \in 1..k, IsToken(s, i)
        PROVE  /\ s[i].value \in Nat /\ s[i].value < q + 1
               /\ F!Astray(s[i].value) \/ s[i].value \in F!CodeAt
    <3>1. /\ s[i].value = r[i].value /\ r[i].value \in Nat /\ r[i].value < q
          /\ F!Astray(r[i].value) \/ r[i].value \in F!CodeAt
      BY <1>2, <1>6, <2>1
    <3>2. \A u \in Nat : u < q => u < q + 1
      BY <1>1
    <3>3. QED
      BY <3>1, <3>2
  <2>2. QED
    BY <1>1, <1>3, <1>4, <2>1
<1>8. \A i, j \in 1..Len(s) :
        i < j /\ IsToken(s, i) /\ IsToken(s, j) => s[i].value <= s[j].value
  <2>1. SUFFICES ASSUME NEW i \in 1..Len(s), NEW j \in 1..Len(s), i < j, IsToken(s, i), IsToken(s, j)
                 PROVE  s[i].value <= s[j].value
    OBVIOUS
  <2>2. CASE j \in 1..k
    <3>1. i \in 1..k
      BY <1>1, <2>1, <2>2
    <3>2. r[i].value <= r[j].value
      BY <1>2, <2>1, <2>2, <3>1 DEF Lexed, TokensBefore, k
    <3>3. QED
      BY <1>2, <2>2, <3>1, <3>2
  <2>3. CASE j \in (k + 1)..Len(s)
    <3>1. s[i].value \in Nat /\ s[i].value < q + 1
      BY <1>7, <2>1
    <3>2. s[j].value = q
      BY <1>3, <2>3
    <3>3. \A u \in Nat : u < q + 1 => u <= q
      BY <1>1
    <3>4. QED
      BY <3>1, <3>2, <3>3
  <2>4. QED
    BY <1>4, <2>2, <2>3
<1>9. \A p \in F!CodeAt : p < q + 1 =>
        \/ F!Astray(p)
        \/ F!Swallowed(p) /\ PlacesOf(s, p) = {}
        \/ /\ ~F!Swallowed(p)
           /\ \E i \in 1..Len(s) : PlacesOf(s, p) = IF text[p] = "++" THEN {i, i + 1} ELSE {i}
  <2>1. SUFFICES ASSUME NEW p \in F!CodeAt, p < q + 1, ~F!Astray(p)
                 PROVE  \/ F!Swallowed(p) /\ PlacesOf(s, p) = {}
                        \/ /\ ~F!Swallowed(p)
                           /\ \E i \in 1..Len(s) :
                                PlacesOf(s, p) = IF text[p] = "++" THEN {i, i + 1} ELSE {i}
    OBVIOUS
  <2>2. CASE p < q
    <3>1. PlacesOf(s, p) = PlacesOf(r, p)
      <4>1. \A i \in (k + 1)..Len(s) : s[i].value # p
        BY <1>1, <1>3, <1>5, <2>2
      <4>2. \A i \in PlacesOf(s, p) : i \in PlacesOf(r, p)
        BY <1>2, <1>4, <4>1 DEF PlacesOf, k
      <4>3. \A i \in PlacesOf(r, p) : i \in PlacesOf(s, p)
        BY <1>2 DEF PlacesOf, k
      <4>4. QED
        BY <4>2, <4>3
    <3>2. \/ F!Swallowed(p) /\ PlacesOf(r, p) = {}
          \/ /\ ~F!Swallowed(p)
             /\ \E i \in 1..k : PlacesOf(r, p) = IF text[p] = "++" THEN {i, i + 1} ELSE {i}
      BY <2>1, <2>2 DEF Lexed, TokensBefore, k
    <3>3. \A i \in 1..k : i \in 1..Len(s)
      BY <1>2
    <3>4. QED
      BY <3>1, <3>2, <3>3
  <2>3. CASE p = q
    <3>0. ~F!Swallowed(p) /\ m = IF text[q] = "++" THEN 2 ELSE 1
      BY <2>1, <2>3
    <3>1. PlacesOf(s, p) = (k + 1)..Len(s)
      <4>1. \A i \in PlacesOf(s, p) : i \in (k + 1)..Len(s)
        <5>1. SUFFICES ASSUME NEW i \in 1..k, i \in PlacesOf(s, p) PROVE FALSE
          BY <1>4 DEF PlacesOf
        <5>2. IsToken(r, i) /\ r[i].value = q
          BY <1>2, <2>3, <5>1 DEF PlacesOf
        <5>3. QED
          BY <1>1, <1>6, <5>2
      <4>2. \A i \in (k + 1)..Len(s) : i \in 1..Len(s)
        BY <1>1
      <4>3. \A i \in (k + 1)..Len(s) : i \in PlacesOf(s, p)
        BY <1>3, <2>3, <4>2 DEF PlacesOf
      <4>4. QED
        BY <4>1, <4>3
    <3>2. (k + 1)..Len(s) = IF text[p] = "++" THEN {k + 1, k + 1 + 1} ELSE {k + 1}
      <4>1. (k + 1)..(k + 2) = {k + 1, k + 1 + 1} /\ (k + 1)..(k + 1) = {k + 1}
        BY <1>1
      <4>2. QED
        BY <1>1, <2>3, <3>0, <4>1
    <3>3. k + 1 \in 1..Len(s)
      BY <1>1
    <3>4. QED
      BY <3>0, <3>1, <3>2, <3>3
  <2>4. QED
    BY <1>1, <1>5, <2>1, <2>2, <2>3
<1>10. LinesBefore(s)
  <2>1. SUFFICES ASSUME NEW i \in 1..Len(s), NEW v \in Nat, IsToken(s, i), LastLine(s, i, v)
                 PROVE  LineIs(s[i].value, v)
    BY DEF LinesBefore
  <2>2. CASE i \in 1..k
    <3>1. LastLine(r, i, v)
      BY <1>1, <2>1, <2>2 DEF Made, k
    <3>2. LinesBefore(r)
      BY DEF Lexed
    <3>3. QED
      BY <1>2, <2>1, <2>2, <3>1, <3>2 DEF LinesBefore, k
  <2>3. CASE i \in (k + 1)..Len(s)
    <3>1. LastLine(r, k + 1, v)
      BY <1>1, <2>1, <2>3 DEF Made, k
    <3>2. LastLine(r, k + 1, n) /\ k + 1 \in Nat
      BY <1>1 DEF Lexed, k
    <3>3. v = n
      BY <3>1, <3>2, OneLastLine
    <3>4. s[i].value = q
      BY <1>3, <2>3
    <3>5. QED
      BY <3>3, <3>4 DEF Lexed
  <2>4. QED
    BY <1>4, <2>2, <2>3
<1>11. LastLine(s, Len(s) + 1, n)
  <2>1. LastLine(r, k + 1, n)
    BY DEF Lexed, k
  <2>2. Len(s) + 1 \in (k + 1)..(Len(s) + 1)
    BY <1>1
  <2>3. QED
    BY <2>1, <2>2 DEF Made, k
<1>12. LineIs(q + 1, n)
  <2>1. LineIs(q, n)
    BY DEF Lexed
  <2>2. CASE F!Uncounted(q) \/ F!Astray(q)
    BY <1>1, <2>2, UncountedNext, AstrayNext DEF LineIs
  <2>3. CASE n = F!LineOf(q)
    BY <1>1, <2>3, LineNext DEF LineIs
  <2> QED BY <2>1, <2>2, <2>3 DEF LineIs
<1>13. QED
  BY <1>1, <1>7, <1>8, <1>9, <1>10, <1>11, <1>12 DEF Lexed, TokensBefore

(* A string constant ends at the last quote of its line.                   *)
LEMMA StringEnds ==
  ASSUME F!TextIsPieces, NEW p \in 1..Len(text), text[p] = "string"
  PROVE  F!StringEnd(p) \in p..Len(text) /\ F!LastQuote(p, F!StringEnd(p))
<1> DEFINE l == Len(text)
           E == {e \in p..l : text[e] = "string" /\ F!SameLine(p, e)}
           T == {x \in Nat : \E e \in E : x = l - e}
<1>1. l \in Nat /\ p \in p..l
  <2>1. l \in Nat
    BY LenProperties DEF F!TextIsPieces
  <2>2. QED
    BY <2>1
<1>2. l - p \in T
  <2>1. F!SameLine(p, p)
    BY <1>1 DEF F!SameLine
  <2>2. QED
    BY <1>1, <2>1
<1>3. PICK x \in T : \A y \in T : x <= y
  <2>1. T \in SUBSET Nat /\ T # {}
    BY <1>2
  <2> HIDE DEF T
  <2>2. QED
    BY <2>1, SmallestOf
<1>4. PICK e \in E : x = l - e
  BY <1>3
<1>5. \A f \in E : f <= e
  <2>1. SUFFICES ASSUME NEW f \in E PROVE f <= e
    OBVIOUS
  <2>2. l - f \in T
    BY <1>1
  <2>3. l - e <= l - f
    BY <1>3, <1>4, <2>2
  <2>4. QED
    BY <1>1, <2>3
<1>6. F!LastQuote(p, e)
  <2>1. SUFFICES ASSUME NEW f \in (e + 1)..l, text[f] = "string", F!SameLine(e, f) PROVE FALSE
    BY DEF F!LastQuote
  <2>2. f \in p..l /\ e < f /\ e \in p..l
    BY <1>1
  <2>3. F!SameLine(p, f)
    <3>1. \A i \in p..f : i \in p..e \/ i \in e..f
      BY <1>1, <2>2
    <3>2. QED
      BY <2>1, <3>1 DEF F!SameLine
  <2>4. QED
    BY <1>1, <1>5, <2>1, <2>2, <2>3
<1>7. e \in p..l
  OBVIOUS
<1> HIDE DEF E, T, l
<1>8. QED
  BY <1>6, <1>7 DEF F!StringEnd, l

(* A symbol that begins no string constant swallows nothing.               *)
LEMMA NotSwallowedNext ==
  ASSUME F!TextIsPieces, NEW q \in Nat, ~F!Swallowed(q),
         \A j \in 1..Count : F!IsString(j) => begin[j] # q
  PROVE  ~F!Swallowed(q + 1)
<1>1. SUFFICES ASSUME NEW j \in 1..Len(pieces), NEW e \in (q + 1)..Len(text),
                      begin[j] < q + 1, F!ReachesTo(j, e)
               PROVE  FALSE
  BY DEF F!Swallowed
<1>2. begin[j] \in Nat /\ begin[j] # q /\ Len(text) \in Nat
  <2>1. Len(text) \in Nat
    BY LenProperties DEF F!TextIsPieces
  <2>2. QED
    BY <1>1, <2>1, CountNat DEF F!ReachesTo, Count
<1>3. begin[j] < q /\ e \in q..Len(text)
  BY <1>1, <1>2
<1>4. QED
  BY <1>1, <1>3 DEF F!Swallowed

(* Inside of a comment no string constant begins.                          *)
LEMMA NoStringInside ==
  ASSUME F!TextIsPieces, NEW c \in 1..Count, NEW q, begin[c] < q, q < begin[c + 1], q \in Nat,
         NEW j \in 1..Count
  PROVE  begin[j] # q
<1>1. Count \in Nat /\ PieceAt(c) /\ PieceAt(j) /\ c + 1 \in 1..(Count + 1) /\ j \in 1..(Count + 1)
      /\ c \in 1..(Count + 1)
  BY CountNat, PieceIs
<1>2. CASE j <= c
  <2>1. j = c \/ begin[j] < begin[c]
    BY <1>1, <1>2, Ordered
  <2>2. QED
    BY <1>1, <2>1 DEF PieceAt
<1>3. CASE c < j
  <2>1. j = c + 1 \/ begin[c + 1] < begin[j]
    BY <1>1, <1>3, Ordered
  <2>2. QED
    BY <1>1, <2>1 DEF PieceAt
<1>4. QED
  BY <1>1, <1>2, <1>3

LEMMA NotCodeInside ==
  ASSUME F!TextIsPieces, NEW c \in 1..Count, NEW q, begin[c] < q, q < begin[c + 1], q \in Nat
  PROVE  q \notin F!CodeAt
<1>1. SUFFICES ASSUME q \in F!CodeAt PROVE FALSE
  OBVIOUS
<1>2. PICK d \in 1..Count : q = begin[d]
  BY <1>1, CodeAtNat
<1>3. QED
  BY <1>2, NoStringInside

(* A string constant that is read where it begins: what it takes in is     *)
(* swallowed, and behind it is the piece behind another, or the rest of a  *)
(* comment.                                                                *)
LEMMA StringRead ==
  ASSUME F!TextIsPieces, NEW c \in 1..Count, F!IsString(c), ~F!Swallowed(begin[c])
  PROVE  LET e == F!StringEnd(begin[c])
         IN  /\ e \in begin[c]..Len(text) /\ F!SameLine(begin[c], e)
             /\ \A p \in F!CodeAt : begin[c] < p /\ p <= e => F!Swallowed(p)
             /\ ~F!Swallowed(e + 1)
             /\ \/ F!Astray(e + 1)
                \/ \E k \in 1..Count : F!IsString(k) /\ begin[k] = e /\ begin[k + 1] = e + 1
<1> DEFINE b == begin[c]
           e == F!StringEnd(b)
           l == Len(text)
<1>1. PieceAt(c) /\ text[b] = "string" /\ b \in Nat \ {0} /\ l \in Nat
  <2>1. l \in Nat
    BY LenProperties DEF F!TextIsPieces
  <2>2. QED
    BY <2>1, PieceIs DEF F!IsString, PieceAt
<1>2. b \in 1..l
  <2>1. b \in F!CodeAt
    BY DEF F!IsString, F!CodeAt, Count
  <2>2. QED
    BY <2>1, CodeAtNat
<1>3. e \in b..l /\ F!LastQuote(b, e)
  BY <1>1, <1>2, StringEnds
<1> HIDE DEF b, e, l
<1>4. F!ReachesTo(c, e)
  BY <1>3 DEF F!ReachesTo, b, l
<1>5. \A p \in F!CodeAt : b < p /\ p <= e => F!Swallowed(p)
  <2>1. SUFFICES ASSUME NEW p \in F!CodeAt, b < p, p <= e PROVE F!Swallowed(p)
    OBVIOUS
  <2>2. p \in Nat /\ e \in p..l
    BY <1>1, <1>3, <2>1, CodeAtNat
  <2>3. QED
    BY <1>4, <2>1, <2>2 DEF F!Swallowed, Count, b, l
<1>6. ~F!Swallowed(e + 1)
  <2>1. SUFFICES ASSUME NEW j \in 1..Count, NEW f \in (e + 1)..l, begin[j] < e + 1,
                        F!ReachesTo(j, f)
                 PROVE  FALSE
    BY DEF F!Swallowed, Count, l
  <2>2. begin[j] \in Nat /\ e \in Nat /\ f \in Nat
    BY <1>1, <1>3, CountNat
  <2>3. CASE begin[j] < b
    <3>1. f \in b..l
      BY <1>1, <1>3, <2>2
    <3>2. F!Swallowed(b)
      BY <2>1, <2>3, <3>1 DEF F!Swallowed, Count, l
    <3>3. QED
      BY <3>2 DEF b
  <2>4. CASE b <= begin[j]
    <3>1. \A i \in e..f : i \in begin[j]..f
      BY <2>1, <2>2
    <3>2. F!SameLine(e, f) /\ text[f] = "string"
      BY <2>1, <3>1 DEF F!ReachesTo, F!LastQuote, F!SameLine
    <3>3. QED
      BY <1>3, <2>1, <3>2 DEF F!LastQuote, l
  <2>5. QED
    BY <1>1, <2>2, <2>3, <2>4
<1>7. \/ F!Astray(e + 1)
      \/ \E k \in 1..Count : F!IsString(k) /\ begin[k] = e /\ begin[k + 1] = e + 1
  <2>1. CASE \E k \in 1..Count : F!IsString(k) /\ begin[k] = e
    <3>1. PICK k \in 1..Count : F!IsString(k) /\ begin[k] = e
      BY <2>1
    <3>2. PieceAt(k)
      BY PieceIs
    <3>3. begin[k + 1] = e + 1
      BY <3>1, <3>2 DEF PieceAt, F!IsString
    <3>4. QED
      BY <3>1, <3>3
  <2>2. CASE ~\E k \in 1..Count : F!IsString(k) /\ begin[k] = e
    <3>1. e \in 1..l /\ b < e + 1
      BY <1>1, <1>3
    <3>2. QED
      BY <1>4, <2>2, <3>1 DEF F!Astray, Count, b, l
  <2>3. QED
    BY <2>1, <2>2
<1>8. F!SameLine(b, e)
  BY <1>3 DEF F!LastQuote
<1>9. QED
  BY <1>3, <1>5, <1>6, <1>7, <1>8 DEF b, e, l

(* In a line the number of the line does not change.                       *)
LEMMA LineKept ==
  ASSUME NEW p \in Nat \ {0}, NEW e \in Nat, p <= e, F!SameLine(p, e)
  PROVE  F!LineOf(e + 1) = F!LineOf(p)
<1>1. {q \in 1..((e + 1) - 1) : text[q] = "newline"} = {q \in 1..(p - 1) : text[q] = "newline"}
  <2>1. \A q \in 1..((e + 1) - 1) : q \in 1..(p - 1) \/ q \in p..e
    OBVIOUS
  <2>2. \A q \in 1..(p - 1) : q \in 1..((e + 1) - 1)
    OBVIOUS
  <2>3. QED
    BY <2>1, <2>2 DEF F!SameLine
<1>2. QED
  BY <1>1 DEF F!LineOf

(***************************************************************************)
(* The invariant of the lexer and the reader.                              *)
(***************************************************************************)

(* The lexer is at the begin of piece c, or in the comment that it is.     *)
AtPiece(c) ==
  \/ start = "INITIAL" /\ c \in 1..(Count + 1) /\ pos = begin[c]
  \/ /\ c \in 1..Count /\ begin[c] < pos /\ pos < begin[c + 1]
     /\ \/ start = "single_line_comment" /\ pieces[c].kind = "line"
        \/ start = "multi_line_comment" /\ pieces[c].kind = "block"

(* Token i of the list is record w[i].                                     *)
ReadFrom(w) ==
  /\ next \in 1..(Len(records) + 1) /\ line_num \in Nat
  /\ LastLine(records, next, line_num)
  /\ tokens \in Seq([symbol : Nat, line_num : Nat])
  /\ w \in [1..Len(tokens) -> 1..(next - 1)]
  /\ \A i \in 1..Len(tokens) :
       /\ IsToken(records, w[i]) /\ tokens[i].symbol = records[w[i]].value
       /\ LastLine(records, w[i], tokens[i].line_num)
  /\ \A i, j \in 1..Len(tokens) : i < j => w[i] < w[j]
  /\ \A h \in 1..(next - 1) : IsToken(records, h) => \E i \in 1..Len(tokens) : w[i] = h

(* What the lexer is at begins or continues what was meant there.          *)
OnPiece == ~F!Swallowed(pos) /\ \E c \in 1..(Count + 1) : AtPiece(c)

FileInv ==
  /\ F!TextIsPieces
  /\ text_phase \in {"lex", "read", "done", "undefined"}
  /\ Lexed(records, pos, line_no)
  /\ text_phase = "lex" => /\ F!Astray(pos) \/ OnPiece
                           /\ next = 1 /\ line_num = 1 /\ tokens = <<>>
  /\ text_phase # "lex" => /\ pos > Len(text)
                           /\ \E w \in [1..Len(tokens) -> 1..(next - 1)] : ReadFrom(w)
  /\ text_phase = "done" => next > Len(records)

LEMMA SourceKept ==
  ASSUME UNCHANGED F!source
  PROVE  /\ F!TextIsPieces' <=> F!TextIsPieces
         /\ \A r, q, n : Lexed(r, q, n)' <=> Lexed(r, q, n)
         /\ \A p : (F!Astray(p)' <=> F!Astray(p)) /\ (F!Swallowed(p)' <=> F!Swallowed(p))
<1>1. pieces' = pieces /\ begin' = begin /\ text' = text
  BY DEF F!source
<1>2. F!TextIsPieces' <=> F!TextIsPieces
  BY <1>1 DEF F!TextIsPieces
<1>3. \A j, e : F!ReachesTo(j, e)' <=> F!ReachesTo(j, e)
  BY <1>1 DEF F!ReachesTo, F!IsString, F!LastQuote, F!SameLine
<1>4. \A p : (F!Astray(p)' <=> F!Astray(p)) /\ (F!Swallowed(p)' <=> F!Swallowed(p))
  BY <1>1, <1>3 DEF F!Astray, F!Swallowed, F!IsString
<1>5. F!CodeAt' = F!CodeAt
  BY <1>1 DEF F!CodeAt
<1>6. \A p, n : LineIs(p, n)' <=> LineIs(p, n)
  BY <1>1, <1>4 DEF LineIs, F!LineOf, F!Uncounted
<1>7. \A r, q : TokensBefore(r, q)' <=> TokensBefore(r, q)
  BY <1>1, <1>4, <1>5 DEF TokensBefore
<1>8. \A r : LinesBefore(r)' <=> LinesBefore(r)
  BY <1>6 DEF LinesBefore
<1>9. \A r, q, n : Lexed(r, q, n)' <=> Lexed(r, q, n)
  BY <1>6, <1>7, <1>8 DEF Lexed
<1>10. QED
  BY <1>2, <1>4, <1>9

(* What a step of the lexer has to show.                                   *)
LEMMA LexStep ==
  ASSUME FileInv, text_phase = "lex", text_phase' = "lex", UNCHANGED <<F!source, F!reader>>,
         Lexed(records', pos', line_no'),
         F!Astray(pos') \/ (~F!Swallowed(pos') /\ \E c \in 1..(Count + 1) : AtPiece(c)')
  PROVE  FileInv'
<1>1. F!TextIsPieces'
  BY SourceKept DEF FileInv
<1>2. Lexed(records, pos, line_no)'
  BY SourceKept
<1>3. Count' = Count
  BY DEF Count, F!source
<1>4. F!Astray(pos)' \/ OnPiece'
  <2>1. (F!Astray(pos)' <=> F!Astray(pos')) /\ (F!Swallowed(pos)' <=> F!Swallowed(pos'))
    BY SourceKept
  <2>2. QED
    BY <1>3, <2>1 DEF OnPiece
<1>5. next' = 1 /\ line_num' = 1 /\ tokens' = <<>>
  BY DEF FileInv, F!reader
<1>6. QED
  BY <1>1, <1>2, <1>4, <1>5 DEF FileInv

(* Behind the begin of a comment that was taken for code there is nothing  *)
(* else to show.                                                           *)
LEMMA AstrayStep ==
  ASSUME FileInv, text_phase = "lex", text_phase' = "lex", UNCHANGED <<F!source, F!reader>>,
         Lexed(records', pos', line_no'), F!Astray(pos), pos < pos'
  PROVE  FileInv'
<1>1. F!TextIsPieces /\ pos \in Nat /\ pos' \in Nat
  BY DEF FileInv, Lexed
<1>2. F!Astray(pos')
  BY <1>1, AstrayNext
<1>3. QED
  BY <1>2, LexStep

(* Where the lexer is, if a symbol is left.                                *)
LEMMA AtSymbol ==
  ASSUME FileInv, text_phase = "lex", pos <= Len(text)
  PROVE  /\ Lexed(records, pos, line_no) /\ F!TextIsPieces /\ pos \in Nat \ {0} /\ line_no \in Nat
         /\ records \in Seq(Record) /\ pos \in 1..Len(text)
         /\ \/ F!Astray(pos)
            \/ /\ ~F!Swallowed(pos)
               /\ \E c \in 1..Count :
                    /\ AtPiece(c) /\ PieceAt(c) /\ c \in 1..(Count + 1) /\ c + 1 \in 1..(Count + 1)
                    /\ begin[c] <= pos /\ pos < begin[c + 1]
<1>1. F!TextIsPieces /\ Lexed(records, pos, line_no) /\ pos \in Nat \ {0} /\ line_no \in Nat
      /\ records \in Seq(Record)
  BY DEF FileInv, Lexed, TokensBefore
<1>2. pos \in 1..Len(text)
  <2>1. Len(text) \in Nat
    BY <1>1, LenProperties DEF F!TextIsPieces
  <2>2. QED
    BY <1>1, <2>1
<1>3. ASSUME OnPiece
      PROVE  \E c \in 1..Count :
               /\ AtPiece(c) /\ PieceAt(c) /\ c \in 1..(Count + 1) /\ c + 1 \in 1..(Count + 1)
               /\ begin[c] <= pos /\ pos < begin[c + 1]
  <2>1. PICK c \in 1..(Count + 1) : AtPiece(c)
    BY <1>3 DEF OnPiece
  <2>2. Count \in Nat /\ begin[Count + 1] \in Nat /\ Len(text) = begin[Count + 1] - 1
    BY <1>1, CountNat DEF F!TextIsPieces, Count
  <2>3. c \in 1..Count
    BY <1>1, <2>1, <2>2 DEF AtPiece
  <2>4. PieceAt(c) /\ c \in 1..(Count + 1) /\ c + 1 \in 1..(Count + 1)
    BY <1>1, <2>2, <2>3, PieceIs
  <2>5. begin[c] <= pos /\ pos < begin[c + 1]
    BY <1>1, <2>1, <2>4 DEF AtPiece, PieceAt
  <2>6. QED
    BY <2>1, <2>3, <2>4, <2>5
<1>4. F!Astray(pos) \/ OnPiece
  BY DEF FileInv
<1>5. QED
  BY <1>1, <1>2, <1>3, <1>4 DEF OnPiece

(* At the begin of a piece of code the next piece is reached.              *)
LEMMA AtNextPiece ==
  ASSUME UNCHANGED F!source, NEW c \in 1..Count, c + 1 \in 1..(Count + 1),
         start' = "INITIAL", pos' = begin[c + 1]
  PROVE  AtPiece(c + 1)'
  BY DEF AtPiece, F!source, Count

LEMMA LexCodeStep ==
  ASSUME FileInv, F!LexCode
  PROVE  FileInv'
<1>1. text_phase = "lex" /\ text_phase' = "lex" /\ start = "INITIAL" /\ start' = "INITIAL" /\ pos <= Len(text)
      /\ text[pos] \in {"word", "break", "++", "*/"} /\ pos' = pos + 1 /\ line_no' = line_no
      /\ records' = records \o F!Records(pos)
      /\ UNCHANGED F!source /\ UNCHANGED F!reader
  BY DEF F!LexCode, F!Lexing
<1>2. /\ Lexed(records, pos, line_no) /\ F!TextIsPieces /\ pos \in Nat \ {0} /\ records \in Seq(Record)
      /\ pos < pos'
  BY <1>1, AtSymbol
<1>3. Made(records, records', pos, IF text[pos] \in {"++", "*/"} THEN 2 ELSE 1)
  <2>1. CASE text[pos] \in {"++", "*/"}
    BY <1>1, <1>2, <2>1, MadeTwo DEF F!Records
  <2>2. CASE text[pos] \notin {"++", "*/"}
    <3>1. records' = Append(records, F!TokenOf(pos))
      BY <1>1, <1>2, <2>2 DEF F!Records
    <3>2. QED
      BY <1>2, <2>2, <3>1, MadeOne
  <2>3. QED
    BY <2>1, <2>2
<1>4. CASE F!Astray(pos)
  <2>1. Lexed(records', pos', line_no')
    BY <1>1, <1>2, <1>3, <1>4, TokenMade
  <2>2. QED
    BY <1>1, <1>2, <1>4, <2>1, AstrayStep
<1>5. ASSUME ~F!Swallowed(pos), NEW c \in 1..Count,
             AtPiece(c), PieceAt(c), c \in 1..(Count + 1), c + 1 \in 1..(Count + 1)
      PROVE  FileInv'
  <2>1. pos = begin[c]
    BY <1>1, <1>5 DEF AtPiece
  <2>2. pieces[c].kind = "code" /\ text[pos] \in {"word", "break", "++"} /\ pos + 1 = begin[c + 1]
        /\ pieces[c].text = <<text[pos]>>
    BY <1>1, <1>5, <2>1 DEF PieceAt, F!Code
  <2>3. pos \in F!CodeAt
    <3>1. <<text[pos]>> # <<"newline">>
      BY <2>2
    <3>2. QED
      BY <2>1, <2>2, <3>1 DEF F!CodeAt, Count
  <2>4. Lexed(records', pos', line_no')
    BY <1>1, <1>2, <1>3, <1>5, <2>2, <2>3, TokenMade
  <2>5. ~F!Swallowed(pos')
    <3>1. \A j \in 1..Count : F!IsString(j) => begin[j] # pos
      <4>1. \A j \in 1..Count : F!IsString(j) => text[begin[j]] = "string"
        BY <1>2, PieceIs DEF PieceAt, F!IsString
      <4>2. QED
        BY <2>2, <4>1
    <3>2. QED
      BY <1>1, <1>2, <1>5, <3>1, NotSwallowedNext
  <2>6. AtPiece(c + 1)'
    BY <1>1, <1>5, <2>2, AtNextPiece
  <2>7. QED
    BY <1>1, <1>5, <2>4, <2>5, <2>6, LexStep
<1>6. QED
  BY <1>1, <1>4, <1>5, AtSymbol

LEMMA LexStringStep ==
  ASSUME FileInv, F!LexString
  PROVE  FileInv'
<1> DEFINE e == F!StringEnd(pos)
<1>1. text_phase = "lex" /\ text_phase' = "lex" /\ start = "INITIAL" /\ start' = "INITIAL" /\ pos <= Len(text)
      /\ text[pos] = "string" /\ pos' = e + 1 /\ line_no' = line_no
      /\ records' = Append(records, F!TokenOf(pos))
      /\ UNCHANGED F!source /\ UNCHANGED F!reader
  BY DEF F!LexString, F!Lexing
<1>2. /\ Lexed(records, pos, line_no) /\ F!TextIsPieces /\ pos \in Nat \ {0} /\ records \in Seq(Record)
      /\ line_no \in Nat /\ pos \in 1..Len(text) /\ Len(text) \in Nat
  <2>1. F!TextIsPieces
    BY DEF FileInv
  <2>2. Len(text) \in Nat
    BY <2>1, LenProperties DEF F!TextIsPieces
  <2>3. QED
    BY <1>1, <2>2, AtSymbol
<1>3. e \in pos..Len(text)
  BY <1>1, <1>2, StringEnds
<1> HIDE DEF e
<1>4. e \in Nat /\ pos <= e /\ pos + 1 <= e + 1 /\ e + 1 \in Nat /\ pos + 1 \in Nat
  BY <1>2, <1>3
<1>5. Made(records, records', pos, 1)
  BY <1>1, <1>2, MadeOne
<1>6. CASE F!Astray(pos)
  <2>1. Lexed(records', pos + 1, line_no)
    BY <1>1, <1>2, <1>5, <1>6, TokenMade
  <2>2. F!Astray(pos + 1) /\ F!Astray(e + 1)
    BY <1>2, <1>4, <1>6, AstrayNext
  <2>3. Lexed(records', e + 1, line_no)
    BY <1>2, <1>4, <2>1, <2>2, Passed DEF LineIs
  <2>4. QED
    BY <1>1, <1>4, <1>2, <1>6, <2>3, AstrayStep
<1>7. ASSUME ~F!Swallowed(pos), NEW c \in 1..Count, AtPiece(c), PieceAt(c)
      PROVE  FileInv'
  <2>1. pos = begin[c]
    BY <1>1, <1>7 DEF AtPiece
  <2>2. F!IsString(c)
    BY <1>1, <1>7, <2>1 DEF PieceAt, F!IsString
  <2>3. pos \in F!CodeAt
    BY <2>1, <2>2 DEF F!CodeAt, F!IsString, Count
  <2>4. /\ F!SameLine(pos, e)
        /\ \A p \in F!CodeAt : pos < p /\ p <= e => F!Swallowed(p)
        /\ ~F!Swallowed(e + 1)
        /\ \/ F!Astray(e + 1)
           \/ \E k \in 1..Count : F!IsString(k) /\ begin[k] = e /\ begin[k + 1] = e + 1
    BY <1>2, <1>7, <2>1, <2>2, StringRead DEF e
  <2>5. Lexed(records', pos + 1, line_no)
    BY <1>1, <1>2, <1>5, <1>7, <2>3, TokenMade
  <2>6. LineIs(e + 1, line_no)
    <3>1. F!LineOf(e + 1) = F!LineOf(pos)
      BY <1>2, <1>4, <2>4, LineKept
    <3>2. LineIs(pos, line_no) /\ pos <= e + 1
      BY <1>2, <1>4 DEF Lexed
    <3>3. QED
      BY <1>2, <1>4, <3>1, <3>2, UncountedNext, AstrayNext DEF LineIs
  <2>7. Lexed(records', pos', line_no')
    <3>1. \A p \in F!CodeAt : pos + 1 <= p /\ p < e + 1 => F!Swallowed(p)
      BY <1>2, <1>4, <2>4, CodeAtNat
    <3>2. QED
      BY <1>1, <1>2, <1>4, <2>5, <2>6, <3>1, Passed
  <2>8. CASE F!Astray(e + 1)
    BY <1>1, <2>7, <2>8, LexStep
  <2>9. ASSUME NEW k \in 1..Count, begin[k + 1] = e + 1
        PROVE  FileInv'
    <3>1. k + 1 \in 1..(Count + 1)
      BY <1>2, CountNat
    <3>2. AtPiece(k + 1)'
      BY <1>1, <2>9, <3>1, AtNextPiece
    <3>3. QED
      BY <1>1, <2>4, <2>7, <3>1, <3>2, LexStep
  <2>10. QED
    BY <2>4, <2>8, <2>9
<1>8. QED
  BY <1>1, <1>6, <1>7, AtSymbol

LEMMA LexNewlineStep ==
  ASSUME FileInv, F!LexNewline
  PROVE  FileInv'
<1>1. text_phase = "lex" /\ text_phase' = "lex" /\ start \in {"INITIAL", "single_line_comment"}
      /\ start' = "INITIAL" /\ pos <= Len(text)
      /\ text[pos] = "newline" /\ pos' = pos + 1 /\ line_no' = line_no + 1
      /\ records' = Append(records, F!LineNo(line_no + 1))
      /\ UNCHANGED F!source /\ UNCHANGED F!reader
  BY DEF F!LexNewline, F!Lexing
<1>2. Lexed(records, pos, line_no) /\ F!TextIsPieces /\ pos \in Nat \ {0} /\ pos < pos'
  BY <1>1, AtSymbol
<1>3. Lexed(records', pos', line_no')
  BY <1>1, <1>2, LineCounted
<1>4. CASE F!Astray(pos)
  BY <1>1, <1>2, <1>3, <1>4, AstrayStep
<1>5. ASSUME ~F!Swallowed(pos), NEW c \in 1..Count,
             AtPiece(c), PieceAt(c), c \in 1..(Count + 1), c + 1 \in 1..(Count + 1),
             begin[c] <= pos, pos < begin[c + 1]
      PROVE  FileInv'
  <2>1. pos + 1 = begin[c + 1]
    <3>1. CASE start = "INITIAL"
      <4>1. pos = begin[c]
        BY <1>5, <3>1 DEF AtPiece
      <4>2. QED
        BY <1>1, <1>5, <4>1 DEF PieceAt
    <3>2. CASE start = "single_line_comment"
      <4>1. pieces[c].kind = "line" /\ begin[c] < pos
        BY <1>5, <3>2 DEF AtPiece
      <4>2. begin[c] \in Nat /\ begin[c + 1] \in Nat
            /\ \A p \in (begin[c] + 1)..(begin[c + 1] - 2) : text[p] # "newline"
        BY <1>5, <4>1 DEF PieceAt
      <4>3. pos \notin (begin[c] + 1)..(begin[c + 1] - 2)
        BY <1>1, <4>2
      <4>4. QED
        BY <1>2, <1>5, <4>1, <4>2, <4>3
    <3>3. QED
      BY <1>1, <3>1, <3>2
  <2>2. \A j \in 1..Count : F!IsString(j) => begin[j] # pos
    <3>1. \A j \in 1..Count : F!IsString(j) => text[begin[j]] = "string"
      BY <1>2, PieceIs DEF PieceAt, F!IsString
    <3>2. QED
      BY <1>1, <3>1
  <2>3. ~F!Swallowed(pos')
    BY <1>1, <1>2, <1>5, <2>2, NotSwallowedNext
  <2>4. AtPiece(c + 1)'
    BY <1>1, <1>5, <2>1, AtNextPiece
  <2>5. QED
    BY <1>1, <1>3, <1>5, <2>3, <2>4, LexStep
<1>6. QED
  BY <1>1, <1>4, <1>5, AtSymbol

LEMMA LexOpenStep ==
  ASSUME FileInv, F!LexOpen
  PROVE  FileInv'
<1>1. text_phase = "lex" /\ text_phase' = "lex" /\ start = "INITIAL"
      /\ pos <= Len(text) /\ text[pos] \in {"//", "/*"}
      /\ start' = (IF text[pos] = "//" THEN "single_line_comment" ELSE "multi_line_comment")
      /\ pos' = pos + 1 /\ line_no' = line_no /\ records' = records
      /\ UNCHANGED F!source /\ UNCHANGED F!reader
  BY DEF F!LexOpen, F!Lexing
<1>2. Lexed(records, pos, line_no) /\ F!TextIsPieces /\ pos \in Nat \ {0} /\ pos < pos'
  BY <1>1, AtSymbol
<1>3. CASE F!Astray(pos)
  <2>1. Lexed(records', pos', line_no')
    BY <1>1, <1>2, <1>3, SymbolSkipped
  <2>2. QED
    BY <1>1, <1>2, <1>3, <2>1, AstrayStep
<1>4. ASSUME ~F!Swallowed(pos), NEW c \in 1..Count,
             AtPiece(c), PieceAt(c), c \in 1..(Count + 1)
      PROVE  FileInv'
  <2>1. pos = begin[c]
    BY <1>1, <1>4 DEF AtPiece
  <2>2. pieces[c].kind = (IF text[pos] = "//" THEN "line" ELSE "block")
        /\ pos + 1 < begin[c + 1] /\ begin[c] < pos + 1 /\ pieces[c].kind # "code"
    <3>1. text[pos] \notin F!Code
      BY <1>1 DEF F!Code
    <3>2. pieces[c].kind = "line" \/ pieces[c].kind = "block"
      BY <1>4, <2>1, <3>1 DEF PieceAt
    <3>3. begin[c] \in Nat /\ begin[c + 1] \in Nat /\ begin[c] + 2 <= begin[c + 1]
          /\ text[pos] = IF pieces[c].kind = "line" THEN "//" ELSE "/*"
      BY <1>4, <2>1, <3>2 DEF PieceAt
    <3>4. QED
      BY <2>1, <3>2, <3>3
  <2>3. Lexed(records', pos', line_no')
    <3>1. pos \notin F!CodeAt
      BY <1>2, <2>1, <2>2, NotCode
    <3>2. QED
      BY <1>1, <1>2, <3>1, SymbolSkipped
  <2>4. ~F!Swallowed(pos')
    <3>1. \A j \in 1..Count : F!IsString(j) => text[begin[j]] = "string"
      BY <1>2, PieceIs DEF PieceAt, F!IsString
    <3>2. \A j \in 1..Count : F!IsString(j) => begin[j] # pos
      BY <1>1, <3>1
    <3>3. QED
      BY <1>1, <1>2, <1>4, <3>2, NotSwallowedNext
  <2>5. AtPiece(c)'
    BY <1>1, <1>4, <2>2 DEF AtPiece, F!source, Count
  <2>6. QED
    BY <1>1, <1>4, <2>3, <2>4, <2>5, LexStep
<1>5. QED
  BY <1>1, <1>3, <1>4, AtSymbol

LEMMA LexCommentStep ==
  ASSUME FileInv, F!LexComment
  PROVE  FileInv'
<1>1. text_phase = "lex" /\ text_phase' = "lex" /\ start' = start
      /\ \/ start = "single_line_comment" /\ text[pos] # "newline"
         \/ start = "multi_line_comment" /\ text[pos] # "*/"
      /\ pos <= Len(text)
      /\ pos' = pos + 1 /\ line_no' = line_no /\ records' = records
      /\ UNCHANGED F!source /\ UNCHANGED F!reader
  BY DEF F!LexComment, F!Lexing
<1>2. Lexed(records, pos, line_no) /\ F!TextIsPieces /\ pos \in Nat \ {0} /\ pos < pos'
  BY <1>1, AtSymbol
<1>3. CASE F!Astray(pos)
  <2>1. Lexed(records', pos', line_no')
    BY <1>1, <1>2, <1>3, SymbolSkipped
  <2>2. QED
    BY <1>1, <1>2, <1>3, <2>1, AstrayStep
<1>4. ASSUME ~F!Swallowed(pos), NEW c \in 1..Count,
             AtPiece(c), PieceAt(c), c \in 1..(Count + 1), pos < begin[c + 1]
      PROVE  FileInv'
  <2>1. begin[c] < pos
        /\ \/ start = "single_line_comment" /\ pieces[c].kind = "line"
           \/ start = "multi_line_comment" /\ pieces[c].kind = "block"
    BY <1>1, <1>4 DEF AtPiece
  <2>2. pos + 1 < begin[c + 1] /\ begin[c] < pos + 1 /\ pos \in (begin[c] + 1)..(begin[c + 1] - 2)
    <3>1. begin[c] \in Nat /\ begin[c + 1] \in Nat
          /\ text[begin[c + 1] - 1] = IF start = "single_line_comment" THEN "newline" ELSE "*/"
      BY <1>4, <2>1 DEF PieceAt
    <3>2. text[pos] # text[begin[c + 1] - 1]
      BY <1>1, <3>1
    <3>3. pos # begin[c + 1] - 1
      BY <3>2
    <3>4. QED
      BY <1>2, <1>4, <2>1, <3>1, <3>3
  <2>3. text[pos] = "newline" => F!Uncounted(pos)
    <3>1. SUFFICES ASSUME text[pos] = "newline" PROVE F!Uncounted(pos)
      OBVIOUS
    <3>2. pieces[c].kind = "block" /\ F!Contains(pieces[c].text, "newline")
      BY <1>1, <1>4, <2>1, <2>2, <3>1 DEF PieceAt
    <3>3. begin[c] <= pos
      BY <1>2, <1>4, <2>1 DEF PieceAt
    <3>4. QED
      BY <3>2, <3>3 DEF F!Uncounted, Count
  <2>4. Lexed(records', pos', line_no')
    <3>1. pos \notin F!CodeAt
      BY <1>2, <1>4, <2>1, NotCodeInside
    <3>2. QED
      BY <1>1, <1>2, <2>3, <3>1, SymbolSkipped
  <2>5. ~F!Swallowed(pos')
    <3>1. \A j \in 1..Count : begin[j] # pos
      BY <1>2, <1>4, <2>1, NoStringInside
    <3>2. QED
      BY <1>1, <1>2, <1>4, <3>1, NotSwallowedNext
  <2>6. AtPiece(c)'
    BY <1>1, <1>4, <2>1, <2>2 DEF AtPiece, F!source, Count
  <2>7. QED
    BY <1>1, <1>4, <2>4, <2>5, <2>6, LexStep
<1>5. QED
  BY <1>1, <1>3, <1>4, AtSymbol

LEMMA LexCloseStep ==
  ASSUME FileInv, F!LexClose
  PROVE  FileInv'
<1>1. text_phase = "lex" /\ text_phase' = "lex" /\ start = "multi_line_comment" /\ start' = "INITIAL"
      /\ text[pos] = "*/" /\ pos <= Len(text)
      /\ pos' = pos + 1 /\ line_no' = line_no /\ records' = records
      /\ UNCHANGED F!source /\ UNCHANGED F!reader
  BY DEF F!LexClose, F!Lexing
<1>2. Lexed(records, pos, line_no) /\ F!TextIsPieces /\ pos \in Nat \ {0} /\ pos < pos'
  BY <1>1, AtSymbol
<1>3. CASE F!Astray(pos)
  <2>1. Lexed(records', pos', line_no')
    BY <1>1, <1>2, <1>3, SymbolSkipped
  <2>2. QED
    BY <1>1, <1>2, <1>3, <2>1, AstrayStep
<1>4. ASSUME ~F!Swallowed(pos), NEW c \in 1..Count,
             AtPiece(c), PieceAt(c), c + 1 \in 1..(Count + 1), pos < begin[c + 1]
      PROVE  FileInv'
  <2>1. pieces[c].kind = "block" /\ begin[c] < pos
    BY <1>1, <1>4 DEF AtPiece
  <2>2. pos + 1 = begin[c + 1]
    <3>1. begin[c] \in Nat /\ begin[c + 1] \in Nat
          /\ \A p \in (begin[c] + 1)..(begin[c + 1] - 2) : text[p] # "*/"
      BY <1>4, <2>1 DEF PieceAt
    <3>2. pos \notin (begin[c] + 1)..(begin[c + 1] - 2)
      BY <1>1, <3>1
    <3>3. QED
      BY <1>2, <1>4, <2>1, <3>1, <3>2
  <2>3. Lexed(records', pos', line_no')
    <3>1. pos \notin F!CodeAt
      BY <1>2, <1>4, <2>1, NotCodeInside
    <3>2. QED
      BY <1>1, <1>2, <3>1, SymbolSkipped
  <2>4. ~F!Swallowed(pos')
    <3>1. \A j \in 1..Count : begin[j] # pos
      BY <1>2, <1>4, <2>1, NoStringInside
    <3>2. QED
      BY <1>1, <1>2, <1>4, <3>1, NotSwallowedNext
  <2>5. AtPiece(c + 1)'
    BY <1>1, <1>4, <2>2, AtNextPiece
  <2>6. QED
    BY <1>1, <1>4, <2>3, <2>4, <2>5, LexStep
<1>5. QED
  BY <1>1, <1>3, <1>4, AtSymbol

LEMMA LexEndStep ==
  ASSUME FileInv, F!LexEnd
  PROVE  FileInv'
<1>1. text_phase = "lex" /\ text_phase' = "read" /\ pos > Len(text)
      /\ UNCHANGED F!source /\ UNCHANGED F!lexer /\ UNCHANGED F!reader
  BY DEF F!LexEnd
<1>2. F!TextIsPieces'
  BY <1>1, SourceKept DEF FileInv
<1>3. records' = records /\ pos' = pos /\ line_no' = line_no /\ text' = text
  BY <1>1 DEF F!lexer, F!source
<1>4. Lexed(records, pos, line_no)'
  BY <1>1, <1>3, SourceKept DEF FileInv
<1>5. next' = 1 /\ line_num' = 1 /\ tokens' = <<>> /\ Len(records) \in Nat
  BY <1>1 DEF FileInv, F!reader, Lexed, TokensBefore
<1>6. \E w \in [1..Len(tokens') -> 1..(next' - 1)] : ReadFrom(w)'
  <2>1. 1..Len(tokens') = {} /\ 1..(next' - 1) = {}
    BY <1>5
  <2>2. PICK w : w \in [1..Len(tokens') -> 1..(next' - 1)]
    <3>1. [i \in 1..Len(tokens') |-> 1] \in [1..Len(tokens') -> 1..(next' - 1)]
      BY <2>1
    <3>2. QED
      BY <3>1
  <2>3. LastLine(records, 1, 1)
    BY DEF LastLine
  <2>4. tokens' \in Seq([symbol : Nat, line_num : Nat])
    BY <1>5
  <2>5. next' \in 1..(Len(records') + 1) /\ line_num' \in Nat
        /\ LastLine(records', next', line_num')
    BY <1>3, <1>5, <2>3
  <2>6. ReadFrom(w)'
    BY <2>1, <2>2, <2>4, <2>5 DEF ReadFrom
  <2>7. QED
    BY <2>2, <2>6
<1>7. QED
  BY <1>1, <1>2, <1>3, <1>4, <1>6 DEF FileInv

LEMMA LastLineKept ==
  ASSUME NEW r, NEW i \in Nat \ {0}, NEW v, IsToken(r, i), LastLine(r, i, v)
  PROVE  LastLine(r, i + 1, v)
<1>1. (i + 1) - 1 = i
  OBVIOUS
<1>2. CASE v = 1 /\ \A h \in 1..(i - 1) : IsToken(r, h)
  <2>1. \A h \in 1..i : IsToken(r, h)
    BY <1>2
  <2>2. QED
    BY <1>1, <1>2, <2>1 DEF LastLine
<1>3. ASSUME NEW h \in 1..(i - 1), r[h] = F!LineNo(v), \A g \in (h + 1)..(i - 1) : IsToken(r, g)
      PROVE  LastLine(r, i + 1, v)
  <2>1. h \in 1..i /\ \A g \in (h + 1)..i : IsToken(r, g)
    BY <1>3
  <2>2. QED
    BY <1>1, <1>3, <2>1 DEF LastLine
<1>4. QED
  BY <1>2, <1>3 DEF LastLine

(* What a step of the reader has to show.                                  *)
LEMMA ReadStep ==
  ASSUME FileInv, UNCHANGED F!source, UNCHANGED F!lexer, text_phase # "lex", text_phase' # "lex",
         text_phase' \in {"read", "done", "undefined"},
         text_phase' = "done" => next' > Len(records),
         NEW w, w \in [1..Len(tokens') -> 1..(next' - 1)], ReadFrom(w)'
  PROVE  FileInv'
<1>1. F!TextIsPieces'
  BY SourceKept DEF FileInv
<1>2. records' = records /\ pos' = pos /\ line_no' = line_no /\ text' = text
  BY DEF F!lexer, F!source
<1>3. Lexed(records, pos, line_no)'
  BY <1>2, SourceKept DEF FileInv
<1>4. pos' > Len(text')
  BY <1>2 DEF FileInv
<1>5. \E u \in [1..Len(tokens') -> 1..(next' - 1)] : ReadFrom(u)'
  OBVIOUS
<1>6. QED
  BY <1>1, <1>2, <1>3, <1>4, <1>5 DEF FileInv

LEMMA ReadLineNoStep ==
  ASSUME FileInv, F!ReadLineNo
  PROVE  FileInv'
<1>1. text_phase = "read" /\ text_phase' = "read" /\ next <= Len(records) /\ records[next].id = "LINE_NO"
      /\ next' = next + 1 /\ line_num' = records[next].value /\ tokens' = tokens
      /\ UNCHANGED F!source /\ UNCHANGED F!lexer /\ records' = records
  BY DEF F!ReadLineNo, F!Reading, F!lexer
<1>2. PICK w \in [1..Len(tokens) -> 1..(next - 1)] : ReadFrom(w)
  BY <1>1 DEF FileInv
<1>3. records \in Seq(Record) /\ Len(records) \in Nat /\ next \in 1..Len(records)
  BY <1>1, <1>2 DEF FileInv, Lexed, TokensBefore, ReadFrom
<1>4. records[next] \in Record
  BY <1>3, ElementOfSeq
<1>5. records[next] = F!LineNo(line_num') /\ line_num' \in Nat
  BY <1>1, <1>4 DEF Record, F!LineNo
<1>6. LastLine(records, next + 1, line_num')
  <2>1. (next + 1) - 1 = next /\ next \in 1..next /\ (next + 1)..next = {}
    BY <1>3
  <2>2. QED
    BY <1>5, <2>1 DEF LastLine
<1>7. Len(tokens) \in Nat /\ w \in [1..Len(tokens') -> 1..(next' - 1)]
  <2>1. Len(tokens) \in Nat
    BY <1>2, LenProperties DEF ReadFrom
  <2>2. \A h \in 1..(next - 1) : h \in 1..(next' - 1)
    BY <1>1, <1>3
  <2>3. QED
    BY <1>1, <2>1, <2>2
<1>8. \A h \in 1..(next' - 1) : IsToken(records, h) => \E i \in 1..Len(tokens) : w[i] = h
  <2>1. ~IsToken(records, next)
    BY <1>1 DEF IsToken
  <2>2. \A h \in 1..(next' - 1) : h = next \/ h \in 1..(next - 1)
    BY <1>1, <1>3
  <2>3. QED
    BY <1>2, <2>1, <2>2 DEF ReadFrom
<1>9. next' \in 1..(Len(records) + 1)
  BY <1>1, <1>3
<1>10. ReadFrom(w)'
  BY <1>1, <1>2, <1>5, <1>6, <1>7, <1>8, <1>9 DEF ReadFrom
<1>11. QED
  BY <1>1, <1>7, <1>10, ReadStep

LEMMA ReadTokenStep ==
  ASSUME FileInv, F!ReadToken
  PROVE  FileInv'
<1> DEFINE t == [symbol |-> records[next].value, line_num |-> line_num]
           k == Len(tokens)
<1>1. text_phase = "read" /\ text_phase' = "read" /\ next <= Len(records) /\ records[next].id = "token"
      /\ next' = next + 1 /\ line_num' = line_num /\ tokens' = Append(tokens, t)
      /\ UNCHANGED F!source /\ UNCHANGED F!lexer /\ records' = records
  BY DEF F!ReadToken, F!Reading, F!lexer
<1>2. PICK w \in [1..Len(tokens) -> 1..(next - 1)] : ReadFrom(w)
  BY <1>1 DEF FileInv
<1>3. records \in Seq(Record) /\ Len(records) \in Nat /\ next \in 1..Len(records)
  BY <1>1, <1>2 DEF FileInv, Lexed, TokensBefore, ReadFrom
<1>4. records[next] \in Record /\ IsToken(records, next)
  BY <1>1, <1>3, ElementOfSeq DEF IsToken
<1>5. line_num \in Nat /\ LastLine(records, next, line_num)
  BY <1>2 DEF ReadFrom
<1>6. LastLine(records, next + 1, line_num)
  BY <1>3, <1>4, <1>5, LastLineKept
<1>7. t \in [symbol : Nat, line_num : Nat] /\ t.symbol = records[next].value /\ t.line_num = line_num
  BY <1>4, <1>5 DEF Record
<1> HIDE DEF t
<1>8. /\ tokens' \in Seq([symbol : Nat, line_num : Nat]) /\ Len(tokens') = k + 1 /\ k \in Nat
      /\ \A i \in 1..k : tokens'[i] = tokens[i]
      /\ tokens'[k + 1] = t
  <2>1. tokens \in Seq([symbol : Nat, line_num : Nat])
    BY <1>2 DEF ReadFrom
  <2>2. QED
    BY <1>1, <1>7, <2>1, AppendProperties, LenProperties
<1> HIDE DEF k
<1>9. PICK u : u = [i \in 1..(k + 1) |-> IF i <= k THEN w[i] ELSE next]
  OBVIOUS
<1>10. w \in [1..k -> 1..(next - 1)]
  BY <1>2 DEF k
<1>11. (\A i \in 1..k : u[i] = w[i] /\ u[i] \in 1..(next - 1)) /\ u[k + 1] = next
       /\ \A i \in 1..(k + 1) : i \in 1..k \/ i = k + 1
  BY <1>8, <1>9, <1>10
<1>12. u \in [1..Len(tokens') -> 1..(next' - 1)]
  <2>1. \A i \in 1..(k + 1) : u[i] \in 1..(next' - 1)
    BY <1>1, <1>3, <1>11
  <2>2. QED
    BY <1>8, <1>9, <2>1
<1>13. \A i \in 1..Len(tokens') :
         /\ IsToken(records, u[i]) /\ tokens'[i].symbol = records[u[i]].value
         /\ LastLine(records, u[i], tokens'[i].line_num)
  <2>1. SUFFICES ASSUME NEW i \in 1..(k + 1)
                 PROVE  /\ IsToken(records, u[i]) /\ tokens'[i].symbol = records[u[i]].value
                        /\ LastLine(records, u[i], tokens'[i].line_num)
    BY <1>8
  <2>2. CASE i \in 1..k
    <3>1. /\ IsToken(records, w[i]) /\ tokens[i].symbol = records[w[i]].value
          /\ LastLine(records, w[i], tokens[i].line_num)
      BY <1>2, <2>2 DEF ReadFrom, k
    <3>2. QED
      BY <1>8, <1>11, <2>2, <3>1
  <2>3. CASE i = k + 1
    BY <1>4, <1>5, <1>7, <1>8, <1>11, <2>3
  <2>4. QED
    BY <1>11, <2>2, <2>3
<1>14. \A i, j \in 1..Len(tokens') : i < j => u[i] < u[j]
  <2>1. SUFFICES ASSUME NEW i \in 1..(k + 1), NEW j \in 1..(k + 1), i < j
                 PROVE  u[i] < u[j]
    BY <1>8
  <2>2. i \in 1..k
    BY <1>8, <2>1
  <2>3. CASE j \in 1..k
    <3>1. w[i] < w[j]
      BY <1>2, <2>1, <2>2, <2>3 DEF ReadFrom, k
    <3>2. QED
      BY <1>11, <2>2, <2>3, <3>1
  <2>4. CASE j = k + 1
    BY <1>3, <1>11, <2>2, <2>4
  <2>5. QED
    BY <1>11, <2>3, <2>4
<1>15. \A h \in 1..(next' - 1) : IsToken(records, h) => \E i \in 1..Len(tokens') : u[i] = h
  <2>1. SUFFICES ASSUME NEW h \in 1..(next' - 1), IsToken(records, h)
                 PROVE  \E i \in 1..(k + 1) : u[i] = h
    BY <1>8
  <2>2. CASE h \in 1..(next - 1)
    <3>1. PICK i \in 1..k : w[i] = h
      BY <1>2, <2>1, <2>2 DEF ReadFrom, k
    <3>2. i \in 1..(k + 1)
      BY <1>8
    <3>3. QED
      BY <1>11, <3>1, <3>2
  <2>3. CASE h = next
    <3>1. k + 1 \in 1..(k + 1)
      BY <1>8
    <3>2. QED
      BY <1>11, <2>3, <3>1
  <2>4. QED
    BY <1>1, <1>3, <2>2, <2>3
<1>16. next' \in 1..(Len(records) + 1) /\ line_num' \in Nat /\ LastLine(records, next', line_num')
  BY <1>1, <1>3, <1>5, <1>6
<1>17. ReadFrom(u)'
  BY <1>1, <1>8, <1>12, <1>13, <1>14, <1>15, <1>16 DEF ReadFrom
<1>18. QED
  BY <1>1, <1>12, <1>17, ReadStep

LEMMA EndStep ==
  ASSUME FileInv, text_phase = "read", next > Len(records),
         text_phase' \in {"done", "undefined"}, UNCHANGED <<F!source, F!lexer, F!reader>>
  PROVE  FileInv'
<1>1. PICK w \in [1..Len(tokens) -> 1..(next - 1)] : ReadFrom(w)
  BY DEF FileInv
<1>2. UNCHANGED F!source /\ UNCHANGED F!lexer /\ records' = records /\ next' = next
      /\ tokens' = tokens /\ line_num' = line_num
  BY DEF F!lexer, F!reader
<1>3. ReadFrom(w)'
  BY <1>1, <1>2 DEF ReadFrom
<1>4. QED
  BY <1>1, <1>2, <1>3, ReadStep

LEMMA FileStutter ==
  ASSUME FileInv, UNCHANGED F!vars
  PROVE  FileInv'
<1>1. UNCHANGED F!source /\ UNCHANGED F!lexer /\ UNCHANGED F!reader /\ text_phase' = text_phase
  BY DEF F!vars
<1>2. F!TextIsPieces'
  BY <1>1, SourceKept DEF FileInv
<1>3. records' = records /\ pos' = pos /\ line_no' = line_no /\ text' = text /\ Count' = Count
      /\ next' = next /\ tokens' = tokens /\ line_num' = line_num
      /\ pieces' = pieces /\ begin' = begin /\ start' = start
  BY <1>1 DEF F!lexer, F!source, F!reader, Count
<1>4. Lexed(records, pos, line_no)'
  BY <1>1, <1>3, SourceKept DEF FileInv
<1>5. F!Astray(pos)' \/ OnPiece' <=> F!Astray(pos) \/ OnPiece
  <2>1. (\A c : AtPiece(c)' <=> AtPiece(c))
    BY <1>3 DEF AtPiece
  <2>2. (F!Astray(pos)' <=> F!Astray(pos)) /\ (F!Swallowed(pos)' <=> F!Swallowed(pos))
    BY <1>1, <1>3, SourceKept
  <2>3. QED
    BY <1>3, <2>1, <2>2 DEF OnPiece
<1>6. \A w : ReadFrom(w)' <=> ReadFrom(w)
  BY <1>3 DEF ReadFrom
<1>7. QED
  BY <1>1, <1>2, <1>3, <1>4, <1>5, <1>6 DEF FileInv

LEMMA FileStep ==
  ASSUME FileInv, F!Next \/ UNCHANGED F!vars
  PROVE  FileInv'
<1>1. CASE F!LexCode
  BY <1>1, LexCodeStep
<1>2. CASE F!LexString
  BY <1>2, LexStringStep
<1>3. CASE F!LexNewline
  BY <1>3, LexNewlineStep
<1>4. CASE F!LexOpen
  BY <1>4, LexOpenStep
<1>5. CASE F!LexComment
  BY <1>5, LexCommentStep
<1>6. CASE F!LexClose
  BY <1>6, LexCloseStep
<1>7. CASE F!LexEnd
  BY <1>7, LexEndStep
<1>8. CASE F!ReadLineNo
  BY <1>8, ReadLineNoStep
<1>9. CASE F!ReadToken
  BY <1>9, ReadTokenStep
<1>10. CASE F!AtEndOfFile
  BY <1>10, EndStep DEF F!AtEndOfFile
<1>11. CASE F!AtEndOfEmptyFile
  BY <1>11, EndStep DEF F!AtEndOfEmptyFile
<1>12. CASE UNCHANGED F!vars
  BY <1>12, FileStutter
<1>13. QED
  BY <1>1, <1>2, <1>3, <1>4, <1>5, <1>6, <1>7, <1>8, <1>9, <1>10, <1>11, <1>12 DEF F!Next

LEMMA FileStart ==
  ASSUME F!Init
  PROVE  FileInv
<1>1. F!TextIsPieces /\ text_phase = "lex" /\ pos = 1 /\ start = "INITIAL" /\ line_no = 1
      /\ records = <<>> /\ next = 1 /\ line_num = 1 /\ tokens = <<>>
  BY DEF F!Init
<1>2. TokensBefore(records, 1)
  <2>1. records \in Seq(Record) /\ 1..Len(records) = {}
    BY <1>1
  <2>2. \A p \in F!CodeAt : ~(p < 1)
    BY <1>1, CodeAtNat
  <2>3. QED
    BY <2>1, <2>2 DEF TokensBefore
<1>3. LinesBefore(records) /\ LastLine(records, Len(records) + 1, 1)
  BY <1>1 DEF LinesBefore, LastLine, IsToken
<1>4. F!LineOf(1) = 1
  <2>1. {q \in 1..(1 - 1) : text[q] = "newline"} = {}
    OBVIOUS
  <2>2. QED
    BY <2>1, SameCardinality, FS_EmptySet DEF F!LineOf
<1>5. Lexed(records, pos, line_no)
  BY <1>1, <1>2, <1>3, <1>4 DEF Lexed, LineIs
<1>6. OnPiece
  <2>1. Count \in Nat /\ begin[1] = 1
    BY <1>1, CountNat DEF F!TextIsPieces
  <2>2. 1 \in 1..(Count + 1) /\ AtPiece(1)
    BY <1>1, <2>1 DEF AtPiece
  <2>3. \A j \in 1..Count : ~(begin[j] < 1)
    BY <1>1, CountNat
  <2>4. ~F!Swallowed(pos)
    BY <1>1, <2>3 DEF F!Swallowed, Count
  <2>5. QED
    BY <2>2, <2>4 DEF OnPiece
<1>7. QED
  BY <1>1, <1>5, <1>6 DEF FileInv

(* What the reader has when it is done.                                    *)
LEMMA AllRead ==
  ASSUME FileInv, text_phase = "done"
  PROVE  /\ F!TextIsPieces /\ TokensBefore(records, pos) /\ LinesBefore(records)
         /\ pos \in Nat /\ Len(records) \in Nat /\ Len(tokens) \in Nat
         /\ tokens \in Seq([symbol : Nat, line_num : Nat])
         /\ \A p \in F!CodeAt : p < pos
         /\ \E w \in [1..Len(tokens) -> 1..Len(records)] :
              /\ \A i \in 1..Len(tokens) :
                   /\ IsToken(records, w[i]) /\ tokens[i].symbol = records[w[i]].value
                   /\ LastLine(records, w[i], tokens[i].line_num)
              /\ \A i, j \in 1..Len(tokens) : i < j => w[i] < w[j]
              /\ \A h \in 1..Len(records) : IsToken(records, h) => \E i \in 1..Len(tokens) : w[i] = h
<1>1. F!TextIsPieces /\ TokensBefore(records, pos) /\ LinesBefore(records) /\ pos \in Nat
      /\ pos > Len(text) /\ next > Len(records)
  BY DEF FileInv, Lexed
<1>2. PICK w \in [1..Len(tokens) -> 1..(next - 1)] : ReadFrom(w)
  BY DEF FileInv
<1>3. Len(records) \in Nat /\ next - 1 = Len(records)
  <2>1. records \in Seq(Record)
    BY <1>1 DEF TokensBefore
  <2>2. Len(records) \in Nat
    BY <2>1, LenProperties
  <2>3. next \in 1..(Len(records) + 1)
    BY <1>2 DEF ReadFrom
  <2>4. QED
    BY <1>1, <2>2, <2>3
<1>4. \A p \in F!CodeAt : p < pos
  <2>1. Len(text) \in Nat
    BY <1>1, LenProperties DEF F!TextIsPieces
  <2>2. QED
    BY <1>1, <2>1, CodeAtNat
<1>5. Len(tokens) \in Nat /\ tokens \in Seq([symbol : Nat, line_num : Nat])
  BY <1>2, LenProperties DEF ReadFrom
<1>6. QED
  BY <1>1, <1>2, <1>3, <1>4, <1>5 DEF ReadFrom

LEMMA FileInvTokens ==
  ASSUME FileInv
  PROVE  F!TokensAreTheCode
<1>1. SUFFICES ASSUME text_phase = "done"
      PROVE  /\ \A i, j \in 1..Len(tokens) : i < j => tokens[i].symbol <= tokens[j].symbol
             /\ \A j \in 1..Len(tokens) : F!Astray(tokens[j].symbol) \/ tokens[j].symbol \in F!CodeAt
             /\ \A p \in F!CodeAt :
                  \/ F!Astray(p)
                  \/ F!Swallowed(p) /\ {j \in 1..Len(tokens) : tokens[j].symbol = p} = {}
                  \/ /\ ~F!Swallowed(p)
                     /\ \E i \in 1..Len(tokens) : {j \in 1..Len(tokens) : tokens[j].symbol = p}
                                                 = IF text[p] = "++" THEN {i, i + 1} ELSE {i}
  BY DEF F!TokensAreTheCode
<1>2. PICK w \in [1..Len(tokens) -> 1..Len(records)] :
              /\ \A i \in 1..Len(tokens) :
                   /\ IsToken(records, w[i]) /\ tokens[i].symbol = records[w[i]].value
                   /\ LastLine(records, w[i], tokens[i].line_num)
              /\ \A i, j \in 1..Len(tokens) : i < j => w[i] < w[j]
              /\ \A h \in 1..Len(records) : IsToken(records, h) => \E i \in 1..Len(tokens) : w[i] = h
  BY <1>1, AllRead
<1>3. TokensBefore(records, pos) /\ pos \in Nat /\ Len(records) \in Nat /\ Len(tokens) \in Nat
      /\ \A p \in F!CodeAt : p < pos
  BY <1>1, AllRead
<1>4. \A i, j \in 1..Len(tokens) : i < j => tokens[i].symbol <= tokens[j].symbol
  <2>1. SUFFICES ASSUME NEW i \in 1..Len(tokens), NEW j \in 1..Len(tokens), i < j
                 PROVE  tokens[i].symbol <= tokens[j].symbol
    OBVIOUS
  <2>2. w[i] \in 1..Len(records) /\ w[j] \in 1..Len(records) /\ w[i] < w[j]
        /\ IsToken(records, w[i]) /\ IsToken(records, w[j])
        /\ tokens[i].symbol = records[w[i]].value /\ tokens[j].symbol = records[w[j]].value
    BY <1>2, <2>1
  <2>3. records[w[i]].value <= records[w[j]].value
    BY <1>3, <2>2 DEF TokensBefore
  <2>4. QED
    BY <2>2, <2>3
<1>5. \A j \in 1..Len(tokens) : F!Astray(tokens[j].symbol) \/ tokens[j].symbol \in F!CodeAt
  BY <1>2, <1>3 DEF TokensBefore
<1>6. ASSUME NEW p \in F!CodeAt, ~F!Astray(p), ~F!Swallowed(p)
      PROVE  \E i \in 1..Len(tokens) :
               {j \in 1..Len(tokens) : tokens[j].symbol = p}
               = IF text[p] = "++" THEN {i, i + 1} ELSE {i}
  <2> DEFINE P == {j \in 1..Len(tokens) : tokens[j].symbol = p}
  <2>1. PICK h \in 1..Len(records) : PlacesOf(records, p) = IF text[p] = "++" THEN {h, h + 1} ELSE {h}
    BY <1>3, <1>6 DEF TokensBefore
  <2>2. \A j \in 1..Len(tokens) : j \in P <=> w[j] \in PlacesOf(records, p)
    BY <1>2 DEF PlacesOf
  <2>3. \A g \in PlacesOf(records, p) : \E i \in 1..Len(tokens) : w[i] = g /\ i \in P
    <3>1. \A g \in PlacesOf(records, p) : \E i \in 1..Len(tokens) : w[i] = g
      BY <1>2 DEF PlacesOf
    <3>2. QED
      BY <2>2, <3>1
  <2>4. h \in PlacesOf(records, p)
    BY <2>1
  <2>5. PICK i \in 1..Len(tokens) : w[i] = h /\ i \in P
    BY <2>3, <2>4
  <2>6. \A j \in 1..Len(tokens) : w[j] = h => j = i
    <3>1. SUFFICES ASSUME NEW j \in 1..Len(tokens), w[j] = h, j # i PROVE FALSE
      OBVIOUS
    <3>2. i < j => w[i] < w[j]
      BY <1>2
    <3>3. j < i => w[j] < w[i]
      BY <1>2
    <3>4. QED
      BY <1>3, <2>5, <3>1, <3>2, <3>3
  <2>7. P \subseteq 1..Len(tokens)
    OBVIOUS
  <2> HIDE DEF P
  <2>8. CASE text[p] # "++"
    <3>1. \A j \in P : j = i
      BY <2>1, <2>2, <2>6, <2>7, <2>8
    <3>2. P = {i}
      BY <2>5, <3>1
    <3>3. QED
      BY <2>8, <3>2 DEF P
  <2>9. CASE text[p] = "++"
    <3>1. PlacesOf(records, p) = {h, h + 1}
      BY <2>1, <2>9
    <3>2. PICK k \in 1..Len(tokens) : w[k] = h + 1 /\ k \in P
      BY <2>3, <3>1
    <3>3. \A j \in 1..Len(tokens) : w[j] = h + 1 => j = k
      <4>1. SUFFICES ASSUME NEW j \in 1..Len(tokens), w[j] = h + 1, j # k PROVE FALSE
        OBVIOUS
      <4>2. k < j => w[k] < w[j]
        BY <1>2
      <4>3. j < k => w[j] < w[k]
        BY <1>2
      <4>4. QED
        BY <1>3, <3>2, <4>1, <4>2, <4>3
    <3>4. k = i + 1
      <4>1. i < k
        <5>1. i # k
          BY <2>5, <3>2
        <5>2. ~(k < i)
          <6>1. k < i => w[k] < w[i]
            BY <1>2
          <6>2. QED
            BY <2>5, <3>2, <6>1
        <5>3. QED
          BY <5>1, <5>2
      <4>2. ~(i + 1 < k)
        <5>1. SUFFICES ASSUME i + 1 < k PROVE FALSE
          OBVIOUS
        <5>2. i + 1 \in 1..Len(tokens) /\ i < i + 1
          BY <1>3, <5>1
        <5>3. w[i] < w[i + 1] /\ w[i + 1] < w[k] /\ w[i + 1] \in 1..Len(records)
          BY <1>2, <5>1, <5>2
        <5>4. QED
          BY <2>5, <3>2, <5>3
      <4>3. QED
        BY <1>3, <4>1, <4>2
    <3>5. \A j \in P : j = i \/ j = i + 1
      BY <2>2, <2>6, <2>7, <3>1, <3>3, <3>4
    <3>6. P = {i, i + 1}
      BY <2>5, <3>2, <3>4, <3>5
    <3>7. QED
      BY <2>9, <3>6 DEF P
  <2>10. QED
    BY <2>8, <2>9
<1>7. ASSUME NEW p \in F!CodeAt, ~F!Astray(p), F!Swallowed(p)
      PROVE  {j \in 1..Len(tokens) : tokens[j].symbol = p} = {}
  <2>1. PlacesOf(records, p) = {}
    BY <1>3, <1>7 DEF TokensBefore
  <2>2. \A j \in 1..Len(tokens) : w[j] \notin PlacesOf(records, p)
    BY <2>1
  <2>3. QED
    BY <1>2, <2>2 DEF PlacesOf
<1>8. QED
  BY <1>4, <1>5, <1>6, <1>7

LEMMA FileInvLines ==
  ASSUME FileInv
  PROVE  F!LinesAreTheSources
<1>1. SUFFICES ASSUME text_phase = "done", NEW j \in 1..Len(tokens)
      PROVE  LineIs(tokens[j].symbol, tokens[j].line_num)
  BY DEF F!LinesAreTheSources, LineIs
<1>2. PICK w \in [1..Len(tokens) -> 1..Len(records)] :
              \A i \in 1..Len(tokens) :
                   /\ IsToken(records, w[i]) /\ tokens[i].symbol = records[w[i]].value
                   /\ LastLine(records, w[i], tokens[i].line_num)
  BY <1>1, AllRead
<1>3. LinesBefore(records) /\ tokens[j].line_num \in Nat
  <2>1. tokens \in Seq([symbol : Nat, line_num : Nat]) /\ LinesBefore(records)
    BY <1>1, AllRead
  <2>2. tokens[j] \in [symbol : Nat, line_num : Nat]
    BY <2>1, ElementOfSeq
  <2>3. QED
    BY <2>1, <2>2
<1>4. w[j] \in 1..Len(records) /\ IsToken(records, w[j]) /\ tokens[j].symbol = records[w[j]].value
      /\ LastLine(records, w[j], tokens[j].line_num)
  BY <1>2
<1>5. QED
  BY <1>3, <1>4 DEF LinesBefore

(***************************************************************************)
(* The two together.                                                       *)
(***************************************************************************)

LEMMA FrontEndStep ==
  ASSUME [FrontEndNext]_all_vars
  PROVE  /\ [Next]_vars
         /\ F!Next \/ UNCHANGED F!vars
<1>1. CASE LexAndRead
  <2>1. \A p : KindOf(p) \in Token
    BY DEF KindOf, Token
  <2>2. QED
    BY <1>1, <2>1 DEF LexAndRead, Next
<1>2. CASE ParseTokens
  <2>1. Next
    BY <1>2 DEF ParseTokens, Next
  <2>2. UNCHANGED F!vars
    BY <1>2 DEF ParseTokens, text_vars, F!vars, F!source, F!lexer, F!reader
  <2>3. QED
    BY <2>1, <2>2
<1>3. CASE UNCHANGED all_vars
  <2>1. UNCHANGED vars
    BY <1>3 DEF all_vars
  <2>2. UNCHANGED F!vars
    BY <1>3 DEF all_vars, text_vars, F!vars, F!source, F!lexer, F!reader
  <2>3. QED
    BY <2>1, <2>2
<1>4. QED
  BY <1>1, <1>2, <1>3 DEF FrontEndNext

LEMMA FileInvHolds == FrontEndSafeSpec => []FileInv
<1>1. FrontEndInit => FileInv
  BY FileStart DEF FrontEndInit
<1>2. FileInv /\ [FrontEndNext]_all_vars => FileInv'
  BY FrontEndStep, FileStep
<1>3. QED
  BY <1>1, <1>2, PTL DEF FrontEndSafeSpec

(* The reader and the parser use the list as TokenList says it is used:    *)
(* every record that becomes a token is one list_add, nothing else that is *)
(* read touches the list, and the parser has it only when reading is over. *)
LEMMA ListIsUsedAsSpecified == FrontEndSafeSpec => Spec
<1>1. FrontEndInit => Init
  BY DEF FrontEndInit
<1>2. [FrontEndNext]_all_vars => [Next]_vars
  BY FrontEndStep
<1>3. QED
  BY <1>1, <1>2, PTL DEF FrontEndSafeSpec, Spec

(* Hence, while a file is lexed, read and parsed: each of its tokens goes  *)
(* into one node at most, in order and without a gap, and the reader stays *)
(* in its array.                                                           *)
THEOREM TokensOfTheFrontEnd == FrontEndSafeSpec => [](EachTokenOnce /\ WritesInside)
BY ListIsUsedAsSpecified, TokensGoIntoOneNode, ArrayIsLargeEnough, PTL

(* The rules of the lexer and the loop of the reader give the parser the   *)
(* tokens of the code, in order, all of them and no other, for a source of *)
(* any length, whatever its comments hold, but for what stands between two *)
(* string constants of a line, which gives none, and behind one whose line *)
(* has quotes in a comment, where only the order is promised.              *)
THEOREM TokensOfTheCode == FrontEndSafeSpec => []TokensAreTheCode
<1>1. FileInv => TokensAreTheCode
  BY FileInvTokens DEF TokensAreTheCode
<1>2. QED
  BY <1>1, FileInvHolds, PTL

(* Each of them carries the line it stands in, up to the first comment     *)
(* between brackets that spans lines or the first string constant whose    *)
(* line has quotes in a comment.                                           *)
THEOREM LinesOfTheSource == FrontEndSafeSpec => []LinesAreTheSources
<1>1. FileInv => LinesAreTheSources
  BY FileInvLines DEF LinesAreTheSources
<1>2. QED
  BY <1>1, FileInvHolds, PTL

=============================================================================
