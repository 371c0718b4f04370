--------------------------- MODULE TryCatch_proofs --------------------------
(* What the two passes of TryCatch guarantee of every subroutine body.  An  *)
(* inductive invariant for types and counters, then one that ties the stack *)
(* to the brackets of the body, and on it the two passes' promises.         *)
EXTENDS TryCatch, SequenceTheorems, FiniteSetTheorems, TLAPS

-----------------------------------------------------------------------------
(* The stack of open blocks.                                               *)

(* Entering a block adds its frame, and a try-block to the open ones.      *)
LEMMA PushFrame ==
  ASSUME NEW s \in Seq(Frame), NEW f \in Frame
  PROVE  /\ Append(s, f) \in Seq(Frame)
         /\ TriesIn(Append(s, f)) =
              IF f.kind = "try" THEN TriesIn(s) \cup {Len(s) + 1} ELSE TriesIn(s)
<1> DEFINE t == Append(s, f)
<1>1. /\ t \in Seq(Frame) /\ Len(t) = Len(s) + 1 /\ Len(s) \in Nat
      /\ \A i \in 1..Len(s) : t[i] = s[i]
      /\ t[Len(s) + 1] = f
  BY AppendProperties, LenProperties
<1> HIDE DEF t
<1>2. 1..Len(t) = (1..Len(s)) \cup {Len(s) + 1}
  BY <1>1
<1>3. TriesIn(t) = {k \in (1..Len(s)) \cup {Len(s) + 1} : t[k].kind = "try"}
  BY <1>2 DEF TriesIn
<1>4. QED
  BY <1>1, <1>3 DEF TriesIn, t

(* Leaving a block removes its frame, and no other try-block.              *)
LEMMA PopFrame ==
  ASSUME NEW s \in Seq(Frame), s # <<>>
  PROVE  LET n == Len(s)
             t == SubSeq(s, 1, n - 1)
         IN  /\ n \in Nat \ {0} /\ s[n] \in Frame
             /\ t \in Seq(Frame) /\ Len(t) = n - 1
             /\ \A i \in 1..(n - 1) : t[i] = s[i]
             /\ TriesIn(t) = TriesIn(s) \ {n}
<1> DEFINE n == Len(s)
           t == SubSeq(s, 1, n - 1)
<1>1. n \in Nat \ {0} /\ s \in [1..n -> Frame]
  BY EmptySeq, LenProperties
<1>2. \A i \in 1..(n - 1) : s[i] \in Frame
  BY <1>1
<1>3. t \in Seq(Frame) /\ Len(t) = n - 1 /\ \A i \in 1..(n - 1) : t[i] = s[i]
  <2>1. /\ t \in Seq(Frame)
        /\ Len(t) = IF 1 <= n - 1 THEN n - 1 - 1 + 1 ELSE 0
        /\ \A i \in 1..(n - 1 - 1 + 1) : t[i] = s[1 + i - 1]
    BY <1>1, <1>2, SubSeqProperties
  <2>2. QED
    BY <1>1, <2>1
<1> HIDE DEF t
<1>4. TriesIn(t) = TriesIn(s) \ {n}
  <2>1. 1..(n - 1) = (1..n) \ {n}
    BY <1>1
  <2>2. TriesIn(t) = {k \in (1..n) \ {n} : s[k].kind = "try"}
    BY <1>3, <2>1 DEF TriesIn
  <2>3. QED
    BY <2>2 DEF TriesIn
<1>5. QED
  BY <1>1, <1>3, <1>4 DEF t

LEMMA TriesAreFinite ==
  ASSUME NEW s \in Seq(Frame)
  PROVE  /\ IsFiniteSet(TriesIn(s))
         /\ Cardinality(TriesIn(s)) \in Nat
         /\ TriesIn(s) \subseteq 1..Len(s)
         /\ Len(s) \in Nat
<1>1. Len(s) \in Nat
  BY LenProperties
<1>2. IsFiniteSet(1..Len(s))
  BY <1>1, FS_Interval
<1>3. TriesIn(s) \subseteq 1..Len(s)
  BY DEF TriesIn
<1>4. IsFiniteSet(TriesIn(s))
  BY <1>2, <1>3, FS_Subset
<1>5. QED
  BY <1>1, <1>3, <1>4, FS_CardinalityType

(* The close of a block the parser delivered lies within the body.         *)
LEMMA CloseOfInBody ==
  ASSUME NEW b \in Bodies, NEW i \in 1..Len(b), b[i] \in Opening
  PROVE  CloseOf(b, i) \in i..Len(b)
BY BodiesAssumption DEF CloseOf

-----------------------------------------------------------------------------
(* The block structure of a body.                                          *)

CountOf(b, i, E) == Cardinality({k \in 1..i : b[k] \in E})

(* How many of the first events are of a kind, one event more.             *)
LEMMA CountStep ==
  ASSUME NEW b, NEW E, NEW i \in Nat
  PROVE  /\ CountOf(b, i, E) \in Nat
         /\ CountOf(b, 0, E) = 0
         /\ CountOf(b, i + 1, E) = IF b[i + 1] \in E THEN CountOf(b, i, E) + 1
                                                     ELSE CountOf(b, i, E)
<1> DEFINE S(j) == {k \in 1..j : b[k] \in E}
<1>1. IsFiniteSet(S(i))
  <2>1. IsFiniteSet(1..i)
    BY FS_Interval
  <2>2. S(i) \subseteq 1..i
    OBVIOUS
  <2>3. QED
    BY <2>1, <2>2, FS_Subset
<1>2. Cardinality(S(i)) \in Nat
  BY <1>1, FS_CardinalityType
<1>3. S(0) = {}
  OBVIOUS
<1>4. S(i + 1) = IF b[i + 1] \in E THEN S(i) \cup {i + 1} ELSE S(i)
  OBVIOUS
<1>5. i + 1 \notin S(i)
  OBVIOUS
<1>6. Cardinality(S(i) \cup {i + 1}) = Cardinality(S(i)) + 1
  BY <1>1, <1>5, FS_AddElement
<1>7. Cardinality(S(0)) = 0
  BY <1>3, FS_EmptySet
<1> HIDE DEF S
<1>8. Cardinality(S(i + 1)) = IF b[i + 1] \in E THEN Cardinality(S(i)) + 1 ELSE Cardinality(S(i))
  BY <1>4, <1>6
<1>9. QED
  BY <1>2, <1>7, <1>8 DEF CountOf, S

(* An opening event raises the level by one, a close lowers it.            *)
LEMMA LevelStep ==
  ASSUME NEW b, NEW i \in Nat
  PROVE  /\ Level(b, i) \in Int
         /\ Level(b, 0) = 0
         /\ b[i + 1] \in Opening => Level(b, i + 1) = Level(b, i) + 1
         /\ b[i + 1] = "close" => Level(b, i + 1) = Level(b, i) - 1
         /\ b[i + 1] \in Leaf => Level(b, i + 1) = Level(b, i)
<1>1. \A j : Level(b, j) = CountOf(b, j, Opening) - CountOf(b, j, {"close"})
  BY DEF Level, Opened, Closed, CountOf
<1>2. "close" \notin Opening /\ Leaf \cap Opening = {} /\ "close" \notin Leaf
  BY DEF Opening, Leaf
<1>3. /\ CountOf(b, i, Opening) \in Nat /\ CountOf(b, i, {"close"}) \in Nat
      /\ CountOf(b, 0, Opening) = 0 /\ CountOf(b, 0, {"close"}) = 0
      /\ CountOf(b, i + 1, Opening) = IF b[i + 1] \in Opening
           THEN CountOf(b, i, Opening) + 1 ELSE CountOf(b, i, Opening)
      /\ CountOf(b, i + 1, {"close"}) = IF b[i + 1] \in {"close"}
           THEN CountOf(b, i, {"close"}) + 1 ELSE CountOf(b, i, {"close"})
  BY CountStep
<1>4. QED
  BY <1>1, <1>2, <1>3

LEMMA TryNumberStep ==
  ASSUME NEW b, NEW i \in Nat
  PROVE  /\ TryNumber(b, i) \in Nat
         /\ TryNumber(b, 0) = 0
         /\ TryNumber(b, i + 1) = IF b[i + 1] = "try" THEN TryNumber(b, i) + 1
                                                      ELSE TryNumber(b, i)
<1>1. \A j : TryNumber(b, j) = CountOf(b, j, {"try"})
  BY DEF TryNumber, CountOf
<1>2. QED
  BY <1>1, CountStep

(* A block of a body: where it closes, and the levels from its opening to  *)
(* its close.                                                              *)
LEMMA CloseIs ==
  ASSUME NEW b \in Bodies, NEW i \in 1..Len(b), b[i] \in Opening
  PROVE  LET c == CloseOf(b, i)
         IN  /\ c \in (i + 1)..Len(b)
             /\ b[c] = "close"
             /\ Level(b, i) = Level(b, i - 1) + 1
             /\ Level(b, c) = Level(b, i - 1)
             /\ \A k \in i..(c - 1) : Level(b, k) >= Level(b, i)
<1> DEFINE c == CloseOf(b, i)
<1>1. Len(b) \in Nat /\ b \in Seq(Event)
  BY BodiesAssumption, LenProperties
<1>2. c \in i..Len(b) /\ IsCloseOf(b, i, c)
  BY BodiesAssumption DEF CloseOf
<1>3. \A k \in Nat : Level(b, k) \in Int
  BY LevelStep
<1> HIDE DEF c
<1>4. c # i
  BY <1>1, <1>2, <1>3 DEF IsCloseOf
<1>5. c \in (i + 1)..Len(b)
  BY <1>1, <1>2, <1>4
<1>6. c - 1 \in Nat /\ c - 1 \in i..(c - 1) /\ (c - 1) + 1 = c /\ i - 1 \in Nat /\ (i - 1) + 1 = i
  BY <1>1, <1>5
<1>7. Level(b, c - 1) >= Level(b, i) /\ Level(b, c) < Level(b, i)
  BY <1>2, <1>6 DEF IsCloseOf
<1>8. b[c] \in Event
  BY <1>1, <1>5, ElementOfSeq
<1>9. b[c] = "close" /\ Level(b, c) = Level(b, c - 1) - 1
  <2>1. /\ b[c] \in Opening => Level(b, c) = Level(b, c - 1) + 1
        /\ b[c] = "close" => Level(b, c) = Level(b, c - 1) - 1
        /\ b[c] \in Leaf => Level(b, c) = Level(b, c - 1)
    BY <1>6, LevelStep
  <2>2. Level(b, c) \in Int /\ Level(b, c - 1) \in Int /\ Level(b, i) \in Int
    BY <1>1, <1>3, <1>5, <1>6
  <2>3. b[c] \in Opening \/ b[c] = "close" \/ b[c] \in Leaf
    BY <1>8 DEF Event
  <2>4. QED
    BY <1>7, <2>1, <2>2, <2>3
<1>10. Level(b, i) = Level(b, i - 1) + 1
  BY <1>6, LevelStep
<1>11. Level(b, c) = Level(b, i - 1)
  <2>1. Level(b, i - 1) \in Int /\ Level(b, i) \in Int /\ Level(b, c - 1) \in Int
    BY <1>1, <1>3, <1>6
  <2>2. QED
    BY <1>7, <1>9, <1>10, <2>1
<1>12. QED
  BY <1>2, <1>5, <1>9, <1>10, <1>11 DEF IsCloseOf, c

(* Blocks nest: one that opens inside of another closes inside of it, and  *)
(* is on a higher level.                                                   *)
LEMMA Nesting ==
  ASSUME NEW b \in Bodies, NEW i \in 1..Len(b), NEW p \in (i + 1)..Len(b),
         b[i] \in Opening, b[p] \in Opening, CloseOf(b, i) >= p
  PROVE  /\ CloseOf(b, p) < CloseOf(b, i)
         /\ Level(b, i) < Level(b, p)
<1> DEFINE c == CloseOf(b, i)
           d == CloseOf(b, p)
<1>1. Len(b) \in Nat /\ p \in 1..Len(b) /\ \A k \in Nat : Level(b, k) \in Int
  BY BodiesAssumption, LenProperties, LevelStep
<1>2. /\ c \in (i + 1)..Len(b) /\ b[c] = "close"
      /\ Level(b, i) = Level(b, i - 1) + 1
      /\ Level(b, c) = Level(b, i - 1)
      /\ \A k \in i..(c - 1) : Level(b, k) >= Level(b, i)
  BY CloseIs
<1>3. /\ d \in (p + 1)..Len(b)
      /\ Level(b, p) = Level(b, p - 1) + 1
      /\ \A k \in p..(d - 1) : Level(b, k) >= Level(b, p)
      /\ b[d] = "close" /\ Level(b, d) = Level(b, p - 1)
  BY <1>1, CloseIs
<1>4. p # c
  BY <1>2 DEF Opening
<1>5. p - 1 \in i..(c - 1)
  <2>1. c >= p
    OBVIOUS
  <2> HIDE DEF c
  <2>2. QED
    BY <1>1, <1>2, <1>4, <2>1
<1> HIDE DEF c, d
<1>6. Level(b, p - 1) >= Level(b, i)
  BY <1>2, <1>5
<1>7. Level(b, i) \in Int /\ Level(b, p) \in Int /\ Level(b, p - 1) \in Int
      /\ Level(b, c) \in Int /\ Level(b, i - 1) \in Int
  BY <1>1, <1>2, <1>5
<1>8. Level(b, i) < Level(b, p)
  BY <1>3, <1>6, <1>7
<1>9. c \notin p..(d - 1)
  <2>1. Level(b, c) < Level(b, p)
    BY <1>2, <1>7, <1>8
  <2>2. QED
    BY <1>3, <1>7, <2>1
<1>10. c # d
  BY <1>2, <1>3, <1>6, <1>7
<1>11. d < c
  <2>1. c >= p
    BY DEF c
  <2>2. QED
    BY <1>1, <1>2, <1>3, <1>9, <1>10, <2>1
<1>12. QED
  BY <1>8, <1>11 DEF c, d

(* The blocks that open before event p and do not close before it.         *)
Around(b, p) == {i \in 1..(p - 1) : b[i] \in Opening /\ CloseOf(b, i) >= p}

LEMMA AroundPoint ==
  ASSUME NEW b \in Bodies, NEW p \in 1..(Len(b) + 1)
  PROVE  /\ Around(b, p) \subseteq 1..Len(b)
         /\ \A i \in Around(b, p) :
              /\ i < p /\ b[i] \in Opening
              /\ CloseOf(b, i) \in p..Len(b) /\ b[CloseOf(b, i)] = "close"
              /\ Level(b, i) = Level(b, i - 1) + 1
              /\ Level(b, i) <= Level(b, p - 1)
         /\ \A i, j \in Around(b, p) : i < j => Level(b, i) < Level(b, j)
         /\ p = Len(b) + 1 => Around(b, p) = {}
<1>1. Len(b) \in Nat /\ p \in Nat
  BY BodiesAssumption, LenProperties
<1>2. ASSUME NEW i \in Around(b, p)
      PROVE  /\ i \in 1..Len(b) /\ i < p /\ b[i] \in Opening /\ CloseOf(b, i) >= p
  BY <1>1, <1>2 DEF Around
<1>3. ASSUME NEW i \in Around(b, p)
      PROVE  /\ CloseOf(b, i) \in p..Len(b) /\ b[CloseOf(b, i)] = "close"
             /\ Level(b, i) = Level(b, i - 1) + 1
             /\ Level(b, i) <= Level(b, p - 1)
  <2> DEFINE c == CloseOf(b, i)
  <2>1. /\ c \in (i + 1)..Len(b) /\ b[c] = "close"
        /\ Level(b, i) = Level(b, i - 1) + 1
        /\ \A k \in i..(c - 1) : Level(b, k) >= Level(b, i)
    BY <1>2, CloseIs
  <2>2. i < p /\ c >= p /\ i \in 1..Len(b)
    BY <1>2
  <2>3. p - 1 \in Nat /\ Level(b, p - 1) \in Int
    BY <1>1, LevelStep
  <2>4. i \in Nat /\ Level(b, i) \in Int
    BY <1>1, <2>2, LevelStep
  <2> HIDE DEF c
  <2>5. p - 1 \in i..(c - 1) /\ c \in p..Len(b)
    BY <1>1, <2>1, <2>2
  <2>6. Level(b, i) <= Level(b, p - 1)
    BY <2>1, <2>3, <2>4, <2>5
  <2>7. QED
    BY <2>1, <2>5, <2>6 DEF c
<1>4. ASSUME NEW i \in Around(b, p), NEW j \in Around(b, p), i < j
      PROVE  Level(b, i) < Level(b, j)
  <2>1. i \in 1..Len(b) /\ j \in (i + 1)..Len(b) /\ j < p
    BY <1>1, <1>2, <1>4
  <2>2. CloseOf(b, i) >= j
    <3>1. CloseOf(b, i) \in p..Len(b)
      BY <1>3
    <3>2. QED
      BY <1>1, <2>1, <3>1
  <2>3. QED
    BY <1>2, <2>1, <2>2, Nesting
<1>5. ASSUME p = Len(b) + 1 PROVE Around(b, p) = {}
  <2>1. SUFFICES ASSUME NEW i \in Around(b, p) PROVE FALSE
    OBVIOUS
  <2>2. CloseOf(b, i) \in p..Len(b)
    BY <1>3
  <2>3. QED
    BY <1>1, <1>5, <2>2
<1>6. QED
  BY <1>2, <1>3, <1>4, <1>5

(* No two of them are on one level.                                        *)
LEMMA OneOnALevel ==
  ASSUME NEW b \in Bodies, NEW p \in 1..(Len(b) + 1),
         NEW i \in Around(b, p), NEW j \in Around(b, p), Level(b, i) = Level(b, j)
  PROVE  i = j
<1>1. i \in 1..Len(b) /\ j \in 1..Len(b) /\ Len(b) \in Nat
  BY AroundPoint, BodiesAssumption, LenProperties
<1>2. ~(i < j) /\ ~(j < i)
  <2>1. i \in Nat /\ j \in Nat
    BY <1>1
  <2>2. Level(b, i) \in Int /\ Level(b, j) \in Int
    BY <2>1, LevelStep
  <2>3. /\ i < j => Level(b, i) < Level(b, j)
        /\ j < i => Level(b, j) < Level(b, i)
    BY AroundPoint
  <2>4. QED
    BY <2>2, <2>3
<1>3. QED
  BY <1>1, <1>2

(* What is around the next event.                                          *)
LEMMA AroundNext ==
  ASSUME NEW b \in Bodies, NEW p \in 1..Len(b)
  PROVE  /\ b[p] \in Leaf => Around(b, p + 1) = Around(b, p)
         /\ b[p] \in Opening => /\ Around(b, p + 1) = Around(b, p) \cup {p}
                                /\ Around(b, CloseOf(b, p) + 1) = Around(b, p)
         /\ b[p] = "close" => Around(b, p + 1) = {i \in Around(b, p) : CloseOf(b, i) # p}
<1>1. Len(b) \in Nat /\ p \in Nat /\ p \in 1..(Len(b) + 1) /\ p + 1 \in 1..(Len(b) + 1)
  BY BodiesAssumption, LenProperties
<1>2. /\ \A i \in Around(b, p) : i \in 1..Len(b) /\ i < p /\ b[i] \in Opening
      /\ \A i \in Around(b, p) : CloseOf(b, i) \in p..Len(b) /\ b[CloseOf(b, i)] = "close"
      /\ \A i \in Around(b, p + 1) : i \in 1..Len(b) /\ i < p + 1 /\ b[i] \in Opening
      /\ \A i \in Around(b, p + 1) : CloseOf(b, i) \in (p + 1)..Len(b)
  <2>1. \A i \in Around(b, p) : i \in 1..Len(b) /\ i < p /\ b[i] \in Opening
    BY <1>1, AroundPoint
  <2>2. \A i \in Around(b, p) : CloseOf(b, i) \in p..Len(b) /\ b[CloseOf(b, i)] = "close"
    BY <1>1, AroundPoint
  <2>3. \A i \in Around(b, p + 1) : i \in 1..Len(b) /\ i < p + 1 /\ b[i] \in Opening
    BY <1>1, AroundPoint
  <2>4. \A i \in Around(b, p + 1) : CloseOf(b, i) \in (p + 1)..Len(b)
    BY <1>1, AroundPoint
  <2>5. QED
    BY <2>1, <2>2, <2>3, <2>4
<1>3. ASSUME NEW i \in 1..(p - 1), b[i] \in Opening
      PROVE  CloseOf(b, i) \in Nat
  BY <1>1, <1>3, CloseIs
<1>4. \A i \in Around(b, p + 1) : i # p => i \in Around(b, p)
  BY <1>1, <1>2 DEF Around
<1>5. \A i \in Around(b, p) : CloseOf(b, i) # p => i \in Around(b, p + 1)
  BY <1>1, <1>2 DEF Around
<1>6. CASE b[p] \in Leaf
  BY <1>2, <1>4, <1>5, <1>6 DEF Leaf, Opening
<1>7. CASE b[p] \in Opening
  <2> DEFINE c == CloseOf(b, p)
  <2>1. c \in (p + 1)..Len(b) /\ c \in Nat
    BY <1>1, <1>7, CloseIs
  <2>2. p \in Around(b, p + 1)
    BY <1>1, <1>7, <2>1 DEF Around
  <2>3. \A i \in Around(b, p) : CloseOf(b, i) # p
    BY <1>2, <1>7 DEF Opening
  <2>4. Around(b, p + 1) = Around(b, p) \cup {p}
    BY <1>4, <1>5, <2>2, <2>3
  <2>5. c + 1 \in 1..(Len(b) + 1)
    BY <1>1, <2>1
  <2>6. ASSUME NEW i \in Around(b, p) PROVE i \in Around(b, c + 1)
    <3>1. i \in 1..Len(b) /\ p \in (i + 1)..Len(b) /\ b[i] \in Opening /\ CloseOf(b, i) >= p
      BY <1>1, <1>2, <2>6
    <3>2. c < CloseOf(b, i) /\ CloseOf(b, i) \in Nat
      BY <1>2, <1>7, <3>1, Nesting
    <3> HIDE DEF c
    <3>3. i \in 1..c /\ CloseOf(b, i) >= c + 1
      BY <1>1, <2>1, <3>1, <3>2
    <3>4. QED
      BY <2>1, <3>1, <3>3 DEF Around
  <2>7. ASSUME NEW i \in Around(b, c + 1) PROVE i \in Around(b, p)
    <3>1. i \in 1..Len(b) /\ i < c + 1 /\ b[i] \in Opening /\ CloseOf(b, i) \in (c + 1)..Len(b)
      BY <2>5, AroundPoint
    <3>2. i # p
      BY <1>1, <2>1, <3>1
    <3>3. ~(i > p)
      <4>1. SUFFICES ASSUME i > p PROVE FALSE
        OBVIOUS
      <4>2. i \in (p + 1)..Len(b) /\ c >= i
        BY <1>1, <2>1, <3>1, <4>1
      <4>3. CloseOf(b, i) < c
        BY <1>7, <3>1, <4>2, Nesting
      <4>4. QED
        BY <1>1, <2>1, <3>1, <4>3
    <3> HIDE DEF c
    <3>4. i \in 1..(p - 1) /\ CloseOf(b, i) >= p
      BY <1>1, <2>1, <3>1, <3>2, <3>3
    <3>5. QED
      BY <3>1, <3>4 DEF Around
  <2>8. Around(b, c + 1) = Around(b, p)
    BY <2>6, <2>7
  <2>9. QED
    BY <1>7, <2>4, <2>8 DEF Leaf, Opening
<1>8. CASE b[p] = "close"
  <2>1. \A i \in Around(b, p + 1) : i \in Around(b, p) /\ CloseOf(b, i) # p
    BY <1>1, <1>2, <1>4, <1>8 DEF Opening
  <2>2. QED
    BY <1>5, <1>8, <2>1 DEF Leaf, Opening
<1>9. b[p] \in Event
  BY <1>1, BodiesAssumption, ElementOfSeq
<1>10. QED
  BY <1>6, <1>7, <1>8, <1>9 DEF Event

-----------------------------------------------------------------------------
(* The inductive invariant.                                                *)

IInv ==
  /\ TypeOK
  /\ body \in Bodies
  /\ DepthCountsOpenTries
  /\ phase = "typecheck" => ~in_try_block
  /\ LocalTargetIsInnermost

LEMMA InitIInv == Init => IInv
<1> SUFFICES ASSUME Init PROVE IInv
  OBVIOUS
<1>1. open \in Seq(Frame) /\ TriesIn(open) = {}
  BY EmptySeq DEF Init, TriesIn
<1>2. body \in Bodies /\ body \in Seq(Event)
  BY BodiesAssumption DEF Init
<1>3. TypeOK
  <2>1. DOMAIN emitted = {}
    BY DEF Init
  <2>2. DOMAIN emitted \subseteq Nat /\ \A i \in DOMAIN emitted : emitted[i] \in Nat
    BY <2>1
  <2>3. /\ pc \in Nat \ {0}
        /\ depth_inside_try_stmt \in Nat /\ tc_err_count \in Nat /\ index_try_stmt \in Nat
    BY DEF Init
  <2>4. QED
    BY <1>1, <1>2, <2>2, <2>3, Zenon DEF Init, TypeOK
<1>4. DepthCountsOpenTries
  BY <1>1, FS_EmptySet DEF Init, DepthCountsOpenTries, OpenTries
<1>5. QED
  BY <1>2, <1>3, <1>4 DEF Init, IInv, LocalTargetIsInnermost

(* Every step but a push or a pop leaves the open blocks alone.            *)
LEMMA OpenUnchanged ==
  ASSUME IInv, open' = open, UNCHANGED <<body, tcctx, ctx>>,
         phase' = phase, TypeOK'
  PROVE  IInv'
BY DEF IInv, DepthCountsOpenTries, LocalTargetIsInnermost, OpenTries, tcctx, ctx

LEMMA NextIInv == IInv /\ [Next]_vars => IInv'
<1> SUFFICES ASSUME IInv, [Next]_vars PROVE IInv'
  OBVIOUS
<1> USE DEF IInv
<1>1. CASE TcRaise
  <2>1. TypeOK'
    BY <1>1 DEF TypeOK, TcRaise, Step, ctx
  <2>2. QED
    BY <1>1, <2>1 DEF TcRaise, Step, ctx, DepthCountsOpenTries,
                      LocalTargetIsInnermost, OpenTries, At
<1>2. CASE TcHidden
  <2>1. TypeOK'
    BY <1>2 DEF TypeOK, TcHidden, Step, tcctx, ctx
  <2>2. QED
    BY <1>2, <2>1, OpenUnchanged DEF TcHidden, Step
<1>3. CASE TcSkipBlock
  <2>1. pc \in 1..Len(body) /\ body[pc] \in Opening
    <3>1. Len(body) \in Nat
      BY LenProperties DEF TypeOK
    <3>2. QED
      BY <1>3, <3>1 DEF TcSkipBlock, At, TypeOK, Opening
  <2>2. CloseOf(body, pc) \in pc..Len(body)
    BY <2>1, CloseOfInBody
  <2>3. pc' \in Nat \ {0}
    BY <1>3, <2>1, <2>2 DEF TcSkipBlock
  <2>4. TypeOK'
    BY <1>3, <2>3 DEF TypeOK, TcSkipBlock, tcctx, ctx
  <2>5. QED
    BY <1>3, <2>4, OpenUnchanged DEF TcSkipBlock
<1>4. CASE TcEnterBlock
  <2> DEFINE f == [kind |-> body[pc], index |-> 0]
  <2>1. f \in Frame /\ f.kind # "try" /\ open' = Append(open, f)
    BY <1>4 DEF TcEnterBlock, At, Push, Frame, Opening
  <2>2. open' \in Seq(Frame) /\ TriesIn(open') = TriesIn(open)
    BY <2>1, PushFrame DEF TypeOK
  <2>3. TypeOK'
    BY <1>4, <2>2 DEF TypeOK, TcEnterBlock, Step, tcctx, ctx
  <2>4. QED
    BY <1>4, <2>2, <2>3 DEF TcEnterBlock, At, Step, tcctx, ctx, OpenTries,
                            DepthCountsOpenTries, LocalTargetIsInnermost
<1>5. CASE TcEnterTry
  <2> DEFINE f == [kind |-> "try", index |-> 0]
  <2>1. f \in Frame /\ f.kind = "try" /\ open' = Append(open, f)
    BY <1>5 DEF TcEnterTry, Push, Frame, Opening
  <2>2. /\ open' \in Seq(Frame)
        /\ TriesIn(open') = TriesIn(open) \cup {Len(open) + 1}
    BY <2>1, PushFrame DEF TypeOK
  <2>3. Cardinality(TriesIn(open')) = Cardinality(TriesIn(open)) + 1
    <3>1. Len(open) + 1 \notin TriesIn(open) /\ IsFiniteSet(TriesIn(open))
      BY TriesAreFinite DEF TypeOK
    <3>2. QED
      BY <2>2, <3>1, FS_AddElement
  <2>4. TypeOK'
    BY <1>5, <2>2 DEF TypeOK, TcEnterTry, Step, ctx
  <2>5. QED
    BY <1>5, <2>3, <2>4 DEF TcEnterTry, At, Step, ctx, OpenTries,
                            DepthCountsOpenTries, LocalTargetIsInnermost
<1>6. CASE TcLeave
  <2>1. /\ Len(open) \in Nat \ {0} /\ Top \in Frame
        /\ open' \in Seq(Frame)
        /\ TriesIn(open') = TriesIn(open) \ {Len(open)}
    BY <1>6, PopFrame DEF TcLeave, Pop, Top, TypeOK
  <2>2. IsFiniteSet(TriesIn(open)) /\ Cardinality(TriesIn(open)) \in Nat
    BY TriesAreFinite DEF TypeOK
  <2>3. Len(open) \in TriesIn(open) <=> Top.kind = "try"
    BY <2>1 DEF TriesIn, Top
  <2>4. Cardinality(TriesIn(open')) =
          IF Top.kind = "try" THEN Cardinality(TriesIn(open)) - 1
                              ELSE Cardinality(TriesIn(open))
    BY <2>1, <2>2, <2>3, FS_RemoveElement
  <2>5. phase = "typecheck" /\ phase' = "typecheck"
    BY <1>6 DEF TcLeave, At, Step
  <2>6. depth_inside_try_stmt' = Cardinality(TriesIn(open'))
    BY <1>6, <2>4, <2>5 DEF TcLeave, DepthCountsOpenTries, OpenTries
  <2>7. Cardinality(TriesIn(open')) \in Nat
    BY <2>1, TriesAreFinite
  <2>8. TypeOK'
    BY <1>6, <2>1, <2>6, <2>7 DEF TypeOK, TcLeave, Step, ctx
  <2>9. QED
    BY <1>6, <2>5, <2>6, <2>8 DEF TcLeave, Step, ctx, OpenTries,
                                  DepthCountsOpenTries, LocalTargetIsInnermost
<1>7. CASE TcReturn
  <2>1. TypeOK'
    BY <1>7 DEF TypeOK, TcReturn, tcctx
  <2>2. QED
    BY <1>7, <2>1 DEF TcReturn, DepthCountsOpenTries, LocalTargetIsInnermost
<1>8. CASE CgRaise
  <2>1. TypeOK'
    BY <1>8 DEF TypeOK, CgRaise, Step, Target, Parameter, tcctx, ctx
  <2>2. QED
    BY <1>8, <2>1, OpenUnchanged DEF CgRaise, Step
<1>9. CASE CgEnterBlock
  <2> DEFINE f == [kind |-> body[pc], index |-> 0]
  <2>1. f \in Frame /\ f.kind # "try" /\ open' = Append(open, f)
    BY <1>9 DEF CgEnterBlock, At, Push, Frame, Opening
  <2>2. open' \in Seq(Frame) /\ TriesIn(open') = TriesIn(open)
    BY <2>1, PushFrame DEF TypeOK
  <2>3. \A k \in TriesIn(open) : open'[k] = open[k]
    BY <2>1, AppendProperties, TriesAreFinite DEF TypeOK
  <2>4. TypeOK'
    BY <1>9, <2>2 DEF TypeOK, CgEnterBlock, Step, tcctx, ctx
  <2>5. QED
    BY <1>9, <2>2, <2>3, <2>4 DEF CgEnterBlock, At, Step, tcctx, ctx, OpenTries,
                                  DepthCountsOpenTries, LocalTargetIsInnermost
<1>10. CASE CgEnterTry
  <2> DEFINE f == [kind |-> "try", index |-> index_try_stmt + 1]
  <2>1. f \in Frame /\ f.kind = "try" /\ open' = Append(open, f)
    BY <1>10 DEF CgEnterTry, Push, Frame, Opening, TypeOK
  <2>2. /\ open' \in Seq(Frame)
        /\ TriesIn(open') = TriesIn(open) \cup {Len(open) + 1}
        /\ open'[Len(open) + 1] = f
    BY <2>1, PushFrame, AppendProperties DEF TypeOK
  <2>3. TypeOK'
    BY <1>10, <2>2 DEF TypeOK, CgEnterTry, Step, tcctx
  <2>4. TriesIn(open) \subseteq 1..Len(open) /\ Len(open) \in Nat
    BY TriesAreFinite DEF TypeOK
  <2>5. \A j \in TriesIn(open') : j <= Len(open) + 1
    BY <2>2, <2>4
  <2>6. LocalTargetIsInnermost'
    BY <1>10, <2>1, <2>2, <2>5 DEF LocalTargetIsInnermost, OpenTries, CgEnterTry
  <2>7. QED
    BY <1>10, <2>3, <2>6 DEF CgEnterTry, At, Step, DepthCountsOpenTries
<1>11. CASE CgLeave
  <2>1. /\ Len(open) \in Nat \ {0} /\ Top \in Frame
        /\ open' \in Seq(Frame)
        /\ \A i \in 1..(Len(open) - 1) : open'[i] = open[i]
        /\ TriesIn(open') = TriesIn(open) \ {Len(open)}
    BY <1>11, PopFrame DEF CgLeave, Pop, Top, TypeOK
  <2>2. Len(open) \in TriesIn(open) <=> Top.kind = "try"
    BY <2>1 DEF TriesIn, Top
  <2>3. TypeOK'
    BY <1>11, <2>1 DEF TypeOK, CgLeave, Step, tcctx
  <2>4. ASSUME in_try_block' PROVE LocalTargetIsInnermost'
    <3>1. in_try_block /\ Top.kind # "try" /\ phase = "codegen"
      BY <1>11, <2>4 DEF CgLeave, At, TypeOK
    <3>2. PICK k \in TriesIn(open) : /\ open[k].index = index_try_stmt
                                     /\ \A j \in TriesIn(open) : j <= k
      BY <3>1 DEF LocalTargetIsInnermost, OpenTries
    <3>3. TriesIn(open') = TriesIn(open)
      BY <2>1, <2>2, <3>1
    <3>4. k \in 1..(Len(open) - 1)
      BY <2>1, <2>2, <3>1, <3>2, TriesAreFinite DEF TypeOK
    <3>5. QED
      BY <1>11, <2>1, <3>2, <3>3, <3>4 DEF CgLeave, LocalTargetIsInnermost, OpenTries
  <2>5. LocalTargetIsInnermost'
    BY <2>4 DEF LocalTargetIsInnermost
  <2>6. QED
    BY <1>11, <2>3, <2>5 DEF CgLeave, At, Step, DepthCountsOpenTries
<1>12. CASE CgReturn
  <2>1. TypeOK'
    BY <1>12 DEF TypeOK, CgReturn, tcctx, ctx
  <2>2. QED
    BY <1>12, <2>1 DEF CgReturn, DepthCountsOpenTries, LocalTargetIsInnermost
<1>13. CASE UNCHANGED vars
  <2>1. TypeOK'
    BY <1>13 DEF TypeOK, vars
  <2>2. QED
    BY <1>13, <2>1, OpenUnchanged DEF vars, tcctx, ctx
<1>14. QED
  BY <1>1, <1>2, <1>3, <1>4, <1>5, <1>6, <1>7, <1>8, <1>9, <1>10, <1>11,
     <1>12, <1>13 DEF Next

LEMMA InvariantHolds == Spec => []IInv
BY InitIInv, NextIInv, PTL DEF Spec

-----------------------------------------------------------------------------
(* The blocks on the stack are those around the event a pass is at, except *)
(* those the typechecker jumps over.                                       *)

Blocks ==
  /\ pc \in 1..(Len(body) + 1)
  /\ Level(body, pc - 1) = Len(open)
  /\ \A q \in 0..(pc - 1) : Level(body, q) >= 0
  /\ \A k \in 1..Len(open) : \E i \in Around(body, pc) :
       Level(body, i) = k /\ body[i] = open[k].kind

(* What a step does to the stack.                                          *)
AtLeaf  == pc <= Len(body) /\ body[pc] \in Leaf /\ open' = open /\ pc' = pc + 1
Entered == /\ pc <= Len(body) /\ body[pc] \in Opening /\ pc' = pc + 1
           /\ \E f \in Frame : f.kind = body[pc] /\ open' = Append(open, f)
Skipped == /\ pc <= Len(body) /\ body[pc] \in Opening
           /\ pc' = CloseOf(body, pc) + 1 /\ open' = open
Left    == pc <= Len(body) /\ body[pc] = "close" /\ open # <<>> /\ Pop /\ pc' = pc + 1
Restart == pc > Len(body) /\ pc' = 1 /\ open' = open
Stayed  == pc' = pc /\ open' = open

LEMMA StackMoves ==
  ASSUME IInv, [Next]_vars
  PROVE  /\ body' = body /\ throws' = throws
         /\ AtLeaf \/ Entered \/ Skipped \/ Left \/ Restart \/ Stayed
<1>1. /\ "throw" \in Leaf /\ "call" \in Leaf /\ "hidden" \in Leaf
      /\ {"if", "loop", "catch"} \subseteq Opening /\ "else" \in Opening /\ "case" \in Opening
      /\ "try" \in Opening
  BY DEF Leaf, Opening
<1>2. index_try_stmt + 1 \in Nat /\ 0 \in Nat
  BY DEF IInv, TypeOK
<1>3. \A k \in Opening, n \in Nat :
        [kind |-> k, index |-> n] \in Frame /\ [kind |-> k, index |-> n].kind = k
  BY DEF Frame
<1>4. CASE TcRaise \/ TcHidden \/ CgRaise
  BY <1>1, <1>4 DEF TcRaise, TcHidden, CgRaise, At, Step, AtLeaf
<1>5. CASE TcSkipBlock
  BY <1>1, <1>5 DEF TcSkipBlock, At, Skipped
<1>6. CASE TcEnterBlock \/ CgEnterBlock
  BY <1>1, <1>2, <1>3, <1>6 DEF TcEnterBlock, CgEnterBlock, At, Step, Push, Entered
<1>7. CASE TcEnterTry \/ CgEnterTry
  BY <1>1, <1>2, <1>3, <1>7 DEF TcEnterTry, CgEnterTry, At, Step, Push, Entered
<1>8. CASE TcLeave \/ CgLeave
  BY <1>8 DEF TcLeave, CgLeave, At, Step, Left
<1>9. CASE TcReturn
  BY <1>9 DEF TcReturn, Restart
<1>10. CASE CgReturn \/ UNCHANGED vars
  BY <1>10 DEF CgReturn, vars, Stayed
<1>11. QED
  BY <1>4, <1>5, <1>6, <1>7, <1>8, <1>9, <1>10 DEF Next

LEMMA InitBlocks == Init => Blocks
<1> SUFFICES ASSUME Init PROVE Blocks
  OBVIOUS
<1>1. body \in Bodies /\ Len(body) \in Nat
  BY BodiesAssumption, LenProperties DEF Init
<1>2. pc = 1 /\ open = <<>> /\ Len(open) = 0
  BY DEF Init
<1>3. Level(body, 0) = 0
  BY LevelStep
<1>4. pc - 1 = 0 /\ pc \in 1..(Len(body) + 1)
  BY <1>1, <1>2
<1>5. QED
  BY <1>2, <1>3, <1>4 DEF Blocks

(* The innermost open block is the one that closes at the next close.      *)
LEMMA TopIsClosed ==
  ASSUME IInv, Blocks, pc <= Len(body), body[pc] = "close", open # <<>>
  PROVE  /\ Len(open) \in Nat \ {0}
         /\ \E p \in Around(body, pc) :
              /\ Level(body, p) = Len(open) /\ body[p] = open[Len(open)].kind
              /\ CloseOf(body, p) = pc
              /\ \A i \in Around(body, pc) : CloseOf(body, i) = pc => i = p
<1>1. /\ body \in Bodies /\ Len(body) \in Nat /\ pc \in 1..Len(body)
      /\ pc \in 1..(Len(body) + 1)
  BY BodiesAssumption, LenProperties DEF IInv, Blocks
<1>2. Len(open) \in Nat \ {0}
  BY EmptySeq, LenProperties DEF IInv, TypeOK
<1>3. PICK p \in Around(body, pc) : Level(body, p) = Len(open) /\ body[p] = open[Len(open)].kind
  BY <1>2 DEF Blocks
<1>4. Level(body, pc - 1) = Len(open)
  BY DEF Blocks
<1>5. ASSUME NEW i \in Around(body, pc)
      PROVE  /\ i \in 1..Len(body) /\ body[i] \in Opening
             /\ CloseOf(body, i) \in pc..Len(body)
             /\ Level(body, i) = Level(body, i - 1) + 1
             /\ Level(body, i) \in Int /\ Level(body, i - 1) \in Int
  <2>1. i \in 1..Len(body) /\ body[i] \in Opening /\ CloseOf(body, i) \in pc..Len(body)
        /\ Level(body, i) = Level(body, i - 1) + 1
    BY <1>1, AroundPoint
  <2>2. i \in Nat /\ i - 1 \in Nat
    BY <1>1, <2>1
  <2>3. Level(body, i) \in Int /\ Level(body, i - 1) \in Int
    BY <2>2, LevelStep
  <2>4. QED
    BY <2>1, <2>3
<1>6. Level(body, pc) = Level(body, pc - 1) - 1
  <2>1. pc - 1 \in Nat /\ (pc - 1) + 1 = pc
    BY <1>1
  <2>2. QED
    BY <2>1, LevelStep
<1>7. CloseOf(body, p) = pc
  <2>1. SUFFICES ASSUME CloseOf(body, p) # pc PROVE FALSE
    OBVIOUS
  <2> DEFINE c == CloseOf(body, p)
  <2>2. \A k \in p..(c - 1) : Level(body, k) >= Level(body, p)
    BY <1>1, <1>5, CloseIs
  <2>3. c \in pc..Len(body) /\ p < pc
    BY <1>1, <1>5, AroundPoint
  <2>4. c # pc /\ p \in 1..Len(body)
    BY <1>5, <2>1
  <2>5. p \in Nat /\ c \in Nat
    BY <1>1, <2>3, <2>4
  <2> HIDE DEF c
  <2>6. pc \in p..(c - 1)
    BY <1>1, <2>3, <2>4, <2>5
  <2>7. Level(body, pc) >= Level(body, p)
    BY <2>2, <2>6
  <2>8. QED
    BY <1>2, <1>3, <1>4, <1>6, <2>7
<1>8. ASSUME NEW i \in Around(body, pc), CloseOf(body, i) = pc PROVE i = p
  <2>1. Level(body, pc) = Level(body, i - 1) /\ Level(body, pc) = Level(body, p - 1)
    BY <1>1, <1>5, <1>7, <1>8, CloseIs
  <2>2. Level(body, i) = Level(body, p)
    BY <1>5, <2>1
  <2>3. QED
    BY <1>1, <2>2, OneOnALevel
<1>9. QED
  BY <1>2, <1>3, <1>7, <1>8

LEMMA NextBlocks == IInv /\ IInv' /\ Blocks /\ [Next]_vars => Blocks'
<1> SUFFICES ASSUME IInv, IInv', Blocks, [Next]_vars PROVE Blocks'
  OBVIOUS
<1>1. /\ body \in Bodies /\ Len(body) \in Nat /\ pc \in Nat \ {0}
      /\ pc \in 1..(Len(body) + 1) /\ body' = body
      /\ open \in Seq(Frame) /\ Len(open) \in Nat
  BY BodiesAssumption, LenProperties, StackMoves DEF IInv, Blocks, TypeOK
<1>2. /\ Level(body, pc - 1) = Len(open)
      /\ \A q \in 0..(pc - 1) : Level(body, q) >= 0
  BY DEF Blocks
<1>3. ASSUME NEW k \in 1..Len(open)
      PROVE  \E i \in Around(body, pc) : Level(body, i) = k /\ body[i] = open[k].kind
  BY <1>3 DEF Blocks
<1>4. pc - 1 \in Nat /\ (pc - 1) + 1 = pc /\ (pc + 1) - 1 = pc
  BY <1>1
<1>5. /\ Level(body, pc - 1) \in Int
      /\ body[pc] \in Opening => Level(body, pc) = Level(body, pc - 1) + 1
      /\ body[pc] = "close" => Level(body, pc) = Level(body, pc - 1) - 1
      /\ body[pc] \in Leaf => Level(body, pc) = Level(body, pc - 1)
  BY <1>4, LevelStep
<1>6. ASSUME pc <= Len(body), pc' = pc + 1, Level(body, pc) >= 0
      PROVE  /\ pc' \in 1..(Len(body) + 1)
             /\ pc' - 1 = pc
             /\ \A q \in 0..(pc' - 1) : Level(body, q) >= 0
  <2>1. pc' \in 1..(Len(body) + 1) /\ pc' - 1 = pc
    BY <1>1, <1>6
  <2>2. \A q \in 0..pc : q = pc \/ q \in 0..(pc - 1)
    BY <1>1
  <2>3. QED
    BY <1>2, <1>6, <2>1, <2>2
<1>7. pc <= Len(body) => pc \in 1..Len(body)
  BY <1>1
<1>8. CASE AtLeaf
  <2>1. /\ pc <= Len(body) /\ body[pc] \in Leaf /\ open' = open /\ pc' = pc + 1
    BY <1>8 DEF AtLeaf
  <2>2. Around(body, pc') = Around(body, pc)
    BY <1>1, <1>7, <2>1, AroundNext
  <2>3. Level(body, pc) = Len(open) /\ Level(body, pc) >= 0
    BY <1>1, <1>2, <1>5, <2>1
  <2>4. QED
    BY <1>1, <1>3, <1>6, <2>1, <2>2, <2>3 DEF Blocks
<1>9. CASE Entered
  <2>1. pc <= Len(body) /\ body[pc] \in Opening /\ pc' = pc + 1
    BY <1>9 DEF Entered
  <2>2. PICK f \in Frame : f.kind = body[pc] /\ open' = Append(open, f)
    BY <1>9 DEF Entered
  <2>3. Around(body, pc') = Around(body, pc) \cup {pc}
    BY <1>1, <1>7, <2>1, AroundNext
  <2>4. /\ Len(open') = Len(open) + 1
        /\ \A k \in 1..Len(open) : open'[k] = open[k]
        /\ open'[Len(open) + 1] = f
    BY <1>1, <2>2, AppendProperties
  <2>5. Level(body, pc) = Len(open) + 1 /\ Level(body, pc) >= 0
    BY <1>1, <1>2, <1>5, <2>1
  <2>6. ASSUME NEW k \in 1..Len(open')
        PROVE  \E i \in Around(body, pc') : Level(body, i) = k /\ body[i] = open'[k].kind
    <3>1. k \in 1..Len(open) \/ k = Len(open) + 1
      BY <1>1, <2>4, <2>6
    <3>2. CASE k \in 1..Len(open)
      BY <1>3, <2>3, <2>4, <3>2
    <3>3. CASE k = Len(open) + 1
      BY <2>2, <2>3, <2>4, <2>5, <3>3
    <3>4. QED
      BY <3>1, <3>2, <3>3
  <2>7. QED
    BY <1>1, <1>6, <2>1, <2>4, <2>5, <2>6 DEF Blocks
<1>10. CASE Skipped
  <2> DEFINE c == CloseOf(body, pc)
  <2>1. pc \in 1..Len(body) /\ body[pc] \in Opening /\ pc' = c + 1 /\ open' = open
    BY <1>7, <1>10 DEF Skipped
  <2>2. /\ c \in (pc + 1)..Len(body)
        /\ Level(body, pc) = Level(body, pc - 1) + 1
        /\ Level(body, c) = Level(body, pc - 1)
        /\ \A k \in pc..(c - 1) : Level(body, k) >= Level(body, pc)
    BY <1>1, <2>1, CloseIs
  <2>3. Around(body, c + 1) = Around(body, pc)
    BY <1>1, <2>1, AroundNext
  <2> HIDE DEF c
  <2>4. pc' \in 1..(Len(body) + 1) /\ pc' - 1 = c
    BY <1>1, <2>1, <2>2
  <2>5. ASSUME NEW q \in 0..c PROVE Level(body, q) >= 0
    <3>1. q \in 0..(pc - 1) \/ q \in pc..(c - 1) \/ q = c
      BY <1>1, <2>2, <2>5
    <3>2. CASE q \in 0..(pc - 1)
      BY <1>2, <3>2
    <3>3. CASE q \in pc..(c - 1)
      <4>1. q \in Nat
        BY <2>2, <2>5
      <4>2. Level(body, q) \in Int
        BY <4>1, LevelStep
      <4>3. QED
        BY <1>1, <1>2, <2>2, <3>3, <4>2
    <3>4. CASE q = c
      BY <1>1, <1>2, <2>2, <3>4
    <3>5. QED
      BY <3>1, <3>2, <3>3, <3>4
  <2>6. Level(body, c) = Len(open)
    BY <1>2, <2>2
  <2>7. QED
    BY <1>1, <1>3, <2>1, <2>3, <2>4, <2>5, <2>6 DEF Blocks
<1>11. CASE Left
  <2>1. pc <= Len(body) /\ body[pc] = "close" /\ open # <<>> /\ Pop /\ pc' = pc + 1
    BY <1>11 DEF Left
  <2>2. /\ Len(open) \in Nat \ {0} /\ Len(open') = Len(open) - 1
        /\ \A i \in 1..(Len(open) - 1) : open'[i] = open[i]
    BY <1>1, <2>1, PopFrame DEF Pop
  <2>3. PICK p \in Around(body, pc) :
          /\ Level(body, p) = Len(open) /\ CloseOf(body, p) = pc
          /\ \A i \in Around(body, pc) : CloseOf(body, i) = pc => i = p
    BY <2>1, TopIsClosed
  <2>4. Around(body, pc') = {i \in Around(body, pc) : CloseOf(body, i) # pc}
    BY <1>1, <1>7, <2>1, AroundNext
  <2>5. Level(body, pc) = Len(open) - 1 /\ Level(body, pc) >= 0
    BY <1>2, <1>5, <2>1, <2>2
  <2>6. ASSUME NEW k \in 1..Len(open')
        PROVE  \E i \in Around(body, pc') : Level(body, i) = k /\ body[i] = open'[k].kind
    <3>1. k \in 1..(Len(open) - 1) /\ k \in 1..Len(open) /\ k # Len(open)
      BY <2>2, <2>6
    <3>2. PICK i \in Around(body, pc) : Level(body, i) = k /\ body[i] = open[k].kind
      BY <1>3, <3>1
    <3>3. i # p
      BY <2>3, <3>1, <3>2
    <3>4. i \in Around(body, pc')
      BY <2>3, <2>4, <3>3
    <3>5. QED
      BY <2>2, <3>1, <3>2, <3>4
  <2>7. QED
    BY <1>1, <1>6, <2>1, <2>2, <2>5, <2>6 DEF Blocks
<1>12. CASE Restart
  <2>1. pc > Len(body) /\ pc' = 1 /\ open' = open
    BY <1>12 DEF Restart
  <2>2. Around(body, pc) = {}
    <3>1. pc = Len(body) + 1
      BY <1>1, <2>1
    <3>2. QED
      BY <1>1, <3>1, AroundPoint
  <2>3. Len(open) = 0
    <3>1. 1 \notin 1..Len(open)
      BY <1>3, <2>2
    <3>2. QED
      BY <1>1, <3>1
  <2>4. Level(body, 0) = 0
    BY LevelStep
  <2>5. pc' \in 1..(Len(body) + 1) /\ pc' - 1 = 0
    BY <1>1, <2>1
  <2>6. QED
    BY <1>1, <2>1, <2>3, <2>4, <2>5 DEF Blocks
<1>13. CASE Stayed
  BY <1>1, <1>13 DEF Stayed, Blocks
<1>14. QED
  BY <1>8, <1>9, <1>10, <1>11, <1>12, <1>13, StackMoves

LEMMA BlocksHold == Spec => []Blocks
BY InitBlocks, InvariantHolds, NextBlocks, PTL DEF Spec

-----------------------------------------------------------------------------
(* The try-blocks around a raising statement are the open ones.            *)

LEMMA EnclosingAreAround ==
  ASSUME NEW b \in Bodies, NEW p \in 1..Len(b), b[p] \in Leaf
  PROVE  EnclosingTries(b, p) = {i \in Around(b, p) : b[i] = "try"}
<1>1. Len(b) \in Nat /\ p \in 1..(Len(b) + 1)
  BY BodiesAssumption, LenProperties
<1>2. "try" \in Opening /\ b[p] # "try" /\ b[p] # "close"
  BY DEF Opening, Leaf
<1>3. ASSUME NEW i \in Around(b, p), b[i] = "try" PROVE i \in EnclosingTries(b, p)
  <2>1. i \in 1..Len(b) /\ i < p /\ CloseOf(b, i) \in p..Len(b) /\ b[CloseOf(b, i)] = "close"
    BY <1>1, AroundPoint
  <2>2. CloseOf(b, i) # p
    BY <1>2, <2>1
  <2>3. CloseOf(b, i) > p /\ i \in 1..p
    BY <1>1, <2>1, <2>2
  <2>4. QED
    BY <1>3, <2>3 DEF EnclosingTries
<1>4. ASSUME NEW i \in EnclosingTries(b, p) PROVE i \in Around(b, p) /\ b[i] = "try"
  <2>1. i \in 1..p /\ b[i] = "try" /\ CloseOf(b, i) > p
    BY DEF EnclosingTries
  <2>2. i # p
    BY <1>2, <2>1
  <2>3. i \in 1..(p - 1) /\ i \in 1..Len(b)
    BY <1>1, <2>1, <2>2
  <2>4. CloseOf(b, i) \in (i + 1)..Len(b)
    BY <1>2, <2>1, <2>3, CloseIs
  <2>5. CloseOf(b, i) >= p
    BY <1>1, <2>1, <2>3, <2>4
  <2>6. QED
    BY <1>2, <2>1, <2>3, <2>5 DEF Around
<1>5. QED
  BY <1>3, <1>4

LEMMA OpenAreEnclosing ==
  ASSUME IInv, Blocks, pc <= Len(body), body[pc] \in Leaf
  PROVE  OpenTries # {} <=> EnclosingTries(body, pc) # {}
<1>1. /\ body \in Bodies /\ Len(body) \in Nat /\ pc \in 1..Len(body)
      /\ pc \in 1..(Len(body) + 1) /\ Len(open) \in Nat
  BY BodiesAssumption, LenProperties DEF IInv, TypeOK, Blocks
<1>2. EnclosingTries(body, pc) = {i \in Around(body, pc) : body[i] = "try"}
  BY <1>1, EnclosingAreAround
<1>3. \A k \in 1..Len(open) : \E i \in Around(body, pc) :
        Level(body, i) = k /\ body[i] = open[k].kind
  BY DEF Blocks
<1>4. ASSUME OpenTries # {} PROVE EnclosingTries(body, pc) # {}
  BY <1>2, <1>3, <1>4 DEF OpenTries, TriesIn
<1>5. ASSUME NEW t \in Around(body, pc), body[t] = "try" PROVE OpenTries # {}
  <2>1. /\ t \in 1..Len(body)
        /\ Level(body, t) = Level(body, t - 1) + 1
        /\ Level(body, t) <= Level(body, pc - 1)
        /\ t < pc
    BY <1>1, AroundPoint
  <2>2. Level(body, pc - 1) = Len(open) /\ \A q \in 0..(pc - 1) : Level(body, q) >= 0
    BY DEF Blocks
  <2>3. t - 1 \in 0..(pc - 1) /\ t - 1 \in Nat
    BY <1>1, <2>1
  <2>4. Level(body, t - 1) \in Int
    BY <2>3, LevelStep
  <2>5. Level(body, t) \in 1..Len(open)
    BY <1>1, <2>1, <2>2, <2>3, <2>4
  <2>6. PICK i \in Around(body, pc) :
          Level(body, i) = Level(body, t) /\ body[i] = open[Level(body, t)].kind
    BY <1>3, <2>5
  <2>7. i = t
    BY <1>1, <2>6, OneOnALevel
  <2>8. QED
    BY <1>5, <2>5, <2>6, <2>7 DEF OpenTries, TriesIn
<1>6. QED
  BY <1>2, <1>4, <1>5

-----------------------------------------------------------------------------
(* The error counter of the typechecker.                                   *)

(* While the typechecker runs, an error stands for an unprotected raising  *)
(* statement, and no error for none up to here but in places overlooked.   *)
Counted ==
  /\ phase = "typecheck" /\ tc_err_count > 0 => ~throws /\ Unprotected(body) # {}
  /\ phase = "typecheck" /\ tc_err_count = 0 /\ ~throws =>
       \A i \in 1..(pc - 1) : i \in Unprotected(body) => Overlooked(body, i)

IsJustified == Counted /\ RejectedForAReason /\ VisitedIsProtected

LEMMA InitJustified == Init => IsJustified
BY DEF Init, IsJustified, Counted, RejectedForAReason, VisitedIsProtected

(* A step in the typechecker that finds no error.                          *)
LEMMA NoError ==
  ASSUME IInv, Blocks, Counted, phase = "typecheck", pc' = pc + 1, pc <= Len(body),
         UNCHANGED <<body, throws, phase, tc_err_count>>,
         tc_err_count = 0 /\ ~throws /\ pc \in Unprotected(body) => Overlooked(body, pc)
  PROVE  IsJustified'
<1>1. pc \in Nat /\ Len(body) \in Nat /\ pc' - 1 = pc
  BY BodiesAssumption, LenProperties DEF IInv, TypeOK
<1>2. \A i \in 1..pc : i = pc \/ i \in 1..(pc - 1)
  BY <1>1
<1>3. Counted'
  BY <1>1, <1>2 DEF Counted, Unprotected, RaisingAt, EnclosingTries, Overlooked
<1>4. QED
  BY <1>3 DEF IsJustified, RejectedForAReason, VisitedIsProtected

LEMMA NextJustified == IInv /\ Blocks /\ IsJustified /\ [Next]_vars => IsJustified'
<1> SUFFICES ASSUME IInv, Blocks, IsJustified, [Next]_vars PROVE IsJustified'
  OBVIOUS
<1>1. /\ pc \in Nat \ {0} /\ Len(body) \in Nat /\ body' = body /\ throws' = throws
      /\ pc <= Len(body) => pc \in 1..Len(body)
      /\ tc_err_count \in Nat /\ throws \in BOOLEAN
  BY BodiesAssumption, LenProperties, StackMoves DEF IInv, TypeOK
<1>2. Counted
  BY DEF IsJustified
<1>3. pc <= Len(body) /\ body[pc] \notin Leaf => pc \notin Unprotected(body)
  BY DEF Unprotected, RaisingAt
<1>4. ASSUME phase' = phase, phase # "typecheck" PROVE IsJustified'
  BY <1>1, <1>4 DEF IsJustified, Counted, RejectedForAReason, VisitedIsProtected
<1>5. CASE TcRaise
  <2>1. phase = "typecheck" /\ pc <= Len(body) /\ body[pc] \in Leaf /\ pc' = pc + 1
        /\ UNCHANGED <<body, throws, phase>>
    BY <1>5 DEF TcRaise, At, Step, Leaf
  <2>2. /\ OpenTries # {} <=> EnclosingTries(body, pc) # {}
        /\ depth_inside_try_stmt = Cardinality(OpenTries)
        /\ IsFiniteSet(OpenTries)
    BY <2>1, OpenAreEnclosing, TriesAreFinite DEF IInv, TypeOK, DepthCountsOpenTries, OpenTries
  <2>3. /\ depth_inside_try_stmt \in Nat
        /\ depth_inside_try_stmt = 0 <=> OpenTries = {}
    BY <2>2, FS_EmptySet DEF IInv, TypeOK
  <2>4. RaiseAllowed <=> throws \/ pc \notin Unprotected(body)
    BY <1>1, <2>1, <2>2, <2>3 DEF RaiseAllowed, Unprotected, RaisingAt
  <2>5. CASE RaiseAllowed
    <3>1. tc_err_count' = tc_err_count
      BY <1>5, <2>5 DEF TcRaise
    <3>2. QED
      BY <1>2, <2>1, <2>4, <2>5, <3>1, NoError
  <2>6. CASE ~RaiseAllowed
    <3>1. tc_err_count' = tc_err_count + 1 /\ tc_err_count' > 0
      BY <1>1, <1>5, <2>6 DEF TcRaise
    <3>2. ~throws /\ pc \in Unprotected(body)
      BY <1>1, <2>1, <2>4, <2>6 DEF Unprotected, RaisingAt
    <3>3. Unprotected(body)' # {}
      BY <1>1, <3>2 DEF Unprotected, RaisingAt, EnclosingTries
    <3>4. QED
      BY <2>1, <3>1, <3>2, <3>3
         DEF IsJustified, Counted, RejectedForAReason, VisitedIsProtected
  <2>7. QED
    BY <2>5, <2>6
<1>6. CASE TcHidden
  <2>1. phase = "typecheck" /\ pc <= Len(body) /\ body[pc] = "hidden" /\ pc' = pc + 1
        /\ UNCHANGED <<body, throws, phase, tc_err_count>>
    BY <1>6 DEF TcHidden, At, Step, tcctx
  <2>2. Overlooked(body, pc)
    BY <2>1 DEF Overlooked
  <2>3. QED
    BY <1>2, <2>1, <2>2, NoError
<1>7. CASE TcSkipBlock
  <2>1. phase = "typecheck" /\ pc <= Len(body) /\ body[pc] \in {"else", "case"}
        /\ UNCHANGED <<body, throws, phase, tc_err_count>>
    BY <1>7 DEF TcSkipBlock, At, tcctx
  <2>2. pc' = CloseOf(body, pc) + 1 /\ CloseOf(body, pc) \in pc..Len(body)
    BY <1>1, <1>7, <2>1, CloseOfInBody DEF TcSkipBlock, IInv, TypeOK, Opening
  <2>3. \A i \in pc..CloseOf(body, pc) : Overlooked(body, i)
    BY <1>1, <2>1, <2>2 DEF Overlooked
  <2>4. Counted'
    <3>1. \A i \in 1..(pc' - 1) : i \in 1..(pc - 1) \/ i \in pc..CloseOf(body, pc)
      BY <1>1, <2>2
    <3>2. QED
      BY <1>1, <1>2, <2>1, <2>3, <3>1 DEF Counted, Unprotected, RaisingAt, EnclosingTries, Overlooked
  <2>5. QED
    BY <2>1, <2>4 DEF IsJustified, RejectedForAReason, VisitedIsProtected
<1>8. CASE TcEnterBlock \/ TcEnterTry \/ TcLeave
  <2>1. phase = "typecheck" /\ pc <= Len(body) /\ body[pc] \notin Leaf /\ pc' = pc + 1
        /\ UNCHANGED <<body, throws, phase, tc_err_count>>
    BY <1>8 DEF TcEnterBlock, TcEnterTry, TcLeave, At, Step, Leaf, tcctx
  <2>2. QED
    BY <1>2, <1>3, <2>1, NoError
<1>9. CASE TcReturn
  <2>1. phase = "typecheck" /\ pc > Len(body)
        /\ phase' = IF tc_err_count = 0 THEN "codegen" ELSE "rejected"
    BY <1>9 DEF TcReturn
  <2>2. \A i \in Unprotected(body) : i \in 1..(pc - 1)
    BY <1>1, <2>1 DEF Unprotected, RaisingAt
  <2>3. RejectedForAReason'
    BY <1>1, <1>2, <2>1 DEF Counted, RejectedForAReason
  <2>4. VisitedIsProtected'
    <3>1. SUFFICES ASSUME tc_err_count = 0, ~throws
                   PROVE  \A i \in Unprotected(body) : Overlooked(body, i)
      BY <1>1, <2>1 DEF VisitedIsProtected, Unprotected, RaisingAt, EnclosingTries, Overlooked
    <3>2. QED
      BY <1>2, <2>1, <2>2, <3>1 DEF Counted
  <2>5. Counted'
    BY <2>1 DEF Counted
  <2>6. QED
    BY <2>3, <2>4, <2>5 DEF IsJustified
<1>10. CASE CgRaise \/ CgEnterBlock \/ CgEnterTry \/ CgLeave
  BY <1>4, <1>10 DEF CgRaise, CgEnterBlock, CgEnterTry, CgLeave, At, Step
<1>11. CASE CgReturn
  <2>1. phase = "codegen" /\ phase' = "done"
    BY <1>11 DEF CgReturn
  <2>2. QED
    BY <1>1, <2>1 DEF IsJustified, Counted, RejectedForAReason, VisitedIsProtected
<1>12. CASE UNCHANGED vars
  BY <1>12 DEF vars, IsJustified, Counted, RejectedForAReason, VisitedIsProtected
<1>13. QED
  BY <1>5, <1>6, <1>7, <1>8, <1>9, <1>10, <1>11, <1>12 DEF Next

LEMMA JustifiedHolds == Spec => []IsJustified
BY InitJustified, InvariantHolds, BlocksHold, NextJustified, PTL DEF Spec

-----------------------------------------------------------------------------
(* The context of the code generator.                                      *)

(* Event t is the last "try" before event p.                               *)
LastTry(b, p, t) ==
  /\ t \in 1..(p - 1) /\ b[t] = "try"
  /\ \A k \in (t + 1)..(p - 1) : b[k] # "try"

(* The flag says whether the last try-block entered is still open.         *)
Flagged ==
  /\ index_try_stmt = TryNumber(body, pc - 1)
  /\ (\E t \in 1..(pc - 1) : body[t] = "try") => \E t \in 1..(pc - 1) : LastTry(body, pc, t)
  /\ in_try_block <=> \E t \in Around(body, pc) : LastTry(body, pc, t)

IsDirected == (phase = "codegen" => Flagged) /\ HandlerUntilNestedTry

LEMMA LastTryStep ==
  ASSUME NEW b, NEW p \in Nat \ {0}, NEW t \in Nat
  PROVE  /\ b[p] # "try" => (LastTry(b, p + 1, t) <=> LastTry(b, p, t))
         /\ b[p] = "try" => (LastTry(b, p + 1, t) <=> t = p)
<1>1. /\ (p + 1) - 1 = p
      /\ 1..p = (1..(p - 1)) \cup {p}
      /\ t < p => (t + 1)..p = ((t + 1)..(p - 1)) \cup {p}
      /\ t >= p => (t + 1)..p = {}
  <2>1. (p + 1) - 1 = p
    OBVIOUS
  <2>2. 1..p = (1..(p - 1)) \cup {p}
    OBVIOUS
  <2>3. t < p => (t + 1)..p = ((t + 1)..(p - 1)) \cup {p}
    OBVIOUS
  <2>4. t >= p => (t + 1)..p = {}
    OBVIOUS
  <2>5. QED
    BY <2>1, <2>2, <2>3, <2>4
<1>2. CASE b[p] # "try"
  <2>1. LastTry(b, p, t) => t < p
    BY DEF LastTry
  <2>2. QED
    BY <1>1, <1>2, <2>1 DEF LastTry
<1>3. CASE b[p] = "try"
  BY <1>1, <1>3 DEF LastTry
<1>4. QED
  BY <1>2, <1>3

LEMMA OneLastTry ==
  ASSUME NEW b, NEW p \in Nat, NEW t, NEW u, LastTry(b, p, t), LastTry(b, p, u)
  PROVE  t = u
BY DEF LastTry

(* The number of the last "try" is the number of those before p.           *)
LEMMA LastTryNumber ==
  ASSUME NEW b, NEW p \in Nat, NEW t, LastTry(b, p, t)
  PROVE  TryNumber(b, t) = TryNumber(b, p - 1)
<1>1. t \in 1..(p - 1) /\ \A k \in 1..(p - 1) : b[k] = "try" => k \in 1..t
  BY DEF LastTry
<1>2. {k \in 1..(p - 1) : b[k] = "try"} = {k \in 1..t : b[k] = "try"}
  BY <1>1
<1>3. QED
  BY <1>2 DEF TryNumber

(* What is written for a raising statement is right unless a try-statement *)
(* inside of the innermost try-block was left.                             *)
LEMMA TargetIsHandler ==
  ASSUME IInv, Flagged, pc <= Len(body), body[pc] \in Leaf,
         LET E == EnclosingTries(body, pc)
         IN  E = {} \/ \A t \in 1..pc : ~(body[t] = "try" /\ \A u \in E : u < t)
  PROVE  Target = Handler(body, pc)
<1> DEFINE E == EnclosingTries(body, pc)
<1>1. /\ body \in Bodies /\ Len(body) \in Nat /\ pc \in 1..Len(body) /\ pc \in Nat
      /\ pc \in 1..(Len(body) + 1) /\ in_try_block \in BOOLEAN
  BY BodiesAssumption, LenProperties DEF IInv, TypeOK
<1>2. E = {i \in Around(body, pc) : body[i] = "try"}
  BY <1>1, EnclosingAreAround
<1>3. E \subseteq 1..(pc - 1)
  BY <1>2 DEF Around
<1>4. in_try_block <=> \E t \in E : LastTry(body, pc, t)
  <2>1. in_try_block <=> \E t \in Around(body, pc) : LastTry(body, pc, t)
    BY DEF Flagged
  <2>2. \A t \in Around(body, pc) : LastTry(body, pc, t) => t \in E
    BY <1>2 DEF LastTry
  <2>3. E \subseteq Around(body, pc)
    BY <1>2
  <2> HIDE DEF E
  <2>4. QED
    BY <2>1, <2>2, <2>3
<1>5. CASE E = {}
  <2>1. ~in_try_block
    BY <1>4, <1>5
  <2>2. QED
    BY <1>5, <2>1 DEF Handler, Target
<1>6. CASE E # {}
  <2>1. PICK t \in 1..(pc - 1) : LastTry(body, pc, t)
    BY <1>2, <1>3, <1>6 DEF Flagged
  <2>2. t \in 1..pc /\ body[t] = "try" /\ t \in Nat
    BY <1>1, <2>1 DEF LastTry
  <2>3. \A u \in E : u <= t
    <3>1. \A u \in E : u \in 1..(pc - 1) /\ body[u] = "try"
      BY <1>2, <1>3
    <3> HIDE DEF E
    <3>2. QED
      BY <1>1, <2>1, <2>2, <3>1 DEF LastTry
  <2>4. PICK u \in E : ~(u < t)
    BY <1>6, <2>2
  <2>5. t \in E
    <3>1. u \in 1..(pc - 1) /\ u <= t
      BY <1>3, <2>3, <2>4
    <3> HIDE DEF E
    <3>2. u = t
      BY <1>1, <2>2, <2>4, <3>1
    <3>3. QED
      BY <3>2
  <2> HIDE DEF E
  <2>6. (CHOOSE v \in E : \A u_1 \in E : u_1 <= v) = t
    <3>1. \A v \in E : (\A w \in E : w <= v) => v = t
      BY <1>1, <1>3, <2>2, <2>3, <2>5
    <3>2. QED
      BY <2>3, <2>5, <3>1
  <2>7. Handler(body, pc) = TryNumber(body, t)
    BY <1>6, <2>6 DEF Handler, E
  <2>8. in_try_block /\ index_try_stmt = TryNumber(body, t)
    BY <1>1, <1>4, <2>1, <2>5, LastTryNumber DEF Flagged
  <2>9. QED
    BY <2>7, <2>8 DEF Target
<1>7. QED
  BY <1>5, <1>6

(* The flag after a step to the next event.                                *)
LEMMA NextFlagged ==
  ASSUME IInv, Blocks, Flagged, pc <= Len(body), pc' = pc + 1, body' = body,
         in_try_block' \in BOOLEAN,
         \/ /\ body[pc] \in Leaf \cup (Opening \ {"try"})
            /\ UNCHANGED <<in_try_block, index_try_stmt>>
         \/ body[pc] = "try" /\ in_try_block' /\ index_try_stmt' = index_try_stmt + 1
         \/ /\ body[pc] = "close" /\ open # <<>> /\ index_try_stmt' = index_try_stmt
            /\ in_try_block' <=> in_try_block /\ Top.kind # "try"
  PROVE  Flagged'
<1>1. /\ body \in Bodies /\ Len(body) \in Nat /\ pc \in 1..Len(body) /\ pc \in Nat \ {0}
      /\ in_try_block \in BOOLEAN
      /\ pc' - 1 = pc /\ pc - 1 \in Nat /\ (pc - 1) + 1 = pc
  BY BodiesAssumption, LenProperties DEF IInv, TypeOK
<1>2. "try" \notin Leaf /\ "try" # "close" /\ "try" \in Opening
  BY DEF Leaf, Opening
<1>3. index_try_stmt' = TryNumber(body, pc)
  <2>1. index_try_stmt = TryNumber(body, pc - 1)
    BY DEF Flagged
  <2>2. TryNumber(body, pc) = IF body[pc] = "try" THEN TryNumber(body, pc - 1) + 1
                                                 ELSE TryNumber(body, pc - 1)
    BY <1>1, TryNumberStep
  <2>3. QED
    BY <1>2, <2>1, <2>2
<1>4. \A t \in Nat : /\ body[pc] # "try" => (LastTry(body, pc + 1, t) <=> LastTry(body, pc, t))
                     /\ body[pc] = "try" => (LastTry(body, pc + 1, t) <=> t = pc)
  BY <1>1, LastTryStep
<1>5. (\E t \in 1..pc : body[t] = "try") => \E t \in 1..pc : LastTry(body, pc + 1, t)
  <2>1. CASE body[pc] = "try"
    BY <1>1, <1>4, <2>1
  <2>2. CASE body[pc] # "try"
    <3>1. SUFFICES ASSUME NEW t \in 1..pc, body[t] = "try"
                   PROVE  \E u \in 1..pc : LastTry(body, pc + 1, u)
      OBVIOUS
    <3>2. t \in 1..(pc - 1)
      BY <1>1, <2>2, <3>1
    <3>3. PICK u \in 1..(pc - 1) : LastTry(body, pc, u)
      BY <3>1, <3>2 DEF Flagged
    <3>4. u \in 1..pc /\ u \in Nat
      BY <1>1
    <3>5. QED
      BY <1>4, <2>2, <3>3, <3>4
  <2>3. QED
    BY <2>1, <2>2
<1>6. in_try_block <=> \E t \in Around(body, pc) : LastTry(body, pc, t)
  BY DEF Flagged
<1>7. \A i \in Around(body, pc) : i \in Nat /\ i < pc /\ i \in 1..Len(body)
  BY <1>1 DEF Around
<1>8. in_try_block' <=> \E t \in Around(body, pc + 1) : LastTry(body, pc + 1, t)
  <2>1. CASE body[pc] \in Leaf
    <3>1. Around(body, pc + 1) = Around(body, pc)
      BY <1>1, <2>1, AroundNext
    <3>2. in_try_block' = in_try_block
      BY <1>2, <2>1 DEF Leaf, Opening
    <3>3. body[pc] # "try"
      BY <1>2, <2>1
    <3>4. QED
      BY <1>4, <1>6, <1>7, <3>1, <3>2, <3>3
  <2>2. CASE body[pc] \in Opening \ {"try"}
    <3>1. Around(body, pc + 1) = Around(body, pc) \cup {pc}
      BY <1>1, <2>2, AroundNext
    <3>2. in_try_block' = in_try_block
      BY <2>2 DEF Leaf, Opening
    <3>3. body[pc] # "try" /\ ~LastTry(body, pc, pc)
      BY <1>1, <2>2 DEF LastTry
    <3>4. QED
      BY <1>1, <1>4, <1>6, <1>7, <3>1, <3>2, <3>3
  <2>3. CASE body[pc] = "try"
    <3>1. pc \in Around(body, pc + 1)
      BY <1>1, <1>2, <2>3, AroundNext
    <3>2. in_try_block'
      BY <1>2, <2>3
    <3>3. QED
      BY <1>1, <1>4, <2>3, <3>1, <3>2
  <2>4. CASE body[pc] = "close"
    <3>1. Around(body, pc + 1) = {i \in Around(body, pc) : CloseOf(body, i) # pc}
      BY <1>1, <2>4, AroundNext
    <3>2. open # <<>> /\ (in_try_block' <=> in_try_block /\ Top.kind # "try")
      BY <2>4 DEF Leaf, Opening
    <3>3. PICK p \in Around(body, pc) :
            /\ body[p] = Top.kind /\ CloseOf(body, p) = pc
            /\ \A i \in Around(body, pc) : CloseOf(body, i) = pc => i = p
      BY <2>4, <3>2, TopIsClosed DEF Top
    <3>4. body[pc] # "try"
      BY <1>2, <2>4
    <3>5. ASSUME in_try_block' PROVE \E t \in Around(body, pc + 1) : LastTry(body, pc + 1, t)
      <4>1. PICK t \in Around(body, pc) : LastTry(body, pc, t)
        BY <1>6, <3>2, <3>5
      <4>2. t # p
        BY <3>2, <3>3, <3>5, <4>1 DEF LastTry
      <4>3. t \in Around(body, pc + 1)
        BY <3>1, <3>3, <4>2
      <4>4. QED
        BY <1>4, <1>7, <3>4, <4>1, <4>3
    <3>6. ASSUME NEW t \in Around(body, pc + 1), LastTry(body, pc + 1, t)
          PROVE  in_try_block /\ Top.kind # "try"
      <4>1. t \in Around(body, pc) /\ CloseOf(body, t) # pc
        BY <3>1
      <4>2. LastTry(body, pc, t) /\ in_try_block
        BY <1>4, <1>6, <1>7, <3>4, <3>6, <4>1
      <4>3. SUFFICES ASSUME body[p] = "try" PROVE FALSE
        BY <3>3, <4>2
      <4>4. p # t /\ p < pc /\ t < pc /\ p \in 1..Len(body) /\ t \in 1..Len(body)
        BY <1>7, <3>3, <4>1
      <4>5. ~(t < p)
        BY <1>1, <4>2, <4>3, <4>4 DEF LastTry
      <4>6. t \in (p + 1)..Len(body) /\ CloseOf(body, p) >= t
        BY <1>1, <3>3, <4>4, <4>5
      <4>7. body[t] \in Opening /\ body[p] \in Opening
        BY <1>2, <4>2, <4>3 DEF LastTry
      <4>8. CloseOf(body, t) < pc
        BY <1>1, <3>3, <4>4, <4>6, <4>7, Nesting
      <4>9. CloseOf(body, t) >= pc /\ CloseOf(body, t) \in 1..Len(body)
        <5>1. pc \in 1..(Len(body) + 1)
          BY <1>1
        <5>2. CloseOf(body, t) \in pc..Len(body)
          BY <1>1, <4>1, <5>1, AroundPoint
        <5>3. QED
          BY <1>1, <5>2
      <4>10. QED
        BY <1>1, <4>8, <4>9
    <3>7. QED
      BY <3>2, <3>5, <3>6
  <2>5. QED
    BY <2>1, <2>2, <2>3, <2>4
<1>9. QED
  BY <1>1, <1>3, <1>5, <1>8 DEF Flagged

LEMMA InitDirected == Init => IsDirected
BY DEF Init, IsDirected, HandlerUntilNestedTry

LEMMA NextDirected == IInv /\ IInv' /\ Blocks /\ IsDirected /\ [Next]_vars => IsDirected'
<1> SUFFICES ASSUME IInv, IInv', Blocks, IsDirected, [Next]_vars PROVE IsDirected'
  OBVIOUS
<1>1. /\ pc \in Nat \ {0} /\ body' = body
      /\ in_try_block \in BOOLEAN /\ in_try_block' \in BOOLEAN
  BY StackMoves DEF IInv, TypeOK
<1>2. ASSUME emitted' = emitted PROVE HandlerUntilNestedTry'
  BY <1>1, <1>2 DEF IsDirected, HandlerUntilNestedTry, Handler, EnclosingTries
<1>3. CASE TcRaise \/ TcHidden \/ TcSkipBlock \/ TcEnterBlock \/ TcEnterTry \/ TcLeave
  <2>1. phase' # "codegen" /\ emitted' = emitted
    BY <1>3 DEF TcRaise, TcHidden, TcSkipBlock, TcEnterBlock, TcEnterTry, TcLeave, At, Step
  <2>2. QED
    BY <1>2, <2>1 DEF IsDirected
<1>4. CASE TcReturn
  <2>1. pc' = 1 /\ index_try_stmt' = 0 /\ in_try_block' = in_try_block /\ emitted' = emitted
    BY <1>4 DEF TcReturn, ctx
  <2>2. ~in_try_block
    BY <1>4 DEF TcReturn, IInv
  <2>3. TryNumber(body, 0) = 0 /\ pc' - 1 = 0 /\ Around(body, pc') = {}
    BY <2>1, TryNumberStep DEF Around
  <2>4. Flagged'
    BY <1>1, <2>1, <2>2, <2>3 DEF Flagged
  <2>5. QED
    BY <1>2, <2>1, <2>4 DEF IsDirected
<1>5. CASE CgRaise
  <2>1. /\ phase = "codegen" /\ pc <= Len(body) /\ body[pc] \in Leaf /\ pc' = pc + 1
        /\ UNCHANGED <<in_try_block, index_try_stmt>>
        /\ emitted' = [i \in DOMAIN emitted \cup {pc} |-> IF i = pc THEN Target ELSE emitted[i]]
    BY <1>5 DEF CgRaise, At, Step, ctx
  <2>2. Flagged
    BY <2>1 DEF IsDirected
  <2>3. Flagged'
    BY <1>1, <2>1, <2>2, NextFlagged
  <2>4. /\ DOMAIN emitted' = DOMAIN emitted \cup {pc}
        /\ emitted'[pc] = Target
        /\ \A i \in DOMAIN emitted : i # pc => emitted'[i] = emitted[i]
    BY <2>1
  <2> DEFINE Right(i, j) ==
        LET E == EnclosingTries(body, i)
        IN  E = {} \/ (\A t \in 1..i : ~(body[t] = "try" /\ \A u \in E : u < t)) => j = Handler(body, i)
  <2>5. Right(pc, Target)
    BY <2>1, <2>2, TargetIsHandler
  <2>6. \A i \in DOMAIN emitted : Right(i, emitted[i])
    BY DEF IsDirected, HandlerUntilNestedTry
  <2>7. HandlerUntilNestedTry' <=> \A i \in DOMAIN emitted' : Right(i, emitted'[i])
    BY <1>1 DEF HandlerUntilNestedTry, Handler, EnclosingTries
  <2> HIDE DEF Right
  <2>8. \A i \in DOMAIN emitted' : Right(i, emitted'[i])
    BY <2>4, <2>5, <2>6
  <2>9. QED
    BY <2>3, <2>7, <2>8 DEF IsDirected
<1>6. CASE CgEnterBlock \/ CgEnterTry \/ CgLeave
  <2>1. /\ phase = "codegen" /\ pc <= Len(body) /\ pc' = pc + 1 /\ emitted' = emitted
    BY <1>6 DEF CgEnterBlock, CgEnterTry, CgLeave, At, Step
  <2>2. \/ /\ body[pc] \in Leaf \cup (Opening \ {"try"})
           /\ UNCHANGED <<in_try_block, index_try_stmt>>
        \/ body[pc] = "try" /\ in_try_block' /\ index_try_stmt' = index_try_stmt + 1
        \/ /\ body[pc] = "close" /\ open # <<>> /\ index_try_stmt' = index_try_stmt
           /\ in_try_block' <=> in_try_block /\ Top.kind # "try"
    <3>1. CASE CgEnterBlock
      BY <3>1 DEF CgEnterBlock, At, ctx
    <3>2. CASE CgEnterTry
      BY <3>2 DEF CgEnterTry, At
    <3>3. CASE CgLeave
      BY <1>1, <3>3 DEF CgLeave, At
    <3>4. QED
      BY <1>6, <3>1, <3>2, <3>3
  <2>3. Flagged
    BY <2>1 DEF IsDirected
  <2>4. Flagged'
    BY <1>1, <2>1, <2>2, <2>3, NextFlagged
  <2>5. QED
    BY <1>2, <2>1, <2>4 DEF IsDirected
<1>7. CASE CgReturn
  BY <1>2, <1>7 DEF CgReturn, IsDirected
<1>8. CASE UNCHANGED vars
  BY <1>2, <1>8 DEF vars, IsDirected, Flagged
<1>9. QED
  BY <1>3, <1>4, <1>5, <1>6, <1>7, <1>8 DEF Next

LEMMA DirectedHolds == Spec => []IsDirected
BY InitDirected, InvariantHolds, BlocksHold, NextDirected, PTL DEF Spec

-----------------------------------------------------------------------------

(* For every body, the variables of both passes keep their types; the      *)
(* counters of TCCtx and Ctx are never decremented below zero.             *)
THEOREM TypeCorrect == Spec => []TypeOK
<1>1. IInv => TypeOK
  BY DEF IInv
<1>2. QED
  BY <1>1, InvariantHolds, PTL

(* For every body, the counter of the typechecker is the number of         *)
(* try-blocks it is inside of.                                             *)
THEOREM DepthIsExact == Spec => []DepthCountsOpenTries
<1>1. IInv => DepthCountsOpenTries
  BY DEF IInv
<1>2. QED
  BY <1>1, InvariantHolds, PTL

(* For every body, nested try-statements included, a jmp_buf named in a    *)
(* throw is that of the innermost open try-block.                          *)
THEOREM LocalTargetCorrect == Spec => []LocalTargetIsInnermost
<1>1. IInv => LocalTargetIsInnermost
  BY DEF IInv
<1>2. QED
  BY <1>1, InvariantHolds, PTL

(* For every body: the typechecker rejects a subroutine only if it is not  *)
(* marked `throws` and some statement of it raises outside every           *)
(* try-block; it never miscounts the blocks it walks or jumps over.        *)
THEOREM RejectionsAreJustified == Spec => []RejectedForAReason
<1>1. IsJustified => RejectedForAReason
  BY DEF IsJustified
<1>2. QED
  BY <1>1, JustifiedHolds, PTL

(* For every body: what an accepted subroutine without `throws` raises     *)
(* outside of its own try-blocks is in an else-block, a case or a hidden   *)
(* expression; jumping over those never makes the typechecker miss a raise *)
(* elsewhere.                                                              *)
THEOREM VisitedRaisesAreProtected == Spec => []VisitedIsProtected
<1>1. IsJustified => VisitedIsProtected
  BY DEF IsJustified
<1>2. QED
  BY <1>1, JustifiedHolds, PTL

(* For every body: the jmp_buf written for a raising statement is that of  *)
(* the innermost try-block around it, unless a try-statement inside that   *)
(* block was left before.                                                  *)
THEOREM HandlersAreRight == Spec => []HandlerUntilNestedTry
<1>1. IsDirected => HandlerUntilNestedTry
  BY DEF IsDirected
<1>2. QED
  BY <1>1, DirectedHolds, PTL

=============================================================================
