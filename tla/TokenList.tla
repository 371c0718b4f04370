------------------------------ MODULE TokenList ------------------------------
(***************************************************************************)
(* The list of tokens (token/list/TokenList.c): filled by the reader of    *)
(* the .tokens file, then consumed by the make... routines of the parser.  *)
(* Such a routine works on a copy: where what it looks for is there, it    *)
(* copies its copy back with list_set, otherwise it drops it and the       *)
(* caller tries the next alternative on the list it still has.  The node   *)
(* that a routine makes takes its values from the tokens it consumes; it   *)
(* goes into the node of the caller, or is freed with the copy.            *)
(*                                                                         *)
(* The four numbers of a list are `Width` bits wide, 16 in the code.       *)
(***************************************************************************)
EXTENDS Integers, Sequences

CONSTANTS Width,        \* bits of the fields of struct TokenList
          InitialSize,  \* 20 in makeTokenList
          MaxDepth      \* bound: routines that are at work at the same time

ASSUME WidthAssumption ==
  /\ Width \in Nat \ {0}
  /\ InitialSize \in Nat \ {0} /\ InitialSize < 2^Width
  /\ MaxDepth \in Nat \ {0}

Modulus == 2^Width

(* Room for the array to grow once.                                        *)
ASSUME RoomAssumption ==
  Modulus \in Nat /\ Modulus % 2 = 0 /\ 2 * InitialSize < Modulus

(* A "break" is one of break, continue and throw.                          *)
Token == {"break", "other"}

Wrap(n) == (n + Modulus) % Modulus

VARIABLES
  phase,    \* "fill": the reader, "parse": the parser, or "undefined"
  memory,   \* size of the array the list of the reader points to
  overrun,  \* has the reader written outside the array?
  lists,    \* the list of the reader, then the copies on it, innermost last
  made      \* for each of them the places in the file of the tokens that the
            \* node of its routine is made of (history)

vars == <<phase, memory, overrun, lists, made>>

(* list_set copies the array whole: `tokens` is the same in every copy.    *)
makeTokenList ==
  [tokens |-> <<>>, capacity |-> InitialSize, index_head |-> 0,
   tokensc |-> 0, tokens_stored |-> 0]

Init ==
  /\ phase = "fill"
  /\ memory = InitialSize
  /\ overrun = FALSE
  /\ lists = <<makeTokenList>>
  /\ made = << <<>> >>

Top == lists[Len(lists)]

SetTop(l) == lists' = [lists EXCEPT ![Len(lists)] = l]

-----------------------------------------------------------------------------

(* mutant: a list of exactly its capacity is not taken for full.           *)
BugFull == Top.index_head + Top.tokensc > Top.capacity

Full == Top.index_head + Top.tokensc + 1 > Top.capacity

(* list_add; behind the array is memory of others.                         *)
Add(token) ==
  /\ phase = "fill"
  /\ LET capacity == IF Full THEN Wrap(Top.capacity * 2) ELSE Top.capacity
     IN  /\ memory' = IF Full THEN capacity ELSE memory
         /\ overrun' = (Top.index_head + Top.tokensc >= memory')
         /\ SetTop([Top EXCEPT !.capacity = capacity,
                               !.tokens = Append(@, token),
                               !.tokensc = Wrap(@ + 1),
                               !.tokens_stored = Wrap(@ + 1)])
  /\ phase' = IF overrun' THEN "undefined" ELSE phase
  /\ UNCHANGED made

StartParser ==
  /\ phase = "fill"
  /\ phase' = "parse"
  /\ UNCHANGED <<memory, overrun, lists, made>>

(* list_copy at the start of a routine.                                    *)
Copy ==
  /\ phase = "parse" /\ Len(lists) <= MaxDepth
  /\ lists' = Append(lists, Top)
  /\ made' = Append(made, <<>>)
  /\ UNCHANGED <<phase, memory, overrun>>

(* list_size, all that is looked at before the head.                       *)
OnCopy == phase = "parse" /\ Len(lists) > 1 /\ Top.tokensc > 0

AtToken == OnCopy /\ Top.index_head < Len(Top.tokens)

(* list_consume, which does not look how much there is.                    *)
Consume(amount) ==
  /\ SetTop([Top EXCEPT !.tokensc = Wrap(@ - amount), !.index_head = Wrap(@ + amount)])
  /\ made' = [made EXCEPT ![Len(made)] = @ \o [i \in 1..amount |-> Top.index_head + i]]
  /\ UNCHANGED <<phase, memory, overrun>>

(* list_expect, where the token is the one expected.                       *)
Expect == AtToken /\ Consume(1)

(* makeStmt at break, continue or throw: the token behind it is taken      *)
(* without a look, and where there is none the count wraps.                *)
Jump == AtToken /\ Top.tokens[Top.index_head + 1] = "break" /\ Consume(2)

(* A look at the head of a list whose count has wrapped.                   *)
LookBehind ==
  /\ OnCopy /\ ~AtToken
  /\ phase' = "undefined"
  /\ UNCHANGED <<memory, overrun, lists, made>>

(* The routine found what it looked for: list_set on the caller's list,    *)
(* and the node goes into the caller's.                                    *)
Accept ==
  /\ phase = "parse" /\ Len(lists) > 1
  /\ LET outer == Len(lists) - 1
     IN  /\ lists' = [SubSeq(lists, 1, outer) EXCEPT ![outer] = Top]
         /\ made' = [SubSeq(made, 1, outer) EXCEPT ![outer] = @ \o made[Len(made)]]
  /\ UNCHANGED <<phase, memory, overrun>>

(* mutant: a routine that gives up hands its list back as well.            *)
BugReject ==
  /\ phase = "parse" /\ Len(lists) > 1
  /\ lists' = [SubSeq(lists, 1, Len(lists) - 1) EXCEPT ![Len(lists) - 1] = Top]
  /\ made' = SubSeq(made, 1, Len(made) - 1)
  /\ UNCHANGED <<phase, memory, overrun>>

(* It did not: freeTokenListShallow.                                       *)
Reject ==
  /\ phase = "parse" /\ Len(lists) > 1
  /\ lists' = SubSeq(lists, 1, Len(lists) - 1)
  /\ made' = SubSeq(made, 1, Len(made) - 1)
  /\ UNCHANGED <<phase, memory, overrun>>

Next ==
  \/ \E token \in Token : Add(token)
  \/ StartParser \/ Copy \/ Expect \/ Jump \/ LookBehind \/ Accept \/ Reject

Spec == Init /\ [][Next]_vars

-----------------------------------------------------------------------------
(* Properties.                                                             *)

List == [tokens : Seq(Token),
         capacity : 0..(Modulus - 1), index_head : 0..(Modulus - 1),
         tokensc : 0..(Modulus - 1), tokens_stored : 0..(Modulus - 1)]

(* The numbers of every list fit in their width, and a list is at hand.    *)
TypeOK ==
  /\ phase \in {"fill", "parse", "undefined"}
  /\ memory \in Nat /\ overrun \in BOOLEAN
  /\ lists \in Seq(List) /\ lists # <<>>
  /\ made \in Seq(Seq(Nat)) /\ Len(made) = Len(lists)

(* Where the routine of list d started.                                    *)
Before(d) == IF d = 1 THEN 0 ELSE lists[d - 1].index_head

(* The count of a list is that of the tokens it still holds, but where a   *)
(* break was the last token of the file.                                   *)
CountsTheRest(l) ==
  \/ l.index_head + l.tokensc = Len(l.tokens)
  \/ /\ l.index_head = Len(l.tokens) + 1 /\ l.tokensc = Modulus - 1
     /\ l.tokens # <<>> /\ l.tokens[Len(l.tokens)] = "break"

(* Whichever alternatives were tried and given up, every token before the  *)
(* head of a list went into one node: the node of a routine is made of the *)
(* tokens from the place where the routine started, none skipped and none  *)
(* taken twice, in their order.  And a list counts what it still holds.    *)
EachTokenOnce ==
  \A d \in 1..Len(lists) :
    /\ made[d] = [i \in 1..(lists[d].index_head - Before(d)) |-> Before(d) + i]
    /\ CountsTheRest(lists[d])

(* list_add doubles the capacity when there is not enough of it, and does  *)
(* not write outside the array as long as the tokens are at most half of   *)
(* what a field can count: only then the doubled capacity does not wrap.   *)
WritesInside == Len(lists[1].tokens) <= Modulus \div 2 => ~overrun

=============================================================================
