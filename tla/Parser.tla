------------------------------- MODULE Parser -------------------------------
(***************************************************************************)
(* The parser (parser/main): its routines at work on the tokens of a file. *)
(* Each works on a copy of the list it was given; where it finds what it   *)
(* looks for the copy replaces the list of the caller, otherwise the       *)
(* caller goes on with the list it still has, or ends the process.         *)
(*                                                                         *)
(* The tokens need not be known in advance: a token is a set of kinds, of  *)
(* which reading it rules some out.  A behaviour stands for those of every *)
(* file whose tokens are in the sets it ends with.                         *)
(***************************************************************************)
EXTENDS ParserRoutines, FiniteSets

CONSTANTS Files,       \* sequences of sets of kinds
          MaxParams    \* LAMBDA_MAX_PARAMS, 10

ASSUME ParserAssumption == MaxParams \in Nat \ {0}

VARIABLES
  file,     \* what is known of the tokens
  stack,    \* the routines at work: their step, the list of each from token
            \* `from` on, of which it has consumed those up to `pos`, and how
            \* many pointers in its node are NULL that must not be
  failed,   \* has the routine that was called last returned NULL?
  phase     \* "parse", "written", "refused" or "undefined"

vars == <<file, stack, failed, phase>>

Frame(r, p) == [routine |-> r, step |-> 1, from |-> p, pos |-> p, nulls |-> 0]

Init ==
  /\ file \in Files
  /\ stack = <<Frame("Namespace", 0)>>
  /\ failed = FALSE
  /\ phase = "parse"

-----------------------------------------------------------------------------

Top    == stack[Len(stack)]
Rest   == SubSeq(stack, 1, Len(stack) - 1)
Caller == Routine[Rest[Len(Rest)].routine][Rest[Len(Rest)].step]
Now    == Routine[Top.routine][Top.step]
Size   == Len(file) - Top.pos            \* list_size

At(op) == phase = "parse" /\ ~failed /\ Now.op = op

(* The token `d` places behind the head is, or is not, of a kind in K.     *)
Sees(d, K) ==
  /\ file[Top.pos + 1 + d] \cap K # {}
  /\ file' = [file EXCEPT ![Top.pos + 1 + d] = @ \cap K]

Moved(f, to, consumed, nulls) ==
  [f EXCEPT !.step = IF to = 0 THEN @ + 1 ELSE to, !.pos = @ + consumed, !.nulls = @ + nulls]

(* `frames` are the routines at work, the last of them at the step before. *)
Goto(frames, to, consumed, nulls) ==
  stack' = [frames EXCEPT ![Len(frames)] = Moved(@, to, consumed, nulls)]

Succeed(consumed) ==
  /\ Goto(stack, Now.yes, consumed, 0)
  /\ failed' = FALSE
  /\ UNCHANGED phase

Fail ==
  \/ /\ Now.no > 0
     /\ Goto(stack, Now.no, 0, 0)
     /\ failed' = FALSE
     /\ UNCHANGED phase
  \/ /\ Now.no = StoreNull
     /\ Goto(stack, Now.yes, 0, 1)
     /\ failed' = FALSE
     /\ UNCHANGED phase
  \/ /\ Now.no \in {ReturnNull, ReadFreed}
     /\ stack' = Rest
     /\ failed' = TRUE
     /\ UNCHANGED phase
  \/ /\ Now.no = EndProcess
     /\ phase' = "refused"
     /\ UNCHANGED <<stack, failed>>
  \/ /\ Now.no \in {UseFreed, ReadFreed}
     /\ phase' = "undefined"
     /\ UNCHANGED <<stack, failed>>

Test(holds) == IF holds THEN Succeed(0) ELSE Fail

NeedTokens == At("need") /\ Test(Size >= Now.of) /\ UNCHANGED file

(* mutant: room for one parameter more.                                    *)
BugHasRoom ==
  /\ At("room")
  /\ LET commas == {p \in (Top.from + 1)..Top.pos : file[p] = {","}}
     IN  Test(Cardinality(commas) < MaxParams)
  /\ UNCHANGED file

HasRoom ==
  /\ At("room")
  /\ LET commas == {p \in (Top.from + 1)..Top.pos : file[p] = {","}}
     IN  Test(Cardinality(commas) + 1 < MaxParams)
  /\ UNCHANGED file

(* list_expect looks whether there is a token, and consumes the one it     *)
(* expects.                                                                *)
ExpectToken ==
  /\ At("expect")
  /\ \/ Size > 0 /\ Sees(0, Now.of) /\ Succeed(1)
     \/ Size > 0 /\ Sees(0, Token \ Now.of) /\ Fail
     \/ Size = 0 /\ Fail /\ UNCHANGED file

StartsWith ==
  /\ At("starts")
  /\ \/ Size > 0 /\ Sees(0, Now.of) /\ Succeed(0)
     \/ Size > 0 /\ Sees(0, Token \ Now.of) /\ Fail
     \/ Size = 0 /\ Fail /\ UNCHANGED file

(* list_head and list_get do not: behind the last token the array holds    *)
(* nothing that was written.                                               *)
Look(op, d) ==
  /\ At(op) /\ Size > d
  /\ \/ Sees(d, Now.of) /\ Succeed(0)
     \/ Sees(d, Token \ Now.of) /\ Fail

IsHead   == Look("is", 0)
IsSecond == Look("second", 1)

(* list_head_without_annotations passes over `d` annotations.              *)
IsAhead ==
  /\ At("ahead")
  /\ \E d \in 0..(Size - 1) :
       LET head == Top.pos + 1 + d
       IN  \E K \in {Now.of, Token \ (Now.of \cup (IF d + 1 = Size THEN {} ELSE {"annot"}))} :
             /\ \A p \in (Top.pos + 1)..(head - 1) : "annot" \in file[p]
             /\ file[head] \cap K # {}
             /\ file' = [p \in 1..Len(file) |->
                           IF p \in (Top.pos + 1)..(head - 1) THEN {"annot"}
                           ELSE IF p = head THEN file[p] \cap K ELSE file[p]]
             /\ IF K = Now.of THEN Succeed(0) ELSE Fail

(* parse_astnode consumes the annotations, but never the last token.       *)
TakeAnnotation ==
  /\ At("annotations") /\ Size > 1
  /\ Sees(0, {"annot"})
  /\ Goto(stack, Top.step, 1, 0)
  /\ UNCHANGED <<failed, phase>>

NoAnnotation ==
  /\ At("annotations")
  /\ \/ Size > 1 /\ Sees(0, Token \ {"annot"})
     \/ Size = 1 /\ UNCHANGED file
  /\ Succeed(0)

ReadBehindEnd ==
  /\ phase = "parse" /\ ~failed
  /\ \/ Now.op \in {"is", "ahead", "annotations"} /\ Size <= 0
     \/ Now.op = "second" /\ Size <= 1
  /\ phase' = "undefined"
  /\ UNCHANGED <<file, stack, failed>>

ConsumeTokens == At("consume") /\ Succeed(Now.of) /\ UNCHANGED file

CallRoutine ==
  /\ At("call")
  /\ stack' = Append(stack, Frame(Now.of, Top.pos))
  /\ UNCHANGED <<file, failed, phase>>

(* The routine that was called returned NULL.                              *)
CallFailed == phase = "parse" /\ failed /\ Fail /\ UNCHANGED file

(* list_set on the list of the caller, which goes on with the node.        *)
AcceptNode ==
  /\ At("accept") /\ Len(stack) > 1
  /\ Goto(Rest, Caller.yes, Top.pos - Top.from, Top.nulls)
  /\ UNCHANGED <<file, failed, phase>>

(* build_ast_file: tokens left over are an error.  The writer follows the  *)
(* pointers of the tree.                                                   *)
WriteFile ==
  /\ At("accept") /\ Len(stack) = 1
  /\ phase' = CASE Size > 0                    -> "refused"
               [] Size <= 0 /\ Top.nulls > 0 -> "undefined"
               [] OTHER                      -> "written"
  /\ UNCHANGED <<file, stack, failed>>

ExitProcess ==
  /\ At("exit")
  /\ phase' = "refused"
  /\ UNCHANGED <<file, stack, failed>>

Next ==
  \/ NeedTokens \/ HasRoom \/ ExpectToken \/ StartsWith \/ IsHead \/ IsSecond
  \/ IsAhead \/ TakeAnnotation \/ NoAnnotation \/ ReadBehindEnd
  \/ ConsumeTokens \/ CallRoutine \/ CallFailed \/ AcceptNode \/ WriteFile
  \/ ExitProcess

SafeSpec == Init /\ [][Next]_vars

(* The parser is a plain sequential program: it keeps running.             *)
Spec == SafeSpec /\ WF_vars(Next)

-----------------------------------------------------------------------------
(* A routine that is at work already is called again only when tokens were *)
(* consumed in between: the recursion is bounded by the length of the file *)
(* and not only by the stack of the process.                               *)
NoLeftRecursion ==
  \A a, b \in 1..Len(stack) :
    a < b /\ stack[a].routine = stack[b].routine => stack[a].from < stack[b].from

=============================================================================
