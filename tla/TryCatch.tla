------------------------------ MODULE TryCatch ------------------------------
(***************************************************************************)
(* Two passes of the transpiler over the body of one subroutine, and what  *)
(* they have to agree on: where an exception goes.                         *)
(*                                                                         *)
(* The typechecker (transpiler/main/typechecker) counts the try-blocks it  *)
(* is inside of and rejects a throw, or a call of a throwing subroutine,   *)
(* that no try-block encloses unless the subroutine is marked `throws`.    *)
(* The code generator (transpiler/main/code_gen/c_code_gen) then walks the *)
(* same body and writes, for each of them, the jmp_buf to use: `_jb<N>` of *)
(* try-statement number N, or the hidden parameter `_jb`, which only a     *)
(* `throws` subroutine has.  The counter of the first and the flag of the  *)
(* second are different notions of "inside a try-block".                   *)
(*                                                                         *)
(* A body is the sequence of its statements in source order, the blocks    *)
(* bracketed by the event that opens them and "close":                     *)
(*   "throw"   a throw statement                                           *)
(*   "call"    a call of a throwing subroutine where the typechecker       *)
(*             looks: a call statement, a returned or assigned expression, *)
(*             and the arguments there that it visits                      *)
(*   "hidden"  such a call where it does not look: in the condition of an  *)
(*             if, while, loop, for or switch, in an argument of a C       *)
(*             subroutine, in an argument of an integer type, in an index  *)
(*   "if", "else", "loop" (while, loop and for), "case", "try", "catch"    *)
(*             the block of that statement                                 *)
(***************************************************************************)
EXTENDS Naturals, Sequences, FiniteSets

CONSTANTS Bodies,       \* the bodies the parser can deliver
          MaxEvents     \* bound: events of a body

Leaf    == {"throw", "call", "hidden"}
Opening == {"if", "else", "loop", "case", "try", "catch"}
Event   == Leaf \cup Opening \cup {"close"}

VARIABLES
  body,                   \* the statements of the subroutine
  throws,                 \* is it marked `throws`?
  phase,                  \* the pass that runs, or how it ended
  pc,                     \* the event the pass is at
  open,                   \* blocks entered and not left: the C call stack
  depth_inside_try_stmt,  \* TCCtx
  tc_err_count,           \* TCCtx
  in_try_block,           \* Ctx
  index_try_stmt,         \* Ctx
  emitted                 \* position |-> jmp_buf written there

vars == <<body, throws, phase, pc, open, depth_inside_try_stmt,
          tc_err_count, in_try_block, index_try_stmt, emitted>>

tcctx == <<depth_inside_try_stmt, tc_err_count>>
ctx   == <<in_try_block, index_try_stmt>>

Parameter == 0    \* "*_jb" or "_jb"; a number N > 0 stands for "_jb<N>"

-----------------------------------------------------------------------------
(* The block structure of a body.                                          *)

Opened(b, i) == Cardinality({k \in 1..i : b[k] \in Opening})
Closed(b, i) == Cardinality({k \in 1..i : b[k] = "close"})
Level(b, i)  == Opened(b, i) - Closed(b, i)

IsCloseOf(b, i, j) ==
  /\ j \in i..Len(b)
  /\ Level(b, j) < Level(b, i)
  /\ \A k \in i..(j - 1) : Level(b, k) >= Level(b, i)

CloseOf(b, i) == CHOOSE j \in i..Len(b) : IsCloseOf(b, i, j)

(* What the parser guarantees of a body: each block it opens is closed.    *)
(* index_try_stmt and depth_inside_try_stmt are uint16_t: fewer events     *)
(* than 2^16 in one body keep them from wrapping.                          *)
ASSUME BodiesAssumption ==
  /\ MaxEvents \in Nat
  /\ MaxEvents < 65536
  /\ \A b \in Bodies :
       /\ b \in Seq(Event) /\ Len(b) <= MaxEvents
       /\ \A i \in 1..Len(b) :
            b[i] \in Opening => \E j \in i..Len(b) : IsCloseOf(b, i, j)

(* The number of a try-statement is the count of "try" up to it.           *)
TryNumber(b, i) == Cardinality({k \in 1..i : b[k] = "try"})

(* The try-blocks around position i, and the number of the innermost one.  *)
EnclosingTries(b, i) ==
  {t \in 1..i : b[t] = "try" /\ CloseOf(b, t) > i}

Handler(b, i) ==
  IF EnclosingTries(b, i) = {}
  THEN Parameter
  ELSE TryNumber(b, CHOOSE t \in EnclosingTries(b, i) :
                      \A u \in EnclosingTries(b, i) : u <= t)

RaisingAt(b) == {i \in 1..Len(b) : b[i] \in Leaf}

Unprotected(b) == {i \in RaisingAt(b) : EnclosingTries(b, i) = {}}

-----------------------------------------------------------------------------

Init ==
  /\ body \in Bodies
  /\ throws \in BOOLEAN
  /\ phase = "typecheck"
  /\ pc = 1
  /\ open = <<>>
  /\ depth_inside_try_stmt = 0
  /\ tc_err_count = 0
  /\ in_try_block = FALSE
  /\ index_try_stmt = 0
  /\ emitted = [i \in {} |-> Parameter]

At(ph, E) == phase = ph /\ pc <= Len(body) /\ body[pc] \in E

Step == pc' = pc + 1 /\ UNCHANGED <<body, throws, phase>>

Push(kind, index) == open' = Append(open, [kind |-> kind, index |-> index])

Pop == open' = SubSeq(open, 1, Len(open) - 1)

Top == open[Len(open)]

-----------------------------------------------------------------------------
(* The typechecker.                                                        *)

(* tc_throwstmt; check_throw_rules, of a call that is looked at, has the   *)
(* same two tests.                                                         *)
RaiseAllowed == throws \/ depth_inside_try_stmt > 0

TcRaise ==
  /\ At("typecheck", {"throw", "call"})
  /\ tc_err_count' = IF RaiseAllowed THEN tc_err_count ELSE tc_err_count + 1
  /\ Step
  /\ UNCHANGED <<open, depth_inside_try_stmt, ctx, emitted>>

(* tc_ifstmt, tc_whilestmt, tc_loopstmt, tc_switchstmt and tc_forstmt only *)
(* infer the type of their conditions, counts and ranges                   *)
(* (typecheck_stmts.c:82); tc_methodcall returns before the arguments of a *)
(* C subroutine, of which it has no Method; tc_methodcall_arg returns      *)
(* before tc_expr when an integer is given for an integer; tc_term passes  *)
(* by variables, and so their indices (typecheck_term.c:38), and           *)
(* tc_assignstmt by the indices of the variable assigned to.               *)
TcHidden ==
  /\ At("typecheck", {"hidden"})
  /\ Step
  /\ UNCHANGED <<open, tcctx, ctx, emitted>>

(* tc_ifstmt does not visit else_block, nor tc_switchstmt a case's block.  *)
TcSkipBlock ==
  /\ At("typecheck", {"else", "case"})
  /\ pc' = CloseOf(body, pc) + 1
  /\ UNCHANGED <<body, throws, phase, open, tcctx, ctx, emitted>>

TcEnterBlock ==
  /\ At("typecheck", {"if", "loop", "catch"})
  /\ Push(body[pc], 0)
  /\ Step
  /\ UNCHANGED <<tcctx, ctx, emitted>>

(* The first half of tc_trycatchstmt.                                      *)
BugTcEnterTry ==   \* mutant: the increment is missing
  /\ At("typecheck", {"try"})
  /\ Push("try", 0)
  /\ Step
  /\ UNCHANGED <<tcctx, ctx, emitted>>

TcEnterTry ==
  /\ At("typecheck", {"try"})
  /\ depth_inside_try_stmt' = depth_inside_try_stmt + 1
  /\ Push("try", 0)
  /\ Step
  /\ UNCHANGED <<tc_err_count, ctx, emitted>>

(* A block ends; after the try_block tc_trycatchstmt decrements.           *)
BugTcLeave ==   \* mutant: the decrement comes after the catch_block
  /\ At("typecheck", {"close"}) /\ open # <<>>
  /\ depth_inside_try_stmt' = IF Top.kind = "catch"
                              THEN depth_inside_try_stmt - 1
                              ELSE depth_inside_try_stmt
  /\ Pop
  /\ Step
  /\ UNCHANGED <<tc_err_count, ctx, emitted>>

TcLeave ==
  /\ At("typecheck", {"close"}) /\ open # <<>>
  /\ depth_inside_try_stmt' = IF Top.kind = "try"
                              THEN depth_inside_try_stmt - 1
                              ELSE depth_inside_try_stmt
  /\ Pop
  /\ Step
  /\ UNCHANGED <<tc_err_count, ctx, emitted>>

(* typecheck_ast returns; transpileAST stops here on an error, and         *)
(* transpileMethod starts on the body with index_try_stmt = 0 otherwise.   *)
TcReturn ==
  /\ phase = "typecheck" /\ pc > Len(body)
  /\ phase' = IF tc_err_count = 0 THEN "codegen" ELSE "rejected"
  /\ pc' = 1
  /\ index_try_stmt' = 0
  /\ UNCHANGED <<body, throws, open, tcctx, in_try_block, emitted>>

-----------------------------------------------------------------------------
(* The code generator.                                                     *)

Target == IF in_try_block THEN index_try_stmt ELSE Parameter

(* transpileThrowStmt, and transpileCall of a throwing subroutine.         *)
CgRaise ==
  /\ At("codegen", Leaf)
  /\ emitted' = [i \in DOMAIN emitted \cup {pc} |->
                   IF i = pc THEN Target ELSE emitted[i]]
  /\ Step
  /\ UNCHANGED <<open, tcctx, ctx>>

CgEnterBlock ==
  /\ At("codegen", Opening \ {"try"})
  /\ Push(body[pc], 0)
  /\ Step
  /\ UNCHANGED <<tcctx, ctx, emitted>>

(* transpileTryCatchStmt up to the try_block; its local `index` stays in   *)
(* the frame.                                                              *)
BugCgEnterTry ==   \* mutant: the new number is not stored in the context
  /\ At("codegen", {"try"})
  /\ in_try_block' = TRUE
  /\ Push("try", index_try_stmt + 1)
  /\ Step
  /\ UNCHANGED <<tcctx, index_try_stmt, emitted>>

CgEnterTry ==
  /\ At("codegen", {"try"})
  /\ index_try_stmt' = index_try_stmt + 1
  /\ in_try_block' = TRUE
  /\ Push("try", index_try_stmt + 1)
  /\ Step
  /\ UNCHANGED <<tcctx, emitted>>

(* A block ends; after the try_block in_try_block becomes false.           *)
BugCgLeave ==   \* mutant: the flag is cleared after the catch_block
  /\ At("codegen", {"close"}) /\ open # <<>>
  /\ in_try_block' = (in_try_block /\ Top.kind # "catch")
  /\ Pop
  /\ Step
  /\ UNCHANGED <<tcctx, index_try_stmt, emitted>>

CgLeave ==
  /\ At("codegen", {"close"}) /\ open # <<>>
  /\ in_try_block' = (in_try_block /\ Top.kind # "try")
  /\ Pop
  /\ Step
  /\ UNCHANGED <<tcctx, index_try_stmt, emitted>>

CgReturn ==
  /\ phase = "codegen" /\ pc > Len(body)
  /\ phase' = "done"
  /\ UNCHANGED <<body, throws, pc, open, tcctx, ctx, emitted>>

-----------------------------------------------------------------------------

Next ==
  \/ TcRaise \/ TcHidden \/ TcSkipBlock \/ TcEnterBlock \/ TcEnterTry
  \/ TcLeave \/ TcReturn
  \/ CgRaise \/ CgEnterBlock \/ CgEnterTry \/ CgLeave \/ CgReturn

Spec == Init /\ [][Next]_vars

-----------------------------------------------------------------------------
(* Properties.                                                             *)

Frame == [kind : Opening, index : Nat]

(* Every variable keeps its type; in particular the typechecker's counter  *)
(* never goes below zero, where the uint16_t of TCCtx would wrap.          *)
TypeOK ==
  /\ body \in Seq(Event)
  /\ throws \in BOOLEAN
  /\ phase \in {"typecheck", "codegen", "rejected", "done"}
  /\ pc \in Nat \ {0}
  /\ open \in Seq(Frame)
  /\ depth_inside_try_stmt \in Nat
  /\ tc_err_count \in Nat
  /\ in_try_block \in BOOLEAN
  /\ index_try_stmt \in Nat
  /\ DOMAIN emitted \subseteq Nat
  /\ \A i \in DOMAIN emitted : emitted[i] \in Nat

TriesIn(frames) == {k \in 1..Len(frames) : frames[k].kind = "try"}

OpenTries == TriesIn(open)

(* While the typechecker runs, depth_inside_try_stmt is the number of      *)
(* try-blocks it is inside of: tc_trycatchstmt restores it on every path,  *)
(* through any nesting.                                                    *)
DepthCountsOpenTries ==
  phase = "typecheck" => depth_inside_try_stmt = Cardinality(OpenTries)

(* Whenever the code generator would write `_jb<N>`, N is the innermost    *)
(* try-statement whose try-block is still open: the jmp_buf is declared in *)
(* an enclosing C block, and it is the right one.                          *)
LocalTargetIsInnermost ==
  phase = "codegen" /\ in_try_block =>
    \E k \in OpenTries :
      /\ open[k].index = index_try_stmt
      /\ \A j \in OpenTries : j <= k

(* The typechecker rejects a subroutine only for a reason: some throw or   *)
(* throwing call really is outside every try-block of a subroutine that is *)
(* not marked `throws`.                                                    *)
RejectedForAReason ==
  phase = "rejected" => ~throws /\ Unprotected(body) # {}

(* Where the typechecker does not come: the hidden expressions, and the    *)
(* else-blocks and cases, with all that is in them.                        *)
Overlooked(b, i) ==
  \/ b[i] = "hidden"
  \/ \E e \in 1..i : b[e] \in {"else", "case"} /\ i <= CloseOf(b, e)

(* Of an accepted subroutine that is not marked `throws`, what raises      *)
(* outside of its own try-blocks (docs/html/controlflow.html, rules of     *)
(* try / catch) is in one of these places: everywhere else, through any    *)
(* nesting and whatever was jumped over before, the check is complete.     *)
VisitedIsProtected ==
  phase \in {"codegen", "done"} /\ ~throws =>
    \A i \in Unprotected(body) : Overlooked(body, i)

(* What is written for a throw or a throwing call is the jmp_buf of the    *)
(* innermost try-block around it, and the parameter when there is none.    *)
HandlerIsInnermost ==
  \A i \in DOMAIN emitted : emitted[i] = Handler(body, i)

(* The same unless a try-statement inside that try-block was left before:  *)
(* any number of try-statements in sequence, in catch-blocks and in each   *)
(* other is handled right up to there.                                     *)
HandlerUntilNestedTry ==
  \A i \in DOMAIN emitted :
    LET Around == EnclosingTries(body, i)
        LeftInside(t) == body[t] = "try" /\ \A u \in Around : u < t
    IN  Around = {} \/ (\A t \in 1..i : ~LeftInside(t)) => emitted[i] = Handler(body, i)

=============================================================================
