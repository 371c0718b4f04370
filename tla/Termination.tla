----------------------------- MODULE Termination ----------------------------
(***************************************************************************)
(* What the termination analysis promises (abstract specification).        *)
(*                                                                         *)
(* The set of subroutines known to halt grows from the ones known at the   *)
(* start (the libC prototypes and generated constructors the symbol table  *)
(* declares so) by one rule: a subroutine whose body has no while loop,    *)
(* that calls no function pointer, and all of whose callees are known to   *)
(* halt, halts.  The rule is applied in any order until it adds nothing:   *)
(* the result is the least set closed under it.                            *)
(***************************************************************************)
EXTENDS Naturals

CONSTANT Size     \* lines of the subroutine symbol table

Line == 1..Size

VARIABLES
  user,           \* lines with a body (SSTLine.method # NULL)
  has_while,      \* lines whose body contains a while statement
  callees,        \* line |-> lines it calls, as the function analyzer found
  calls_fn_ptrs,  \* lines that may call through a function pointer
  halting         \* lines known to halt

program == <<user, has_while, callees, calls_fn_ptrs>>
vars    == <<program, halting>>

TypeOK ==
  /\ user \subseteq Line
  /\ has_while \subseteq Line
  /\ callees \in [Line -> SUBSET Line]
  /\ calls_fn_ptrs \subseteq Line
  /\ halting \subseteq Line

Init == TypeOK /\ halting \cap user = {}

Justified(l) ==
  /\ l \in user \ (has_while \cup calls_fn_ptrs)
  /\ callees[l] \subseteq halting

Infer(l) ==
  /\ l \notin halting
  /\ Justified(l)
  /\ halting' = halting \cup {l}
  /\ UNCHANGED program

Next == \E l \in Line : Infer(l)

SafeSpec == Init /\ [][Next]_vars

Spec == SafeSpec /\ WF_vars(Next)

=============================================================================
