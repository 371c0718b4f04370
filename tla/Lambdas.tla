------------------------------ MODULE Lambdas -------------------------------
(***************************************************************************)
(* The lifting of lambdas: fill_tables, then a visitor that puts a         *)
(* subroutine into the namespace it walks over for each lambda it finds as *)
(* an argument of a call, and leaves its name in the argument, then        *)
(* backfill_lambdas_into_sst.                                              *)
(*                                                                         *)
(* An expression is what visit_expr finds in it: calls and lambdas, by     *)
(* name.  A subroutine type is the number of its arguments.                *)
(***************************************************************************)
EXTENDS Naturals, FiniteSets, SequencesExt

CONSTANTS
  Call, Lambda,  \* the calls and the lambdas of a program
  LibC,          \* subroutines that are in the table without a method
  NULL,
  Programs,      \* the programs that may be given to transpileAST
  Capacity       \* what an unset capacity_methods may be

(* A program:                                                              *)
(*   namespaces  a sequence of sequences of methods [name, types, block]   *)
(*   block       [methods' blocks and lambdas -> calls and lambdas in it]  *)
(*   callee      [its calls -> name]                                       *)
(*   args        [its calls -> sequence of [first, inside]], first being a      *)
(*               lambda that is the argument's first term, inside the rest *)
(*   count_params [Lambda -> number]                                       *)
(*   skipped     what stands in a condition of while, a count of loop or a *)
(*               range of for                                              *)

VARIABLES
  program,
  methods,           \* ns->methods, as far as count_methods
  capacity_methods,  \* ns->capacity_methods, which ast_reader does not set
  room,              \* entries there is memory for
  sst,               \* the names in the table, with their methods
  term,              \* the first terms of the arguments
  lambda_num,
  pc, current_ns,
  i, j,              \* of visit_namespace, of the loop over the arguments
  todo               \* what the frames of the visitor have before them

vars == <<program, methods, capacity_methods, room, sst, term, lambda_num, pc, current_ns, i, j,
          todo>>
table == <<methods, capacity_methods, room, lambda_num>>
place == <<current_ns, i, j, todo>>

lambda_(n) == <<"lambda_", n>>

IsLambdaName(name) == name \in {lambda_(n) : n \in 0..Cardinality(Lambda)}

(* Entries in the block that malloc returns for count pointers.            *)
Usable(count) == IF count <= 3 THEN 3 ELSE 2 * (count \div 2) + 1

Line(m) == [name |-> m.name, method |-> m]

Init ==
  /\ program \in Programs
  /\ methods = program.namespaces
  /\ capacity_methods \in [DOMAIN methods -> Capacity]
  /\ room = [s \in DOMAIN methods |-> Usable(Len(methods[s]))]
  /\ sst = {} /\ lambda_num = 0 /\ pc = "fill"
  /\ term = [c \in DOMAIN program.callee |->
               [k \in DOMAIN program.args[c] |-> program.args[c][k].first]]
  /\ current_ns = 0 /\ i = 0 /\ j = 0 /\ todo = <<>>

-----------------------------------------------------------------------------

Methods == FlattenSeq(methods)

(* sst_add of the lines of some methods, and on to the next phase: it      *)
(* exits at a name that is there.                                          *)
Add(added, present, next) ==
  LET names == [k \in DOMAIN added |-> added[k].name]
  IN  IF IsInjective(names) /\ \A line \in present : line.name \notin Range(names)
      THEN /\ sst' = present \cup {Line(m) : m \in Range(added)}
           /\ pc' = next
      ELSE UNCHANGED sst /\ pc' = "exit"

fill_tables ==
  /\ pc = "fill"
  /\ Add(Methods, {[name |-> name, method |-> NULL] : name \in LibC}, "visit")
  /\ UNCHANGED <<program, table, term, place>>

(* mutant: the number of methods is read before the loop.                  *)
BugCountMethods == Len(program.namespaces[current_ns])

(* The loop over the methods reads their number, which may grow, each time.*)
CountMethods == Len(methods[current_ns])

(* visit_ast and visit_namespace.                                          *)
VisitNamespace ==
  /\ pc = "visit" /\ todo = <<>>
  /\ IF current_ns = 0 THEN TRUE ELSE i = CountMethods
  /\ IF current_ns = Len(methods)
     THEN pc' = "backfill" /\ UNCHANGED <<current_ns, i>>
     ELSE current_ns' = current_ns + 1 /\ i' = 0 /\ UNCHANGED pc
  /\ UNCHANGED <<program, table, sst, term, j, todo>>

VisitMethod ==
  /\ pc = "visit" /\ todo = <<>> /\ current_ns > 0
  /\ i < CountMethods
  /\ i' = i + 1
  /\ todo' = program.block[methods[current_ns][i + 1].block]
  /\ UNCHANGED <<program, table, sst, term, pc, current_ns, j>>

(* Conditions of while, counts of loop and ranges of for are passed by.    *)
Skip ==
  /\ pc = "visit" /\ todo # <<>> /\ Head(todo) \in program.skipped
  /\ todo' = Tail(todo)
  /\ UNCHANGED <<program, table, sst, term, pc, current_ns, i, j>>

(* visit_lambda, of one that is not the first term of an argument.         *)
VisitLambda ==
  /\ pc = "visit" /\ todo # <<>> /\ Head(todo) \in Lambda \ program.skipped
  /\ todo' = program.block[Head(todo)] \o Tail(todo)
  /\ UNCHANGED <<program, table, sst, term, pc, current_ns, i, j>>

call == Head(todo)

AtCall == pc = "visit" /\ todo # <<>> /\ Head(todo) \in Call \ program.skipped

(* The visitor has seen the arguments, they are visited themselves.        *)
VisitArgs ==
  /\ AtCall /\ j = Len(program.args[call])
  /\ j' = 0
  /\ todo' = FlattenSeq([k \in DOMAIN program.args[call] |-> program.args[call][k].inside])
               \o Tail(todo)
  /\ UNCHANGED <<program, table, sst, term, pc, current_ns, i>>

AtArg == AtCall /\ j < Len(program.args[call])

AtLambda == AtArg /\ term[call][j + 1] \in Lambda

PassArg ==
  /\ AtArg /\ ~AtLambda
  /\ j' = j + 1
  /\ UNCHANGED <<program, table, sst, term, pc, current_ns, i, todo>>

Known == \E line \in sst : line.name = program.callee[call]

Callee == CHOOSE line \in sst : line.name = program.callee[call]

(* lambdaType: NULL where a pointer is followed that is none.              *)
lambdaType ==
  IF Callee.method = NULL THEN NULL
  ELSE IF j + 1 > Len(Callee.method.types) THEN NULL ELSE Callee.method.types[j + 1]

(* The local variables are not in their table yet, so that a subroutine    *)
(* that was passed as an argument is not found.                            *)
NotFound ==
  /\ AtLambda /\ ~Known
  /\ pc' = "exit"
  /\ UNCHANGED <<program, table, sst, term, place>>

lambda == term[call][j + 1]

Full == capacity_methods[current_ns] = Len(methods[current_ns])

Doubled == Usable(2 * capacity_methods[current_ns])

HasRoom == Len(methods[current_ns]) < (IF Full THEN Doubled ELSE room[current_ns])

(* No type, no memory for one more method, or fewer names than the type    *)
(* has arguments.                                                          *)
Undefined ==
  /\ AtLambda /\ Known
  /\ IF lambdaType = NULL \/ ~HasRoom THEN TRUE ELSE program.count_params[lambda] < lambdaType
  /\ pc' = "undefined"
  /\ UNCHANGED <<program, table, sst, term, place>>

(* gen_subr_from_lambda; the types of its arguments are not looked at, as  *)
(* it is not in the table while lambdas are lifted.                        *)
Lifted(l, n) ==
  [name |-> lambda_(n), types |-> [k \in 1..lambdaType |-> NULL], block |-> l]

(* transpile_lambda: the lambda becomes a method, the argument a variable  *)
(* with its name.  Names beyond those that the type asks for are dropped.  *)
Lift ==
  /\ AtLambda /\ Known
  /\ IF lambdaType = NULL \/ ~HasRoom THEN FALSE ELSE program.count_params[lambda] >= lambdaType
  /\ IF Full
     THEN /\ capacity_methods' = [capacity_methods EXCEPT ![current_ns] = 2 * @]
          /\ room' = [room EXCEPT ![current_ns] = Doubled]
     ELSE UNCHANGED <<capacity_methods, room>>
  /\ lambda_num' = lambda_num + 1
  /\ methods' = [methods EXCEPT ![current_ns] = Append(@, Lifted(lambda, lambda_num))]
  /\ term' = [term EXCEPT ![call][j + 1] = lambda_(lambda_num)]
  /\ j' = j + 1
  /\ UNCHANGED <<program, sst, pc, current_ns, i, todo>>

(* Each method whose name begins with lambda_, and no other.               *)
backfill_lambdas_into_sst ==
  /\ pc = "backfill"
  /\ Add(SelectSeq(Methods, LAMBDA m : IsLambdaName(m.name)), sst, "done")
  /\ UNCHANGED <<program, table, term, place>>

Next ==
  \/ fill_tables \/ VisitNamespace \/ VisitMethod \/ Skip \/ VisitLambda \/ VisitArgs
  \/ PassArg \/ NotFound \/ Undefined \/ Lift \/ backfill_lambdas_into_sst

Spec == Init /\ [][Next]_vars

-----------------------------------------------------------------------------
(* Properties.                                                             *)

(* What stands directly in a call or a lambda.                             *)
Inside(item) ==
  IF item \in Lambda THEN Range(program.block[item])
  ELSE UNION {Range(arg.inside) \cup ({arg.first} \ {NULL}) : arg \in Range(program.args[item])}

Below[n \in Nat] ==
  IF n = 0 THEN program.skipped
  ELSE Below[n - 1] \cup UNION {Inside(item) : item \in Below[n - 1]}

(* What the visitor is not shown.                                          *)
Hidden == Below[Cardinality(Call \cup Lambda)]

(* When the lambdas have been lifted, each one that is an argument of a    *)
(* call the visitor is shown, however deep in other lambdas, is a method   *)
(* of its own, once, and what the argument says is the name of this method *)
(* and of nothing else in the table.                                       *)
LambdasAreLifted ==
  pc = "done" =>
    \A c \in DOMAIN term \ Hidden : \A k \in DOMAIN term[c] :
      LET l == program.args[c][k].first
      IN  l # NULL =>
            /\ Cardinality({n \in DOMAIN Methods : Methods[n].block = l}) = 1
            /\ \A line \in sst : line.name = term[c][k] => line.method.block = l
            /\ \E line \in sst : line.name = term[c][k]
=============================================================================
