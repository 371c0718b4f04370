---------------------------- MODULE StructReorder ---------------------------
(***************************************************************************)
(* The reordering of the members of a structure before it is written to C  *)
(* (struct_reorder): a bubble sort that puts the largest members first.    *)
(*                                                                         *)
(* The constructor make<Struct> takes its arguments in the declared order, *)
(* and structures are laid out in the order computed here: members must    *)
(* neither be lost nor doubled, and two compilations must agree.           *)
(***************************************************************************)
EXTENDS Integers

CONSTANT Count    \* StructDecl.count_members

(* count_members is 16 bits wide, and `count_members-1` is computed in int.*)
ASSUME CountAssumption == Count \in Nat /\ Count < 65536

Place == 1..Count

(* NoSize: the type of the member is a type parameter.                     *)
NoSize == 0

Sizes == {1, 2, 4, 8, NoSize}

VARIABLES
  size,     \* sizeof_structmember of the member declared at a place
  res,      \* place |-> declared place of the member that stands there now
  n,        \* passes done
  i,        \* place of the pair to compare
  pc        \* "sorting", "done", "exit"

vars == <<size, res, n, i, pc>>

Init ==
  /\ size \in [Place -> Sizes]
  /\ res = [p \in Place |-> p]
  /\ n = 0 /\ i = 1
  /\ pc = "sorting"

-----------------------------------------------------------------------------

(* mutant: equals are swapped too.                                         *)
BugBefore(a, b) == size[a] > size[b]

(* compare_structmembers_size(m1, m2) is not above 0.                      *)
Before(a, b) == size[a] >= size[b]

AtPair == pc = "sorting" /\ n < Count /\ i < Count

Comparing ==
  /\ AtPair
  /\ size[res[i]] # NoSize /\ size[res[i + 1]] # NoSize

(* sizeof_structmember exits.                                              *)
Exit ==
  /\ AtPair /\ ~Comparing
  /\ pc' = "exit"
  /\ UNCHANGED <<size, res, n, i>>

Keep ==
  /\ Comparing /\ Before(res[i], res[i + 1])
  /\ i' = i + 1
  /\ UNCHANGED <<size, res, n, pc>>

(* mutant: the second assignment reads what the first one has overwritten. *)
BugSwap ==
  /\ Comparing /\ ~Before(res[i], res[i + 1])
  /\ res' = [res EXCEPT ![i] = res[i + 1]]
  /\ i' = i + 1
  /\ UNCHANGED <<size, n, pc>>

Swap ==
  /\ Comparing /\ ~Before(res[i], res[i + 1])
  /\ res' = [res EXCEPT ![i] = res[i + 1], ![i + 1] = res[i]]
  /\ i' = i + 1
  /\ UNCHANGED <<size, n, pc>>

(* mutant: a pass may end before the last pair is compared.                *)
BugEndPass ==
  /\ pc = "sorting" /\ n < Count /\ i >= Count - 1
  /\ n' = n + 1 /\ i' = 1
  /\ UNCHANGED <<size, res, pc>>

EndPass ==
  /\ pc = "sorting" /\ n < Count /\ i >= Count
  /\ n' = n + 1 /\ i' = 1
  /\ UNCHANGED <<size, res, pc>>

Return ==
  /\ pc = "sorting" /\ n >= Count
  /\ pc' = "done"
  /\ UNCHANGED <<size, res, n, i>>

Next == Exit \/ Keep \/ Swap \/ EndPass \/ Return

Spec == Init /\ [][Next]_vars

-----------------------------------------------------------------------------
(* Properties.                                                             *)

(* The arrays keep their length and the indices stay inside them.          *)
TypeOK ==
  /\ size \in [Place -> Sizes]
  /\ res \in [Place -> Place]
  /\ n \in 0..Count
  /\ i \in Nat \ {0}
  /\ i <= Count \/ i = 1
  /\ pc \in {"sorting", "done", "exit"}

(* No member is lost and none is doubled, at any time of the sort.         *)
EachMemberOnce ==
  /\ \A p, q \in Place : res[p] = res[q] => p = q
  /\ \A m \in Place : \E p \in Place : res[p] = m

(* Members of one size never change their order: the layout depends on the *)
(* declaration only.                                                       *)
EqualsStayInOrder ==
  \A p, q \in Place : p < q /\ size[res[p]] = size[res[q]] => res[p] < res[q]

(* At the end no member stands before a larger one.                        *)
LargestFirst ==
  pc = "done" => \A p, q \in Place : p < q => size[res[p]] >= size[res[q]]

=============================================================================
