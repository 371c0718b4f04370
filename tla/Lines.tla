-------------------------------- MODULE Lines -------------------------------
(* The lines of the subroutine symbol table (tables/sst), by their index.  *)
EXTENDS Naturals

CONSTANT Size     \* sst_size(sst)

ASSUME SizeAssumption == Size \in Nat

Line == 1..Size

=============================================================================
