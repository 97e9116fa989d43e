-------------------------- MODULE MCTransactions --------------------------
(* Instances of Transactions for TLC. *)
EXTENDS Transactions, TLC

Symmetry == Permutations(Conns)

=============================================================================
