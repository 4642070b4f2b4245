--------------------------- MODULE MCTransactions ---------------------------
(* Instances of Transactions for TLC. *)
EXTENDS Transactions, TLC

Symmetry == Permutations(Keys) \cup Permutations(Vals) \cup Permutations(Txns)

=============================================================================
