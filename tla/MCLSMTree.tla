----------------------------- MODULE MCLSMTree ------------------------------
(* Instances of LSMTree for TLC. *)
EXTENDS LSMTree, TLC

Symmetry == Permutations(Keys) \cup Permutations(Vals)

=============================================================================
