-------------------------- MODULE MCStringCommands --------------------------
(* Instances of StringCommands for TLC. *)
EXTENDS StringCommands, TLC

Symmetry == Permutations(Clients \ {Loop})

=============================================================================
