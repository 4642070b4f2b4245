-------------------------- MODULE MCWriteAheadLog ---------------------------
(* Instances of WriteAheadLog for TLC. *)
EXTENDS WriteAheadLog

Symmetry == Permutations(Threads)
AllModes == {"always", "every_sec", "none"}

=============================================================================
