----------------------------- MODULE MCEngines ------------------------------
(* Instances of Engines for TLC. *)
EXTENDS Engines, TLC

Symmetry == Permutations(Ids) \cup Permutations(Vals) \cup Permutations(Terms) \cup Permutations(Threads)

\* The engines share no cell: the vector index is checked in a process of its own.
Apart == {{"doc", "text"}, {"vector"}}

=============================================================================
