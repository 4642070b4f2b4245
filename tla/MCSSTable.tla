----------------------------- MODULE MCSSTable ------------------------------
(* Instances of SSTable for TLC. *)
EXTENDS SSTable

\* The empty key, and three of one byte or two.
Lengths == [k \in 0 .. 3 |-> CASE k = 0 -> 0 [] k = 2 -> 2 [] OTHER -> 1]
OneValue == [v \in {"v"} |-> 1]

=============================================================================
