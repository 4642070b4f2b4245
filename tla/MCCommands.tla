----------------------------- MODULE MCCommands -----------------------------
(* Instances of Commands for TLC. *)
EXTENDS Commands

Two == {<<"a">>, <<"b">>}
\* A key and one under it: a scan of the first finds the members of the second.
Nested == {<<"a">>, <<"a", "b">>}
TwoMembers == {<<"f">>, <<"g">>}
OneMember == {<<"f">>}
ByName == [m \in TwoMembers |-> IF m = <<"f">> THEN 0 ELSE 1]
\* The first key takes any type, the second only a set, and a string from MSET.
AnyAndSet == [k \in Two |-> IF k = <<"a">> THEN Scanned \cup {"string", "list"} ELSE {"set"}]
AnyOfBoth == [k \in Nested |-> Scanned \cup {"string", "list"}]
\* Two integers and a word.
Contents == {0, 1, Word}
Pushed == {0, Word}

=============================================================================
