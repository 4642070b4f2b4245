--------------------------- MODULE MCConnections ----------------------------
(* Instances of Connections for TLC. *)
EXTENDS Connections

Array(n) == <<[is |-> "array", n |-> n], CRLF>>
Bulk(data) == <<[is |-> "bulk", n |-> Len(data)], CRLF>> \o data \o <<CRLF>>
Inline == <<Byte, CRLF>>
Null == <<[is |-> "bulk", n |-> -1], CRLF>>

\* A request of two arguments, one of which holds a line end; one without
\* any; an inline request; an argument that is null.
Pipelined ==
    "c1" :> <<Array(2) \o Bulk(<<Byte>>) \o Bulk(<<Byte, CRLF>>), Inline, Array(1) \o Bulk(<<>>)>>
    @@ "c2" :> <<Array(2) \o Bulk(<<CRLF>>) \o Null, Inline>>

\* Answers of every kind, one in the other, with a null and a line end.
Str(data) == [is |-> "str", data |-> data]
Answers ==
    "c1" :> <<[is |-> "list", items |-> <<Str(<<Byte, CRLF>>), [is |-> "none"],
                    [is |-> "dict", pairs |-> <<<<Str(<<>>), [is |-> "bool", n |-> 1]>>>>]>>],
              [is |-> "simple", data |-> <<Byte>>], [is |-> "error", data |-> <<Byte>>]>>
    @@ "c2" :> <<[is |-> "int", n |-> 7], [is |-> "none"]>>

\* A null in front of a request, and an error that quotes a line end.
WithNull == "c1" :> <<Null, Inline>>
TwoLines == "c1" :> <<[is |-> "error", data |-> <<Byte, CRLF, Byte>>], [is |-> "none"], [is |-> "none"]>>
         @@ "c2" :> <<[is |-> "none"], [is |-> "none"]>>

=============================================================================
