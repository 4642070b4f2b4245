---------------------------- MODULE Connections -----------------------------
(***************************************************************************)
(* The RESP connections of the TCP server: the streaming parser and the    *)
(* serializer (zenith/protocol/resp.py), and the loop that feeds the one,  *)
(* runs what it yields and sends what the other makes of the answer        *)
(* (zenith/server/tcp.py handle_client), for several clients on one event  *)
(* loop.                                                                   *)
(*                                                                         *)
(* A byte stream is a sequence of tokens, the finest pieces the parser     *)
(* tells apart: [is |-> "array", n |-> 2] is "*2", [is |-> "bulk", ...]    *)
(* is "$n", "int" is ":n", "simple" "+" and "error" "-", CRLF the end of a *)
(* line, "byte" a byte of a payload; a payload may hold CRLF too.  A read  *)
(* may end between any two tokens.                                         *)
(***************************************************************************)
EXTENDS Integers, SequencesExt

CONSTANTS
    Clients, \* the connections
    None,    \* Python's None
    Script,  \* client -> the requests it sends, each as its tokens
    Results  \* client -> what the engines answer to them

VARIABLES
    wire,    \* client -> what it has sent and the server has not read
    buffer,  \* client -> RESPParser._buffer
    at,      \* client -> "reading", "parsing", "draining" or "closed"
    replies, \* client -> the requests answered, in order
    busy     \* whose turn on the event loop it is, or "nobody"

vars == <<wire, buffer, at, replies, busy>>

CRLF == [is |-> "crlf", n |-> 0]
Byte == [is |-> "byte", n |-> 0]

Init ==
    /\ wire = [c \in Clients |-> FlattenSeq(Script[c])]
    /\ buffer = [c \in Clients |-> <<>>]
    /\ at = [c \in Clients |-> "reading"]
    /\ replies = [c \in Clients |-> <<>>]
    /\ busy = "nobody"

-----------------------------------------------------------------------------
(* The parser.  A result is a value and the number of tokens it took; 0    *)
(* tokens is "incomplete".                                                 *)

Incomplete == [value |-> None, took |-> 0]

\* The place of the first CRLF of b from i on, 0 if there is none.
LineEnd(b, i) ==
    LET E == {j \in i .. Len(b) : b[j] = CRLF}
    IN  IF E = {} THEN 0 ELSE CHOOSE j \in E : \A e \in E : j <= e

RECURSIVE ParseFrom(_, _), Elements(_, _, _, _)

\* RESPParser._parse_from: the object of b that begins at i.
ParseFrom(b, i) ==
    LET end == LineEnd(b, i)
        data == end + 1
        n == b[i].n
    IN
    IF i > Len(b) \/ end = 0 THEN Incomplete
    ELSE CASE b[i].is \in {"bulk", "array"} /\ n = -1 -> [value |-> None, took |-> data - i]
           [] b[i].is = "bulk" /\ n >= 0 ->
                IF data + n > Len(b) THEN Incomplete
                ELSE [value |-> SubSeq(b, data, data + n - 1), took |-> data + n + 1 - i]
           [] b[i].is = "array" /\ n >= 0 -> Elements(b, i, data, <<>>)
           [] OTHER -> [value |-> SubSeq(b, i, end - 1), took |-> data - i]

\* The array of b that begins at i, of which the elements done have been
\* parsed, as far as the token before j.
Elements(b, i, j, done) ==
    IF Len(done) = b[i].n THEN [value |-> done, took |-> j - i]
    ELSE LET element == ParseFrom(b, j) IN
         IF element.took = 0 THEN Incomplete
         ELSE Elements(b, i, j + element.took, Append(done, element.value))

\* get_next() before it takes anything from the buffer.
Next1(b) == IF b = <<>> THEN Incomplete ELSE ParseFrom(b, 1)

-----------------------------------------------------------------------------
(* The serializer *)

RECURSIVE Encode(_)

\* RESPSerializer.encode of a Python value.
Encode(r) ==
    CASE r.is = "none" -> <<[is |-> "bulk", n |-> -1], CRLF>>
      [] r.is \in {"int", "bool"} -> <<[is |-> "int", n |-> r.n], CRLF>>
      [] r.is \in {"simple", "error"} -> <<[is |-> r.is, n |-> 0]>> \o r.data \o <<CRLF>>
      [] r.is = "str" -> <<[is |-> "bulk", n |-> Len(r.data)], CRLF>> \o r.data \o <<CRLF>>
      [] r.is = "list" ->
            <<[is |-> "array", n |-> Len(r.items)], CRLF>>
                \o FlattenSeq([i \in DOMAIN r.items |-> Encode(r.items[i])])
      [] r.is = "dict" -> Encode([is |-> "list", items |-> FlattenSeq(r.pairs)])

\* What has been written to a client.
Sent(c) == FlattenSeq([i \in DOMAIN replies[c] |-> Encode(Results[c][i])])

-----------------------------------------------------------------------------
(* The connections *)

\* A read returns some of what has arrived.
ReadSome(c) ==
    /\ busy = "nobody" /\ at[c] = "reading" /\ wire[c] # <<>>
    /\ \E n \in 1 .. Len(wire[c]) :
         /\ buffer' = [buffer EXCEPT ![c] = @ \o SubSeq(wire[c], 1, n)]
         /\ wire' = [wire EXCEPT ![c] = SubSeq(@, n + 1, Len(@))]
    /\ at' = [at EXCEPT ![c] = "parsing"]
    /\ busy' = c
    /\ UNCHANGED replies

\* Mutant of Execute: one request for every read.
ExecuteOne(c) ==
    /\ busy = c /\ at[c] = "parsing"
    /\ Next1(buffer[c]).value # None
    /\ LET next == Next1(buffer[c]) IN
         /\ buffer' = [buffer EXCEPT ![c] = SubSeq(@, next.took + 1, Len(@))]
         /\ replies' = [replies EXCEPT ![c] = Append(@, next.value)]
    /\ at' = [at EXCEPT ![c] = "reading"]
    /\ busy' = "nobody"
    /\ UNCHANGED wire

\* get_next() yields a request, execute_command() runs it to its end and the
\* reply is written; the drain lets others run.
Execute(c) ==
    /\ busy = c /\ at[c] = "parsing"
    /\ Next1(buffer[c]).value # None
    /\ LET next == Next1(buffer[c]) IN
         /\ buffer' = [buffer EXCEPT ![c] = SubSeq(@, next.took + 1, Len(@))]
         /\ replies' = [replies EXCEPT ![c] = Append(@, next.value)]
    /\ at' = [at EXCEPT ![c] = "draining"]
    /\ busy' = "nobody"
    /\ UNCHANGED wire

\* Mutant of Await: what is left in the buffer is dropped.
AwaitClear(c) ==
    /\ busy = c /\ at[c] = "parsing"
    /\ Next1(buffer[c]).value = None
    /\ buffer' = [buffer EXCEPT ![c] = <<>>]
    /\ at' = [at EXCEPT ![c] = "reading"]
    /\ busy' = "nobody"
    /\ UNCHANGED <<wire, replies>>

\* get_next() yields None, for want of tokens or as the value of a null, and
\* the loop goes back to reading.
Await(c) ==
    /\ busy = c /\ at[c] = "parsing"
    /\ LET next == Next1(buffer[c]) IN
         /\ next.value = None
         /\ buffer' = [buffer EXCEPT ![c] = SubSeq(@, next.took + 1, Len(@))]
    /\ at' = [at EXCEPT ![c] = "reading"]
    /\ busy' = "nobody"
    /\ UNCHANGED <<wire, replies>>

\* Mutant of Drained: the handler goes on beside the others.
DrainedBeside(c) ==
    /\ busy = "nobody" /\ at[c] = "draining"
    /\ at' = [at EXCEPT ![c] = "parsing"]
    /\ UNCHANGED <<wire, buffer, replies, busy>>

\* The drain is over.
Drained(c) ==
    /\ busy = "nobody" /\ at[c] = "draining"
    /\ at' = [at EXCEPT ![c] = "parsing"]
    /\ busy' = c
    /\ UNCHANGED <<wire, buffer, replies>>

\* The client is gone: the connection is reset, whatever it waits for.
Reset(c) ==
    /\ busy = "nobody" /\ at[c] \in {"reading", "draining"}
    /\ at' = [at EXCEPT ![c] = "closed"]
    /\ UNCHANGED <<wire, buffer, replies, busy>>

Step(c) == ReadSome(c) \/ Execute(c) \/ Await(c) \/ Drained(c)

Next == \E c \in Clients : Step(c) \/ Reset(c)

\* The event loop runs every handler that can go on, and the network delivers.
Fairness == \A c \in Clients : WF_vars(Step(c))

Spec == Init /\ [][Next]_vars /\ Fairness

-----------------------------------------------------------------------------
(* Properties *)

\* What a request is to the one who reads it whole.
Meaning(c, i) == ParseFrom(Script[c][i], 1).value
Requests(c) == [i \in DOMAIN Script[c] |-> Meaning(c, i)]

\* One handler at a time is between two awaits (tcp.py handle_client).
TypeOK ==
    /\ at \in [Clients -> {"reading", "parsing", "draining", "closed"}]
    /\ busy \in Clients \cup {"nobody"}
    /\ \A c \in Clients : at[c] = "parsing" <=> busy = c

RECURSIVE Heard(_), Parsed(_)

\* What an answer is to a client whose parser is the server's.
Heard(r) ==
    CASE r.is = "none" -> None
      [] r.is \in {"int", "bool"} -> <<[is |-> "int", n |-> r.n]>>
      [] r.is \in {"simple", "error"} -> <<[is |-> r.is, n |-> 0]>> \o r.data
      [] r.is = "str" -> r.data
      [] r.is = "list" -> [i \in DOMAIN r.items |-> Heard(r.items[i])]
      [] r.is = "dict" -> Heard([is |-> "list", items |-> FlattenSeq(r.pairs)])

\* All that a parser takes from b.
Parsed(b) ==
    LET next == Next1(b) IN
    IF next.took = 0 THEN <<>> ELSE <<next.value>> \o Parsed(SubSeq(b, next.took + 1, Len(b)))

\* However the stream is cut into reads, and whatever the other connections
\* do, a client's requests are executed in order, each once and as it was
\* sent, and what it has been sent is their answers, one for each (resp.py:
\* "Can parse partial byte streams across multiple TCP packet fragments").
InOrder ==
    \A c \in Clients : \E n \in 0 .. Len(Script[c]) :
        /\ replies[c] = SubSeq(Requests(c), 1, n)
        /\ Parsed(Sent(c)) = [i \in 1 .. n |-> Heard(Results[c][i])]

\* A request that has arrived does not wait for the next one to arrive: before
\* a handler reads again it has answered every whole request it has read
\* (tcp.py handle_client, the inner loop).
NothingHeldBack ==
    \A c \in Clients : at[c] = "reading" => Next1(buffer[c]).took = 0

\* Every request is answered in the end, unless the connection is reset
\* (tcp.py handle_client).
Answered == \A c \in Clients : <>(replies[c] = Requests(c) \/ at[c] = "closed")

=============================================================================
