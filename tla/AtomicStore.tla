---------------------------- MODULE AtomicStore -----------------------------
(***************************************************************************)
(* What a store with transactions promises those who write to it: a        *)
(* transaction gathers writes in a buffer of its own, and takes effect as  *)
(* a whole, in one step and once, or not at all; so does every single      *)
(* write beside the transactions.                                          *)
(***************************************************************************)
EXTENDS Naturals

CONSTANTS
    Txns,    \* the transactions
    Cells,   \* what a single write changes
    Vals,    \* the values of a cell
    Absent   \* a cell without a value

VARIABLES
    store,   \* the contents
    buffer,  \* transaction -> its writes, a function from some of the cells
    ended,   \* the transactions that have committed or rolled back
    singles  \* the number of writes outside of transactions

vars == <<store, buffer, ended, singles>>

Contents == Vals \cup {Absent}

NoWrites == [c \in {} |-> Absent]

Init ==
    /\ store = [c \in Cells |-> Absent]
    /\ buffer = [t \in Txns |-> NoWrites]
    /\ ended = {}
    /\ singles = 0

\* A transaction gathers writes; nobody else notices.
Gather(t) ==
    /\ t \notin ended
    /\ LET w == buffer'[t] IN
         /\ DOMAIN w \subseteq Cells /\ w \in [DOMAIN w -> Contents]
         /\ buffer' = [buffer EXCEPT ![t] = w]
    /\ UNCHANGED <<store, ended, singles>>

Commit(t) ==
    /\ t \notin ended
    /\ ended' = ended \cup {t}
    /\ store' = [c \in Cells |-> IF c \in DOMAIN buffer[t] THEN buffer[t][c] ELSE store[c]]
    /\ UNCHANGED <<buffer, singles>>

Rollback(t) ==
    /\ t \notin ended
    /\ ended' = ended \cup {t}
    /\ buffer' = [buffer EXCEPT ![t] = NoWrites]
    /\ UNCHANGED <<store, singles>>

Single(c, v) ==
    /\ store' = [store EXCEPT ![c] = v]
    /\ singles' = singles + 1
    /\ UNCHANGED <<buffer, ended>>

Next ==
    \/ \E t \in Txns : Gather(t) \/ Commit(t) \/ Rollback(t)
    \/ \E c \in Cells, v \in Contents : Single(c, v)

Spec == Init /\ [][Next]_vars

=============================================================================
