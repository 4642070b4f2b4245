----------------------------- MODULE DurableMap -----------------------------
(***************************************************************************)
(* What a durable key-value store promises, whatever it is made of.        *)
(* store is the map its writes have built, writes how many it accepted;    *)
(* fallback is the set of maps a crash may leave behind.  A write changes  *)
(* one key and its map joins fallback; everything else the store does on   *)
(* its own account (syncing, flushing, compacting, purging) leaves store   *)
(* alone and may only make fallback smaller; a recovery comes up with a    *)
(* member of fallback, which from then on is the whole truth.              *)
(***************************************************************************)
EXTENDS Naturals

CONSTANTS
    Keys,   \* the keys
    Vals,   \* the values a key can be given
    Absent  \* what a key without a value maps to

VARIABLES store, fallback, writes

vars == <<store, fallback, writes>>

Maps == [Keys -> Vals \cup {Absent}]

TypeOK ==
    /\ store \in Maps
    /\ fallback \subseteq Maps
    /\ writes \in Nat

Init ==
    /\ store = [k \in Keys |-> Absent]
    /\ fallback = {store}
    /\ writes = 0

\* Give key k the value v, or remove it (v = Absent).
Update(k, v) ==
    /\ store' = [store EXCEPT ![k] = v]
    /\ fallback' \subseteq fallback \cup {store'}
    /\ store' \in fallback'
    /\ writes' = writes + 1

\* The store settles some of what a crash could still undo.
Settle ==
    /\ store' = store
    /\ fallback' \subseteq fallback
    /\ store \in fallback'
    /\ UNCHANGED writes

\* The store comes up after a crash.
Recover ==
    /\ store' \in fallback
    /\ fallback' = {store'}
    /\ UNCHANGED writes

Next ==
    \/ \E k \in Keys, v \in Vals \cup {Absent} : Update(k, v)
    \/ Settle
    \/ Recover

Spec == Init /\ [][Next]_vars

=============================================================================
