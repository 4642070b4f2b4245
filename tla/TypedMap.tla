------------------------------ MODULE TypedMap ------------------------------
(***************************************************************************)
(* What the key-value engine promises its clients: every key has nothing   *)
(* or one value of one type (a string, a hash, a list, a set, a sorted     *)
(* set) and may have a deadline; a command changes the key it names and no *)
(* other; when the deadline comes the value is gone for good.              *)
(***************************************************************************)
EXTENDS Integers, Sequences

CONSTANTS
    Keys,    \* the keys
    Members, \* hash fields and members of sets and sorted sets
    Vals,    \* strings, elements of lists, contents of fields, scores
    Present, \* what a set keeps under a member
    Absent   \* no value, no deadline

VARIABLES
    value,    \* key -> its type and data, or Absent
    deadline, \* key -> when it expires, or Absent
    now       \* the time

vars == <<value, deadline, now>>

Init ==
    /\ value = [k \in Keys |-> Absent]
    /\ deadline = [k \in Keys |-> Absent]
    /\ now = 0

Typed(t, d) == [type |-> t, data |-> d]

\* Key k had nothing or data of type t, and has data of type t now.
Keeps(k, t) ==
    /\ value[k] = Absent \/ value[k].type = t
    /\ value'[k] # Absent /\ value'[k].type = t
Data(k) == IF value[k] = Absent THEN <<>> ELSE value[k].data

\* Strings are set, and only a deadline to come goes with them.
SetStrings(K) == \A k \in K :
    /\ Keeps(k, "string") /\ value'[k].data \in Vals
    /\ deadline'[k] # Absent => deadline'[k] > now

\* Members come, or what is kept under them changes; none goes.
AddMembers(k, t, contents) ==
    /\ Keeps(k, t)
    /\ LET new == value'[k].data
           old == Data(k)
       IN  /\ DOMAIN old \subseteq DOMAIN new /\ DOMAIN new \subseteq Members
           /\ \A m \in DOMAIN new : new[m] \in contents
    /\ deadline' = deadline

\* Members go; what is kept under the others stays.
RemoveMembers(k, t) ==
    /\ value[k] # Absent /\ Keeps(k, t)
    /\ LET new == value'[k].data IN
       DOMAIN new \subseteq DOMAIN Data(k) /\ \A m \in DOMAIN new : new[m] = Data(k)[m]
    /\ deadline' = deadline

\* A list from which a stretch at either end is taken, or to which one is put.
Grows(old, new) ==
    LET n == Len(new) - Len(old)
    IN  n >= 0 /\ (SubSeq(new, n + 1, Len(new)) = old \/ SubSeq(new, 1, Len(old)) = old)

Push(k) ==
    /\ Keeps(k, "list") /\ Grows(Data(k), value'[k].data)
    /\ \A i \in DOMAIN value'[k].data : value'[k].data[i] \in Vals
    /\ deadline' = deadline

Pop(k) ==
    /\ value[k] # Absent /\ Keeps(k, "list")
    /\ Len(value'[k].data) = Len(Data(k)) - 1 /\ Grows(value'[k].data, Data(k))
    /\ deadline' = deadline

Replace(k) ==
    /\ value[k] # Absent /\ Keeps(k, "list")
    /\ \E i \in DOMAIN Data(k), v \in Vals : value'[k].data = [Data(k) EXCEPT ![i] = v]
    /\ deadline' = deadline

\* A stretch of the list is kept; one of which nothing is kept is deleted.
Trim(k) ==
    /\ value[k] # Absent /\ Keeps(k, "list")
    /\ \E i, j \in DOMAIN Data(k) : i <= j /\ value'[k].data = SubSeq(Data(k), i, j)
    /\ deadline' = deadline

\* A deadline, which a key without a value may also have; one in the past
\* ends the value at once.
Expire(k) == IF deadline'[k] = Absent THEN value'[k] = Absent
             ELSE deadline'[k] > now /\ value' = value

Persist(k) == deadline'[k] = Absent /\ value' = value

\* Keys are deleted with their deadlines.
Delete(K) == \A k \in K : value'[k] = Absent /\ deadline'[k] = Absent

\* What commands do to a key k that alone changes.
Command(k) ==
    \/ AddMembers(k, "hash", Vals) \/ AddMembers(k, "zset", Vals) \/ AddMembers(k, "set", {Present})
    \/ \E t \in {"hash", "set", "zset"} : RemoveMembers(k, t)
    \/ Push(k) \/ Pop(k) \/ Replace(k) \/ Trim(k)
    \/ Expire(k) \/ Persist(k)

\* Time passes, and ends the values whose deadline it reaches.
Tick ==
    /\ now' = now + 1
    /\ LET due == {k \in Keys : deadline[k] # Absent /\ deadline[k] <= now'}
       IN  /\ value' = [k \in Keys |-> IF k \in due THEN Absent ELSE value[k]]
           /\ deadline' = [k \in Keys |-> IF k \in due THEN Absent ELSE deadline[k]]

Next ==
    \/ /\ now' = now
       /\ DOMAIN value' = Keys /\ DOMAIN deadline' = Keys
       /\ LET changed == {k \in Keys : value'[k] # value[k] \/ deadline'[k] # deadline[k]}
          IN  Delete(changed) \/ SetStrings(changed) \/ \E k \in Keys : changed = {k} /\ Command(k)
    \/ Tick

Spec == Init /\ [][Next]_vars

=============================================================================
