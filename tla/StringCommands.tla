--------------------------- MODULE StringCommands ---------------------------
(***************************************************************************)
(* GET, SET and DEL of one string key (zenith/engine/kv.py), step by step. *)
(*                                                                         *)
(* A command reads and writes the three cells of the key, __V__, __TYPE__  *)
(* and __EXP__, by calls of the LSM tree; only the single call is atomic.  *)
(* The TCP server's event loop runs one command at a time, but every HTTP  *)
(* request has a thread and a KeyValueEngine of the same tree, so commands *)
(* of several clients interleave between any two calls, and a crash may    *)
(* come there too (every call that returned has reached the disk).         *)
(***************************************************************************)
EXTENDS Naturals

CONSTANTS
    Clients,     \* the event loop and the HTTP threads
    Loop,        \* the event loop, which alone offers NX and XX
    Absent,      \* a cell without contents; no deadline
    MaxCommands, \* bound: commands of all clients
    MaxEx,       \* bound: the EX of a SET; 0 for clients that set no deadlines
    MaxNow,      \* bound: the time
    MaxCrashes   \* bound: crashes

ASSUME StringAssumption ==
    /\ Loop \in Clients
    /\ Absent \notin Nat /\ Absent # "string"
    /\ MaxCommands \in Nat /\ MaxEx \in Nat /\ MaxNow \in Nat /\ MaxCrashes \in Nat

VARIABLES
    value,    \* __V__: the number of the command that wrote it, or Absent
    type,     \* __TYPE__
    deadline, \* __EXP__
    now,      \* the clock
    at,       \* client -> the call it makes next, or "idle"
    cmd,      \* client -> its command
    used,     \* the number of commands begun
    crashes,  \* the number of crashes
    until,    \* command -> the deadline it gave its value when it returned
    alone,    \* the clients no other writer has met since they began
    solid,    \* the SET that returned and that no writer has met, or Absent
    got       \* the answers to GET: value and the time it was asked

cells == <<value, type, deadline>>
ghosts == <<until, alone, solid, got>>
vars == <<cells, now, at, cmd, used, crashes, ghosts>>

Numbers == 1 .. MaxCommands
NoCommand == [op |-> "none", number |-> 0, flag |-> "none", ex |-> Absent, since |-> 0]

Init ==
    /\ value = Absent /\ type = Absent /\ deadline = Absent
    /\ now = 0
    /\ at = [c \in Clients |-> "idle"]
    /\ cmd = [c \in Clients |-> NoCommand]
    /\ used = 0 /\ crashes = 0
    /\ until = [n \in Numbers |-> Absent]
    /\ alone = {} /\ solid = Absent /\ got = {}

Expired == deadline # Absent /\ now >= deadline

Goto(c, l) == at' = [at EXCEPT ![c] = l]
Keep == UNCHANGED <<now, cmd, used, crashes>>

Writes(c) == at[c] # "idle" /\ cmd[c].op # "get"

\* A client gives a command; a writer ends the peace of all the others.
Begin(c, op, flag, ex) ==
    /\ at[c] = "idle"
    /\ used < MaxCommands
    /\ flag # "none" => c = Loop
    /\ used' = used + 1
    /\ cmd' = [cmd EXCEPT ![c] =
         [op |-> op, number |-> used + 1, flag |-> flag, ex |-> ex, since |-> now]]
    /\ Goto(c, CASE op = "get" -> "second" [] op = "set" -> "first" [] op = "del" -> "tag")
    /\ IF op = "get"
       THEN UNCHANGED <<alone, solid>>
       ELSE /\ alone' = IF \E w \in Clients : Writes(w) THEN {} ELSE {c}
            /\ solid' = Absent
    /\ UNCHANGED <<cells, now, crashes, until, got>>

\* The command of c returns; a GET with answer a.
Return(c, a) ==
    /\ Goto(c, "idle")
    /\ got' = IF cmd[c].op = "get" THEN got \cup {[answer |-> a, since |-> cmd[c].since]} ELSE got
    /\ UNCHANGED <<until, alone, solid>>

\* A SET that was not refused returns, its value good until the time u.
Acknowledge(c, u) ==
    /\ Goto(c, "idle")
    /\ solid' = IF c \in alone THEN cmd[c].number ELSE solid
    /\ until' = [until EXCEPT ![cmd[c].number] = u]
    /\ UNCHANGED <<alone, got>>

\* _is_expired() as set() calls it, and get() of itself or for set().
IsExpired(c) ==
    /\ at[c] \in {"first", "second"}
    /\ Goto(c, IF Expired THEN "purge" ELSE IF at[c] = "first" THEN "second" ELSE "read")
    /\ UNCHANGED <<cells, ghosts>> /\ Keep

\* Mutant of Decide: NX is not looked at.
DecideXx(c, found) ==
    IF cmd[c].flag = "xx" /\ ~ found
    THEN Return(c, Absent)
    ELSE Goto(c, "putValue") /\ UNCHANGED ghosts

\* set() has found a value or none and goes on, or is refused.
Decide(c, found) ==
    IF (cmd[c].flag = "nx" /\ found) \/ (cmd[c].flag = "xx" /\ ~ found)
    THEN Return(c, Absent)
    ELSE Goto(c, "putValue") /\ UNCHANGED ghosts

\* get() of a live key.
Read(c) ==
    /\ at[c] = "read"
    /\ IF cmd[c].op = "get" THEN Return(c, value) ELSE Decide(c, value # Absent)
    /\ UNCHANGED cells /\ Keep

\* After _purge_key_internal(): get() has no value, set() goes on as on a free key.
Purged(c) == IF cmd[c].op = "set" THEN Decide(c, FALSE) ELSE Return(c, Absent)

\* delete() looks for a type tag first.
Tag(c) ==
    /\ at[c] = "tag"
    /\ IF type = Absent THEN Return(c, Absent) ELSE Goto(c, "purge") /\ UNCHANGED ghosts
    /\ UNCHANGED cells /\ Keep

\* _purge_key_internal(): by the type tag, or the deadline alone if there is none.
Purge(c) ==
    /\ at[c] = "purge"
    /\ Goto(c, IF type = Absent THEN "dropOrphan" ELSE "dropType")
    /\ UNCHANGED <<cells, ghosts>> /\ Keep

DropOrphan(c) ==
    /\ at[c] = "dropOrphan"
    /\ deadline' = Absent
    /\ Purged(c)
    /\ UNCHANGED <<value, type>> /\ Keep

DropType(c) ==
    /\ at[c] = "dropType"
    /\ type' = Absent
    /\ Goto(c, "dropDeadline")
    /\ UNCHANGED <<value, deadline, ghosts>> /\ Keep

\* Mutant of DropDeadline: the value itself is left behind.
DropDeadlineLast(c) ==
    /\ at[c] = "dropDeadline"
    /\ deadline' = Absent
    /\ Purged(c)
    /\ UNCHANGED <<value, type>> /\ Keep

DropDeadline(c) ==
    /\ at[c] = "dropDeadline"
    /\ deadline' = Absent
    /\ Goto(c, "dropValue")
    /\ UNCHANGED <<value, type, ghosts>> /\ Keep

DropValue(c) ==
    /\ at[c] = "dropValue"
    /\ value' = Absent
    /\ Purged(c)
    /\ UNCHANGED <<type, deadline>> /\ Keep

\* Mutant of PutValue: no type is put.
PutValueUntyped(c) ==
    /\ at[c] = "putValue"
    /\ value' = cmd[c].number
    /\ Goto(c, IF cmd[c].ex # Absent THEN "putDeadline" ELSE "persist")
    /\ UNCHANGED <<type, deadline, ghosts>> /\ Keep

PutValue(c) ==
    /\ at[c] = "putValue"
    /\ value' = cmd[c].number
    /\ Goto(c, "putType")
    /\ UNCHANGED <<type, deadline, ghosts>> /\ Keep

PutType(c) ==
    /\ at[c] = "putType"
    /\ type' = "string"
    /\ Goto(c, IF cmd[c].ex # Absent THEN "putDeadline" ELSE "persist")
    /\ UNCHANGED <<value, deadline, ghosts>> /\ Keep

\* Mutant of PutDeadline: seconds taken for milliseconds.
PutDeadlineMillis(c) ==
    /\ at[c] = "putDeadline"
    /\ deadline' = now + 1000 * cmd[c].ex
    /\ Acknowledge(c, now + cmd[c].ex)
    /\ UNCHANGED <<value, type>> /\ Keep

\* expire() of a SET with EX, counted from now.
PutDeadline(c) ==
    /\ at[c] = "putDeadline"
    /\ deadline' = now + cmd[c].ex
    /\ Acknowledge(c, now + cmd[c].ex)
    /\ UNCHANGED <<value, type>> /\ Keep

\* Mutant of Persist: the old deadline is kept.
PersistNot(c) ==
    /\ at[c] = "persist"
    /\ Acknowledge(c, Absent)
    /\ UNCHANGED cells /\ Keep

\* persist() of a SET without EX: a look, then the removal.
Persist(c) ==
    /\ at[c] = "persist"
    /\ IF deadline = Absent THEN Acknowledge(c, Absent) ELSE Goto(c, "unset") /\ UNCHANGED ghosts
    /\ UNCHANGED cells /\ Keep

Unset(c) ==
    /\ at[c] = "unset"
    /\ deadline' = Absent
    /\ Acknowledge(c, Absent)
    /\ UNCHANGED <<value, type>> /\ Keep

Tick ==
    /\ now < MaxNow
    /\ now' = now + 1
    /\ UNCHANGED <<cells, at, cmd, used, crashes, ghosts>>

\* The process dies; the cells are as the calls have left them.
Crash ==
    /\ crashes < MaxCrashes
    /\ crashes' = crashes + 1
    /\ at' = [c \in Clients |-> "idle"]
    /\ UNCHANGED <<cells, now, cmd, used, ghosts>>

Next ==
    \/ \E c \in Clients :
         \/ Begin(c, "get", "none", Absent) \/ Begin(c, "del", "none", Absent)
         \/ \E flag \in {"none", "nx", "xx"}, ex \in {Absent} \cup (1 .. MaxEx) :
                Begin(c, "set", flag, ex)
         \/ IsExpired(c) \/ Read(c) \/ Tag(c)
         \/ Purge(c) \/ DropOrphan(c) \/ DropType(c) \/ DropDeadline(c) \/ DropValue(c)
         \/ PutValue(c) \/ PutType(c) \/ PutDeadline(c) \/ Persist(c) \/ Unset(c)
    \/ Tick
    \/ Crash

Spec == Init /\ [][Next]_vars

-----------------------------------------------------------------------------
(* Properties *)

TypeOK ==
    /\ value \in Numbers \cup {Absent} /\ type \in {"string", Absent}
    /\ deadline \in 0 .. MaxNow + MaxEx \cup {Absent} /\ now \in 0 .. MaxNow
    /\ solid \in Numbers \cup {Absent} /\ alone \subseteq Clients
    /\ \A g \in got : g.answer \in Numbers \cup {Absent}

\* A SET that met no other writer is there, with its type and its deadline,
\* until the next writer comes or its time is up, however many readers come
\* by (kv.py set; get, whose _is_expired purges).
SetStays ==
    solid # Absent /\ (until[solid] = Absent \/ now < until[solid]) =>
        value = solid /\ type = "string" /\ deadline = until[solid]

\* No GET answers with a value whose time was up before it was asked, unless a
\* crash has cut a purge short (kv.py get, _is_expired).
NoStaleAnswer ==
    crashes = 0 => \A g \in got : g.answer # Absent =>
        until[g.answer] = Absent \/ g.since < until[g.answer]

\* A SET NX does not overwrite a live value, that is one with a type and time
\* left (kv.py set: "Only set if key does NOT exist").
NxKeeps ==
    [][\A c \in Clients :
         at[c] = "putValue" /\ at'[c] = "putType" /\ cmd[c].flag = "nx"
            => value = Absent \/ type = Absent \/ Expired]_vars

\* Between commands the key has a value if it has a type, and a type if it has
\* a value and no crash has cut a command short: what exists() counts get()
\* finds (kv.py exists, get).
TypeAndValue ==
    (\A c \in Clients : at[c] = "idle") =>
        /\ type # Absent => value # Absent
        /\ value # Absent /\ crashes = 0 => type # Absent

=============================================================================
