---------------------------- MODULE Transactions ----------------------------
(***************************************************************************)
(* Transactions (zenith/engine/txn.py) over the log and the store.         *)
(*                                                                         *)
(* A transaction buffers its writes and, in commit(), puts them into the   *)
(* LSM tree one by one under the manager's lock.  The tree's own lock is   *)
(* held for one put at a time, and only commit() takes the manager's, so   *)
(* between two puts of a commit other threads read the tree, write to it   *)
(* (the KeyValueEngine), or the process dies.                              *)
(*                                                                         *)
(* The tree is taken at the level LSMTree establishes: db is what get()    *)
(* answers, log the frames a crash may cut back to synced, and a restart   *)
(* replays every SET and DEL frame that is left.                           *)
(***************************************************************************)
EXTENDS Naturals, Sequences

CONSTANTS
    Keys,       \* user keys
    Vals,       \* string values
    Txns,       \* the transactions, each begun once
    Absent,     \* no value, and TOMBSTONE in a buffer
    Unread,     \* a key a transaction has not read
    None,       \* no holder of the manager's lock
    MaxOps,     \* bound: set() and delete() calls in a transaction
    MaxSingles, \* bound: writes of other threads
    MaxCrashes, \* bound: crashes
    MaxFails    \* bound: puts of a commit that raise

ASSUME TxnAssumption ==
    /\ Absent \notin Vals /\ Unread \notin Vals /\ Unread # Absent
    /\ None \notin Txns
    /\ MaxOps \in Nat /\ MaxSingles \in Nat /\ MaxCrashes \in Nat
    /\ MaxFails \in Nat

VARIABLES
    db,      \* the LSM tree: cell -> contents
    log,     \* the frames of the write-ahead log
    synced,  \* the number of frames fsynced
    lock,    \* the holder of TransactionManager._lock, or None
    status,  \* transaction -> where it is
    buffer,  \* transaction -> _write_buffer and _meta_buffer
    todo,    \* the cells the commit under way has still to write
    seen,    \* transaction -> key -> what it last read there
    ops,     \* transaction -> its number of set() and delete() calls
    singles, \* the number of writes of other threads
    crashes, \* the number of crashes
    fails    \* the number of commits that raised

vars == <<db, log, synced, lock, status, buffer, todo, seen, ops, singles, crashes, fails>>

\* The LSM keys of a user key: __V__:k, __TYPE__:k and __EXP__:k.
Parts == {"V", "TYPE", "EXP"}
Cells == Parts \X Keys
Written(p) == CASE p = "V" -> Vals [] p = "TYPE" -> {"string"} [] p = "EXP" -> {"deadline"}
Contents == Vals \cup {"string", "deadline", Absent}
NoWrites == [c \in {} |-> Absent]

Frame(type, c, v) == [op |-> type, cell |-> c, val |-> v]
WriteFrame(c, v) == Frame(IF v = Absent THEN "DEL" ELSE "SET", c, v)
IsWrite(f) == f.op \in {"SET", "DEL"}

\* The newest write of every cell among the frames of l at the places I.
ReplayAt(l, I) ==
    [c \in Cells |->
        LET J == {i \in I : IsWrite(l[i]) /\ l[i].cell = c} IN
        IF J = {} THEN Absent ELSE l[CHOOSE i \in J : \A j \in J : j <= i].val]

\* What _recover_from_wal makes of a log: every SET and DEL, whatever the
\* TXN_BEGIN and TXN_COMMIT frames around it say.
Replay(l) == ReplayAt(l, DOMAIN l)

Init ==
    /\ db = [c \in Cells |-> Absent]
    /\ log = <<>> /\ synced = 0
    /\ lock = None
    /\ status = [t \in Txns |-> "active"]
    /\ buffer = [t \in Txns |-> NoWrites]
    /\ todo = {}
    /\ seen = [t \in Txns |-> [k \in Keys |-> Unread]]
    /\ ops = [t \in Txns |-> 0]
    /\ singles = 0 /\ crashes = 0 /\ fails = 0

\* The buffer b with the writes w over it.
Overwritten(b, w) ==
    [c \in DOMAIN b \cup DOMAIN w |-> IF c \in DOMAIN w THEN w[c] ELSE b[c]]

\* Transaction.set and delete: a set keeps whatever deadline the key has.
Buffer(t, w) ==
    /\ status[t] = "active"
    /\ ops[t] < MaxOps
    /\ ops' = [ops EXCEPT ![t] = @ + 1]
    /\ buffer' = [buffer EXCEPT ![t] = Overwritten(@, w)]
    /\ UNCHANGED <<db, log, synced, lock, status, todo, seen, singles, crashes, fails>>

Set(t, k, v) ==
    Buffer(t, [c \in {<<"V", k>>, <<"TYPE", k>>} |-> IF c[1] = "V" THEN v ELSE "string"])

Delete(t, k) == Buffer(t, [c \in Parts \X {k} |-> Absent])

\* Transaction.get: its own write, else what the tree holds just now.
Get(t, k) ==
    /\ status[t] = "active"
    /\ seen' = [seen EXCEPT ![t][k] =
         IF <<"V", k>> \in DOMAIN buffer[t] THEN buffer[t][<<"V", k>>] ELSE db[<<"V", k>>]]
    /\ UNCHANGED <<db, log, synced, lock, status, buffer, todo, ops, singles, crashes, fails>>

\* Mutant of MayCommit: commit() without the manager's lock.
MayCommitAlways(t) == status[t] = "active"

MayCommit(t) == status[t] = "active" /\ lock = None

\* commit() enters the lock and logs TXN_BEGIN.
BeginCommit(t) ==
    /\ MayCommit(t)
    /\ lock' = t
    /\ status' = [status EXCEPT ![t] = "committing"]
    /\ todo' = DOMAIN buffer[t]
    /\ log' = Append(log, Frame("TXN_BEGIN", None, Absent))
    /\ UNCHANGED <<db, synced, buffer, seen, ops, singles, crashes, fails>>

\* One lsm.put or lsm.delete of commit(): the write buffer, then the meta buffer.
CommitWrite(t) ==
    /\ lock = t
    /\ \E c \in todo :
         /\ c[1] = "V" \/ \A d \in todo : d[1] # "V"
         /\ todo' = todo \ {c}
         /\ db' = [db EXCEPT ![c] = buffer[t][c]]
         /\ log' = Append(log, WriteFrame(c, buffer[t][c]))
    /\ UNCHANGED <<synced, lock, status, buffer, seen, ops, singles, crashes, fails>>

\* commit() logs TXN_COMMIT.
EndCommit(t) ==
    /\ lock = t /\ status[t] = "committing"
    /\ todo = {}
    /\ status' = [status EXCEPT ![t] = "ending"]
    /\ log' = Append(log, Frame("TXN_COMMIT", None, Absent))
    /\ UNCHANGED <<db, synced, lock, buffer, todo, seen, ops, singles, crashes, fails>>

\* A put of commit() raises, its log write or the flush it sets off having
\* failed: the lock is left and the transaction stays open, for the caller to
\* commit again or to roll back.
CommitFails(t) ==
    /\ fails < MaxFails
    /\ fails' = fails + 1
    /\ lock = t /\ status[t] = "committing"
    /\ status' = [status EXCEPT ![t] = "active"]
    /\ lock' = None /\ todo' = {}
    /\ UNCHANGED <<db, log, synced, buffer, seen, ops, singles, crashes>>

\* Mutant of Finish: commit() returns without the sync.
FinishUnsynced(t) ==
    /\ lock = t /\ status[t] = "ending"
    /\ status' = [status EXCEPT ![t] = "committed"]
    /\ lock' = None
    /\ UNCHANGED <<db, log, synced, buffer, todo, seen, ops, singles, crashes, fails>>

\* commit() syncs the log, leaves the lock and returns.
Finish(t) ==
    /\ lock = t /\ status[t] = "ending"
    /\ synced' = Len(log)
    /\ status' = [status EXCEPT ![t] = "committed"]
    /\ lock' = None
    /\ UNCHANGED <<db, log, buffer, todo, seen, ops, singles, crashes, fails>>

\* Mutant of Rollback: also while the commit is under way.
RollbackAlways(t) ==
    /\ status[t] \in {"active", "committing"}
    /\ status' = [status EXCEPT ![t] = "rolledback"]
    /\ buffer' = [buffer EXCEPT ![t] = NoWrites]
    /\ UNCHANGED <<db, log, synced, lock, todo, seen, ops, singles, crashes, fails>>

\* rollback(), also called by __exit__ after an exception.
Rollback(t) ==
    /\ status[t] = "active"
    /\ status' = [status EXCEPT ![t] = "rolledback"]
    /\ buffer' = [buffer EXCEPT ![t] = NoWrites]
    /\ UNCHANGED <<db, log, synced, lock, todo, seen, ops, singles, crashes, fails>>

\* A put or delete of another thread: it needs the tree's lock only.
Single(c, v) ==
    /\ singles < MaxSingles
    /\ singles' = singles + 1
    /\ db' = [db EXCEPT ![c] = v]
    /\ log' = Append(log, WriteFrame(c, v))
    /\ UNCHANGED <<synced, lock, status, buffer, todo, seen, ops, crashes, fails>>

\* The log is synced, as its sync mode says or by the kernel.
Sync ==
    /\ synced < Len(log)
    /\ synced' = Len(log)
    /\ UNCHANGED <<db, log, lock, status, buffer, todo, seen, ops, singles, crashes, fails>>

\* The process dies and comes up again with the frames that reached the disk.
Crash ==
    /\ crashes < MaxCrashes
    /\ crashes' = crashes + 1
    /\ \E n \in synced .. Len(log) :
         /\ log' = SubSeq(log, 1, n)
         /\ synced' = n
    /\ db' = Replay(log')
    /\ lock' = None
    /\ status' = [t \in Txns |-> IF status[t] = "committed" THEN "committed" ELSE "lost"]
    /\ todo' = {}
    /\ UNCHANGED <<buffer, seen, ops, singles, fails>>

Next ==
    \/ \E t \in Txns :
         \/ \E k \in Keys :
              \/ \E v \in Vals : Set(t, k, v)
              \/ Delete(t, k)
              \/ Get(t, k)
         \/ BeginCommit(t) \/ CommitWrite(t) \/ EndCommit(t) \/ CommitFails(t)
         \/ Finish(t) \/ Rollback(t)
    \/ \E c \in Cells : \E v \in Written(c[1]) \cup {Absent} : Single(c, v)
    \/ Sync
    \/ Crash

Spec == Init /\ [][Next]_vars

-----------------------------------------------------------------------------
(* Properties *)

TypeOK ==
    /\ db \in [Cells -> Contents]
    /\ log \in Seq([op : {"SET", "DEL"}, cell : Cells, val : Contents]
                   \cup [op : {"TXN_BEGIN", "TXN_COMMIT"}, cell : {None}, val : {Absent}])
    /\ synced \in 0 .. Len(log)
    /\ lock \in Txns \cup {None}
    /\ status \in [Txns -> {"active", "committing", "ending", "committed", "rolledback", "lost"}]
    /\ \A t \in Txns : /\ DOMAIN buffer[t] \subseteq Cells
                       /\ \A c \in DOMAIN buffer[t] : buffer[t][c] \in Contents
    /\ todo \subseteq Cells
    /\ lock # None => todo \subseteq DOMAIN buffer[lock]
    /\ seen \in [Txns -> [Keys -> Vals \cup {Absent, Unread}]]
    /\ ops \in [Txns -> 0 .. MaxOps]
    /\ singles \in 0 .. MaxSingles /\ crashes \in 0 .. MaxCrashes /\ fails \in 0 .. MaxFails

\* The tree with the rest of the commit under way: where a transaction takes
\* effect for those who write after it.
Ahead == [c \in Cells |-> IF c \in todo THEN buffer[lock][c] ELSE db[c]]

\* Writers see transactions take effect at once, though commit() writes cell
\* by cell while other threads write: the manager's lock orders the commits,
\* and a write that falls into a commit counts as before it where the commit
\* has still to write, as after it elsewhere.  This lasts until a commit is cut
\* short, by an exception or a crash (txn.py commit).
Atomic == INSTANCE AtomicStore
    WITH Vals <- Contents \ {Absent},
         store <- Ahead,
         ended <- {t \in Txns : status[t] # "active"}
AtomicWrites ==
    Atomic!Init /\ [][crashes' = 0 /\ fails' = 0 => [Atomic!Next]_(Atomic!vars)]_vars

\* Every write of a transaction whose commit() returned is in each log that a
\* crash can leave (txn.py commit, the sync at its end).
CommittedSurvive ==
    \A t \in Txns : status[t] = "committed" =>
        \A c \in DOMAIN buffer[t] :
            \E i \in 1 .. synced : log[i] = WriteFrame(c, buffer[t][c])

\* The places of the frames a recovery that honours the markers replays: all
\* but the writes after a TXN_BEGIN without a TXN_COMMIT.
Committed(l) ==
    {i \in DOMAIN l :
        \A j \in 1 .. i : l[j].op = "TXN_BEGIN" =>
            \E m \in j .. Len(l) : l[m].op = "TXN_COMMIT"}

\* After a restart the tree holds the committed transactions only (README.md
\* "the WAL replays all committed transactions").
OnlyCommitted == crashes > 0 /\ lock = None => db = ReplayAt(log, Committed(log))

\* A transaction that reads a key twice, without writing it in between, reads
\* the same value: the least that snapshot isolation promises (txn.py:3).
RepeatableReads ==
    [][\A t \in Txns, k \in Keys :
         seen[t][k] # Unread /\ <<"V", k>> \notin DOMAIN buffer[t]
            => seen'[t][k] = seen[t][k]]_vars

=============================================================================
