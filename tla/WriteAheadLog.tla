--------------------------- MODULE WriteAheadLog ----------------------------
(***************************************************************************)
(* The write-ahead log (zenith/storage/wal.py) as several threads call it. *)
(*                                                                         *)
(* WriteAheadLog has no lock of its own.  LSMTree calls it under its lock, *)
(* but Transaction.commit() appends its TXN_BEGIN and TXN_COMMIT frames    *)
(* and syncs while it holds only the lock of the manager, so a marker      *)
(* meets the file of another thread's rotation.  After the server's        *)
(* shutdown has closed the tree, the threads of the HTTP server go on.     *)
(*                                                                         *)
(* LSMTree takes each call as one step and assumes that a crash leaves the *)
(* write frames up to some point, in every log segment; here is why it     *)
(* may.  A call is a sequence of steps, its todo: a step takes itself from *)
(* the head and may put others in its place.  Only what happens to frames  *)
(* is kept; nothing reads the LSNs, which two appends at once may share.   *)
(***************************************************************************)
EXTENDS Naturals, SequencesExt

CONSTANTS
    Threads,      \* the threads of the process
    None,         \* no thread
    Modes,        \* the wal_sync_modes to consider
    Second,       \* the ticks of a second
    MarkersRotate,\* may an append outside the tree's lock be the one that fills the segment
    MaxCalls,     \* bound: calls, and the puts of commits
    MaxSegments,  \* bound: log segments
    MaxNow        \* bound: the time

ASSUME LogAssumption ==
    /\ None \notin Threads
    /\ Modes \subseteq {"always", "every_sec", "none"}
    /\ Second \in Nat \ {0} /\ MarkersRotate \in BOOLEAN
    /\ MaxCalls \in Nat /\ MaxSegments \in Nat /\ MaxNow \in Nat

VARIABLES
    mode,    \* sync_mode
    log,     \* the segments, each the sequence of its frames
    flushed, \* segment -> how many of its frames have left the process
    durable, \* segment -> how many of its frames are fsynced
    file,    \* _current_file: "open", "closed", or "none"
    last,    \* _last_sync_time
    now,     \* the clock
    tree,    \* the thread that holds LSMTree._lock
    manager, \* the thread that holds TransactionManager._lock
    todo,    \* thread -> the steps its call has left
    saved,   \* thread -> its now in append()
    calls    \* the number of calls and puts begun

files == <<log, flushed, durable, file>>
locks == <<tree, manager>>
vars == <<mode, files, last, now, locks, todo, saved, calls>>

\* _current_seq; its file object is the only one with frames still in its buffer.
seg == Len(log)

-----------------------------------------------------------------------------
(* What the calls do *)

SyncSteps == <<"flush", "fsync">>

\* Mutant of RotateSteps: the segment is not synced.
RotateStepsUnsynced == <<"close", "next">>
RotateSteps == SyncSteps \o <<"close", "next">>

\* append(), of a frame of a put or of a marker.
AppendSteps(frame) == <<"open", frame, "due", "full">>

\* put() and delete(): a full memtable spills into an SSTable.
PutSteps == <<"lock">> \o AppendSteps("write") \o <<"spill", "unlock">>

\* Mutant of CommitSteps: nothing is synced at the end.
CommitStepsLazy == <<"enter">> \o AppendSteps("mark") \o <<"puts">> \o AppendSteps("mark") \o <<"leave">>

CommitSteps ==
    <<"enter">> \o AppendSteps("mark") \o <<"puts">> \o AppendSteps("mark") \o SyncSteps \o <<"leave">>

\* LSMTree.close() at a shutdown: flush(), then the close() of the log.
CloseSteps == <<"lock", "spill">> \o SyncSteps \o <<"shut", "unlock">>

Init ==
    /\ mode \in Modes
    /\ log = <<<<>>>> /\ flushed = <<0>> /\ durable = <<0>>
    /\ file = "open"
    /\ last = 0 /\ now = 0
    /\ tree = None /\ manager = None
    /\ todo = [t \in Threads |-> <<>>]
    /\ saved = [t \in Threads |-> 0]
    /\ calls = 0

Call(t, steps) ==
    /\ todo[t] = <<>>
    /\ calls < MaxCalls
    /\ calls' = calls + 1
    /\ todo' = [todo EXCEPT ![t] = steps]
    /\ UNCHANGED <<mode, files, last, now, locks, saved>>

Put(t) == Call(t, PutSteps)
Commit(t) == Call(t, CommitSteps)
Close(t) == Call(t, CloseSteps)

-----------------------------------------------------------------------------
(* The steps *)

At(t, step) == todo[t] # <<>> /\ Head(todo[t]) = step

\* Thread t has done its step; the steps of s come next.
Then(t, s) == todo' = [todo EXCEPT ![t] = s \o Tail(@)]
Done(t) == Then(t, <<>>)

Lock(t) ==
    /\ At(t, "lock") /\ tree = None
    /\ tree' = t
    /\ Done(t)
    /\ UNCHANGED <<mode, files, last, now, manager, saved, calls>>

Unlock(t) ==
    /\ At(t, "unlock")
    /\ tree' = None
    /\ Done(t)
    /\ UNCHANGED <<mode, files, last, now, manager, saved, calls>>

Enter(t) ==
    /\ At(t, "enter") /\ manager = None
    /\ manager' = t
    /\ Done(t)
    /\ UNCHANGED <<mode, files, last, now, tree, saved, calls>>

\* commit() puts what it has buffered, one after the other.
Puts(t) ==
    /\ At(t, "puts")
    /\ \/ Done(t) /\ calls' = calls
       \/ calls < MaxCalls /\ calls' = calls + 1 /\ Then(t, PutSteps \o <<"puts">>)
    /\ UNCHANGED <<mode, files, last, now, locks, saved>>

Leave(t) ==
    /\ At(t, "leave")
    /\ manager' = None
    /\ Done(t)
    /\ UNCHANGED <<mode, files, last, now, tree, saved, calls>>

\* The with statements that an exception leaves.
Release(t) ==
    /\ tree' = IF tree = t THEN None ELSE tree
    /\ manager' = IF manager = t THEN None ELSE manager

\* write(), fileno() and tell() raise when the file is closed or none.
Fail(t) ==
    /\ \E step \in {"write", "mark", "fsync", "full"} : At(t, step)
    /\ file # "open"
    /\ todo' = [todo EXCEPT ![t] = <<>>]
    /\ Release(t)
    /\ UNCHANGED <<mode, files, last, now, saved, calls>>

\* append() after a close() goes on in the latest segment.
Open(t) ==
    /\ At(t, "open")
    /\ file' = IF file = "none" THEN "open" ELSE file
    /\ Done(t)
    /\ UNCHANGED <<mode, log, flushed, durable, last, now, locks, saved, calls>>

Write(t) ==
    /\ \E kind \in {"write", "mark"} :
         /\ At(t, kind)
         /\ log' = [log EXCEPT ![seg] = Append(@, [kind |-> kind, by |-> t, time |-> now])]
    /\ file = "open"
    /\ Done(t)
    /\ UNCHANGED <<mode, flushed, durable, file, last, now, locks, saved, calls>>

\* Mutant of Elapsed: a second is not yet enough.
ElapsedMore == now > last + Second

\* A second has passed since the last sync.
Elapsed == now >= last + Second

\* append() syncs as its mode says; the time it stamps is from before the sync.
Due(t) ==
    /\ At(t, "due")
    /\ saved' = [saved EXCEPT ![t] = now]
    /\ CASE mode = "always" -> Then(t, SyncSteps)
         [] mode = "every_sec" /\ Elapsed -> Then(t, SyncSteps \o <<"stamp">>)
         [] OTHER -> Done(t)
    /\ UNCHANGED <<mode, files, last, now, locks, calls>>

Stamp(t) ==
    /\ At(t, "stamp")
    /\ last' = saved[t]
    /\ Done(t)
    /\ UNCHANGED <<mode, files, now, locks, saved, calls>>

\* sync() does nothing without an open file.
FlushFile(t) ==
    /\ At(t, "flush")
    /\ IF file = "open"
       THEN flushed' = [flushed EXCEPT ![seg] = Len(log[seg])] /\ Done(t)
       ELSE flushed' = flushed /\ todo' = [todo EXCEPT ![t] = Tail(Tail(@))]
    /\ UNCHANGED <<mode, log, durable, file, last, now, locks, saved, calls>>

\* Mutant of Synced: what is still in the buffer counts too.
SyncedAll == [durable EXCEPT ![seg] = Len(log[seg])]

\* What fsync makes durable of the file that is current now.
Synced == [durable EXCEPT ![seg] = flushed[seg]]

Fsync(t) ==
    /\ At(t, "fsync")
    /\ file = "open"
    /\ durable' = Synced
    /\ Done(t)
    /\ UNCHANGED <<mode, log, flushed, file, last, now, locks, saved, calls>>

\* The segment may have reached max_file_size.
Full(t) ==
    /\ At(t, "full")
    /\ file = "open"
    /\ \/ Done(t)
       \/ (tree = t \/ MarkersRotate) /\ seg < MaxSegments /\ Then(t, RotateSteps)
    /\ UNCHANGED <<mode, files, last, now, locks, saved, calls>>

\* The memtable may be full, or close() finds it not empty.
Spill(t) ==
    /\ At(t, "spill")
    /\ \/ Done(t)
       \/ seg < MaxSegments /\ Then(t, RotateSteps)
    /\ UNCHANGED <<mode, files, last, now, locks, saved, calls>>

\* Closing a file writes its buffer out, but does not sync.
Emptied == [flushed EXCEPT ![seg] = Len(log[seg])]

CloseFile(t) ==
    /\ At(t, "close")
    /\ file' = IF file = "open" THEN "closed" ELSE file
    /\ flushed' = Emptied
    /\ Done(t)
    /\ UNCHANGED <<mode, log, durable, last, now, locks, saved, calls>>

\* rotate() opens the next segment; a file still open goes with its last reference.
NextSegment(t) ==
    /\ At(t, "next")
    /\ file' = "open"
    /\ log' = Append(log, <<>>)
    /\ flushed' = Append(Emptied, 0)
    /\ durable' = Append(durable, 0)
    /\ Done(t)
    /\ UNCHANGED <<mode, last, now, locks, saved, calls>>

\* WriteAheadLog.close(), once it has found the file open.
Shut(t) ==
    /\ At(t, "shut")
    /\ Then(t, IF file = "open" THEN SyncSteps \o <<"close", "drop">> ELSE <<>>)
    /\ UNCHANGED <<mode, files, last, now, locks, saved, calls>>

Drop(t) ==
    /\ At(t, "drop")
    /\ file' = "none"
    /\ Done(t)
    /\ UNCHANGED <<mode, log, flushed, durable, last, now, locks, saved, calls>>

\* Only one mode looks at the clock.
Tick ==
    /\ mode = "every_sec"
    /\ now < MaxNow
    /\ now' = now + 1
    /\ UNCHANGED <<mode, files, last, locks, todo, saved, calls>>

Step(t) ==
    \/ Lock(t) \/ Unlock(t) \/ Enter(t) \/ Puts(t) \/ Leave(t) \/ Fail(t)
    \/ Open(t) \/ Write(t) \/ Due(t) \/ Stamp(t) \/ Full(t) \/ Spill(t)
    \/ FlushFile(t) \/ Fsync(t) \/ CloseFile(t) \/ NextSegment(t) \/ Shut(t) \/ Drop(t)

Next ==
    \/ \E t \in Threads : Put(t) \/ Commit(t) \/ Close(t) \/ Step(t)
    \/ Tick

Spec == Init /\ [][Next]_vars

-----------------------------------------------------------------------------
(* Properties *)

Steps == {"lock", "unlock", "enter", "puts", "leave", "open", "write", "mark", "due", "stamp", "full",
          "spill", "flush", "fsync", "close", "next", "shut", "drop"}

\* What is fsynced has left the process before, and that was written before.
TypeOK ==
    /\ DOMAIN flushed = DOMAIN log /\ DOMAIN durable = DOMAIN log
    /\ \A s \in DOMAIN log :
         /\ log[s] \in Seq([kind : {"write", "mark"}, by : Threads, time : 0 .. MaxNow])
         /\ durable[s] <= flushed[s] /\ flushed[s] <= Len(log[s])
    /\ mode \in Modes /\ file \in {"open", "closed", "none"}
    /\ now \in 0 .. MaxNow /\ last \in 0 .. MaxNow
    /\ tree \in Threads \cup {None} /\ manager \in Threads \cup {None}
    /\ \A t \in Threads : todo[t] \in Seq(Steps) /\ saved[t] \in 0 .. MaxNow
    /\ calls \in 0 .. MaxCalls

\* The write frames a crash now may take.
AtRisk ==
    {f \in UNION {{<<s, i>> : i \in DOMAIN log[s]} : s \in DOMAIN log} :
        log[f[1]][f[2]].kind = "write" /\ f[2] > durable[f[1]]}
FrameOf(f) == log[f[1]][f[2]]

\* What a crash leaves of the writes is all of them up to one: when a write is
\* at risk, no later segment has a write in it (wal.py rotate, append; lsm.py put).
PrefixSurvives ==
    \A f \in AtRisk, s \in DOMAIN log :
        s > f[1] => \A i \in DOMAIN log[s] : log[s][i].kind # "write"

\* When commit() is about to return, all that its thread wrote is durable, in
\* every mode, whatever rotations and closes came between (txn.py commit).
CommitDurable == \A t \in Threads : At(t, "leave") => \A f \in AtRisk : FrameOf(f).by # t

\* When a put has appended its frame, no write is at risk in mode always, and in
\* mode every_sec none that is a second old (wal.py append).
LossBounded ==
    \A t \in Threads : At(t, "spill") /\ tree = t =>
        /\ mode = "always" => \A f \in AtRisk : FrameOf(f).by # t
        /\ mode = "every_sec" => \A f \in AtRisk : saved[t] < FrameOf(f).time + Second

=============================================================================
