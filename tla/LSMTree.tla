------------------------------ MODULE LSMTree -------------------------------
(***************************************************************************)
(* The storage engine: MemTable and LSMTree of zenith/storage/lsm.py with  *)
(* the write-ahead log of zenith/storage/wal.py under it.                  *)
(*                                                                         *)
(* Every public operation runs under LSMTree._lock, so operations do not   *)
(* interleave; a crash can fall anywhere inside one.  An operation is      *)
(* therefore cut into steps (pc) at the points where the disk changes,     *)
(* and Crash is enabled between any two of them.                           *)
(*                                                                         *)
(* A table (a memtable or an SSTable file) maps every key to its value, to *)
(* Tombstone, or to Absent when the table has no entry for it.  The log is *)
(* the set of its readable frames, ordered by lsn.  Sizes are abstracted:  *)
(* keys and values have any length, so any put may be the one that fills   *)
(* the memtable or the log segment.                                        *)
(***************************************************************************)
EXTENDS Naturals, FiniteSets

CONSTANTS
    Keys,           \* the keys
    Vals,           \* the values
    Absent,         \* no entry
    Tombstone,      \* sstable.py TOMBSTONE
    SyncMode,       \* wal_sync_mode
    CompactAt,      \* number of SSTables that starts a compaction (the code: 4)
    SizeRotates,    \* may a log segment reach max_file_size
    ClientCompacts, \* do clients call compact() (the COMPACT command)
    Platform,       \* what the machine may do besides stopping, see below
    MaxWrites,      \* bound: put() and delete() calls
    MaxOpens        \* bound: times the tree is opened again

(***************************************************************************)
(* "torn"     a crash may leave part of a frame at the end of the log      *)
(* "unsorted" os.listdir returns the log segments in any order             *)
(* "power"    a crash may lose SSTable files the code never fsyncs         *)
(* "unlink"   os.remove may fail with the OSError the code swallows        *)
(* "fsync"    os.fsync may fail with the OSError the code swallows         *)
(* "io"       writing an SSTable may raise (disk full, key over 64KB)      *)
(***************************************************************************)
Faults == {"torn", "unsorted", "power", "unlink", "fsync", "io"}

ASSUME TableAssumption ==
    /\ Absent \notin Vals
    /\ Tombstone \notin Vals
    /\ Tombstone # Absent
ASSUME ModeAssumption == SyncMode \in {"always", "every_sec", "none"}
ASSUME CompactAssumption == CompactAt \in Nat \ {0, 1}
ASSUME FlagAssumption ==
    /\ SizeRotates \in BOOLEAN
    /\ ClientCompacts \in BOOLEAN
    /\ Platform \subseteq Faults
ASSUME BoundAssumption == MaxWrites \in Nat /\ MaxOpens \in Nat

VARIABLES
    \* on disk
    wal,      \* the readable frames of the log
    synced,   \* the frames up to this lsn are fsynced
    segments, \* the log segments that exist
    torn,     \* the segments with part of a frame inside
    sst,      \* SSTable id -> table, for the files that exist
    cached,   \* the SSTables whose data is still in the page cache
    \* in the process
    nextLsn,  \* wal._next_lsn
    seg,      \* wal._current_seq
    mem,      \* memtable
    imm,      \* immutable_memtable, Empty for None
    readers,  \* _sst_readers, in the order of their ids
    nextId,   \* _next_sst_id
    pc,       \* the step the current operation is at
    op,       \* the write being applied, Absent for none
    victims,  \* the SSTables or log segments still to be removed
    closing,  \* is the operation a close()
    \* bounds
    writes,
    opens

disk == <<wal, synced, segments, torn, sst, cached>>
control == <<closing, writes, opens>>
vars == <<disk, nextLsn, seg, mem, imm, readers, nextId, pc, op, victims, control>>

Steps == {"idle", "appended", "flush", "rotate", "merge", "remove", "purge", "down"}

Entries == Vals \cup {Tombstone}
Tables == [Keys -> Entries \cup {Absent}]
Frames == [lsn : Nat, seg : Nat, key : Keys, val : Entries]
Empty == [k \in Keys |-> Absent]

Greatest(S) == CHOOSE x \in S : \A y \in S : y <= x
Least(S) == CHOOSE x \in S : \A y \in S : x <= y

-----------------------------------------------------------------------------
(* Reading *)

FramesOf(W, k) == {f \in W : f.key = k}
Last(W, k) == CHOOSE f \in FramesOf(W, k) : \A g \in FramesOf(W, k) : g.lsn <= f.lsn

\* Mutant of Replay: the DEL frames are skipped.
ReplaySets(W) ==
    [k \in Keys |-> LET S == {f \in W : f.val # Tombstone} IN
        IF FramesOf(S, k) = {} THEN Absent ELSE Last(S, k).val]

\* The memtable that replaying the frames W builds.
Replay(W) == [k \in Keys |-> IF FramesOf(W, k) = {} THEN Absent ELSE Last(W, k).val]

\* The SSTables that know key k, among files (a function id -> table).
Holding(files, k) == {i \in DOMAIN files : files[i][k] # Absent}

\* Mutant of Lookup: the oldest table answers.
LookupOldest(files) ==
    [k \in Keys |-> IF Holding(files, k) = {} THEN Absent
                    ELSE files[Least(Holding(files, k))][k]]

\* What the newest of these SSTables that knows a key says of it.
Lookup(files) ==
    [k \in Keys |-> IF Holding(files, k) = {} THEN Absent
                    ELSE files[Greatest(Holding(files, k))][k]]

Files(ids) == [i \in ids |-> sst[i]]

\* Mutant of Over: the older table in front.
OverSwapped(t, u) == [k \in Keys |-> IF u[k] # Absent THEN u[k] ELSE t[k]]

\* Table t in front of table u.
Over(t, u) == [k \in Keys |-> IF t[k] # Absent THEN t[k] ELSE u[k]]

\* What a client sees of an entry, and of a table: a tombstone is no value.
Seen(e) == IF e = Tombstone THEN Absent ELSE e
Visible(t) == [k \in Keys |-> Seen(t[k])]

\* get() of every key: memtable, immutable memtable, SSTables newest first.
View == Visible(Over(mem, Over(imm, Lookup(Files(readers)))))

\* The map a process that opens these frames and these SSTables comes up with.
Recovered(W, files) == Visible(Over(Replay(W), Lookup(files)))

\* The frames a crash that keeps the log up to lsn n leaves.
Survivors(n) == {f \in wal : f.lsn <= n}

\* The maps a crash now could leave.
Recoverable ==
    {Recovered(Survivors(n), Files(DOMAIN sst \ L)) :
        n \in synced .. (nextLsn - 1), L \in SUBSET cached}

-----------------------------------------------------------------------------
Init ==
    /\ wal = {} /\ synced = 0 /\ segments = {1} /\ torn = {}
    /\ sst = [i \in {} |-> Empty] /\ cached = {}
    /\ nextLsn = 1 /\ seg = 1
    /\ mem = Empty /\ imm = Empty
    /\ readers = {} /\ nextId = 1
    /\ pc = "idle" /\ op = Absent
    /\ victims = {} /\ closing = FALSE
    /\ writes = 0 /\ opens = 0

\* wal.sync(): an fsync that fails is ignored.
Sync == synced' \in {nextLsn - 1} \cup (IF "fsync" \in Platform THEN {synced} ELSE {})

\* wal.rotate()
Rotate ==
    /\ Sync
    /\ seg' = seg + 1
    /\ segments' = segments \cup {seg'}

\* No operation holds the lock.
Idle == pc = "idle" /\ ~closing

\* The first step of put() and delete(): the frame is in the log's buffer.
Append(k, v) ==
    /\ Idle
    /\ writes < MaxWrites
    /\ writes' = writes + 1
    /\ op' = [key |-> k, val |-> v]
    /\ wal' = IF seg \in torn THEN wal
              ELSE wal \cup {[lsn |-> nextLsn, seg |-> seg, key |-> k, val |-> v]}
    /\ nextLsn' = nextLsn + 1
    /\ pc' = "appended"
    /\ UNCHANGED <<synced, segments, torn, sst, cached, seg, mem, imm, readers,
                   nextId, victims, closing, opens>>

Put(k, v) == Append(k, v)
Delete(k) == Append(k, Tombstone)

\* Mutant of FinishAppend: no mode syncs.
FinishAppendLazy ==
    \/ SizeRotates /\ Rotate
    \/ UNCHANGED <<synced, seg, segments>>

\* append() syncs as its mode says and rotates a segment that is large enough.
FinishAppend ==
    \/ SizeRotates /\ Rotate
    \/ /\ \/ SyncMode # "none" /\ Sync
          \/ SyncMode # "always" /\ synced' = synced
       /\ UNCHANGED <<seg, segments>>

\* The memtable becomes immutable and its flush begins.
Swap(table) ==
    /\ imm' = table
    /\ mem' = Empty
    /\ pc' = "flush"

\* The rest of put() and delete(): the memtable takes the entry, and a full
\* one is flushed.
Apply ==
    /\ pc = "appended"
    /\ FinishAppend
    /\ LET table == [mem EXCEPT ![op.key] = op.val] IN
         \/ mem' = table /\ pc' = "idle" /\ UNCHANGED imm
         \/ Swap(table)
    /\ op' = Absent
    /\ UNCHANGED <<wal, torn, sst, cached, nextLsn, readers, nextId, victims, control>>

\* flush(), and the flush that close() starts with.
StartFlush(close) ==
    /\ Idle
    /\ mem # Empty
    /\ Swap(mem)
    /\ closing' = close
    /\ UNCHANGED <<disk, nextLsn, seg, readers, nextId, op, victims, writes, opens>>

Flush == StartFlush(FALSE)
Close == StartFlush(TRUE)

\* flush() of an empty memtable only syncs the log.
FlushNothing ==
    /\ Idle
    /\ mem = Empty
    /\ Sync
    /\ UNCHANGED <<wal, segments, torn, sst, cached, nextLsn, seg, mem, imm,
                   readers, nextId, pc, op, victims, control>>

\* The new SSTable appears under its name: os.replace of the temporary file.
AddTable(table) ==
    /\ sst' = [i \in DOMAIN sst \cup {nextId} |-> IF i = nextId THEN table ELSE sst[i]]
    /\ cached' = IF "power" \in Platform THEN cached \cup {nextId} ELSE cached

WriteTable ==
    /\ pc = "flush"
    /\ AddTable(imm)
    /\ nextId' = nextId + 1
    /\ readers' = readers \cup {nextId}
    /\ pc' = "rotate"
    /\ UNCHANGED <<wal, synced, segments, torn, nextLsn, seg, mem, imm, op, victims, control>>

\* The SSTable cannot be written: the exception ends the operation, and the
\* immutable memtable stays where it is.
WriteFails ==
    /\ "io" \in Platform
    /\ pc \in {"flush", "merge"}
    /\ nextId' = nextId + 1
    /\ pc' = "idle"
    /\ closing' = FALSE
    /\ UNCHANGED <<disk, nextLsn, seg, mem, imm, readers, op, victims, writes, opens>>

\* The end of _flush_memtable; enough SSTables start a compaction.
RotateLog ==
    /\ pc = "rotate"
    /\ Rotate
    /\ imm' = Empty
    /\ pc' = IF Cardinality(readers) >= CompactAt THEN "merge" ELSE "idle"
    /\ UNCHANGED <<wal, torn, sst, cached, nextLsn, mem, readers, nextId, op, victims, control>>

\* compact() called by a client.
Compact ==
    /\ ClientCompacts
    /\ Idle
    /\ Cardinality(readers) >= 2
    /\ pc' = "merge"
    /\ UNCHANGED <<disk, nextLsn, seg, mem, imm, readers, nextId, op, victims, control>>

\* The newest entry of every key, without tombstones.
Merged == Visible(Lookup(Files(readers)))

\* compact() writes its output; an empty one leaves no file.
Merge ==
    /\ pc = "merge"
    /\ IF Merged = Empty THEN UNCHANGED <<sst, cached>> ELSE AddTable(Merged)
    /\ nextId' = nextId + 1
    /\ victims' = readers
    /\ readers' = {}
    /\ pc' = "remove"
    /\ UNCHANGED <<wal, synced, segments, torn, nextLsn, seg, mem, imm, op, control>>

\* compact() removes the tables it merged, oldest first, ignoring errors.
RemoveTable ==
    /\ pc = "remove"
    /\ victims # {}
    /\ LET v == Least(victims) IN
         /\ victims' = victims \ {v}
         /\ \/ /\ sst' = Files(DOMAIN sst \ {v})
               /\ cached' = cached \ {v}
            \/ "unlink" \in Platform /\ UNCHANGED <<sst, cached>>
    /\ UNCHANGED <<wal, synced, segments, torn, nextLsn, seg, mem, imm, readers,
                   nextId, pc, op, control>>

\* Mutant of Output: it is opened unseen.
OutputUnchecked == {nextId - 1}

\* What compact() opens: its output, if the file exists.
Output == {nextId - 1} \cap DOMAIN sst

\* What compact() then purges from the log.
Obsolete == {s \in segments : s < seg}

OpenMerged ==
    /\ pc = "remove"
    /\ victims = {}
    /\ readers' = Output
    /\ victims' = Obsolete
    /\ pc' = "purge"
    /\ UNCHANGED <<disk, nextLsn, seg, mem, imm, nextId, op, control>>

\* Mutant of PurgeOrder: any order.
PurgeOrderAny(s) == TRUE

\* The order os.listdir names the segments in.
PurgeOrder(s) == "unsorted" \in Platform \/ s = Least(victims)

\* One segment of purge_before.
PurgeSegment ==
    /\ pc = "purge"
    /\ \E s \in victims :
         /\ PurgeOrder(s)
         /\ victims' = victims \ {s}
         /\ \/ /\ segments' = segments \ {s}
               /\ torn' = torn \ {s}
               /\ wal' = {f \in wal : f.seg # s}
            \/ "unlink" \in Platform /\ UNCHANGED <<segments, torn, wal>>
    /\ UNCHANGED <<synced, sst, cached, nextLsn, seg, mem, imm, readers, nextId,
                   pc, op, control>>

PurgeDone ==
    /\ pc = "purge"
    /\ victims = {}
    /\ pc' = "idle"
    /\ UNCHANGED <<disk, nextLsn, seg, mem, imm, readers, nextId, op, victims, control>>

\* The process state is gone.
Stop ==
    /\ mem' = Empty /\ imm' = Empty
    /\ readers' = {} /\ victims' = {}
    /\ op' = Absent
    /\ closing' = FALSE
    /\ pc' = "down"

\* The end of close(): what is left in the log's buffer is synced.
Shutdown ==
    /\ pc = "idle"
    /\ closing \/ mem = Empty
    /\ Stop
    /\ Sync
    /\ UNCHANGED <<wal, segments, torn, sst, cached, nextLsn, seg, nextId, writes, opens>>

\* A crash keeps the frames up to some lsn not before synced, maybe part of
\* the next one, and, without "power", every SSTable.
Crash ==
    /\ pc # "down"
    /\ Stop
    /\ \E n \in synced .. (nextLsn - 1) :
         /\ wal' = Survivors(n)
         /\ synced' = n
         /\ nextLsn' = n + 1
         /\ torn' \in {torn} \cup (IF "torn" \in Platform /\ n < nextLsn - 1
                                   THEN {torn \cup {seg}} ELSE {})
    /\ \E L \in SUBSET cached :
         /\ sst' = Files(DOMAIN sst \ L)
         /\ cached' = {}
    /\ UNCHANGED <<segments, seg, nextId, writes, opens>>

\* LSMTree(): load the SSTables, replay the log, go on in its last segment.
Open ==
    /\ pc = "down"
    /\ opens < MaxOpens
    /\ opens' = opens + 1
    /\ readers' = DOMAIN sst
    /\ nextId' = IF DOMAIN sst = {} THEN 1 ELSE Greatest(DOMAIN sst) + 1
    /\ seg' = Greatest(segments)
    /\ nextLsn' = IF wal = {} THEN 1 ELSE Greatest({f.lsn : f \in wal}) + 1
    /\ synced' = nextLsn' - 1
    /\ mem' = Replay(wal)
    /\ pc' = "idle"
    /\ UNCHANGED <<wal, segments, torn, sst, cached, imm, op, victims, closing, writes>>

\* The kernel writes an SSTable out in its own time.
WriteBack ==
    /\ \E i \in cached : cached' = cached \ {i}
    /\ UNCHANGED <<wal, synced, segments, torn, sst, nextLsn, seg, mem, imm,
                   readers, nextId, pc, op, victims, control>>

Client ==
    \/ \E k \in Keys, v \in Vals : Put(k, v)
    \/ \E k \in Keys : Delete(k)
    \/ Flush \/ FlushNothing \/ Compact \/ Close

Background ==
    \/ Apply \/ WriteTable \/ WriteFails \/ RotateLog \/ Merge \/ RemoveTable
    \/ OpenMerged \/ PurgeSegment \/ PurgeDone \/ Shutdown

Machine == Crash \/ Open \/ WriteBack

Next == Client \/ Background \/ Machine

Spec == Init /\ [][Next]_vars

-----------------------------------------------------------------------------
(* Properties *)

\* The types of the state, and what the log and the files never contradict:
\* frames lie in segments that exist, below the next lsn; ids below nextId
\* while the process runs.
TypeOK ==
    /\ wal \subseteq Frames
    /\ synced \in Nat /\ nextLsn \in Nat \ {0} /\ seg \in Nat /\ nextId \in Nat \ {0}
    /\ segments \subseteq Nat /\ torn \subseteq segments
    /\ DOMAIN sst \subseteq Nat /\ sst \in [DOMAIN sst -> Tables]
    /\ cached \subseteq DOMAIN sst
    /\ mem \in Tables /\ imm \in Tables
    /\ readers \subseteq DOMAIN sst
    /\ pc \in Steps
    /\ op \in [key : Keys, val : Entries] \cup {Absent}
    /\ pc = "appended" => op \in [key : Keys, val : Entries]
    /\ victims \subseteq Nat
    /\ closing \in BOOLEAN
    /\ writes \in 0 .. MaxWrites /\ opens \in 0 .. MaxOpens

\* A running process and one that replays the log now agree on every key:
\* memtables, SSTables, compactions and purges never hide or revive a value
\* that get() would answer differently after a restart (lsm.py get,
\* _recover_from_wal).
ReadsMatchLog == pc = "idle" => View = Recovered(wal, sst)

\* With wal_sync_mode "always" no crash can change what a client reads once
\* its write has returned (README.md "Crash Consistency").
AckedSurvive == SyncMode = "always" /\ pc = "idle" => Recoverable = {View}

\* Until the first segment is purged SSTables hold nothing the log does not have:
\* whatever flushes and compactions fail, whatever files are lost with the page
\* cache or left behind, a restart comes up with every write (lsm.py
\* _flush_memtable, compact, _recover_from_wal).
LogSuffices ==
    segments = 1 .. seg /\ torn = {} => Recovered(wal, sst) = Visible(Replay(wal))

\* Mutant of ScanView: what is already there is kept.
ScanViewFirst ==
    LET upTo[n \in 0 .. nextId] ==
          IF n = 0 THEN Empty
          ELSE IF n \in readers THEN Over(upTo[n - 1], sst[n]) ELSE upTo[n - 1]
    IN Visible(Over(mem, Over(imm, upTo[nextId])))

\* What scan() has of the readers with ids up to n: from oldest to newest, each
\* overwriting what came before.
ScanUpTo[n \in 0 .. nextId] ==
    IF n = 0 THEN Empty
    ELSE IF n \in readers THEN Over(sst[n], ScanUpTo[n - 1]) ELSE ScanUpTo[n - 1]

\* scan(): the SSTables, then the memtables.
ScanView == Visible(Over(mem, Over(imm, ScanUpTo[nextId])))

\* scan() lists exactly what get() answers, though they walk the tables in
\* opposite directions (lsm.py get, scan).
ScanAgrees == pc = "idle" => ScanView = View

\* The storage engine is a durable map: a write changes one key, flushes and
\* compactions change none, and a crash comes up with a map it was allowed to.
Store == INSTANCE DurableMap
    WITH store <- Recovered(wal, sst), fallback <- Recoverable
Durable == Store!Spec

\* The same of one key alone.
KeyStore(k) == INSTANCE DurableMap
    WITH Keys <- {k},
         store <- [x \in {k} |-> Recovered(wal, sst)[x]],
         fallback <- {[x \in {k} |-> m[x]] : m \in Recoverable}
KeyDurable ==
    /\ \A k \in Keys : KeyStore(k)!Init
    /\ [][\A k \in Keys : [KeyStore(k)!Next]_(KeyStore(k)!vars)]_vars

=============================================================================
