--------------------------- MODULE LSMTreeProofs ----------------------------
(***************************************************************************)
(* Proofs about LSMTree, for every set of keys and values, every number of *)
(* operations, crashes and restarts.                                       *)
(***************************************************************************)
EXTENDS LSMTree, TLAPS, WellFoundedInduction

-----------------------------------------------------------------------------
(* Lemmas *)

\* A bounded nonempty set of naturals has a greatest element, and Greatest
\* picks it (lsm.py max_id, wal.py max_lsn, the latest segment).
LEMMA GreatestIn ==
    ASSUME NEW S \in SUBSET Nat, S # {},
           NEW b \in Nat, \A x \in S : x <= b
    PROVE  /\ Greatest(S) \in S
           /\ \A y \in S : y <= Greatest(S)
<1> DEFINE T == {b - x : x \in S}
<1>1. T \subseteq Nat /\ T # {}
  <2>1. \A x \in S : x \in Nat /\ b - x \in Nat
    OBVIOUS
  <2>2. PICK x \in S : TRUE
    OBVIOUS
  <2>3. b - x \in T
    OBVIOUS
  <2>4. T \subseteq Nat
    BY <2>1
  <2> QED  BY <2>3, <2>4
<1>2. PICK t \in T : \A u \in T : ~ (<<u, t>> \in OpToRel(<, Nat))
  <2>1. IsWellFoundedOn(OpToRel(<, Nat), Nat)
    BY NatLessThanWellFounded
  <2> QED  BY <1>1, <2>1, WFMin
<1>3. PICK m \in S : t = b - m
  OBVIOUS
<1>4. \A y \in S : y <= m
  <2> SUFFICES ASSUME NEW y \in S, ~ (y <= m)
               PROVE  FALSE
    OBVIOUS
  <2>1. b - y \in T /\ b - y \in Nat /\ t \in Nat
    BY <1>1
  <2>2. b - y < t
    BY <1>3
  <2> QED  BY <1>2, <2>1, <2>2 DEF OpToRel
<1> QED  BY <1>4 DEF Greatest

\* The same for the least element.
LEMMA LeastIn ==
    ASSUME NEW S \in SUBSET Nat, S # {}
    PROVE  /\ Least(S) \in S
           /\ \A y \in S : Least(S) <= y
<1>1. PICK m \in S : \A y \in S : ~ (<<y, m>> \in OpToRel(<, Nat))
  BY NatLessThanWellFounded, WFMin
<1>2. \A y \in S : m <= y
  <2> SUFFICES ASSUME NEW y \in S, ~ (m <= y)
               PROVE  FALSE
    OBVIOUS
  <2>1. y \in Nat /\ m \in Nat /\ y < m
    OBVIOUS
  <2> QED  BY <1>1, <2>1 DEF OpToRel
<1> QED  BY <1>2 DEF Least

-----------------------------------------------------------------------------
(* Types *)

\* What TypeOK needs to be inductive: lsns, segment numbers and SSTable ids
\* stay below the counters they come from.
Ranges ==
    /\ \A f \in wal : f.lsn < nextLsn /\ f.seg \in segments
    /\ \A i \in DOMAIN sst : i < nextId
    /\ seg \in segments /\ \A s \in segments : s <= seg
    /\ synced < nextLsn
    /\ pc = "remove" => readers = {}
    /\ pc = "purge" => \A s \in victims : s < seg

TypeInv == TypeOK /\ Ranges

\* Every entry a table can be asked for is an entry or Absent.
LEMMA LookupType ==
    ASSUME NEW files, DOMAIN files \in SUBSET Nat, NEW b \in Nat,
           \A i \in DOMAIN files : i <= b /\ files[i] \in Tables
    PROVE  /\ Lookup(files) \in Tables
           /\ Visible(Lookup(files)) \in [Keys -> Vals \cup {Absent}]
<1>1. ASSUME NEW k \in Keys, Holding(files, k) # {}
      PROVE  Greatest(Holding(files, k)) \in DOMAIN files
  <2>1. Holding(files, k) \in SUBSET Nat /\ \A x \in Holding(files, k) : x <= b
    BY DEF Holding
  <2>2. Greatest(Holding(files, k)) \in Holding(files, k)
    BY <1>1, <2>1, GreatestIn
  <2> QED  BY <2>2 DEF Holding
<1>2. Lookup(files) \in Tables
  BY <1>1 DEF Lookup, Tables
<1> QED  BY <1>2 DEF Visible, Seen, Tables, Entries

\* The same of the memtable a replay builds.
LEMMA LastIn ==
    ASSUME NEW W \in SUBSET Frames, NEW b \in Nat, \A f \in W : f.lsn <= b,
           NEW k \in Keys, FramesOf(W, k) # {}
    PROVE  /\ Last(W, k) \in FramesOf(W, k)
           /\ \A g \in FramesOf(W, k) : g.lsn <= Last(W, k).lsn
<1> DEFINE S == {f.lsn : f \in FramesOf(W, k)}
<1>1. S \in SUBSET Nat /\ \A x \in S : x <= b
  BY DEF FramesOf, Frames
<1>2. S # {}
  BY DEF FramesOf
<1>3. Greatest(S) \in S /\ \A y \in S : y <= Greatest(S)
  BY <1>1, <1>2, GreatestIn
<1>4. PICK f \in FramesOf(W, k) : f.lsn = Greatest(S)
  BY <1>3
<1>5. \A g \in FramesOf(W, k) : g.lsn <= f.lsn
  BY <1>3, <1>4
<1> QED  BY <1>5 DEF Last

LEMMA ReplayType ==
    ASSUME NEW W \in SUBSET Frames, NEW b \in Nat, \A f \in W : f.lsn <= b
    PROVE  Replay(W) \in Tables
BY LastIn DEF Replay, Tables, FramesOf, Frames

LEMMA EmptyType == Empty \in Tables
BY DEF Empty, Tables

LEMMA TypeInit == Init => TypeInv
<1> SUFFICES ASSUME Init
             PROVE  TypeInv
  OBVIOUS
<1>1. DOMAIN sst = {} /\ sst \in [{} -> Tables]
  BY DEF Init
<1>2. TypeOK
  <2>1. /\ wal = {} /\ synced = 0 /\ segments = {1} /\ torn = {} /\ cached = {}
        /\ nextLsn = 1 /\ seg = 1 /\ nextId = 1 /\ mem = Empty /\ imm = Empty
        /\ readers = {} /\ pc = "idle" /\ op = Absent /\ victims = {}
        /\ closing \in BOOLEAN /\ writes = 0 /\ opens = 0
    BY DEF Init
  <2> QED  BY <1>1, <2>1, EmptyType, BoundAssumption DEF TypeOK, Steps
<1>3. Ranges
  BY <1>1 DEF Init, Ranges
<1> QED  BY <1>2, <1>3 DEF TypeInv

\* Every step keeps the types and the ranges.
LEMMA TypeStep == TypeInv /\ [Next]_vars => TypeInv'
<1> SUFFICES ASSUME TypeInv, [Next]_vars
             PROVE  TypeInv'
  OBVIOUS
<1> USE BoundAssumption, EmptyType
<1> USE DEF TypeInv, TypeOK, Ranges, Steps
<1>1. ASSUME NEW k \in Keys, NEW v \in Entries, Append(k, v)
      PROVE  TypeInv'
  <2> DEFINE f == [lsn |-> nextLsn, seg |-> seg, key |-> k, val |-> v]
  <2>1. f \in Frames /\ f.lsn = nextLsn /\ f.seg = seg
    BY DEF Frames
  <2>2. wal' \in SUBSET (wal \cup {f}) /\ nextLsn' = nextLsn + 1
    BY <1>1 DEF Append
  <2>3. op' \in [key : Keys, val : Entries]
    BY <1>1 DEF Append
  <2> \A g \in wal : g.lsn \in Nat
    BY DEF Frames
  <2>4. TypeOK'
    BY <1>1, <2>1, <2>2, <2>3 DEF Append, Files
  <2>5. Ranges'
    BY <1>1, <2>1, <2>2 DEF Append, Idle
  <2> QED  BY <2>4, <2>5
<1>2. CASE Apply
  BY <1>2 DEF Apply, FinishAppend, Swap, Rotate, Sync, Tables, Files, control
<1>3. CASE Flush \/ Close
  BY <1>3 DEF Flush, Close, StartFlush, Idle, Swap, Files, disk
<1>4. CASE FlushNothing
  BY <1>4 DEF FlushNothing, Sync, Files, control
<1>5. CASE WriteTable
  BY <1>5 DEF WriteTable, AddTable, Files, control
<1>6. CASE WriteFails
  <2>1. /\ nextId' = nextId + 1 /\ pc' = "idle" /\ closing' \in BOOLEAN
        /\ UNCHANGED <<disk, nextLsn, seg, mem, imm, readers, op, victims, writes, opens>>
    BY <1>6 DEF WriteFails
  <2> QED  BY <2>1 DEF disk
<1>7. CASE RotateLog
  BY <1>7 DEF RotateLog, Rotate, Sync, Files, control
<1>8. CASE Compact
  BY <1>8 DEF Compact, Idle, Files, disk, control
<1>9. CASE Merge
  <2>1. Merged \in Tables
    <3>1. DOMAIN Files(readers) = readers /\ \A i \in readers : Files(readers)[i] = sst[i]
      BY DEF Files
    <3>2. Visible(Lookup(Files(readers))) \in [Keys -> Vals \cup {Absent}]
      BY <3>1, LookupType
    <3> QED  BY <3>2 DEF Merged, Tables, Entries
  <2>2. CASE Merged = Empty
    BY <1>9, <2>2 DEF Merge, Files, control
  <2>3. CASE Merged # Empty
    BY <1>9, <2>1, <2>3 DEF Merge, AddTable, Files, control
  <2> QED  BY <2>2, <2>3
<1>10. CASE RemoveTable
  BY <1>10 DEF RemoveTable, Files, control
<1>11. CASE OpenMerged
  BY <1>11 DEF OpenMerged, Output, Obsolete, Files, disk, control
<1>12. CASE PurgeSegment
  BY <1>12 DEF PurgeSegment, Files, control
<1>13. CASE PurgeDone
  BY <1>13 DEF PurgeDone, Files, disk, control
<1>14. CASE Shutdown
  <2>1. /\ mem' = Empty /\ imm' = Empty /\ readers' = {} /\ victims' = {} /\ op' = Absent
        /\ closing' \in BOOLEAN /\ pc' = "down" /\ synced' \in {synced, nextLsn - 1}
        /\ UNCHANGED <<wal, segments, torn, sst, cached, nextLsn, seg, nextId, writes, opens>>
    BY <1>14 DEF Shutdown, Stop, Sync
  <2> QED  BY <2>1
<1>15. CASE Crash
  <2>1. PICK n \in synced .. (nextLsn - 1) :
          /\ wal' = Survivors(n) /\ synced' = n /\ nextLsn' = n + 1
          /\ torn' \in {torn, torn \cup {seg}}
    BY <1>15 DEF Crash
  <2>2. /\ n \in Nat /\ wal' \subseteq wal
        /\ \A f \in wal' : f.lsn < n + 1 /\ f.seg \in segments
    BY <2>1 DEF Survivors, Frames
  <2>3. DOMAIN sst' \subseteq DOMAIN sst /\ sst' \in [DOMAIN sst' -> Tables] /\ cached' = {}
    BY <1>15 DEF Crash, Files
  <2>4. /\ mem' = Empty /\ imm' = Empty /\ readers' = {} /\ victims' = {} /\ op' = Absent
        /\ closing' \in BOOLEAN /\ pc' = "down"
        /\ UNCHANGED <<segments, seg, nextId, writes, opens>>
    BY <1>15 DEF Crash, Stop
  <2>5. TypeOK'
    BY <2>1, <2>2, <2>3, <2>4
  <2>6. Ranges'
    BY <2>1, <2>2, <2>3, <2>4
  <2> QED  BY <2>5, <2>6
<1>16. CASE Open
  <2>1. mem' \in Tables
    <3>1. \A f \in wal : f.lsn <= nextLsn
      BY DEF Frames
    <3> QED  BY <1>16, <3>1, ReplayType DEF Open
  <2>2. nextId' \in Nat \ {0} /\ \A i \in DOMAIN sst : i < nextId'
    <3>1. CASE DOMAIN sst = {}
      BY <1>16, <3>1 DEF Open
    <3>2. CASE DOMAIN sst # {}
      <4>1. Greatest(DOMAIN sst) \in DOMAIN sst
            /\ \A y \in DOMAIN sst : y <= Greatest(DOMAIN sst)
        <5>1. \A i \in DOMAIN sst : i <= nextId
          OBVIOUS
        <5> QED  BY <3>2, <5>1, GreatestIn
      <4> QED  BY <1>16, <3>2, <4>1 DEF Open
    <3> QED  BY <3>1, <3>2
  <2>3. seg' = seg
    <3>1. Greatest(segments) \in segments /\ \A s \in segments : s <= Greatest(segments)
      BY GreatestIn
    <3> QED  BY <1>16, <3>1 DEF Open
  <2>4. nextLsn' \in Nat \ {0} /\ \A f \in wal : f.lsn < nextLsn'
    <3>1. CASE wal = {}
      BY <1>16, <3>1 DEF Open
    <3>2. CASE wal # {}
      <4> DEFINE S == {f.lsn : f \in wal}
      <4>1. S \in SUBSET Nat /\ S # {} /\ \A x \in S : x <= nextLsn
        BY <3>2 DEF Frames
      <4>2. Greatest(S) \in S /\ \A y \in S : y <= Greatest(S)
        BY <4>1, GreatestIn
      <4>3. nextLsn' = Greatest(S) + 1
        BY <1>16, <3>2 DEF Open
      <4>4. Greatest(S) \in Nat /\ \A f \in wal : f.lsn \in Nat /\ f.lsn <= Greatest(S)
        BY <4>1, <4>2 DEF Frames
      <4> HIDE DEF S
      <4> QED  BY <4>3, <4>4
    <3> QED  BY <3>1, <3>2
  <2>5. TypeOK'
    BY <1>16, <2>1, <2>2, <2>3, <2>4, SMTT(60) DEF Open, Files
  <2>6. Ranges'
    BY <1>16, <2>2, <2>3, <2>4 DEF Open
  <2> QED  BY <2>5, <2>6
<1>17. CASE WriteBack
  BY <1>17 DEF WriteBack, Files, control
<1>18. CASE UNCHANGED vars
  BY <1>18 DEF vars, disk, control, Files
<1> QED
  BY <1>1, <1>2, <1>3, <1>4, <1>5, <1>6, <1>7, <1>8, <1>9, <1>10, <1>11, <1>12,
     <1>13, <1>14, <1>15, <1>16, <1>17, <1>18
     DEF Next, Client, Background, Machine, Put, Delete, Entries

\* The state always has its types (lsm.py LSMTree, wal.py WriteAheadLog).
THEOREM TypeCorrect == Spec => []TypeOK
<1>1. TypeInv => TypeOK
  BY DEF TypeInv
<1> QED  BY TypeInit, TypeStep, <1>1, PTL DEF Spec

-----------------------------------------------------------------------------
(***************************************************************************)
(* Reads.  The argument, for a machine that only stops (Platform = {}) and *)
(* clients that leave compaction to the tree: a memtable holds the last    *)
(* logged value of each of its keys (Logged); a key with frames that no    *)
(* memtable holds is right in the SSTables (Flushed); a compaction keeps   *)
(* that so while it replaces them (Removal), and a purge because it takes  *)
(* the oldest frames of every key first (LogOrder).                        *)
(***************************************************************************)

\* The lsn orders the frames, within and across segments.
LogOrder ==
    \A f, g \in wal : /\ f.lsn = g.lsn => f = g
                      /\ f.seg < g.seg => f.lsn < g.lsn

\* A write between its frame and its memtable entry.
Pending(k) == pc = "appended" /\ k = op.key

LastValue(k) == Last(wal, k).val

\* What the table says of a key is what its last frame says.
Logged(table) ==
    \A k \in Keys : table[k] # Absent /\ ~Pending(k) =>
        FramesOf(wal, k) # {} /\ table[k] = LastValue(k)

PendingLogged ==
    pc = "appended" => FramesOf(wal, op.key) # {} /\ LastValue(op.key) = op.val

\* Which tables hold something at which step.
Phases ==
    /\ torn = {} /\ cached = {}
    /\ pc \in {"flush", "rotate", "merge", "remove", "purge", "down"} => mem = Empty
    /\ pc \notin {"flush", "rotate"} => imm = Empty
    /\ pc \notin {"remove", "down"} => readers = DOMAIN sst
    /\ pc = "purge" => victims = {s \in segments : s < seg}
    /\ pc = "rotate" => \A k \in Keys : imm[k] # Absent => Lookup(sst)[k] = imm[k]

Flushed ==
    pc \notin {"remove", "down"} =>
        \A k \in Keys :
            /\ FramesOf(wal, k) # {}
            /\ mem[k] = Absent /\ imm[k] = Absent /\ ~Pending(k)
            => Seen(LastValue(k)) = Seen(Lookup(sst)[k])

\* The output of the compaction under way, as a table.
OutputEntry(k) == IF nextId - 1 \in DOMAIN sst THEN sst[nextId - 1][k] ELSE Absent

Removal ==
    pc = "remove" =>
        /\ victims \subseteq DOMAIN sst \ {nextId - 1}
        /\ DOMAIN sst \subseteq victims \cup {nextId - 1}
        /\ \A k \in Keys : FramesOf(wal, k) # {} => Seen(LastValue(k)) = Seen(OutputEntry(k))

AllSynced == SyncMode = "always" /\ pc # "appended" => synced = nextLsn - 1

ReadInv ==
    /\ TypeInv
    /\ LogOrder
    /\ Logged(mem) /\ Logged(imm) /\ PendingLogged
    /\ Phases
    /\ Flushed
    /\ Removal
    /\ AllSynced

LEMMA GreatestIs ==
    ASSUME NEW S \in SUBSET Nat, NEW m \in S, \A y \in S : y <= m
    PROVE  Greatest(S) = m
<1>1. Greatest(S) \in S /\ \A y \in S : y <= Greatest(S)
  BY DEF Greatest
<1>2. Greatest(S) \in Nat /\ m \in Nat /\ Greatest(S) <= m /\ m <= Greatest(S)
  BY <1>1
<1> HIDE <1>1
<1> QED  BY <1>2

LEMMA LastIs ==
    ASSUME NEW W \in SUBSET Frames, NEW k, NEW f \in FramesOf(W, k),
           \A g \in FramesOf(W, k) : g.lsn <= f.lsn,
           \A g \in W : g.lsn = f.lsn => g = f
    PROVE  Last(W, k) = f
<1> DEFINE P(x) == \A g \in FramesOf(W, k) : g.lsn <= x.lsn
<1>1. Last(W, k) \in FramesOf(W, k) /\ P(Last(W, k))
  BY DEF Last
<1>2. FramesOf(W, k) \subseteq W /\ \A g \in W : g.lsn \in Nat
  BY DEF FramesOf, Frames
<1>3. Last(W, k).lsn <= f.lsn /\ f.lsn <= Last(W, k).lsn
  BY <1>1
<1>4. Last(W, k).lsn = f.lsn
  BY <1>1, <1>2, <1>3
<1> QED  BY <1>1, <1>2, <1>4

\* A key that keeps a frame when the frames of the oldest segment go keeps its
\* last one (wal.py purge_before).
LEMMA PurgeKeepsLast ==
    ASSUME TypeInv, LogOrder, NEW s \in Nat, \A f \in wal : f.seg # s => s < f.seg,
           wal' = {f \in wal : f.seg # s}
    PROVE  \A k \in Keys : FramesOf(wal', k) # {} =>
             FramesOf(wal, k) # {} /\ Last(wal', k) = Last(wal, k)
<1> SUFFICES ASSUME NEW k \in Keys, FramesOf(wal', k) # {}
             PROVE  FramesOf(wal, k) # {} /\ Last(wal', k) = Last(wal, k)
  OBVIOUS
<1> DEFINE f == Last(wal, k)
<1>1. FramesOf(wal', k) \subseteq FramesOf(wal, k) /\ FramesOf(wal, k) \subseteq wal
  BY DEF FramesOf
<1>2. wal \in SUBSET Frames /\ nextLsn \in Nat /\ \A x \in wal : x.lsn \in Nat /\ x.lsn <= nextLsn
  BY DEF TypeInv, TypeOK, Ranges, Frames
<1>3. f \in FramesOf(wal, k) /\ \A g \in FramesOf(wal, k) : g.lsn <= f.lsn
  BY <1>1, <1>2, LastIn
<1> HIDE DEF f
<1>4. PICK g \in FramesOf(wal', k) : TRUE
  OBVIOUS
<1>5. f.seg # s
  <2>1. g \in wal /\ f \in wal /\ g.seg # s /\ g.lsn <= f.lsn
    BY <1>1, <1>3, <1>4 DEF FramesOf
  <2>2. s < g.seg
    BY <2>1
  <2>3. f.seg < g.seg => f.lsn < g.lsn
    BY <2>1 DEF LogOrder
  <2> QED  BY <1>2, <2>1, <2>2, <2>3
<1>6. f \in FramesOf(wal', k)
  BY <1>3, <1>5 DEF FramesOf
<1>7. wal' \in SUBSET Frames /\ \A x \in wal' : x.lsn = f.lsn => x = f
  BY <1>1, <1>2, <1>3 DEF LogOrder
<1>8. \A x \in FramesOf(wal', k) : x.lsn <= f.lsn
  BY <1>1, <1>3
<1>9. Last(wal', k) = f
  BY <1>6, <1>7, <1>8, LastIs
<1> QED  BY <1>1, <1>9 DEF f

\* A new SSTable answers for the keys it has and hides nothing else.
LEMMA LookupAdd ==
    ASSUME NEW files, DOMAIN files \in SUBSET Nat,
           NEW id \in Nat, \A i \in DOMAIN files : i < id,
           NEW new, DOMAIN new = DOMAIN files \cup {id},
           \A i \in DOMAIN files : new[i] = files[i],
           NEW k \in Keys
    PROVE  Lookup(new)[k] = IF new[id][k] # Absent THEN new[id][k] ELSE Lookup(files)[k]
<1>1. Holding(files, k) \in SUBSET Nat /\ \A x \in Holding(files, k) : x < id
  BY DEF Holding
<1>2. CASE new[id][k] # Absent
  <2>1. Holding(new, k) = Holding(files, k) \cup {id}
    BY <1>2 DEF Holding
  <2>2. Greatest(Holding(new, k)) = id
    BY <1>1, <2>1, GreatestIs
  <2> QED  BY <1>2, <2>1, <2>2 DEF Lookup
<1>3. CASE new[id][k] = Absent
  <2>1. Holding(new, k) = Holding(files, k)
    BY <1>3 DEF Holding
  <2>2. CASE Holding(files, k) = {}
    BY <1>3, <2>1, <2>2 DEF Lookup
  <2>3. CASE Holding(files, k) # {}
    <3>1. Greatest(Holding(files, k)) \in Holding(files, k)
      <4>1. \A x \in Holding(files, k) : x <= id
        BY <1>1
      <4> QED  BY <1>1, <2>3, <4>1, GreatestIn
    <3> QED  BY <1>3, <2>1, <2>3, <3>1 DEF Lookup, Holding
  <2> QED  BY <2>2, <2>3
<1> QED  BY <1>2, <1>3

LEMMA LookupOne ==
    ASSUME NEW files, NEW c \in Nat, DOMAIN files \subseteq {c}, NEW k \in Keys
    PROVE  Lookup(files)[k] = IF c \in DOMAIN files THEN files[c][k] ELSE Absent
<1>1. CASE Holding(files, k) = {}
  BY <1>1 DEF Lookup, Holding
<1>2. CASE Holding(files, k) # {}
  <2>1. Holding(files, k) = {c} /\ c \in DOMAIN files
    BY <1>2 DEF Holding
  <2>2. Greatest({c}) = c
    BY GreatestIs
  <2> QED  BY <2>1, <2>2 DEF Lookup
<1> QED  BY <1>1, <1>2

LEMMA SeenTwice == \A e : Seen(Seen(e)) = Seen(e) /\ Seen(Absent) = Absent
BY TableAssumption DEF Seen

LEMMA ReadInit == Init => ReadInv
<1> SUFFICES ASSUME Init
             PROVE  ReadInv
  OBVIOUS
<1>1. /\ wal = {} /\ synced = 0 /\ torn = {} /\ cached = {} /\ nextLsn = 1
      /\ mem = Empty /\ imm = Empty /\ readers = {} /\ DOMAIN sst = {} /\ pc = "idle"
  BY DEF Init
<1>2. \A k : FramesOf(wal, k) = {}
  BY <1>1 DEF FramesOf
<1> QED
  BY <1>1, <1>2, TypeInit
     DEF ReadInv, LogOrder, Logged, PendingLogged, Phases, Flushed, Removal, AllSynced, Empty

\* Every step of such a machine keeps the read invariant.
LEMMA ReadStep ==
    ASSUME Platform = {}, ~ClientCompacts
    PROVE  ReadInv /\ [Next]_vars => ReadInv'
<1> SUFFICES ASSUME ReadInv, [Next]_vars
             PROVE  ReadInv'
  OBVIOUS
<1> USE DEF ReadInv
<1>0. TypeInv'
  BY TypeStep
<1>1. ASSUME NEW k0 \in Keys, NEW v \in Entries, Append(k0, v)
      PROVE  ReadInv'
  <2> DEFINE f == [lsn |-> nextLsn, seg |-> seg, key |-> k0, val |-> v]
  <2>1. /\ pc = "idle" /\ pc' = "appended" /\ op' = [key |-> k0, val |-> v]
        /\ wal' = wal \cup {f}
        /\ UNCHANGED <<torn, sst, cached, mem, imm, readers>>
    BY <1>1 DEF Append, Idle, Phases
  <2>2. \A g \in wal : /\ g.lsn \in Nat /\ g.lsn < nextLsn
                       /\ g.seg \in Nat /\ g.seg <= seg
    BY DEF TypeInv, TypeOK, Ranges, Frames
  <2>3. nextLsn \in Nat /\ seg \in Nat
    BY DEF TypeInv, TypeOK
  <2>4. LogOrder'
    BY <2>1, <2>2, <2>3 DEF LogOrder
  <2>5. \A k \in Keys : k # k0 => FramesOf(wal', k) = FramesOf(wal, k)
    BY <2>1 DEF FramesOf
  <2>6. f \in FramesOf(wal', k0)
    BY <2>1 DEF FramesOf
  <2>7. Last(wal', k0) = f
    <3>1. wal' \in SUBSET Frames
      BY <1>0 DEF TypeInv, TypeOK
    <3>2. \A g \in FramesOf(wal', k0) : g.lsn <= f.lsn
      BY <2>1, <2>2, <2>3 DEF FramesOf
    <3>3. \A g \in wal' : g.lsn = f.lsn => g = f
      BY <2>1, <2>2, <2>3
    <3> HIDE DEF f
    <3> QED  BY <2>6, <3>1, <3>2, <3>3, LastIs
  <2>8. \A k \in Keys : k # k0 => LastValue(k)' = LastValue(k)
    BY <2>5 DEF LastValue, Last
  <2>9. op'.key = k0 /\ op'.val = v /\ LastValue(k0)' = v
    BY <2>1, <2>7 DEF LastValue
  <2>10. Logged(mem)' /\ Logged(imm)'
    BY <2>1, <2>5, <2>8, <2>9 DEF Logged, Pending
  <2>11. PendingLogged'
    BY <2>6, <2>9 DEF PendingLogged, LastValue
  <2>12. Phases'
    BY <2>1 DEF Phases
  <2>13. Flushed'
    BY <2>1, <2>5, <2>8, <2>9 DEF Flushed, Pending
  <2>14. Removal' /\ AllSynced'
    BY <2>1 DEF Removal, AllSynced
  <2> QED  BY <1>0, <2>4, <2>10, <2>11, <2>12, <2>13, <2>14
<1>2. CASE Apply
  <2> DEFINE table == [mem EXCEPT ![op.key] = op.val]
  <2>1. /\ pc = "appended" /\ pc' \in {"idle", "flush"}
        /\ pc' = "idle" => mem' = table /\ imm' = imm
        /\ pc' = "flush" => mem' = Empty /\ imm' = table
        /\ UNCHANGED <<wal, torn, sst, cached, readers, nextLsn>>
    BY <1>2 DEF Apply, Swap
  <2>2. op.key \in Keys /\ op.val \in Entries /\ mem \in Tables
    BY <2>1 DEF TypeInv, TypeOK
  <2>3. \A k \in Keys : table[k] = IF k = op.key THEN op.val ELSE mem[k]
    BY <2>2 DEF Tables
  <2>4. \A k \in Keys : /\ LastValue(k)' = LastValue(k)
                        /\ FramesOf(wal', k) = FramesOf(wal, k)
                        /\ ~Pending(k)'
    BY <2>1 DEF LastValue, Pending
  <2>5. \A k \in Keys : table[k] # Absent =>
          FramesOf(wal, k) # {} /\ table[k] = LastValue(k)
    BY <2>1, <2>3 DEF Logged, Pending, PendingLogged
  <2>6. op.val # Absent
    BY <2>2, TableAssumption DEF Entries
  <2>7. imm = Empty
    BY <2>1 DEF Phases
  <2>8. \A k \in Keys : FramesOf(wal, k) # {} /\ table[k] = Absent
                       => Seen(LastValue(k)) = Seen(Lookup(sst)[k])
    BY <2>1, <2>3, <2>6, <2>7 DEF Flushed, Pending, Empty
  <2>9. Phases'
    BY <2>1, <2>7 DEF Phases
  <2>10. AllSynced'
    BY <1>2, <2>1 DEF Apply, FinishAppend, Rotate, Sync, AllSynced
  <2>11. LogOrder' /\ PendingLogged' /\ Removal'
    BY <2>1 DEF LogOrder, PendingLogged, Removal
  <2> HIDE DEF table
  <2>12. Logged(mem)' /\ Logged(imm)'
    BY <2>1, <2>4, <2>5, <2>7 DEF Logged, Empty
  <2>13. Flushed'
    BY <2>1, <2>4, <2>7, <2>8 DEF Flushed, Empty
  <2> QED  BY <1>0, <2>9, <2>10, <2>11, <2>12, <2>13
<1>3. CASE Flush \/ Close
  <2>1. /\ pc = "idle" /\ pc' = "flush" /\ mem' = Empty /\ imm' = mem
        /\ UNCHANGED <<wal, torn, sst, cached, readers, nextLsn, synced>>
    BY <1>3 DEF Flush, Close, StartFlush, Idle, Swap, disk
  <2>2. \A k \in Keys : LastValue(k)' = LastValue(k) /\ ~Pending(k) /\ ~Pending(k)'
    BY <2>1 DEF LastValue, Pending
  <2>3. imm = Empty
    BY <2>1 DEF Phases
  <2>4. Logged(mem)' /\ Logged(imm)'
    BY <2>1, <2>2 DEF Logged, Empty
  <2>5. Flushed'
    BY <2>1, <2>2, <2>3 DEF Flushed, Empty
  <2>6. LogOrder' /\ PendingLogged' /\ Phases' /\ Removal' /\ AllSynced'
    BY <2>1 DEF LogOrder, PendingLogged, Phases, Removal, AllSynced
  <2> QED  BY <1>0, <2>4, <2>5, <2>6
<1>4. CASE FlushNothing
  <2>1. /\ pc = "idle"
        /\ synced' \in {nextLsn - 1}
        /\ UNCHANGED <<wal, torn, sst, cached, readers, nextLsn, mem, imm, pc, op, victims,
                       segments, seg, nextId>>
    BY <1>4 DEF FlushNothing, Sync, Idle
  <2> QED
    BY <1>0, <2>1 DEF LogOrder, Logged, Pending, LastValue, PendingLogged, Phases,
                      Flushed, Removal, OutputEntry, AllSynced
<1>5. CASE WriteTable
  <2>1. /\ pc = "flush" /\ pc' = "rotate"
        /\ sst' = [i \in DOMAIN sst \cup {nextId} |-> IF i = nextId THEN imm ELSE sst[i]]
        /\ readers' = readers \cup {nextId}
        /\ UNCHANGED <<wal, torn, cached, nextLsn, synced, mem, imm>>
    BY <1>5 DEF WriteTable, AddTable
  <2>2. /\ DOMAIN sst \in SUBSET Nat /\ nextId \in Nat /\ \A i \in DOMAIN sst : i < nextId
    BY DEF TypeInv, TypeOK, Ranges
  <2>3. \A k \in Keys : Lookup(sst')[k] = IF imm[k] # Absent THEN imm[k] ELSE Lookup(sst)[k]
    <3>1. /\ DOMAIN sst' = DOMAIN sst \cup {nextId} /\ sst'[nextId] = imm
          /\ \A i \in DOMAIN sst : sst'[i] = sst[i]
      BY <2>1, <2>2
    <3> QED  BY <2>2, <3>1, LookupAdd
  <2>4. \A k \in Keys : LastValue(k)' = LastValue(k) /\ ~Pending(k) /\ ~Pending(k)'
    BY <2>1 DEF LastValue, Pending
  <2>5. Phases'
    BY <2>1, <2>3 DEF Phases
  <2>6. Flushed'
    BY <2>1, <2>3, <2>4 DEF Flushed
  <2>7. LogOrder' /\ Logged(mem)' /\ Logged(imm)' /\ PendingLogged' /\ Removal' /\ AllSynced'
    BY <2>1, <2>4 DEF LogOrder, Logged, PendingLogged, Removal, AllSynced
  <2> QED  BY <1>0, <2>5, <2>6, <2>7
<1>6. CASE WriteFails
  BY <1>6 DEF WriteFails
<1>7. CASE RotateLog
  <2>1. /\ pc = "rotate" /\ pc' \in {"merge", "idle"} /\ imm' = Empty
        /\ synced' = nextLsn - 1
        /\ UNCHANGED <<wal, torn, sst, cached, readers, nextLsn, mem>>
    BY <1>7 DEF RotateLog, Rotate, Sync
  <2>2. \A k \in Keys : LastValue(k)' = LastValue(k) /\ ~Pending(k) /\ ~Pending(k)'
    BY <2>1 DEF LastValue, Pending
  <2>3. Phases'
    BY <2>1 DEF Phases
  <2>4. Flushed'
    BY <2>1, <2>2 DEF Flushed, Logged, Phases
  <2>5. Logged(mem)' /\ Logged(imm)'
    BY <2>1, <2>2 DEF Logged, Empty
  <2>6. LogOrder' /\ PendingLogged' /\ Removal' /\ AllSynced'
    BY <2>1 DEF LogOrder, PendingLogged, Removal, AllSynced
  <2> QED  BY <1>0, <2>3, <2>4, <2>5, <2>6
<1>8. CASE Compact
  BY <1>8 DEF Compact
<1>9. CASE Merge
  <2>1. /\ pc = "merge" /\ pc' = "remove" /\ nextId' = nextId + 1
        /\ victims' = readers
        /\ IF Merged = Empty THEN sst' = sst
           ELSE sst' = [i \in DOMAIN sst \cup {nextId} |->
                          IF i = nextId THEN Merged ELSE sst[i]]
        /\ UNCHANGED <<wal, torn, nextLsn, synced, mem, imm>>
        /\ cached' = {}
    BY <1>9 DEF Merge, AddTable, Phases
  <2>2. /\ DOMAIN sst \in SUBSET Nat /\ nextId \in Nat /\ \A i \in DOMAIN sst : i < nextId
        /\ sst = [i \in DOMAIN sst |-> sst[i]]
    BY DEF TypeInv, TypeOK, Ranges
  <2>3. nextId \notin DOMAIN sst /\ nextId' - 1 = nextId
    BY <2>1, <2>2
  <2>4. readers = DOMAIN sst /\ Files(readers) = sst
    BY <2>1, <2>2 DEF Phases, Files
  <2>5. \A k \in Keys : Merged[k] = Seen(Lookup(sst)[k])
    BY <2>4 DEF Merged, Visible
  <2>6. \A k \in Keys : OutputEntry(k)' = Merged[k]
    <3>1. CASE Merged = Empty
      BY <2>1, <2>3, <3>1 DEF OutputEntry, Empty
    <3>2. CASE Merged # Empty
      BY <2>1, <2>3, <3>2 DEF OutputEntry
    <3> QED  BY <3>1, <3>2
  <2>7. \A k \in Keys : LastValue(k)' = LastValue(k) /\ ~Pending(k) /\ ~Pending(k)'
    BY <2>1 DEF LastValue, Pending
  <2>8. \A k \in Keys : FramesOf(wal, k) # {} => Seen(LastValue(k)) = Merged[k]
    BY <2>1, <2>5, <2>7 DEF Flushed, Phases, Empty
  <2>9. \A k \in Keys : Seen(Merged[k]) = Merged[k]
    BY <2>5, SeenTwice
  <2>10. victims' \subseteq DOMAIN sst' \ {nextId} /\ DOMAIN sst' \subseteq victims' \cup {nextId}
    BY <2>1, <2>3, <2>4
  <2>11. Removal'
    BY <2>1, <2>3, <2>6, <2>7, <2>8, <2>9, <2>10 DEF Removal
  <2>12. Phases'
    BY <2>1 DEF Phases
  <2>13. Flushed' /\ Logged(mem)' /\ Logged(imm)'
    BY <2>1, <2>7 DEF Flushed, Logged
  <2>14. LogOrder' /\ PendingLogged' /\ AllSynced'
    BY <2>1 DEF LogOrder, PendingLogged, AllSynced
  <2> QED  BY <1>0, <2>11, <2>12, <2>13, <2>14
<1>10. CASE RemoveTable
  <2> DEFINE v == Least(victims)
  <2>1. /\ pc = "remove" /\ pc' = "remove" /\ victims # {} /\ victims' = victims \ {v}
        /\ sst' = Files(DOMAIN sst \ {v}) /\ cached' = cached \ {v}
        /\ UNCHANGED <<wal, torn, nextLsn, synced, mem, imm, nextId>>
    BY <1>10 DEF RemoveTable
  <2>2. v \in victims
    BY <2>1, LeastIn DEF TypeInv, TypeOK
  <2> HIDE DEF v
  <2>3. /\ v # nextId - 1 /\ DOMAIN sst' = DOMAIN sst \ {v}
        /\ \A i \in DOMAIN sst' : sst'[i] = sst[i]
    BY <2>1, <2>2 DEF Removal, Files
  <2>4. \A k \in Keys : OutputEntry(k)' = OutputEntry(k)
    BY <2>1, <2>3 DEF OutputEntry
  <2>5. \A k \in Keys : LastValue(k)' = LastValue(k) /\ ~Pending(k) /\ ~Pending(k)'
    BY <2>1 DEF LastValue, Pending
  <2>6. Removal'
    BY <2>1, <2>3, <2>4, <2>5 DEF Removal
  <2>7. Phases'
    BY <2>1 DEF Phases
  <2>8. Flushed' /\ Logged(mem)' /\ Logged(imm)'
    BY <2>1, <2>5 DEF Flushed, Logged
  <2>9. LogOrder' /\ PendingLogged' /\ AllSynced'
    BY <2>1 DEF LogOrder, PendingLogged, AllSynced
  <2> QED  BY <1>0, <2>6, <2>7, <2>8, <2>9
<1>11. CASE OpenMerged
  <2>1. /\ pc = "remove" /\ pc' = "purge" /\ victims = {}
        /\ readers' = {nextId - 1} \cap DOMAIN sst
        /\ victims' = {s \in segments : s < seg}
        /\ UNCHANGED <<wal, torn, cached, sst, nextLsn, synced, mem, imm, nextId, segments, seg>>
    BY <1>11 DEF OpenMerged, Output, Obsolete, disk
  <2>2. DOMAIN sst \subseteq {nextId - 1} /\ nextId - 1 \in Nat
    BY <2>1 DEF Removal, TypeInv, TypeOK
  <2>3. \A k \in Keys : Lookup(sst)[k] = OutputEntry(k)
    BY <2>2, LookupOne DEF OutputEntry
  <2>4. \A k \in Keys : LastValue(k)' = LastValue(k) /\ ~Pending(k) /\ ~Pending(k)'
    BY <2>1 DEF LastValue, Pending
  <2>5. Flushed'
    BY <2>1, <2>3, <2>4 DEF Flushed, Removal
  <2>6. Phases'
    BY <2>1, <2>2 DEF Phases
  <2>7. Logged(mem)' /\ Logged(imm)'
    BY <2>1, <2>4 DEF Logged
  <2>8. LogOrder' /\ PendingLogged' /\ Removal' /\ AllSynced'
    BY <2>1 DEF LogOrder, PendingLogged, Removal, AllSynced
  <2> QED  BY <1>0, <2>5, <2>6, <2>7, <2>8
<1>12. CASE PurgeSegment
  <2>1. PICK s \in victims :
          /\ pc = "purge" /\ pc' = "purge" /\ s = Least(victims)
          /\ victims' = victims \ {s}
          /\ segments' = segments \ {s} /\ torn' = torn \ {s}
          /\ wal' = {f \in wal : f.seg # s}
          /\ UNCHANGED <<cached, sst, readers, nextLsn, synced, mem, imm, seg>>
    BY <1>12 DEF PurgeSegment, PurgeOrder
  <2>2. victims = {x \in segments : x < seg} /\ s \in Nat
    BY <2>1 DEF Phases, TypeInv, TypeOK
  <2>3. \A f \in wal : f.seg # s => s < f.seg
    <3>1. \A x \in victims : s <= x
      BY <2>1, LeastIn DEF TypeInv, TypeOK
    <3>2. \A f \in wal : f.seg \in segments /\ f.seg \in Nat /\ seg \in Nat
      BY DEF TypeInv, TypeOK, Ranges
    <3> QED  BY <2>1, <2>2, <3>1, <3>2
  <2>4. \A k \in Keys : FramesOf(wal', k) # {} =>
          FramesOf(wal, k) # {} /\ Last(wal', k) = Last(wal, k)
    BY <2>1, <2>2, <2>3, PurgeKeepsLast
  <2>5. \A k \in Keys : ~Pending(k) /\ ~Pending(k)'
    BY <2>1 DEF Pending
  <2>6. Flushed'
    BY <2>1, <2>4, <2>5 DEF Flushed, LastValue
  <2>7. Phases'
    BY <2>1, <2>2 DEF Phases
  <2>8. Logged(mem)' /\ Logged(imm)'
    BY <2>1 DEF Logged, Phases, Empty
  <2>9. LogOrder' /\ PendingLogged' /\ Removal' /\ AllSynced'
    BY <2>1 DEF LogOrder, PendingLogged, Removal, AllSynced
  <2> QED  BY <1>0, <2>6, <2>7, <2>8, <2>9
<1>13. CASE PurgeDone
  <2>1. /\ pc = "purge" /\ pc' = "idle"
        /\ UNCHANGED <<wal, torn, cached, sst, readers, nextLsn, synced, mem, imm>>
    BY <1>13 DEF PurgeDone, disk
  <2>2. \A k \in Keys : LastValue(k)' = LastValue(k) /\ ~Pending(k) /\ ~Pending(k)'
    BY <2>1 DEF LastValue, Pending
  <2> QED
    BY <1>0, <2>1, <2>2 DEF LogOrder, Logged, PendingLogged, Phases, Flushed, Removal, AllSynced
<1>14. CASE Shutdown
  <2>1. /\ pc' = "down" /\ mem' = Empty /\ imm' = Empty /\ synced' = nextLsn - 1
        /\ UNCHANGED <<wal, torn, cached, sst, nextLsn>>
    BY <1>14 DEF Shutdown, Stop, Sync
  <2> QED
    BY <1>0, <2>1 DEF LogOrder, Logged, Empty, PendingLogged, Phases, Flushed, Removal, AllSynced
<1>15. CASE Crash
  <2>1. PICK n \in synced .. (nextLsn - 1) :
          wal' = Survivors(n) /\ synced' = n /\ nextLsn' = n + 1 /\ torn' = torn
    BY <1>15 DEF Crash
  <2>2. pc' = "down" /\ mem' = Empty /\ imm' = Empty /\ cached' = {}
    BY <1>15 DEF Crash, Stop
  <2>3. LogOrder' /\ AllSynced'
    BY <2>1 DEF LogOrder, Survivors, AllSynced, TypeInv, TypeOK
  <2> QED
    BY <1>0, <2>1, <2>2, <2>3 DEF Logged, Empty, PendingLogged, Phases, Flushed, Removal
<1>16. CASE Open
  <2>1. /\ pc = "down" /\ pc' = "idle" /\ mem' = Replay(wal) /\ readers' = DOMAIN sst
        /\ synced' = nextLsn' - 1
        /\ UNCHANGED <<wal, torn, cached, sst, imm>>
    BY <1>16 DEF Open
  <2>2. imm = Empty
    BY <2>1 DEF Phases
  <2>3. ASSUME NEW k \in Keys, FramesOf(wal, k) # {}
        PROVE  Last(wal, k).val # Absent
    <3>1. wal \in SUBSET Frames /\ nextLsn \in Nat /\ \A f \in wal : f.lsn <= nextLsn
      BY DEF TypeInv, TypeOK, Ranges, Frames
    <3>2. Last(wal, k) \in FramesOf(wal, k)
      BY <2>3, <3>1, LastIn
    <3>3. Last(wal, k) \in Frames
      BY <3>1, <3>2 DEF FramesOf
    <3>4. Last(wal, k).val \in Entries
      BY <3>3 DEF Frames
    <3> QED  BY <3>4, TableAssumption DEF Entries
  <2>4. \A k \in Keys : /\ LastValue(k)' = LastValue(k) /\ ~Pending(k)'
                        /\ mem'[k] = IF FramesOf(wal, k) = {} THEN Absent ELSE LastValue(k)
    BY <2>1 DEF LastValue, Pending, Replay
  <2>5. Logged(mem)' /\ Logged(imm)'
    BY <2>1, <2>2, <2>4 DEF Logged, Empty
  <2>6. Flushed'
    BY <2>1, <2>3, <2>4 DEF Flushed, LastValue
  <2>7. LogOrder' /\ PendingLogged' /\ Phases' /\ Removal' /\ AllSynced'
    BY <2>1, <2>2 DEF LogOrder, PendingLogged, Phases, Removal, AllSynced
  <2> QED  BY <1>0, <2>5, <2>6, <2>7
<1>17. CASE WriteBack
  BY <1>17 DEF WriteBack, Phases
<1>18. CASE UNCHANGED vars
  <2>1. UNCHANGED <<wal, synced, segments, torn, sst, cached, nextLsn, seg, mem, imm,
                    readers, nextId, pc, op, victims>>
    BY <1>18 DEF vars, disk
  <2> QED
    BY <1>0, <2>1 DEF LogOrder, Logged, Pending, LastValue, PendingLogged, Phases,
                      Flushed, Removal, OutputEntry, AllSynced
<1> QED
  BY <1>1, <1>2, <1>3, <1>4, <1>5, <1>6, <1>7, <1>8, <1>9, <1>10, <1>11, <1>12,
     <1>13, <1>14, <1>15, <1>16, <1>17, <1>18
     DEF Next, Client, Background, Machine, Put, Delete, Entries

\* What a client reads of each key, in terms of log and files.
LEMMA ReadsFromInv == ReadInv /\ pc = "idle" => View = Recovered(wal, sst)
<1> SUFFICES ASSUME ReadInv, pc = "idle", NEW k \in Keys
             PROVE  View[k] = Recovered(wal, sst)[k]
  BY DEF View, Recovered, Visible
<1> USE DEF ReadInv
<1>1. readers = DOMAIN sst /\ Files(readers) = sst /\ imm = Empty /\ ~Pending(k)
  BY DEF Phases, Files, TypeInv, TypeOK, Pending
<1>2. View[k] = Seen(IF mem[k] # Absent THEN mem[k] ELSE Lookup(sst)[k])
  BY <1>1 DEF View, Visible, Over, Empty
<1>3. Recovered(wal, sst)[k] =
        Seen(IF Replay(wal)[k] # Absent THEN Replay(wal)[k] ELSE Lookup(sst)[k])
  BY DEF Recovered, Visible, Over
<1>4. CASE mem[k] # Absent
  <2>1. FramesOf(wal, k) # {} /\ mem[k] = Last(wal, k).val
    BY <1>1, <1>4 DEF Logged, LastValue
  <2> QED  BY <1>2, <1>3, <1>4, <2>1 DEF Replay
<1>5. CASE mem[k] = Absent /\ FramesOf(wal, k) = {}
  BY <1>2, <1>3, <1>5 DEF Replay
<1>6. CASE mem[k] = Absent /\ FramesOf(wal, k) # {}
  <2>1. Seen(Last(wal, k).val) = Seen(Lookup(sst)[k])
    BY <1>1, <1>6 DEF Flushed, LastValue, Empty
  <2> QED  BY <1>2, <1>3, <1>6, <2>1 DEF Replay
<1> QED  BY <1>4, <1>5, <1>6

\* A running tree and one that replays the log answer every get() alike, in
\* every sync mode, however flushes, compactions, purges and crashes fall
\* (lsm.py get, _flush_memtable, compact, _recover_from_wal).
THEOREM ReadsCorrect ==
    ASSUME Platform = {}, ~ClientCompacts
    PROVE  Spec => []ReadsMatchLog
<1>1. ReadInv => ReadsMatchLog
  BY ReadsFromInv DEF ReadsMatchLog
<1> QED  BY ReadInit, ReadStep, <1>1, PTL DEF Spec

\* With sync mode "always", what a client reads when no operation is under
\* way is what it would read after a crash now (wal.py append, sync).
THEOREM AckedCorrect ==
    ASSUME Platform = {}, ~ClientCompacts
    PROVE  Spec => []AckedSurvive
<1>1. ReadInv => AckedSurvive
  <2> SUFFICES ASSUME ReadInv, SyncMode = "always", pc = "idle"
               PROVE  Recoverable = {View}
    BY DEF AckedSurvive
  <2> USE DEF ReadInv
  <2>1. synced = nextLsn - 1 /\ cached = {} /\ nextLsn - 1 \in Nat
    BY DEF AllSynced, Phases, TypeInv, TypeOK
  <2>2. Survivors(nextLsn - 1) = wal
    BY DEF Survivors, TypeInv, TypeOK, Ranges, Frames
  <2>3. Files(DOMAIN sst \ {}) = sst
    BY DEF Files, TypeInv, TypeOK
  <2>4. Recoverable = {Recovered(wal, sst)}
    <3>1. synced .. (nextLsn - 1) = {nextLsn - 1}
      BY <2>1
    <3>2. SUBSET cached = {{}}
      BY <2>1
    <3>3. \A x : x \in Recoverable <=>
            \E n \in synced .. (nextLsn - 1), L \in SUBSET cached :
               x = Recovered(Survivors(n), Files(DOMAIN sst \ L))
      BY DEF Recoverable
    <3>4. \A x : x \in Recoverable <=> x = Recovered(wal, sst)
      BY <2>2, <2>3, <3>1, <3>2, <3>3
    <3> QED  BY <3>4
  <2> QED  BY <2>4, ReadsFromInv
<1> QED  BY ReadInit, ReadStep, <1>1, PTL DEF Spec

-----------------------------------------------------------------------------
(***************************************************************************)
(* Scans, whatever the machine does and whatever clients call: get() stops *)
(* at the newest table that knows a key, scan() overwrites from the oldest *)
(* on.                                                                     *)
(***************************************************************************)

\* Two functions on 0 .. b that agree at 0 and go on alike are equal.
LEMMA SameBelow ==
    ASSUME NEW b \in Nat, NEW f, NEW g,
           f[0] = g[0],
           \A n \in 0 .. b : n # 0 /\ f[n - 1] = g[n - 1] => f[n] = g[n]
    PROVE  \A n \in 0 .. b : f[n] = g[n]
<1> DEFINE T == {n \in 0 .. b : f[n] # g[n]}
<1>1. SUFFICES ASSUME T # {}
               PROVE  FALSE
  OBVIOUS
<1>2. PICK n \in T : \A m \in T : ~ (<<m, n>> \in OpToRel(<, Nat))
  <2>1. T \subseteq Nat
    OBVIOUS
  <2> QED  BY <1>1, <2>1, NatLessThanWellFounded, WFMin
<1>3. n # 0 /\ n \in Nat /\ n - 1 \in 0 .. b /\ n - 1 < n
  OBVIOUS
<1>4. n - 1 \notin T
  <2>1. n - 1 \in Nat /\ <<n - 1, n>> \in OpToRel(<, Nat)
    BY <1>3 DEF OpToRel
  <2> HIDE DEF T
  <2> QED  BY <1>2, <2>1
<1> QED  BY <1>2, <1>3, <1>4

\* Reading from the oldest table on, and from the newest one back, finds the
\* same (lsm.py scan, get).
LEMMA ScanLookup ==
    ASSUME TypeInv, 0 \notin readers
    PROVE  ScanUpTo[nextId] = Lookup(Files(readers))
<1> DEFINE D == 0 .. nextId
           UpTo(n) == {i \in readers : i <= n}
           F == [n \in D |-> Lookup(Files(UpTo(n)))]
           Step(f) == [n \in D |-> IF n = 0 THEN Empty
                                   ELSE IF n \in readers THEN Over(sst[n], f[n - 1]) ELSE f[n - 1]]
<1>1. readers \in SUBSET Nat /\ nextId \in Nat /\ \A i \in readers : i \in Nat /\ i < nextId /\ i # 0
  BY DEF TypeInv, TypeOK, Ranges
<1>a. /\ UpTo(0) = {} /\ UpTo(nextId) = readers
      /\ \A n \in Nat \ {0} : UpTo(n) = UpTo(n - 1) \cup (readers \cap {n})
  <2>1. UpTo(0) = {}
    <3>1. \A i \in readers : ~ (i <= 0)
      BY <1>1
    <3> QED  BY <3>1
  <2>2. UpTo(nextId) = readers
    <3>1. \A i \in readers : i <= nextId
      BY <1>1
    <3> QED  BY <3>1
  <2>3. ASSUME NEW n \in Nat \ {0}
        PROVE  UpTo(n) = UpTo(n - 1) \cup (readers \cap {n})
    <3>1. \A i \in readers : i <= n <=> i <= n - 1 \/ i = n
      BY <1>1
    <3> QED  BY <3>1
  <2> QED  BY <2>1, <2>2, <2>3
<1>2. Lookup(Files(UpTo(0))) = Empty
  <2> HIDE DEF UpTo
  <2> QED  BY <1>a DEF Lookup, Files, Holding, Empty
<1>3. ASSUME NEW n \in D, n # 0
      PROVE  Lookup(Files(UpTo(n))) = IF n \in readers THEN Over(sst[n], Lookup(Files(UpTo(n - 1))))
                                      ELSE Lookup(Files(UpTo(n - 1)))
  <2>1. n \in Nat /\ n - 1 \in Nat
    BY <1>1, <1>3
  <2>2. CASE n \in readers
    <3>1. \A i \in UpTo(n - 1) : i < n /\ i \in Nat
      BY <1>1, <2>1
    <3>a. UpTo(n) = UpTo(n - 1) \cup {n}
      BY <1>3, <1>a, <2>1, <2>2
    <3> HIDE DEF UpTo
    <3>2. /\ DOMAIN Files(UpTo(n - 1)) = UpTo(n - 1)
          /\ DOMAIN Files(UpTo(n)) = UpTo(n)
          /\ Files(UpTo(n))[n] = sst[n]
          /\ \A i \in UpTo(n - 1) : Files(UpTo(n))[i] = Files(UpTo(n - 1))[i]
      BY <3>a DEF Files
    <3>3. \A k \in Keys : Lookup(Files(UpTo(n)))[k] =
             IF sst[n][k] # Absent THEN sst[n][k] ELSE Lookup(Files(UpTo(n - 1)))[k]
      <4>1. DOMAIN Files(UpTo(n - 1)) \in SUBSET Nat /\ \A i \in DOMAIN Files(UpTo(n - 1)) : i < n
        BY <3>1, <3>2
      <4>2. /\ DOMAIN Files(UpTo(n)) = DOMAIN Files(UpTo(n - 1)) \cup {n}
            /\ \A i \in DOMAIN Files(UpTo(n - 1)) : Files(UpTo(n))[i] = Files(UpTo(n - 1))[i]
        BY <3>a, <3>2
      <4> SUFFICES ASSUME NEW k \in Keys
                   PROVE  Lookup(Files(UpTo(n)))[k] =
                             IF Files(UpTo(n))[n][k] # Absent THEN Files(UpTo(n))[n][k]
                             ELSE Lookup(Files(UpTo(n - 1)))[k]
        BY <3>2
      <4>3. PICK old, new : old = Files(UpTo(n - 1)) /\ new = Files(UpTo(n))
        OBVIOUS
      <4>4. /\ DOMAIN old \in SUBSET Nat /\ \A i \in DOMAIN old : i < n
            /\ DOMAIN new = DOMAIN old \cup {n}
            /\ \A i \in DOMAIN old : new[i] = old[i]
        BY ONLY <4>1, <4>2, <4>3, Zenon
      <4>5. Lookup(new)[k] = IF new[n][k] # Absent THEN new[n][k] ELSE Lookup(old)[k]
        BY ONLY <2>1, <4>4, LookupAdd, k \in Keys
      <4> QED  BY <4>3, <4>5
    <3>4. Lookup(Files(UpTo(n))) = [k \in Keys |-> Lookup(Files(UpTo(n)))[k]]
      BY DEF Lookup
    <3> QED  BY <2>2, <3>3, <3>4 DEF Over
  <2>3. CASE n \notin readers
    <3>1. UpTo(n) = UpTo(n - 1)
      BY <1>3, <1>a, <2>1, <2>3
    <3> QED  BY <2>3, <3>1
  <2> QED  BY <2>2, <2>3
<1>4. F = Step(F)
  <2>1. \A n \in D : n # 0 => n - 1 \in D
    BY <1>1
  <2>2. \A n \in D : F[n] = Step(F)[n]
    <3> HIDE DEF UpTo, D
    <3> QED  BY <1>2, <1>3, <2>1
  <2> QED  BY <2>2
<1>5. ScanUpTo = Step(ScanUpTo)
  <2>1. ScanUpTo = CHOOSE f : f = Step(f)
    BY DEF ScanUpTo
  <2> HIDE DEF Step, F
  <2> QED  BY <1>4, <2>1
<1>6. \A n \in D : ScanUpTo[n] = F[n]
  <2>1. \A f : f = Step(f) => /\ f[0] = Empty
                              /\ \A n \in D : n # 0 =>
                                   f[n] = IF n \in readers THEN Over(sst[n], f[n - 1]) ELSE f[n - 1]
    BY <1>1
  <2> HIDE DEF Step, F
  <2>2. ScanUpTo[0] = F[0]
    BY <1>4, <1>5, <2>1
  <2>3. \A n \in D : n # 0 /\ ScanUpTo[n - 1] = F[n - 1] => ScanUpTo[n] = F[n]
    BY <1>4, <1>5, <2>1
  <2> QED  BY <1>1, <2>2, <2>3, SameBelow
<1> QED  BY <1>1, <1>6, <1>a

\* scan() and get() answer alike, whatever crashes, lost files and failures
\* came before, and whoever compacts (lsm.py scan, get).
THEOREM ScansCorrect == Spec => []ScanAgrees
<1> DEFINE Inv == TypeInv /\ 0 \notin DOMAIN sst
<1>1. Init => Inv
  BY TypeInit DEF Init
<1>2. Inv /\ [Next]_vars => Inv'
  <2> SUFFICES ASSUME Inv, [Next]_vars
               PROVE  0 \notin DOMAIN sst'
    BY TypeStep
  <2>1. DOMAIN sst' \subseteq DOMAIN sst \cup {nextId} /\ nextId # 0
    BY DEF TypeInv, TypeOK, Next, Client, Background, Machine, vars, disk, Put, Delete, Append, Flush, FlushNothing,
           Compact, Close, StartFlush, Apply, WriteTable, WriteFails, RotateLog, Merge, RemoveTable, OpenMerged,
           PurgeSegment, PurgeDone, Shutdown, Crash, Open, WriteBack, AddTable, Files
  <2> QED  BY <2>1
<1>3. Inv => ScanAgrees
  <2> SUFFICES ASSUME Inv
               PROVE  ScanView = View
    BY DEF ScanAgrees
  <2>1. 0 \notin readers
    BY DEF TypeInv, TypeOK
  <2> QED  BY <2>1, ScanLookup DEF ScanView, View
<1> QED  BY <1>1, <1>2, <1>3, PTL DEF Spec

-----------------------------------------------------------------------------
(***************************************************************************)
(* The log alone.  Until its first purge it has, among the frames that are *)
(* fsynced, one of every key that any table knows (Backed): an entry gets  *)
(* into a memtable only after the sync of its frame, and from there into   *)
(* SSTables.  What is missing once, a segment or the end of one, does not  *)
(* come back.                                                              *)
(***************************************************************************)

Whole == segments = 1 .. seg /\ torn = {}

\* The tables know no key but those with a frame that no crash takes.
Backed ==
    \A k \in Keys : FramesOf(Survivors(synced), k) = {} =>
        mem[k] = Absent /\ imm[k] = Absent /\ \A i \in DOMAIN sst : sst[i][k] = Absent

LogInv ==
    /\ TypeInv
    /\ 0 \notin segments
    /\ Whole => Backed /\ (pc = "appended" => FramesOf(wal, op.key) # {})

\* What a crash cannot take is all of the log, once it is synced.
LEMMA AllSurvive == TypeInv => Survivors(nextLsn - 1) = wal
BY DEF TypeInv, TypeOK, Ranges, Survivors, Frames

\* A table knows no key that its parts do not know.
LEMMA LookupNone ==
    ASSUME NEW files, NEW k \in Keys, \A i \in DOMAIN files : files[i][k] = Absent
    PROVE  Lookup(files)[k] = Absent
BY DEF Lookup, Holding

LEMMA LogInit == Init => LogInv
<1> SUFFICES ASSUME Init
             PROVE  LogInv
  OBVIOUS
<1>1. segments = {1} /\ DOMAIN sst = {} /\ mem = Empty /\ imm = Empty /\ pc = "idle"
  BY DEF Init
<1> QED  BY <1>1, TypeInit DEF LogInv, Backed, Empty

\* Every step keeps the log sufficient, whatever the machine does but failing
\* an fsync, and whoever compacts.
LEMMA LogStep ==
    ASSUME SyncMode = "always", "fsync" \notin Platform
    PROVE  LogInv /\ [Next]_vars => LogInv'
<1> SUFFICES ASSUME LogInv, [Next]_vars
             PROVE  LogInv'
  OBVIOUS
<1> USE DEF LogInv
<1>0. TypeInv /\ TypeInv' /\ 0 \notin segments
  BY TypeStep
\* A step that leaves the segments, or adds the next one, makes no log whole.
<1>a. /\ torn' = torn /\ segments' = segments /\ seg' = seg => (Whole' <=> Whole)
      /\ torn' = torn /\ Rotate => (Whole' => Whole) /\ 0 \notin segments'
  <2>1. segments' = segments /\ torn' = torn /\ seg' = seg => (Whole' <=> Whole)
    BY DEF Whole
  <2>2. ASSUME torn' = torn, Rotate
        PROVE  (Whole' => Whole) /\ 0 \notin segments'
    <3>1. seg' = seg + 1 /\ segments' = segments \cup {seg + 1} /\ seg \in Nat
          /\ segments \subseteq Nat /\ \A s \in segments : s <= seg
      BY <1>0, <2>2 DEF Rotate, TypeInv, TypeOK, Ranges
    <3>2. segments' = 1 .. seg + 1 => segments = 1 .. seg
      <4> SUFFICES ASSUME segments' = 1 .. seg + 1
                   PROVE  \A s : s \in segments <=> s \in 1 .. seg
        OBVIOUS
      <4>1. \A s \in segments : s \in 1 .. seg
        BY <1>0, <3>1
      <4>2. \A s \in 1 .. seg : s \in 1 .. seg + 1 /\ s # seg + 1
        BY <3>1
      <4> QED  BY <3>1, <4>1, <4>2
    <3> QED  BY <1>0, <2>2, <3>1, <3>2 DEF Whole
  <2> QED  BY <2>1, <2>2
\* A step that keeps the log and what is synced keeps it sufficient for the
\* tables whose keys the tables before knew.
<1>b. ASSUME wal' = wal, synced' = synced, pc' # "appended", Whole' => Whole, 0 \notin segments',
             \A k \in Keys : mem'[k] # Absent \/ imm'[k] # Absent \/ (\E i \in DOMAIN sst' : sst'[i][k] # Absent)
               => mem[k] # Absent \/ imm[k] # Absent \/ (\E i \in DOMAIN sst : sst[i][k] # Absent)
      PROVE  LogInv'
  BY <1>0, <1>b DEF Backed, Survivors
\* The same when all of the log has been synced.
<1>c. ASSUME wal' = wal, synced' = nextLsn - 1, pc' # "appended", Whole' => Whole, 0 \notin segments',
             \A k \in Keys : mem'[k] # Absent \/ imm'[k] # Absent \/ (\E i \in DOMAIN sst' : sst'[i][k] # Absent)
               => \/ mem[k] # Absent \/ imm[k] # Absent \/ (\E i \in DOMAIN sst : sst[i][k] # Absent)
                  \/ FramesOf(wal, k) # {}
      PROVE  LogInv'
  <2>1. Survivors(synced)' = wal
    BY <1>0, <1>c, AllSurvive DEF Survivors
  <2>2. \A k \in Keys : FramesOf(wal, k) = {} => FramesOf(Survivors(synced), k) = {}
    BY DEF FramesOf, Survivors
  <2> QED  BY <1>0, <1>c, <2>1, <2>2 DEF Backed
<1>1. ASSUME NEW k0 \in Keys, NEW v \in Entries, Append(k0, v)
      PROVE  LogInv'
  <2> DEFINE f == [lsn |-> nextLsn, seg |-> seg, key |-> k0, val |-> v]
  <2>1. /\ op' = [key |-> k0, val |-> v] /\ wal' = IF seg \in torn THEN wal ELSE wal \cup {f}
        /\ UNCHANGED <<synced, segments, torn, seg, mem, imm, sst>>
    BY <1>1 DEF Append
  <2>2. Survivors(synced) \subseteq Survivors(synced)'
    BY <2>1 DEF Survivors
  <2>3. Whole => FramesOf(wal', op'.key) # {}
    <3>1. Whole => f \in wal' /\ f.key = op'.key
      BY <2>1 DEF Whole
    <3> QED  BY <3>1 DEF FramesOf
  <2>4. Whole => Backed'
    BY <2>1, <2>2 DEF Backed, FramesOf
  <2> QED  BY <1>0, <1>a, <2>1, <2>3, <2>4
<1>2. CASE Apply
  <2>1. /\ pc = "appended" /\ pc' # "appended" /\ torn' = torn /\ wal' = wal /\ sst' = sst
        /\ synced' = nextLsn - 1
        /\ Rotate \/ (seg' = seg /\ segments' = segments)
    BY <1>2 DEF Apply, FinishAppend, Swap, Rotate, Sync
  <2>2. \A k \in Keys : mem'[k] # Absent \/ imm'[k] # Absent =>
          mem[k] # Absent \/ imm[k] # Absent \/ k = op.key
    BY <1>0, <1>2 DEF Apply, Swap, Empty, TypeInv, TypeOK, Tables
  <2>3. Whole' => Whole
    BY <1>a, <2>1
  <2>4. 0 \notin segments'
    BY <1>0, <1>a, <2>1
  <2>5. CASE Whole
    <3>1. FramesOf(wal, op.key) # {}
      BY <2>1, <2>5
    <3> QED  BY <1>c, <2>1, <2>2, <2>3, <2>4, <3>1
  <2>6. CASE ~ Whole
    BY <1>0, <2>3, <2>4, <2>6
  <2> QED  BY <2>5, <2>6
<1>3. CASE Flush \/ Close
  <2>1. /\ pc' = "flush" /\ imm' = mem /\ mem' = Empty
        /\ UNCHANGED <<wal, synced, segments, torn, seg, sst>>
    BY <1>3 DEF Flush, Close, StartFlush, Swap, disk
  <2> QED  BY <1>0, <1>a, <1>b, <2>1 DEF Empty
<1>4. CASE FlushNothing
  <2>1. /\ pc' = "idle" /\ synced' = nextLsn - 1
        /\ UNCHANGED <<wal, segments, torn, seg, sst, mem, imm>>
    BY <1>4 DEF FlushNothing, Sync, Idle
  <2> QED  BY <1>0, <1>a, <1>c, <2>1
<1>5. CASE WriteTable
  <2>1. /\ pc' = "rotate" /\ UNCHANGED <<wal, synced, segments, torn, seg, mem, imm>>
        /\ sst' = [i \in DOMAIN sst \cup {nextId} |-> IF i = nextId THEN imm ELSE sst[i]]
    BY <1>5 DEF WriteTable, AddTable
  <2> QED  BY <1>0, <1>a, <1>b, <2>1
<1>6. CASE WriteFails
  <2>1. pc' = "idle" /\ UNCHANGED <<wal, synced, segments, torn, seg, sst, mem, imm>>
    BY <1>6 DEF WriteFails, disk
  <2> QED  BY <1>0, <1>a, <1>b, <2>1
<1>7. CASE RotateLog
  <2>1. /\ pc' \in {"merge", "idle"} /\ imm' = Empty /\ UNCHANGED <<wal, torn, sst, mem>>
        /\ Rotate /\ synced' = nextLsn - 1
    BY <1>7 DEF RotateLog, Rotate, Sync
  <2>2. 0 \notin segments' /\ (Whole' => Whole)
    BY <1>a, <2>1
  <2> QED  BY <1>c, <2>1, <2>2 DEF Empty
<1>8. CASE Compact
  <2>1. pc' = "merge" /\ UNCHANGED <<wal, synced, segments, torn, seg, sst, mem, imm>>
    BY <1>8 DEF Compact, disk
  <2> QED  BY <1>0, <1>a, <1>b, <2>1
<1>9. CASE Merge
  <2>1. /\ pc' = "remove" /\ UNCHANGED <<wal, synced, segments, torn, seg, mem, imm>>
        /\ IF Merged = Empty THEN sst' = sst
           ELSE sst' = [i \in DOMAIN sst \cup {nextId} |-> IF i = nextId THEN Merged ELSE sst[i]]
    BY <1>9 DEF Merge, AddTable
  <2>2. \A k \in Keys : Merged[k] # Absent => \E i \in DOMAIN sst : sst[i][k] # Absent
    <3> SUFFICES ASSUME NEW k \in Keys, \A i \in DOMAIN sst : sst[i][k] = Absent
                 PROVE  Merged[k] = Absent
      OBVIOUS
    <3>1. \A i \in DOMAIN Files(readers) : Files(readers)[i][k] = Absent
      BY <1>0 DEF Files, TypeInv, TypeOK
    <3> QED  BY <3>1, LookupNone, SeenTwice DEF Merged, Visible
  <2>3. \A k \in Keys : (\E i \in DOMAIN sst' : sst'[i][k] # Absent) => \E i \in DOMAIN sst : sst[i][k] # Absent
    BY <2>1, <2>2
  <2> QED  BY <1>0, <1>a, <1>b, <2>1, <2>3
<1>10. CASE RemoveTable
  <2>1. /\ pc' = "remove" /\ UNCHANGED <<wal, synced, segments, torn, seg, mem, imm>>
        /\ sst' = Files(DOMAIN sst \ {Least(victims)}) \/ sst' = sst
    BY <1>10 DEF RemoveTable
  <2> QED  BY <1>0, <1>a, <1>b, <2>1 DEF Files
<1>11. CASE OpenMerged
  <2>1. pc' = "purge" /\ UNCHANGED <<wal, synced, segments, torn, seg, sst, mem, imm>>
    BY <1>11 DEF OpenMerged, disk
  <2> QED  BY <1>0, <1>a, <1>b, <2>1
<1>12. CASE PurgeSegment
  <2>1. /\ pc' = "purge" /\ UNCHANGED <<synced, seg, sst, mem, imm>>
        /\ \E s \in victims : /\ segments' = segments \ {s} /\ torn' = torn \ {s}
                              /\ wal' = {f \in wal : f.seg # s}
           \/ UNCHANGED <<segments, torn, wal>>
    BY <1>12 DEF PurgeSegment
  <2>2. CASE UNCHANGED <<segments, torn, wal>>
    BY <1>0, <1>a, <1>b, <2>1, <2>2
  <2>3. ASSUME NEW s \in victims, segments' = segments \ {s}, torn' = torn \ {s},
               wal' = {f \in wal : f.seg # s}
        PROVE  LogInv'
    <3>1. s \in Nat /\ seg \in Nat /\ s < seg
      BY <1>0, <1>12 DEF PurgeSegment, TypeInv, TypeOK, Ranges
    <3>2. CASE s \in segments
      <4>1. s \in 1 .. seg
        BY <1>0, <3>1, <3>2
      <4>2. ~ Whole'
        BY <2>1, <2>3, <4>1 DEF Whole
      <4> QED  BY <1>0, <2>3, <4>2
    <3>3. CASE s \notin segments
      <4>1. segments' = segments /\ torn' = torn /\ wal' = wal
        BY <1>0, <2>3, <3>3 DEF TypeInv, TypeOK, Ranges
      <4> QED  BY <1>0, <1>a, <1>b, <2>1, <4>1
    <3> QED  BY <3>2, <3>3
  <2> QED  BY <2>1, <2>2, <2>3
<1>13. CASE PurgeDone
  <2>1. pc' = "idle" /\ UNCHANGED <<wal, synced, segments, torn, seg, sst, mem, imm>>
    BY <1>13 DEF PurgeDone, disk
  <2> QED  BY <1>0, <1>a, <1>b, <2>1
<1>14. CASE Shutdown
  <2>1. /\ pc' = "down" /\ mem' = Empty /\ imm' = Empty /\ synced' = nextLsn - 1
        /\ UNCHANGED <<wal, segments, torn, seg, sst>>
    BY <1>14 DEF Shutdown, Stop, Sync
  <2> QED  BY <1>0, <1>a, <1>c, <2>1 DEF Empty
<1>15. CASE Crash
  <2>1. PICK n \in synced .. (nextLsn - 1) :
          /\ wal' = Survivors(n) /\ synced' = n
          /\ torn' \in {torn, torn \cup {seg}}
    BY <1>15 DEF Crash
  <2>2. /\ pc' = "down" /\ mem' = Empty /\ imm' = Empty /\ UNCHANGED <<segments, seg>>
        /\ \A i \in DOMAIN sst' : i \in DOMAIN sst /\ sst'[i] = sst[i]
    BY <1>15 DEF Crash, Stop, Files
  <2>3. Whole' => Whole
    BY <2>1, <2>2 DEF Whole
  <2>4. Survivors(synced) \subseteq Survivors(synced)'
    BY <1>0, <2>1 DEF Survivors, TypeInv, TypeOK, Frames
  <2>5. Backed => Backed'
    BY <2>2, <2>4 DEF Backed, FramesOf, Empty
  <2> QED  BY <1>0, <2>2, <2>3, <2>5
<1>16. CASE Open
  <2>1. /\ pc' = "idle" /\ mem' = Replay(wal) /\ synced' = nextLsn' - 1
        /\ UNCHANGED <<wal, segments, torn, sst, imm>> /\ seg' = Greatest(segments)
    BY <1>16 DEF Open
  <2>2. seg' = seg
    <3>1. segments \in SUBSET Nat /\ seg \in segments /\ \A s \in segments : s <= seg
      BY <1>0 DEF TypeInv, TypeOK, Ranges
    <3> QED  BY <2>1, <3>1, GreatestIs
  <2>3. Survivors(synced)' = wal
    <3>1. Survivors(nextLsn - 1)' = wal'
      BY <1>0 DEF TypeInv, TypeOK, Ranges, Survivors, Frames
    <3> QED  BY <2>1, <3>1 DEF Survivors
  <2>4. \A k \in Keys : FramesOf(wal, k) = {} => mem'[k] = Absent /\ FramesOf(Survivors(synced), k) = {}
    BY <2>1 DEF Replay, FramesOf, Survivors
  <2>5. Backed => Backed'
    BY <2>1, <2>3, <2>4 DEF Backed
  <2> QED  BY <1>0, <1>a, <2>1, <2>2, <2>5
<1>17. CASE WriteBack
  <2>1. UNCHANGED <<wal, synced, segments, torn, seg, sst, mem, imm, pc, op>>
    BY <1>17 DEF WriteBack
  <2> QED  BY <1>0, <1>a, <2>1 DEF Backed, Survivors
<1>18. CASE UNCHANGED vars
  <2>1. UNCHANGED <<wal, synced, segments, torn, seg, sst, mem, imm, pc, op>>
    BY <1>18 DEF vars, disk
  <2> QED  BY <1>0, <1>a, <2>1 DEF Backed, Survivors
<1> QED
  BY <1>1, <1>2, <1>3, <1>4, <1>5, <1>6, <1>7, <1>8, <1>9, <1>10, <1>11, <1>12,
     <1>13, <1>14, <1>15, <1>16, <1>17, <1>18
     DEF Next, Client, Background, Machine, Put, Delete, Entries

\* With sync mode "always", until a segment is purged or torn a restart comes
\* up with what the log says, whatever SSTables failed, were lost with the page
\* cache or left behind, in whatever order segments were removed and whoever
\* compacted (lsm.py _flush_memtable, compact, _recover_from_wal; wal.py
\* purge_before).
THEOREM LogIsEnough ==
    ASSUME SyncMode = "always", "fsync" \notin Platform
    PROVE  Spec => []LogSuffices
<1>1. LogInv => LogSuffices
  <2> SUFFICES ASSUME LogInv, Whole, NEW k \in Keys
               PROVE  Recovered(wal, sst)[k] = Visible(Replay(wal))[k]
    BY DEF LogSuffices, Whole, Recovered, Visible
  <2>1. CASE FramesOf(wal, k) = {}
    <3>1. FramesOf(Survivors(synced), k) = {}
      BY <2>1 DEF FramesOf, Survivors
    <3>2. Lookup(sst)[k] = Absent
      BY <3>1, LookupNone DEF LogInv, Backed
    <3> QED  BY <2>1, <3>2 DEF Recovered, Visible, Over, Replay
  <2>2. CASE FramesOf(wal, k) # {}
    <3>1. wal \in SUBSET Frames /\ nextLsn \in Nat /\ \A f \in wal : f.lsn <= nextLsn
      BY DEF LogInv, TypeInv, TypeOK, Ranges, Frames
    <3>2. Last(wal, k) \in Frames
      BY <2>2, <3>1, LastIn DEF FramesOf
    <3>3. Last(wal, k).val # Absent
      BY <3>2, TableAssumption DEF Frames, Entries
    <3> QED  BY <2>2, <3>3 DEF Recovered, Visible, Over, Replay
  <2> QED  BY <2>1, <2>2
<1> QED  BY LogInit, LogStep, <1>1, PTL DEF Spec

-----------------------------------------------------------------------------
(* Under sync mode always LSMTree implements DurableMap, for every set of  *)
(* keys and values, every number of operations, crashes and restarts.      *)
(*                                                                         *)
(* The abstract store is what a restart now would come up with.  A write   *)
(* changes it when its frame is in the log; what the tree does after that  *)
(* - sync, flush, merge, remove, purge - must not change it.               *)

-----------------------------------------------------------------------------
(* What a restart comes up with *)

\* The last frame of a key answers for it, and the SSTables if it has none.
LEMMA RecoveredAt ==
    ASSUME NEW W \in SUBSET Frames, NEW b \in Nat, \A f \in W : f.lsn <= b,
           NEW files, NEW k \in Keys
    PROVE  Recovered(W, files)[k] =
             IF FramesOf(W, k) # {} THEN Seen(Last(W, k).val) ELSE Seen(Lookup(files)[k])
<1>1. Recovered(W, files)[k] =
        Seen(IF Replay(W)[k] # Absent THEN Replay(W)[k] ELSE Lookup(files)[k])
  BY DEF Recovered, Visible, Over
<1>2. CASE FramesOf(W, k) = {}
  BY <1>1, <1>2 DEF Replay
<1>3. CASE FramesOf(W, k) # {}
  <2>1. Last(W, k) \in FramesOf(W, k)
    BY <1>3, LastIn
  <2>2. Last(W, k).val \in Entries
    BY <2>1 DEF FramesOf, Frames
  <2>3. Last(W, k).val # Absent
    BY <2>2, TableAssumption DEF Entries
  <2> QED  BY <1>1, <1>3, <2>3 DEF Replay
<1> QED  BY <1>2, <1>3

\* Two logs and files that agree on every key come up with one map.
LEMMA RecoveredSame ==
    ASSUME NEW W, NEW files, NEW X, NEW more,
           \A k \in Keys : Recovered(X, more)[k] = Recovered(W, files)[k]
    PROVE  Recovered(X, more) = Recovered(W, files)
BY DEF Recovered, Visible

LEMMA FramesBounded ==
    ReadInv => wal \in SUBSET Frames /\ nextLsn \in Nat /\ \A f \in wal : f.lsn <= nextLsn
BY DEF ReadInv, TypeInv, TypeOK, Ranges, Frames

\* Without the oldest SSTable a key is answered as before, unless this was the
\* only one that knew it.
LEMMA LookupDrop ==
    ASSUME NEW files, DOMAIN files \in SUBSET Nat, NEW b \in Nat, \A i \in DOMAIN files : i <= b,
           NEW v \in DOMAIN files, \A i \in DOMAIN files : v <= i,
           NEW new, DOMAIN new = DOMAIN files \ {v}, \A i \in DOMAIN new : new[i] = files[i],
           NEW k \in Keys
    PROVE  \/ Lookup(new)[k] = Lookup(files)[k]
           \/ Holding(files, k) = {v} /\ Lookup(new)[k] = Absent
<1>1. Holding(new, k) = Holding(files, k) \ {v}
  BY DEF Holding
<1>2. Holding(files, k) \in SUBSET Nat /\ \A x \in Holding(files, k) : x <= b /\ v <= x
  BY DEF Holding
<1>3. CASE Holding(new, k) = {}
  <2>1. Lookup(new)[k] = Absent
    BY <1>3 DEF Lookup
  <2>2. Holding(files, k) = {} => Lookup(files)[k] = Absent
    BY DEF Lookup
  <2> QED  BY <1>1, <1>3, <2>1, <2>2
<1>4. CASE Holding(new, k) # {}
  <2>1. PICK w \in Holding(files, k) : w # v
    BY <1>1, <1>4
  <2> DEFINE g == Greatest(Holding(files, k))
  <2>2. g \in Holding(files, k) /\ \A y \in Holding(files, k) : y <= g
    BY <1>2, <2>1, GreatestIn
  <2> HIDE DEF g
  <2>3. g # v
    BY <1>2, <2>1, <2>2
  <2>4. g \in Holding(new, k) /\ \A y \in Holding(new, k) : y <= g
    BY <1>1, <2>2, <2>3
  <2>5. Greatest(Holding(new, k)) = g
    BY <1>1, <1>2, <2>4, GreatestIs
  <2>6. new[g] = files[g] /\ Holding(files, k) # {}
    BY <2>2, <2>4 DEF Holding
  <2> QED  BY <1>4, <2>5, <2>6 DEF Lookup, g
<1> QED  BY <1>3, <1>4

-----------------------------------------------------------------------------
(* The steps that change log or files *)

\* Within a compaction the files say of every key what its output says.
Rest == pc = "remove" => \A k \in Keys : Seen(Lookup(sst)[k]) = Seen(OutputEntry(k))

LEMMA WriteTableKeeps ==
    ASSUME ReadInv, WriteTable
    PROVE  \A k \in Keys : FramesOf(wal, k) = {} => Lookup(sst')[k] = Lookup(sst)[k]
<1> USE DEF ReadInv
<1>1. /\ DOMAIN sst \in SUBSET Nat /\ nextId \in Nat /\ \A i \in DOMAIN sst : i < nextId
      /\ DOMAIN sst' = DOMAIN sst \cup {nextId} /\ sst'[nextId] = imm
      /\ \A i \in DOMAIN sst : sst'[i] = sst[i]
  BY DEF WriteTable, AddTable, TypeInv, TypeOK, Ranges
<1>2. \A k \in Keys : FramesOf(wal, k) = {} => imm[k] = Absent
  BY DEF WriteTable, Logged, Pending
<1> QED  BY <1>1, <1>2, LookupAdd

\* The output of a compaction says what the tables it merged say.
LEMMA MergeKeeps ==
    ASSUME Platform = {}, ReadInv, Merge
    PROVE  /\ \A k \in Keys : Seen(Lookup(sst')[k]) = Seen(Lookup(sst)[k])
           /\ Rest'
<1> USE DEF ReadInv
<1>1. /\ DOMAIN sst \in SUBSET Nat /\ nextId \in Nat /\ \A i \in DOMAIN sst : i < nextId
      /\ sst = [i \in DOMAIN sst |-> sst[i]] /\ readers = DOMAIN sst
      /\ nextId' = nextId + 1
      /\ IF Merged = Empty THEN sst' = sst
         ELSE sst' = [i \in DOMAIN sst \cup {nextId} |-> IF i = nextId THEN Merged ELSE sst[i]]
  BY DEF Merge, AddTable, Phases, TypeInv, TypeOK, Ranges
<1>2. nextId \notin DOMAIN sst /\ nextId' - 1 = nextId
  BY <1>1
<1>3. \A k \in Keys : Merged[k] = Seen(Lookup(sst)[k])
  BY <1>1 DEF Merged, Visible, Files
<1>4. CASE Merged = Empty
  <2>1. \A k \in Keys : Seen(Lookup(sst)[k]) = Absent
    BY <1>3, <1>4 DEF Empty
  <2>2. sst' = sst /\ \A k \in Keys : OutputEntry(k)' = Absent
    BY <1>1, <1>2, <1>4 DEF OutputEntry
  <2> QED  BY <2>1, <2>2, SeenTwice DEF Rest
<1>5. CASE Merged # Empty
  <2>1. /\ DOMAIN sst' = DOMAIN sst \cup {nextId} /\ sst'[nextId] = Merged
        /\ \A i \in DOMAIN sst : sst'[i] = sst[i]
    BY <1>1, <1>2, <1>5
  <2>2. \A k \in Keys :
          Lookup(sst')[k] = IF Merged[k] # Absent THEN Merged[k] ELSE Lookup(sst)[k]
    BY <1>1, <2>1, LookupAdd, SMTT(60)
  <2>3. \A k \in Keys : OutputEntry(k)' = Merged[k]
    BY <1>2, <2>1 DEF OutputEntry
  <2>4. \A k \in Keys : Seen(Lookup(sst')[k]) = Seen(Lookup(sst)[k]) /\ Seen(Merged[k]) = Merged[k]
    BY <1>3, <2>2, SeenTwice
  <2> QED  BY <1>3, <2>3, <2>4 DEF Rest
<1> QED  BY <1>4, <1>5

\* The tables a compaction removes, oldest first, take nothing with them that
\* its output does not say.
LEMMA RemoveKeeps ==
    ASSUME Platform = {}, ReadInv, Rest, RemoveTable
    PROVE  /\ \A k \in Keys : Seen(Lookup(sst')[k]) = Seen(Lookup(sst)[k])
           /\ Rest'
<1> USE DEF ReadInv
<1> DEFINE v == Least(victims)
<1>1. /\ pc = "remove" /\ victims # {} /\ victims \in SUBSET Nat
      /\ sst' = Files(DOMAIN sst \ {v}) /\ nextId' = nextId
  BY DEF RemoveTable, TypeInv, TypeOK
<1>2. v \in victims /\ \A x \in victims : v <= x
  BY <1>1, LeastIn
<1> HIDE DEF v
<1>3. /\ DOMAIN sst \in SUBSET Nat /\ nextId \in Nat /\ \A i \in DOMAIN sst : i < nextId
      /\ v \in DOMAIN sst /\ v # nextId - 1
      /\ DOMAIN sst \subseteq victims \cup {nextId - 1}
  BY <1>1, <1>2 DEF Removal, TypeInv, TypeOK, Ranges
<1>4. (\A i \in DOMAIN sst : v <= i) /\ \A i \in DOMAIN sst : i <= nextId
  BY <1>2, <1>3
<1>5. DOMAIN sst' = DOMAIN sst \ {v} /\ \A i \in DOMAIN sst' : sst'[i] = sst[i]
  BY <1>1 DEF Files
<1>6. ASSUME NEW k \in Keys PROVE Seen(Lookup(sst')[k]) = Seen(Lookup(sst)[k])
  <2>1. CASE Lookup(sst')[k] = Lookup(sst)[k]
    BY <2>1
  <2>2. CASE Holding(sst, k) = {v} /\ Lookup(sst')[k] = Absent
    <3>1. OutputEntry(k) = Absent
      BY <1>3, <2>2 DEF Holding, OutputEntry
    <3> QED  BY <1>1, <2>2, <3>1 DEF Rest
  <2> QED  BY <1>3, <1>4, <1>5, <2>1, <2>2, LookupDrop
<1>7. \A k \in Keys : OutputEntry(k)' = OutputEntry(k)
  BY <1>1, <1>3, <1>5 DEF OutputEntry
<1> QED  BY <1>1, <1>6, <1>7 DEF Rest

\* A key whose frames go with a segment is in the SSTables.
LEMMA PurgeKeeps ==
    ASSUME Platform = {}, ReadInv, PurgeSegment
    PROVE  \A k \in Keys :
             /\ FramesOf(wal', k) # {} => FramesOf(wal, k) # {} /\ Last(wal', k) = Last(wal, k)
             /\ FramesOf(wal', k) = {} /\ FramesOf(wal, k) # {} =>
                  Seen(Last(wal, k).val) = Seen(Lookup(sst)[k])
<1> USE DEF ReadInv
<1>1. PICK s \in victims :
        /\ pc = "purge" /\ s = Least(victims) /\ wal' = {f \in wal : f.seg # s}
  BY DEF PurgeSegment, PurgeOrder
<1>2. victims = {x \in segments : x < seg} /\ victims \in SUBSET Nat /\ s \in Nat
  BY <1>1 DEF Phases, TypeInv, TypeOK
<1>3. \A f \in wal : f.seg # s => s < f.seg
  <2>1. \A x \in victims : s <= x
    BY <1>1, <1>2, LeastIn
  <2>2. \A f \in wal : f.seg \in segments /\ f.seg \in Nat /\ seg \in Nat
    BY DEF TypeInv, TypeOK, Ranges
  <2> QED  BY <1>1, <1>2, <2>1, <2>2
<1>4. \A k \in Keys : FramesOf(wal, k) # {} => Seen(Last(wal, k).val) = Seen(Lookup(sst)[k])
  BY <1>1 DEF Flushed, Phases, Empty, Pending, LastValue
<1> QED  BY <1>1, <1>2, <1>3, <1>4, PurgeKeepsLast

\* A step that is no write and no crash keeps what a restart comes up with.
LEMMA StoreKept ==
    ASSUME Platform = {}, ~ClientCompacts, ReadInv, ReadInv', Rest, [Next]_vars,
           ~ \E k \in Keys, v \in Entries : Append(k, v), ~ Crash
    PROVE  Recovered(wal, sst)' = Recovered(wal, sst) /\ Rest'
<1>1. \A k \in Keys :
        /\ Recovered(wal, sst)[k] =
             IF FramesOf(wal, k) # {} THEN Seen(Last(wal, k).val) ELSE Seen(Lookup(sst)[k])
        /\ Recovered(wal', sst')[k] =
             IF FramesOf(wal', k) # {} THEN Seen(Last(wal', k).val) ELSE Seen(Lookup(sst')[k])
  <2>1. wal' \in SUBSET Frames /\ nextLsn' \in Nat /\ \A f \in wal' : f.lsn <= nextLsn'
    BY DEF ReadInv, TypeInv, TypeOK, Ranges, Frames
  <2> QED  BY <2>1, FramesBounded, RecoveredAt
<1>2. CASE WriteTable
  <2>1. wal' = wal /\ pc' = "rotate"
    BY <1>2 DEF WriteTable
  <2>2. \A k \in Keys : Recovered(wal', sst')[k] = Recovered(wal, sst)[k]
    BY <1>1, <1>2, <2>1, WriteTableKeeps
  <2> QED  BY <2>1, <2>2, RecoveredSame DEF Rest
<1>3. CASE Merge
  <2>1. wal' = wal
    BY <1>3 DEF Merge
  <2>2. \A k \in Keys : Recovered(wal', sst')[k] = Recovered(wal, sst)[k]
    BY <1>1, <1>3, <2>1, MergeKeeps
  <2> QED  BY <1>3, <2>2, RecoveredSame, MergeKeeps
<1>4. CASE RemoveTable
  <2>1. wal' = wal
    BY <1>4 DEF RemoveTable
  <2>2. \A k \in Keys : Recovered(wal', sst')[k] = Recovered(wal, sst)[k]
    BY <1>1, <1>4, <2>1, RemoveKeeps
  <2> QED  BY <1>4, <2>2, RecoveredSame, RemoveKeeps
<1>5. CASE PurgeSegment
  <2>1. sst' = sst /\ pc' = "purge"
    BY <1>5 DEF PurgeSegment
  <2>2. \A k \in Keys : Recovered(wal', sst')[k] = Recovered(wal, sst)[k]
    BY <1>1, <1>5, <2>1, PurgeKeeps
  <2> QED  BY <2>1, <2>2, RecoveredSame DEF Rest
<1>6. CASE Apply \/ Flush \/ Close \/ FlushNothing \/ RotateLog \/ OpenMerged
           \/ PurgeDone \/ Shutdown \/ Open \/ WriteBack
  <2>1. wal' = wal /\ sst' = sst /\ pc' # "remove"
    BY <1>6 DEF Apply, Swap, Flush, Close, StartFlush, FlushNothing, Idle, RotateLog, OpenMerged,
                PurgeDone, Shutdown, Stop, Open, WriteBack, disk, ReadInv, Phases
  <2> QED  BY <2>1 DEF Rest
<1>7. CASE UNCHANGED vars
  BY <1>7 DEF vars, disk, Rest, OutputEntry
<1> QED
  BY <1>2, <1>3, <1>4, <1>5, <1>6, <1>7
  DEF Next, Client, Background, Machine, Put, Delete, Entries, WriteFails, Compact

-----------------------------------------------------------------------------
(* What a crash may leave *)

Survived == {Recovered(Survivors(n), sst) : n \in synced .. (nextLsn - 1)}

LEMMA RecoverableIs == ReadInv => Recoverable = Survived
<1> SUFFICES ASSUME ReadInv
             PROVE  Recoverable = Survived
  OBVIOUS
<1> USE DEF ReadInv
<1>1. cached = {} /\ Files(DOMAIN sst \ {}) = sst
  BY DEF Phases, Files, TypeInv, TypeOK
<1>2. SUBSET cached = {{}}
  BY <1>1
<1>3. \A x : x \in Recoverable <=>
        \E n \in synced .. (nextLsn - 1), L \in SUBSET cached :
           x = Recovered(Survivors(n), Files(DOMAIN sst \ L))
  BY DEF Recoverable
<1>4. \A x : x \in Recoverable <=> x \in Survived
  BY <1>1, <1>2, <1>3, ZenonT(90) DEF Survived
<1> QED  BY <1>4

\* The store itself is among it, and nothing else unless a write is under way.
StoreLeft ==
    /\ Recoverable = Survived
    /\ Recovered(wal, sst) \in Recoverable
    /\ pc # "appended" => Recoverable = {Recovered(wal, sst)}

LEMMA StoreRecoverable ==
    ASSUME SyncMode = "always"
    PROVE  ReadInv => StoreLeft
<1> SUFFICES ASSUME ReadInv
             PROVE  StoreLeft
  OBVIOUS
<1> USE DEF ReadInv
<1>1. /\ synced \in Nat /\ nextLsn \in Nat /\ synced < nextLsn
      /\ Survivors(nextLsn - 1) = wal
  BY DEF Survivors, TypeInv, TypeOK, Ranges, Frames
<1>2. nextLsn - 1 \in synced .. (nextLsn - 1)
  BY <1>1
<1>3. pc # "appended" => synced .. (nextLsn - 1) = {nextLsn - 1}
  BY <1>1 DEF AllSynced
<1>4. Recoverable = Survived
  BY RecoverableIs
<1> QED  BY <1>1, <1>2, <1>3, <1>4 DEF StoreLeft, Survived

-----------------------------------------------------------------------------
(* The refinement *)

\* A write's frame changes its key, and a crash before put() or delete()
\* returns comes up with the store before or after it.
LEMMA AppendUpdates ==
    ASSUME Platform = {}, SyncMode = "always", ReadInv, ReadInv', StoreLeft',
           NEW k0 \in Keys, NEW v \in Entries, Append(k0, v)
    PROVE  Store!Update(k0, Seen(v))
<1> USE DEF ReadInv
<1> DEFINE f == [lsn |-> nextLsn, seg |-> seg, key |-> k0, val |-> v]
<1>1. /\ pc = "idle" /\ nextLsn' = nextLsn + 1 /\ wal' = wal \cup {f}
      /\ writes' = writes + 1 /\ sst' = sst /\ synced' = synced
  BY DEF Append, Idle, Phases
<1>2. /\ nextLsn \in Nat /\ synced = nextLsn - 1 /\ synced \in Nat
      /\ \A g \in wal : g.lsn \in Nat /\ g.lsn < nextLsn
  BY <1>1 DEF AllSynced, TypeInv, TypeOK, Ranges, Frames
<1>3. wal \in SUBSET Frames /\ wal' \in SUBSET Frames
  BY DEF TypeInv, TypeOK
<1>4. (\A g \in wal : g.lsn <= nextLsn) /\ (\A g \in wal' : g.lsn <= nextLsn)
  BY <1>1, <1>2
<1>5. Last(wal', k0) = f /\ f \in FramesOf(wal', k0)
  <2>1. f \in FramesOf(wal', k0)
    BY <1>1 DEF FramesOf
  <2>2. \A g \in FramesOf(wal', k0) : g.lsn <= f.lsn
    BY <1>4 DEF FramesOf
  <2>3. \A g \in wal' : g.lsn = f.lsn => g = f
    BY <1>1, <1>2
  <2> HIDE DEF f
  <2> QED  BY <1>3, <2>1, <2>2, <2>3, LastIs
<1>6. \A k \in Keys : k # k0 => FramesOf(wal', k) = FramesOf(wal, k)
  BY <1>1 DEF FramesOf
<1>7. \A k \in Keys :
        /\ Recovered(wal, sst)[k] =
             IF FramesOf(wal, k) # {} THEN Seen(Last(wal, k).val) ELSE Seen(Lookup(sst)[k])
        /\ Recovered(wal', sst)[k] =
             IF FramesOf(wal', k) # {} THEN Seen(Last(wal', k).val) ELSE Seen(Lookup(sst)[k])
  <2> HIDE DEF ReadInv, f
  <2> QED  BY <1>2, <1>3, <1>4, RecoveredAt
<1>8. Recovered(wal', sst')[k0] = Seen(v)
  <2>1. FramesOf(wal', k0) # {} /\ Last(wal', k0).val = v /\ sst' = sst
    BY <1>1, <1>5
  <2> HIDE DEF f, ReadInv
  <2> QED  BY <1>7, <2>1
<1>9. ASSUME NEW k \in Keys, k # k0
      PROVE  Recovered(wal', sst')[k] = Recovered(wal, sst)[k]
  <2>1. FramesOf(wal', k) = FramesOf(wal, k) /\ Last(wal', k) = Last(wal, k)
    BY <1>6, <1>9 DEF Last
  <2> HIDE DEF f, ReadInv
  <2> QED  BY <1>1, <1>7, <2>1
<1>10. Recovered(wal, sst)' = [Recovered(wal, sst) EXCEPT ![k0] = Seen(v)]
  <2>1. \A W, t : Recovered(W, t) = [k \in Keys |-> Recovered(W, t)[k]]
    BY DEF Recovered, Visible
  <2> HIDE DEF f
  <2> QED  BY <1>8, <1>9, <2>1
<1>11. ASSUME NEW x \in Recoverable'
       PROVE  x \in Recoverable \cup {Recovered(wal, sst)'}
  <2>1. PICK n \in synced .. nextLsn : x = Recovered({g \in wal' : g.lsn <= n}, sst)
    <3>1. Recoverable' = {Recovered({g \in wal' : g.lsn <= n}, sst') : n \in synced' .. (nextLsn' - 1)}
      BY DEF StoreLeft, Survived, Survivors
    <3>2. nextLsn' - 1 = nextLsn
      BY <1>1, <1>2
    <3> QED  BY <1>1, <3>1, <3>2
  <2>2. CASE n = nextLsn - 1
    <3>1. {g \in wal' : g.lsn <= n} = wal
      BY <1>1, <1>2, <2>2
    <3> QED  BY <1>1, <2>1, <3>1, StoreRecoverable DEF StoreLeft
  <2>3. CASE n = nextLsn
    <3>1. {g \in wal' : g.lsn <= n} = wal'
      BY <1>4, <2>3
    <3> QED  BY <1>1, <2>1, <3>1
  <2> QED  BY <1>2, <2>1, <2>2, <2>3
<1>12. Recovered(wal, sst)' \in Recoverable'
  BY DEF StoreLeft
<1> QED  BY <1>1, <1>10, <1>11, <1>12 DEF Store!Update

\* Only a write opens a window in which a crash may undo it, and only a write
\* is counted.
LEMMA Settles ==
    ASSUME ReadInv, Next, ~ Crash, ~ \E k \in Keys, v \in Entries : Append(k, v)
    PROVE  pc' # "appended" /\ writes' = writes
<1>1. cached = {}
  BY DEF ReadInv, Phases
<1>2. CASE Apply \/ Flush \/ Close \/ FlushNothing \/ WriteTable \/ WriteFails \/ RotateLog
  BY <1>2 DEF Apply, Swap, Flush, Close, StartFlush, FlushNothing, Idle, WriteTable, WriteFails,
              RotateLog, control
<1>3. CASE Compact \/ Merge \/ RemoveTable \/ OpenMerged \/ PurgeSegment \/ PurgeDone
  BY <1>3 DEF Compact, Merge, RemoveTable, OpenMerged, PurgeSegment, PurgeDone, control
<1>4. CASE Shutdown \/ Open \/ WriteBack
  BY <1>1, <1>4 DEF Shutdown, Stop, Open, WriteBack
<1> QED
  BY <1>2, <1>3, <1>4 DEF Next, Client, Background, Machine, Put, Delete, Entries

\* Every step is a step of the durable map, or none.
LEMMA StepRefines ==
    ASSUME Platform = {}, ~ClientCompacts, SyncMode = "always"
    PROVE  ReadInv /\ ReadInv' /\ StoreLeft' /\ Rest /\ [Next]_vars =>
            [Store!Next]_(Store!vars) /\ Rest'
<1> SUFFICES ASSUME ReadInv, ReadInv', StoreLeft', Rest, [Next]_vars
             PROVE  [Store!Next]_(Store!vars) /\ Rest'
  OBVIOUS
<1>1. ASSUME NEW k \in Keys, NEW v \in Entries, Append(k, v)
      PROVE  [Store!Next]_(Store!vars) /\ Rest'
  <2>1. Store!Update(k, Seen(v))
    BY <1>1, AppendUpdates
  <2>2. Seen(v) \in Vals \cup {Absent}
    BY DEF Seen, Entries
  <2>3. Rest'
    BY <1>1 DEF Append, Rest
  <2> QED  BY <2>1, <2>2, <2>3 DEF Store!Next
<1>2. CASE Crash
  <2>1. pc' = "down" /\ writes' = writes
    BY <1>2 DEF Crash, Stop
  <2>2. Recoverable' = {Recovered(wal, sst)'}
    BY <2>1 DEF StoreLeft
  <2>3. Recovered(wal, sst)' \in Recoverable
    <3>1. PICK n \in synced .. (nextLsn - 1), L \in SUBSET cached :
            wal' = Survivors(n) /\ sst' = Files(DOMAIN sst \ L)
      BY <1>2 DEF Crash
    <3> QED  BY <3>1, SMTT(60) DEF Recoverable
  <2> QED  BY <2>1, <2>2, <2>3 DEF Store!Next, Store!Recover, Rest
<1>3. CASE UNCHANGED vars
  <2>1. UNCHANGED <<wal, synced, sst, cached, nextLsn, nextId, pc, writes>>
    BY <1>3 DEF vars, disk, control
  <2>2. Recoverable' = Recoverable /\ Recovered(wal, sst)' = Recovered(wal, sst)
    BY <2>1 DEF Recoverable, Survivors, Files
  <2> QED  BY <2>1, <2>2 DEF Store!vars, Rest, OutputEntry
<1>4. CASE /\ ~ \E k \in Keys, v \in Entries : Append(k, v)
           /\ ~ Crash /\ Next
  <2>1. Recovered(wal, sst)' = Recovered(wal, sst) /\ Rest'
    BY <1>4, StoreKept
  <2>2. pc' # "appended" /\ writes' = writes
    BY <1>4, Settles
  <2>3. Recoverable' = {Recovered(wal, sst)} /\ Recovered(wal, sst) \in Recoverable
    BY <2>1, <2>2, StoreRecoverable DEF StoreLeft
  <2> QED  BY <2>1, <2>2, <2>3 DEF Store!Next, Store!Settle
<1> QED  BY <1>1, <1>2, <1>3, <1>4

\* Under sync mode always the storage engine is a durable map: a write changes
\* one key and is the only thing a crash can undo, and only until put() or
\* delete() returns; flushes, compactions and purges change nothing; a restart
\* comes up with what it was allowed to (lsm.py LSMTree, wal.py WriteAheadLog,
\* README.md "Crash Consistency").
THEOREM DurableCorrect ==
    ASSUME Platform = {}, ~ClientCompacts, SyncMode = "always"
    PROVE  Spec => Durable
<1>1. Init => Store!Init /\ Rest
  <2> SUFFICES ASSUME Init
               PROVE  Store!Init /\ Rest
    OBVIOUS
  <2>1. /\ ReadInv /\ StoreLeft /\ pc = "idle" /\ writes = 0
        /\ wal = {} /\ DOMAIN sst = {}
    BY ReadInit, StoreRecoverable DEF Init
  <2>2. \A k \in Keys : Replay(wal)[k] = Absent /\ Lookup(sst)[k] = Absent
    BY <2>1 DEF Replay, FramesOf, Lookup, Holding
  <2>3. Recovered(wal, sst) = [k \in Keys |-> Absent]
    BY <2>2, SeenTwice DEF Recovered, Visible, Over
  <2> QED  BY <2>1, <2>3 DEF StoreLeft, Store!Init, Rest
<1>2. ReadInv => StoreLeft
  BY StoreRecoverable
<1> QED  BY ReadInit, ReadStep, StepRefines, <1>1, <1>2, PTL DEF Spec, Durable, Store!Spec

-----------------------------------------------------------------------------
(***************************************************************************)
(* One key, in every sync mode.  With less than mode always a crash may    *)
(* undo writes that returned, and a memtable that became an SSTable in     *)
(* time keeps some of its writes while another key loses later ones.  For  *)
(* one key alone the tree is still a durable map: a crash takes it back to *)
(* an earlier value, and what it may take never grows but by a write.      *)
(***************************************************************************)

\* The values a crash now may leave key k with.
KeyLeft(k) == {Recovered(Survivors(n), sst)[k] : n \in synced .. (nextLsn - 1)}

\* The log is synced before tables are merged, so that nothing is at risk when
\* segments go.
MergeSynced == pc \in {"merge", "remove", "purge"} => synced = nextLsn - 1

KeyInv == ReadInv /\ Rest /\ MergeSynced

\* Maps with one key.
One(k, e) == [x \in {k} |-> e]
Ones(k, S) == {One(k, e) : e \in S}

LEMMA OnesOf ==
    ASSUME NEW k, NEW S
    PROVE  /\ \A e \in S : One(k, e) \in Ones(k, S)
           /\ \A T : S \subseteq T => Ones(k, S) \subseteq Ones(k, T)
           /\ \A T, e : S \subseteq T \cup {e} => Ones(k, S) \subseteq Ones(k, T) \cup {One(k, e)}
           /\ \A e : Ones(k, {e}) = {One(k, e)}
BY DEF Ones

\* The abstract state of one key.
Described(k) ==
    /\ [x \in {k} |-> Recovered(wal, sst)[x]] = One(k, Recovered(wal, sst)[k])
    /\ {[x \in {k} |-> m[x]] : m \in Recoverable} = Ones(k, KeyLeft(k))
    /\ Recovered(wal, sst)[k] \in KeyLeft(k)
    /\ KeyLeft(k) \subseteq Vals \cup {Absent}

LEMMA KeyState ==
    ASSUME ReadInv, NEW k \in Keys
    PROVE  Described(k)
<1>1. \A m : (\E e \in Recoverable : m = [x \in {k} |-> e[x]]) <=> \E e \in KeyLeft(k) : m = [x \in {k} |-> e]
  <2>1. \A e : [x \in {k} |-> e[x]] = [x \in {k} |-> e[k]]
    OBVIOUS
  <2>2. \A y : y \in Recoverable <=> \E n \in synced .. (nextLsn - 1) : y = Recovered(Survivors(n), sst)
    BY RecoverableIs DEF Survived
  <2>3. \A y : y \in KeyLeft(k) <=> \E n \in synced .. (nextLsn - 1) : y = Recovered(Survivors(n), sst)[k]
    BY DEF KeyLeft
  <2> QED  BY <2>1, <2>2, <2>3
<1>2. Recovered(wal, sst)[k] \in KeyLeft(k)
  <2>1. nextLsn - 1 \in synced .. (nextLsn - 1)
    BY DEF ReadInv, TypeInv, TypeOK, Ranges
  <2> QED  BY <2>1, AllSurvive DEF KeyLeft, ReadInv
<1>3. KeyLeft(k) \subseteq Vals \cup {Absent}
  <2> SUFFICES ASSUME NEW n \in synced .. (nextLsn - 1)
               PROVE  Recovered(Survivors(n), sst)[k] \in Vals \cup {Absent}
    BY DEF KeyLeft
  <2>1. /\ Survivors(n) \in SUBSET Frames /\ nextLsn \in Nat /\ \A f \in Survivors(n) : f.lsn <= nextLsn
    BY FramesBounded DEF Survivors
  <2>2. Replay(Survivors(n)) \in Tables
    BY <2>1, ReplayType
  <2>3. Lookup(sst) \in Tables
    <3>1. /\ DOMAIN sst \in SUBSET Nat /\ nextId \in Nat
          /\ \A i \in DOMAIN sst : i <= nextId /\ sst[i] \in Tables
      BY DEF ReadInv, TypeInv, TypeOK, Ranges
    <3> QED  BY <3>1, LookupType
  <2> QED  BY <2>2, <2>3 DEF Recovered, Visible, Over, Seen, Tables, Entries
<1>4. [x \in {k} |-> Recovered(wal, sst)[x]] = One(k, Recovered(wal, sst)[k])
  BY DEF One
<1>5. {[x \in {k} |-> m[x]] : m \in Recoverable} = Ones(k, KeyLeft(k))
  BY <1>1 DEF Ones, One
<1> QED  BY <1>2, <1>3, <1>4, <1>5 DEF Described

LEMMA KeyStateNext == ReadInv' => (\A k \in Keys : Described(k))'
<1>1. ReadInv => \A k \in Keys : Described(k)
  BY KeyState
<1> QED  BY <1>1, PTL

\* What a crash at any point leaves of a key.
LEMMA LeftAt ==
    ASSUME ReadInv, NEW n, NEW files, NEW k \in Keys
    PROVE  Recovered(Survivors(n), files)[k] =
             IF FramesOf(Survivors(n), k) # {} THEN Seen(Last(Survivors(n), k).val) ELSE Seen(Lookup(files)[k])
<1>1. /\ Survivors(n) \in SUBSET Frames /\ nextLsn \in Nat /\ \A f \in Survivors(n) : f.lsn <= nextLsn
  BY FramesBounded DEF Survivors
<1> QED  BY <1>1, RecoveredAt

\* An operation on the log or the files adds no value a crash could leave.
LEMMA LeftShrinks ==
    ASSUME Platform = {}, ~ClientCompacts, KeyInv, ReadInv', [Next]_vars,
           ~ \E k \in Keys, v \in Entries : Append(k, v), ~ Crash, NEW k \in Keys
    PROVE  KeyLeft(k)' \subseteq KeyLeft(k)
<1> USE DEF KeyInv
<1>0. synced \in Nat /\ nextLsn \in Nat /\ synced < nextLsn
  BY DEF ReadInv, TypeInv, TypeOK, Ranges
\* Less of the log is at risk.
<1>a. ASSUME wal' = wal, nextLsn' = nextLsn, synced' \in {synced, nextLsn - 1},
             \A n \in synced .. (nextLsn - 1) :
               Recovered(Survivors(n), sst')[k] \in KeyLeft(k)
      PROVE  KeyLeft(k)' \subseteq KeyLeft(k)
  <2>1. \A n : Survivors(n)' = Survivors(n)
    BY <1>a DEF Survivors
  <2>2. synced' .. (nextLsn' - 1) \subseteq synced .. (nextLsn - 1)
    BY <1>0, <1>a
  <2>3. KeyLeft(k)' = {Recovered(Survivors(n), sst')[k] : n \in synced' .. (nextLsn' - 1)}
    BY <2>1 DEF KeyLeft
  <2> QED  BY <1>a, <2>2, <2>3
<1>b. ASSUME wal' = wal, nextLsn' = nextLsn, synced' \in {synced, nextLsn - 1}, sst' = sst
      PROVE  KeyLeft(k)' \subseteq KeyLeft(k)
  BY <1>a, <1>b DEF KeyLeft
<1>c. ASSUME wal' = wal, nextLsn' = nextLsn, synced' = synced, Seen(Lookup(sst')[k]) = Seen(Lookup(sst)[k])
      PROVE  KeyLeft(k)' \subseteq KeyLeft(k)
  <2>1. \A n \in synced .. (nextLsn - 1) : Recovered(Survivors(n), sst')[k] = Recovered(Survivors(n), sst)[k]
    BY <1>c, LeftAt
  <2> QED  BY <1>a, <1>c, <2>1 DEF KeyLeft
\* All of the log is synced, before and after.
<1>d. ASSUME synced' = nextLsn' - 1
      PROVE  KeyLeft(k)' \subseteq KeyLeft(k)
  <2>1. nextLsn' - 1 \in Nat /\ Survivors(nextLsn - 1)' = wal'
    BY <1>d DEF ReadInv, TypeInv, TypeOK, Ranges, Frames, Survivors
  <2>2. KeyLeft(k)' = {Recovered(wal', sst')[k]}
    <3>1. synced' .. (nextLsn' - 1) = {nextLsn' - 1}
      BY <1>d, <2>1
    <3>2. KeyLeft(k)' = {Recovered({f \in wal' : f.lsn <= n}, sst')[k] : n \in {nextLsn' - 1}}
      BY <3>1 DEF KeyLeft, Survivors
    <3>3. {f \in wal' : f.lsn <= nextLsn' - 1} = wal'
      BY <2>1 DEF Survivors
    <3> QED  BY <3>2, <3>3
  <2>3. Recovered(wal, sst)' = Recovered(wal, sst)
    BY StoreKept
  <2> QED  BY <2>2, <2>3, KeyState DEF Described
<1>1. CASE WriteTable
  <2>1. /\ pc = "flush" /\ wal' = wal /\ nextLsn' = nextLsn /\ synced' = synced
        /\ DOMAIN sst \in SUBSET Nat /\ nextId \in Nat /\ \A i \in DOMAIN sst : i < nextId
        /\ DOMAIN sst' = DOMAIN sst \cup {nextId} /\ sst'[nextId] = imm
        /\ \A i \in DOMAIN sst : sst'[i] = sst[i]
    BY <1>1 DEF WriteTable, AddTable, ReadInv, TypeInv, TypeOK, Ranges
  <2>2. Lookup(sst')[k] = IF imm[k] # Absent THEN imm[k] ELSE Lookup(sst)[k]
    BY <2>1, LookupAdd
  <2>3. CASE imm[k] = Absent
    BY <1>c, <2>1, <2>2, <2>3
  <2>4. CASE imm[k] # Absent
    <3>1. FramesOf(wal, k) # {} /\ imm[k] = Last(wal, k).val
      BY <2>1, <2>4 DEF ReadInv, Logged, Pending, LastValue
    <3>2. Seen(imm[k]) \in KeyLeft(k)
      <4>1. wal = Survivors(nextLsn - 1)
        BY AllSurvive DEF ReadInv
      <4> QED  BY <3>1, <4>1, LeftAt, KeyState DEF Described
    <3>3. \A n \in synced .. (nextLsn - 1) : Recovered(Survivors(n), sst')[k] \in KeyLeft(k)
      <4> SUFFICES ASSUME NEW n \in synced .. (nextLsn - 1)
                   PROVE  Recovered(Survivors(n), sst')[k] \in KeyLeft(k)
        OBVIOUS
      <4>1. CASE FramesOf(Survivors(n), k) # {}
        <5>1. Recovered(Survivors(n), sst')[k] = Recovered(Survivors(n), sst)[k]
          BY <4>1, LeftAt
        <5> QED  BY <5>1 DEF KeyLeft
      <4>2. CASE FramesOf(Survivors(n), k) = {}
        BY <2>2, <2>4, <3>2, <4>2, LeftAt
      <4> QED  BY <4>1, <4>2
    <3> QED  BY <1>a, <2>1, <3>3
  <2> QED  BY <2>3, <2>4
<1>2. CASE Merge \/ RemoveTable
  <2>1. wal' = wal /\ nextLsn' = nextLsn /\ synced' = synced
    BY <1>2 DEF Merge, RemoveTable
  <2>2. Seen(Lookup(sst')[k]) = Seen(Lookup(sst)[k])
    BY <1>2, MergeKeeps, RemoveKeeps
  <2> QED  BY <1>c, <2>1, <2>2
<1>3. CASE PurgeSegment
  <2>1. synced' = nextLsn' - 1
    BY <1>3 DEF PurgeSegment, MergeSynced
  <2> QED  BY <1>d, <2>1
<1>4. CASE Open
  BY <1>4, <1>d DEF Open
<1>5. CASE Apply \/ FlushNothing \/ RotateLog \/ Shutdown
  <2>1. wal' = wal /\ nextLsn' = nextLsn /\ synced' \in {synced, nextLsn - 1} /\ sst' = sst
    BY <1>5 DEF Apply, FinishAppend, FlushNothing, RotateLog, Rotate, Shutdown, Sync
  <2> QED  BY <1>b, <2>1
<1>6. CASE Flush \/ Close \/ OpenMerged \/ PurgeDone \/ WriteBack \/ UNCHANGED vars
  <2>1. wal' = wal /\ nextLsn' = nextLsn /\ synced' = synced /\ sst' = sst
    BY <1>6 DEF Flush, Close, StartFlush, OpenMerged, PurgeDone, WriteBack, vars, disk
  <2> QED  BY <1>b, <2>1
<1> QED
  BY <1>1, <1>2, <1>3, <1>4, <1>5, <1>6
  DEF Next, Client, Background, Machine, Put, Delete, Entries, WriteFails, Compact

\* A frame adds one value a crash could leave its key with, and none to others.
LEMMA LeftGrows ==
    ASSUME Platform = {}, ReadInv, ReadInv', NEW k0 \in Keys, NEW v \in Entries, Append(k0, v), NEW k \in Keys
    PROVE  KeyLeft(k)' \subseteq KeyLeft(k) \cup {Recovered(wal, sst)[k]'}
<1> DEFINE f == [lsn |-> nextLsn, seg |-> seg, key |-> k0, val |-> v]
<1>1. /\ wal' = wal \cup {f} /\ nextLsn' = nextLsn + 1 /\ synced' = synced /\ sst' = sst
      /\ nextLsn \in Nat /\ synced \in Nat /\ synced < nextLsn
      /\ \A g \in wal : g.lsn \in Nat /\ g.lsn < nextLsn
  BY DEF Append, ReadInv, Phases, TypeInv, TypeOK, Ranges, Frames
<1> SUFFICES ASSUME NEW n \in synced .. nextLsn
             PROVE  Recovered({g \in wal' : g.lsn <= n}, sst)[k] \in KeyLeft(k) \cup {Recovered(wal, sst)[k]'}
  <2>1. nextLsn' - 1 = nextLsn
    BY <1>1
  <2> QED  BY <1>1, <2>1, SMTT(60) DEF KeyLeft, Survivors
<1>2. CASE n = nextLsn
  <2>1. {g \in wal' : g.lsn <= n} = wal'
    BY <1>1, <1>2
  <2> QED  BY <1>1, <2>1
<1>3. CASE n \in synced .. (nextLsn - 1)
  <2>1. {g \in wal' : g.lsn <= n} = Survivors(n)
    BY <1>1, <1>3 DEF Survivors
  <2> QED  BY <1>3, <2>1 DEF KeyLeft
<1> QED  BY <1>1, <1>2, <1>3

\* Every step keeps the log synced where tables are merged.
LEMMA MergeSyncedNext ==
    ASSUME Platform = {}, ~ClientCompacts, MergeSynced, [Next]_vars
    PROVE  MergeSynced'
BY DEF MergeSynced, Next, Client, Background, Machine, vars, disk, Put, Delete, Append, Idle, Flush, FlushNothing,
       Compact, Close, StartFlush, Swap, Apply, WriteTable, WriteFails, RotateLog, Rotate, Sync, Merge, RemoveTable,
       OpenMerged, PurgeSegment, PurgeDone, Shutdown, Stop, Crash, Open, WriteBack

LEMMA KeyInvInit == Init => KeyInv
BY ReadInit DEF Init, KeyInv, Rest, MergeSynced

\* Every step keeps the invariant, and is a step of each key's map.
LEMMA KeySteps ==
    ASSUME Platform = {}, ~ClientCompacts
    PROVE  KeyInv /\ [Next]_vars =>
             KeyInv' /\ [\A k \in Keys : [KeyStore(k)!Next]_(KeyStore(k)!vars)]_vars
<1> SUFFICES ASSUME KeyInv, [Next]_vars
             PROVE  KeyInv' /\ (Next => \A k \in Keys : [KeyStore(k)!Next]_(KeyStore(k)!vars))
  OBVIOUS
<1>1. ReadInv /\ ReadInv' /\ MergeSynced' /\ Rest
  BY ReadStep, MergeSyncedNext DEF KeyInv
\* The abstract state of a key before and after the step.
<1>2. ASSUME NEW k \in Keys
      PROVE  /\ Described(k)
             /\ [x \in {k} |-> Recovered(wal', sst')[x]] = One(k, Recovered(wal', sst')[k])
             /\ {[x \in {k} |-> m[x]] : m \in Recoverable'} = Ones(k, KeyLeft(k)')
             /\ Recovered(wal', sst')[k] \in KeyLeft(k)' /\ KeyLeft(k)' \subseteq Vals \cup {Absent}
             /\ Recovered(wal, sst)[k]' = Recovered(wal', sst')[k]
  <2>1. Described(k) /\ Described(k)'
    BY <1>1, KeyState, KeyStateNext
  <2> QED  BY <2>1 DEF Described
<1>3. ASSUME NEW k0 \in Keys, NEW v \in Entries, Append(k0, v)
      PROVE  KeyInv' /\ \A k \in Keys : KeyStore(k)!Next
  <2>1. Rest' /\ writes' = writes + 1
    BY <1>3 DEF Append, Rest
  <2>2. ASSUME NEW k \in Keys
        PROVE  KeyStore(k)!Next
    <3>1. PICK e \in Vals \cup {Absent} : e = Recovered(wal', sst')[k]
      BY <1>2
    <3>2. Ones(k, KeyLeft(k)') \subseteq Ones(k, KeyLeft(k)) \cup {One(k, e)}
      <4>1. KeyLeft(k)' \subseteq KeyLeft(k) \cup {e}
        BY <1>1, <1>2, <1>3, <3>1, LeftGrows
      <4> QED  BY <4>1, OnesOf
    <3>3. One(k, e) \in Ones(k, KeyLeft(k)')
      BY <1>2, <3>1, OnesOf
    <3>4. One(k, e) = [One(k, Recovered(wal, sst)[k]) EXCEPT ![k] = e]
      BY DEF One
    <3>5. [x \in {k} |-> Recovered(wal', sst')[x]] = One(k, e)
      BY <1>2, <3>1
    <3>6. KeyStore(k)!Update(k, e)
      BY <1>2, <2>1, <3>2, <3>3, <3>4, <3>5 DEF KeyStore!Update, Described
    <3> QED  BY <3>6 DEF KeyStore!Next
  <2> QED  BY <1>1, <2>1, <2>2 DEF KeyInv
<1>4. CASE Crash
  <2>1. pc' = "down" /\ writes' = writes
    BY <1>4 DEF Crash, Stop
  <2>2. PICK n \in synced .. (nextLsn - 1) : wal' = Survivors(n) /\ synced' = n /\ nextLsn' = n + 1
    BY <1>4 DEF Crash
  <2>3. n \in Nat /\ n + 1 - 1 = n /\ sst' = sst
    <3>1. PICK L \in SUBSET cached : sst' = Files(DOMAIN sst \ L)
      BY <1>4 DEF Crash
    <3>2. sst' = sst
      BY <1>1, <3>1 DEF Files, ReadInv, Phases, TypeInv, TypeOK
    <3> QED  BY <1>1, <2>2, <3>2 DEF ReadInv, TypeInv, TypeOK
  <2>4. ASSUME NEW k \in Keys
        PROVE  KeyStore(k)!Next
    <3> DEFINE e == Recovered(wal', sst')[k]
    <3>1. KeyLeft(k)' = {e}
      <4>1. synced' .. (nextLsn' - 1) = {n}
        BY <2>2, <2>3
      <4>2. {f \in wal' : f.lsn <= n} = wal'
        BY <2>2 DEF Survivors
      <4>3. KeyLeft(k)' = {Recovered({f \in wal' : f.lsn <= m}, sst')[k] : m \in {n}}
        BY <4>1 DEF KeyLeft, Survivors
      <4> QED  BY <4>2, <4>3
    <3>2. e \in KeyLeft(k)
      BY <2>2, <2>3 DEF KeyLeft
    <3> HIDE DEF e
    <3>3. Ones(k, KeyLeft(k)') = {One(k, e)} /\ One(k, e) \in Ones(k, KeyLeft(k))
      BY <3>1, <3>2, OnesOf
    <3>4. [x \in {k} |-> Recovered(wal', sst')[x]] = One(k, e)
      BY <1>2 DEF e
    <3>5. KeyStore(k)!Recover
      BY <1>2, <2>1, <3>3, <3>4 DEF KeyStore!Recover, Described
    <3> QED  BY <3>5 DEF KeyStore!Next
  <2>5. Rest'
    BY <2>1 DEF Rest
  <2> QED  BY <1>1, <2>4, <2>5 DEF KeyInv
<1>5. CASE /\ ~ \E k \in Keys, v \in Entries : Append(k, v)
           /\ ~ Crash
  <2>1. Recovered(wal', sst') = Recovered(wal, sst) /\ Rest'
    BY <1>1, <1>5, StoreKept
  <2>2. Next => writes' = writes
    BY <1>1, <1>5, Settles
  <2>3. ASSUME Next, NEW k \in Keys
        PROVE  KeyStore(k)!Next
    <3>1. KeyLeft(k)' \subseteq KeyLeft(k)
      BY <1>1, <1>5, LeftShrinks
    <3>2. Ones(k, KeyLeft(k)') \subseteq Ones(k, KeyLeft(k))
      BY <3>1, OnesOf
    <3>3. One(k, Recovered(wal, sst)[k]) \in Ones(k, KeyLeft(k)')
      BY <1>2, <2>1, OnesOf
    <3>4. KeyStore(k)!Settle
      BY <1>2, <2>1, <2>2, <2>3, <3>2, <3>3 DEF KeyStore!Settle, Described
    <3> QED  BY <3>4 DEF KeyStore!Next
  <2> QED  BY <1>1, <2>1, <2>3 DEF KeyInv
<1> QED  BY <1>3, <1>4, <1>5

\* In every sync mode each key alone is durable: its value changes by its
\* writes, a crash takes it back to one it was allowed to, and flushes,
\* compactions, purges and restarts neither change it nor give a crash a value
\* more to leave, on the same two conditions (lsm.py LSMTree, wal.py append).
THEOREM KeysAreDurable ==
    ASSUME Platform = {}, ~ClientCompacts
    PROVE  Spec => KeyDurable
<1>1. Init => \A k \in Keys : KeyStore(k)!Init
  <2> SUFFICES ASSUME Init, NEW k \in Keys
               PROVE  KeyStore(k)!Init
    OBVIOUS
  <2>1. wal = {} /\ DOMAIN sst = {} /\ writes = 0 /\ synced = 0 /\ nextLsn = 1 /\ ReadInv
    BY ReadInit DEF Init
  <2>2. \A n : FramesOf(Survivors(n), k) = {} /\ FramesOf(wal, k) = {} /\ Lookup(sst)[k] = Absent
    BY <2>1 DEF FramesOf, Survivors, Lookup, Holding
  <2>3. \A n : Recovered(Survivors(n), sst)[k] = Absent
    BY <2>1, <2>2, LeftAt, SeenTwice
  <2>4. Recovered(wal, sst)[k] = Absent
    BY <2>1, <2>2, FramesBounded, RecoveredAt, SeenTwice
  <2>5. KeyLeft(k) = {Absent}
    <3>1. synced .. (nextLsn - 1) = {0}
      BY <2>1
    <3> QED  BY <2>3, <3>1 DEF KeyLeft
  <2>6. [x \in {k} |-> Recovered(wal, sst)[x]] = [x \in {k} |-> Absent]
    BY <2>4
  <2>7. {[x \in {k} |-> m[x]] : m \in Recoverable} = {[x \in {k} |-> Recovered(wal, sst)[x]]}
    <3>1. {[x \in {k} |-> m[x]] : m \in Recoverable} = Ones(k, KeyLeft(k))
      BY <2>1, KeyState DEF Described
    <3>2. Ones(k, KeyLeft(k)) = {One(k, Absent)}
      BY <2>5, OnesOf
    <3>3. [x \in {k} |-> Recovered(wal, sst)[x]] = One(k, Absent)
      BY <2>6 DEF One
    <3> QED  BY <3>1, <3>2, <3>3
  <2> QED  BY <2>1, <2>6, <2>7 DEF KeyStore!Init
<1> QED  BY KeyInvInit, KeySteps, <1>1, PTL DEF Spec, KeyDurable

=============================================================================
