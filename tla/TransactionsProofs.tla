------------------------- MODULE TransactionsProofs -------------------------
(***************************************************************************)
(* Proofs about Transactions, for every set of keys, values and            *)
(* transactions and every number of operations, crashes and failures.      *)
(***************************************************************************)
EXTENDS Transactions, TLAPS, SequenceTheorems, WellFoundedInduction

-----------------------------------------------------------------------------
(* The inductive invariant *)

\* What a cell may hold.
Fits(c) == Written(c[1]) \cup {Absent}

Frames ==
    {f \in [op : {"SET", "DEL"}, cell : Cells, val : Contents] : f.val \in Fits(f.cell)}
        \cup [op : {"TXN_BEGIN", "TXN_COMMIT"}, cell : {None}, val : {Absent}]

Statuses == {"active", "committing", "ending", "committed", "rolledback", "lost"}

\* A buffer is a function from some of the cells.
IsBuffer(b) ==
    /\ DOMAIN b \subseteq Cells
    /\ b = [c \in DOMAIN b |-> b[c]]
    /\ \A c \in DOMAIN b : b[c] \in Fits(c)

StoreTypes ==
    /\ db \in [Cells -> Contents] /\ \A c \in Cells : db[c] \in Fits(c)
    /\ log \in Seq(Frames) /\ synced \in 0 .. Len(log)

TxnTypes ==
    /\ lock \in Txns \cup {None}
    /\ status \in [Txns -> Statuses]
    /\ buffer = [t \in Txns |-> buffer[t]] /\ \A t \in Txns : IsBuffer(buffer[t])
    /\ seen \in [Txns -> [Keys -> Vals \cup {Absent, Unread}]]
    /\ ops \in [Txns -> 0 .. MaxOps]
    /\ singles \in 0 .. MaxSingles /\ crashes \in 0 .. MaxCrashes /\ fails \in 0 .. MaxFails

\* Cells are left to write only while a commit has the lock.
LockInv ==
    /\ lock = None => todo = {}
    /\ lock # None =>
         /\ status[lock] \in {"committing", "ending"} /\ todo \subseteq DOMAIN buffer[lock]
         /\ status[lock] = "ending" => todo = {}

\* What a commit has written so far has its frames in the log.
LogInv ==
    lock # None => \A c \in DOMAIN buffer[lock] \ todo :
        \E i \in 1 .. Len(log) : log[i] = WriteFrame(c, buffer[lock][c])

Inv == StoreTypes /\ TxnTypes /\ LockInv /\ LogInv /\ CommittedSurvive

-----------------------------------------------------------------------------
(* Lemmas *)

LEMMA CellFits ==
    /\ \A c \in Cells : Fits(c) \subseteq Contents /\ Absent \in Fits(c)
    /\ \A v : \A k \in Keys : <<"V", k>> \in Cells /\ <<"TYPE", k>> \in Cells
         /\ (v \in Fits(<<"V", k>>) <=> v \in Vals \cup {Absent}) /\ "string" \in Fits(<<"TYPE", k>>)
BY DEF Fits, Written, Contents, Cells, Parts

\* The newest of some places of a log is one of them (lsm.py _recover_from_wal).
LEMMA Newest ==
    ASSUME NEW J \in SUBSET Nat, J # {}, NEW b \in Nat, \A x \in J : x <= b
    PROVE  (CHOOSE i \in J : \A j \in J : j <= i) \in J
<1> DEFINE T == {b - x : x \in J}
<1>1. T \subseteq Nat /\ T # {}
  <2>1. \A x \in J : b - x \in Nat
    OBVIOUS
  <2> QED  BY <2>1
<1>2. PICK t \in T : \A u \in T : ~ (<<u, t>> \in OpToRel(<, Nat))
  BY <1>1, NatLessThanWellFounded, WFMin
<1>3. PICK m \in J : t = b - m
  OBVIOUS
<1>4. \A y \in J : y <= m
  <2> SUFFICES ASSUME NEW y \in J, ~ (y <= m) PROVE FALSE
    OBVIOUS
  <2>1. b - y \in T /\ b - y \in Nat /\ t \in Nat /\ b - y < t
    BY <1>1, <1>3
  <2> QED  BY <1>2, <2>1 DEF OpToRel
<1> QED  BY <1>4

\* A replay gives every cell something it may hold.
LEMMA ReplayFits ==
    ASSUME NEW l \in Seq(Frames)
    PROVE  Replay(l) \in [Cells -> Contents] /\ \A c \in Cells : Replay(l)[c] \in Fits(c)
<1>1. ASSUME NEW c \in Cells PROVE Replay(l)[c] \in Fits(c)
  <2> DEFINE J == {i \in DOMAIN l : IsWrite(l[i]) /\ l[i].cell = c}
             i == CHOOSE i \in J : \A j \in J : j <= i
  <2>1. Replay(l)[c] = IF J = {} THEN Absent ELSE l[i].val
    BY DEF Replay, ReplayAt
  <2>2. J \in SUBSET Nat /\ Len(l) \in Nat /\ \A x \in J : x <= Len(l)
    BY LenProperties
  <2>3. J # {} => i \in J
    BY <2>2, Newest
  <2>4. J # {} => l[i] \in Frames /\ IsWrite(l[i]) /\ l[i].cell = c
    BY <2>3, ElementOfSeq, LenProperties
  <2> HIDE DEF J, i
  <2>5. J # {} => l[i].val \in Fits(c)
    BY <2>4 DEF Frames, IsWrite
  <2> QED  BY <2>1, <2>5, CellFits
<1> QED  BY <1>1, CellFits DEF Replay, ReplayAt

LEMMA FrameFits ==
    ASSUME NEW c \in Cells, NEW v \in Fits(c)
    PROVE  WriteFrame(c, v) \in Frames
<1>1. v \in Contents
  BY CellFits
<1> QED  BY <1>1 DEF WriteFrame, Frame, Frames

LEMMA MarkerFits == \A type \in {"TXN_BEGIN", "TXN_COMMIT"} : Frame(type, None, Absent) \in Frames
BY DEF Frame, Frames

\* The log keeps what it has and has the new frame at its end.
LEMMA Appended ==
    ASSUME NEW l \in Seq(Frames), NEW f \in Frames, NEW m, m = Append(l, f)
    PROVE  /\ m \in Seq(Frames) /\ Len(m) = Len(l) + 1 /\ Len(l) \in Nat
           /\ m[Len(l) + 1] = f /\ \A i \in 1 .. Len(l) : m[i] = l[i]
BY AppendProperties, LenProperties

\* Frames that were there stay, so what was found in the log is found again.
LEMMA StillLogged ==
    ASSUME NEW m, NEW n \in Nat, NEW p \in Nat, n <= p, NEW l,
           \A i \in 1 .. n : m[i] = l[i]
    PROVE  \A f : (\E i \in 1 .. n : l[i] = f) => \E i \in 1 .. p : m[i] = f
OBVIOUS

LEMMA InvInit == Init => Inv
<1> SUFFICES ASSUME Init PROVE Inv
  OBVIOUS
<1> USE DEF Init
<1>1. log \in Seq(Frames) /\ Len(log) = 0
  OBVIOUS
<1>2. StoreTypes
  BY <1>1, CellFits DEF StoreTypes
<1>3. IsBuffer(NoWrites)
  BY DEF IsBuffer, NoWrites
<1>4. TxnTypes
  BY <1>3, TxnAssumption DEF TxnTypes, Statuses
<1>5. LockInv /\ LogInv /\ CommittedSurvive
  BY TxnAssumption DEF LockInv, LogInv, CommittedSurvive
<1> QED  BY <1>2, <1>4, <1>5 DEF Inv

-----------------------------------------------------------------------------
(* The steps *)

\* What a finished commit has on disk stays there.
LEMMA CommittedKept ==
    ASSUME CommittedSurvive, StoreTypes, synced' \in Nat, synced <= synced',
           \A i \in 1 .. synced : log'[i] = log[i],
           \A t \in Txns : status'[t] = "committed" => status[t] = "committed" /\ buffer'[t] = buffer[t]
    PROVE  CommittedSurvive'
<1> SUFFICES ASSUME NEW t \in Txns, status'[t] = "committed", NEW c \in DOMAIN buffer'[t]
             PROVE  \E i \in 1 .. synced' : log'[i] = WriteFrame(c, buffer'[t][c])
  BY DEF CommittedSurvive
<1>1. buffer'[t] = buffer[t] /\ status[t] = "committed"
  OBVIOUS
<1>2. PICK i \in 1 .. synced : log[i] = WriteFrame(c, buffer[t][c])
  BY <1>1 DEF CommittedSurvive
<1>3. i \in 1 .. synced' /\ log'[i] = log[i]
  BY <1>2, LenProperties DEF StoreTypes
<1> QED  BY <1>1, <1>2, <1>3

\* A transaction gathers writes of its own.
LEMMA BufferStep ==
    ASSUME Inv, NEW t \in Txns, NEW w, IsBuffer(w), Buffer(t, w)
    PROVE  Inv'
<1>inv. StoreTypes /\ TxnTypes /\ LockInv /\ LogInv /\ CommittedSurvive
  BY DEF Inv
<1>1. /\ status[t] = "active" /\ ops[t] < MaxOps /\ ops' = [ops EXCEPT ![t] = @ + 1]
      /\ buffer' = [buffer EXCEPT ![t] = Overwritten(buffer[t], w)]
      /\ UNCHANGED <<db, log, synced, lock, status, todo, seen, singles, crashes, fails>>
  BY DEF Buffer
<1>2. IsBuffer(Overwritten(buffer[t], w))
  BY <1>inv DEF IsBuffer, Overwritten, TxnTypes
<1>3. /\ buffer' = [u \in Txns |-> buffer'[u]] /\ buffer'[t] = Overwritten(buffer[t], w)
      /\ \A u \in Txns : u # t => buffer'[u] = buffer[u]
  BY <1>1, <1>inv DEF TxnTypes
<1>4. StoreTypes'
  BY <1>1, <1>inv DEF StoreTypes
<1>5. ops' \in [Txns -> 0 .. MaxOps]
  BY <1>1, <1>inv, TxnAssumption DEF TxnTypes
<1>6. \A u \in Txns : IsBuffer(buffer'[u])
  BY <1>2, <1>3, <1>inv DEF TxnTypes
<1>7. TxnTypes'
  BY <1>1, <1>3, <1>5, <1>6, <1>inv DEF TxnTypes
<1>8. lock # None => buffer'[lock] = buffer[lock]
  BY <1>1, <1>3, <1>inv DEF LockInv, TxnTypes
<1>9. LockInv' /\ LogInv'
  BY <1>1, <1>8, <1>inv DEF LockInv, LogInv
<1>10. CommittedSurvive'
  BY <1>1, <1>3, <1>inv DEF CommittedSurvive
<1> QED  BY <1>4, <1>7, <1>9, <1>10 DEF Inv

LEMMA InvStep == Inv /\ [Next]_vars => Inv'
<1> SUFFICES ASSUME Inv, [Next]_vars PROVE Inv'
  OBVIOUS
<1> USE TxnAssumption
<1>inv. StoreTypes /\ TxnTypes /\ LockInv /\ LogInv /\ CommittedSurvive
  BY DEF Inv
<1>len. Len(log) \in Nat /\ synced \in Nat /\ synced <= Len(log)
  BY <1>inv, LenProperties DEF StoreTypes
<1>1. ASSUME NEW t \in Txns, NEW k \in Keys, NEW v \in Vals, Set(t, k, v)
      PROVE  Inv'
  <2> DEFINE w == [c \in {<<"V", k>>, <<"TYPE", k>>} |-> IF c[1] = "V" THEN v ELSE "string"]
  <2>1. w[<<"V", k>>] = v /\ w[<<"TYPE", k>>] = "string" /\ DOMAIN w = {<<"V", k>>, <<"TYPE", k>>}
    OBVIOUS
  <2>2. IsBuffer(w)
    BY <2>1, CellFits DEF IsBuffer
  <2> QED  BY <1>1, <2>2, BufferStep DEF Set
<1>2. ASSUME NEW t \in Txns, NEW k \in Keys, Delete(t, k)
      PROVE  Inv'
  <2>1. IsBuffer([c \in Parts \X {k} |-> Absent])
    BY CellFits DEF IsBuffer, Cells
  <2> QED  BY <1>2, <2>1, BufferStep DEF Delete
<1>3. ASSUME NEW t \in Txns, NEW k \in Keys, Get(t, k)
      PROVE  Inv'
  <2> DEFINE x == IF <<"V", k>> \in DOMAIN buffer[t] THEN buffer[t][<<"V", k>>] ELSE db[<<"V", k>>]
  <2>1. /\ seen' = [seen EXCEPT ![t][k] = x]
        /\ UNCHANGED <<db, log, synced, lock, status, buffer, todo, ops, singles, crashes, fails>>
    BY <1>3 DEF Get
  <2>2. x \in Vals \cup {Absent}
    BY <1>inv, CellFits DEF StoreTypes, TxnTypes, IsBuffer
  <2> HIDE DEF x
  <2>3. seen' \in [Txns -> [Keys -> Vals \cup {Absent, Unread}]]
    BY <2>1, <2>2, <1>inv DEF TxnTypes
  <2>4. StoreTypes' /\ TxnTypes'
    BY <2>1, <2>3, <1>inv DEF StoreTypes, TxnTypes
  <2>5. LockInv' /\ LogInv'
    BY <2>1, <1>inv DEF LockInv, LogInv
  <2>6. CommittedSurvive'
    BY <2>1, <1>len, <1>inv, CommittedKept
  <2> QED  BY <2>4, <2>5, <2>6 DEF Inv
<1>4. ASSUME NEW t \in Txns, BeginCommit(t)
      PROVE  Inv'
  <2>1. /\ lock = None /\ status[t] = "active" /\ lock' = t
        /\ status' = [status EXCEPT ![t] = "committing"] /\ todo' = DOMAIN buffer[t]
        /\ log' = Append(log, Frame("TXN_BEGIN", None, Absent))
        /\ UNCHANGED <<db, synced, buffer, seen, ops, singles, crashes, fails>>
    BY <1>4 DEF BeginCommit, MayCommit
  <2>2. /\ log' \in Seq(Frames) /\ Len(log') = Len(log) + 1
        /\ \A i \in 1 .. Len(log) : log'[i] = log[i]
    BY <2>1, <1>inv, MarkerFits, Appended DEF StoreTypes
  <2>3. StoreTypes' /\ TxnTypes'
    BY <2>1, <2>2, <1>len, <1>inv DEF StoreTypes, TxnTypes, Statuses
  <2>4. LockInv' /\ LogInv'
    BY <2>1, <1>inv DEF LockInv, LogInv, TxnTypes
  <2>5. CommittedSurvive'
    BY <2>1, <2>2, <1>len, <1>inv, CommittedKept DEF TxnTypes
  <2> QED  BY <2>3, <2>4, <2>5 DEF Inv
<1>5. ASSUME NEW t \in Txns, CommitWrite(t)
      PROVE  Inv'
  <2>1. PICK c \in todo :
          /\ todo' = todo \ {c} /\ db' = [db EXCEPT ![c] = buffer[t][c]]
          /\ log' = Append(log, WriteFrame(c, buffer[t][c])) /\ lock = t
          /\ UNCHANGED <<synced, lock, status, buffer, seen, ops, singles, crashes, fails>>
    BY <1>5 DEF CommitWrite
  <2>2. c \in DOMAIN buffer[t] /\ c \in Cells /\ buffer[t][c] \in Fits(c) /\ buffer[t][c] \in Contents
    BY <2>1, <1>inv, CellFits DEF LockInv, TxnTypes, IsBuffer
  <2>3. /\ log' \in Seq(Frames) /\ Len(log') = Len(log) + 1
        /\ log'[Len(log) + 1] = WriteFrame(c, buffer[t][c])
        /\ \A i \in 1 .. Len(log) : log'[i] = log[i]
    BY <2>1, <2>2, <1>inv, FrameFits, Appended DEF StoreTypes
  <2>4. StoreTypes' /\ TxnTypes'
    BY <2>1, <2>2, <2>3, <1>len, <1>inv DEF StoreTypes, TxnTypes
  <2>5. LockInv'
    BY <2>1, <1>inv DEF LockInv
  <2>6. LogInv'
    <3> SUFFICES ASSUME NEW d \in DOMAIN buffer[t] \ todo'
                 PROVE  \E i \in 1 .. Len(log') : log'[i] = WriteFrame(d, buffer[t][d])
      BY <2>1 DEF LogInv
    <3>1. CASE d = c
      BY <3>1, <2>3, <1>len
    <3>2. CASE d # c
      <4>1. PICK i \in 1 .. Len(log) : log[i] = WriteFrame(d, buffer[t][d])
        BY <3>2, <2>1, <1>inv DEF LogInv, TxnTypes
      <4> QED  BY <4>1, <2>3, <1>len
    <3> QED  BY <3>1, <3>2
  <2>7. CommittedSurvive'
    BY <2>1, <2>3, <1>len, <1>inv, CommittedKept
  <2> QED  BY <2>4, <2>5, <2>6, <2>7 DEF Inv
<1>6. ASSUME NEW t \in Txns, EndCommit(t)
      PROVE  Inv'
  <2>1. /\ lock = t /\ todo = {} /\ status[t] = "committing"
        /\ status' = [status EXCEPT ![t] = "ending"]
        /\ log' = Append(log, Frame("TXN_COMMIT", None, Absent))
        /\ UNCHANGED <<db, synced, lock, buffer, todo, seen, ops, singles, crashes, fails>>
    BY <1>6 DEF EndCommit
  <2>2. /\ log' \in Seq(Frames) /\ Len(log') = Len(log) + 1
        /\ \A i \in 1 .. Len(log) : log'[i] = log[i]
    BY <2>1, <1>inv, MarkerFits, Appended DEF StoreTypes
  <2>3. StoreTypes' /\ TxnTypes'
    BY <2>1, <2>2, <1>len, <1>inv DEF StoreTypes, TxnTypes, Statuses
  <2>4. LockInv'
    BY <2>1, <1>inv DEF LockInv, TxnTypes
  <2>5. LogInv'
    BY <2>1, <2>2, <1>len, <1>inv, StillLogged DEF LogInv
  <2>6. CommittedSurvive'
    BY <2>1, <2>2, <1>len, <1>inv, CommittedKept DEF TxnTypes
  <2> QED  BY <2>3, <2>4, <2>5, <2>6 DEF Inv
<1>7. ASSUME NEW t \in Txns, CommitFails(t)
      PROVE  Inv'
  <2>1. /\ lock' = None /\ todo' = {} /\ status' = [status EXCEPT ![t] = "active"]
        /\ fails < MaxFails /\ fails' = fails + 1
        /\ UNCHANGED <<db, log, synced, buffer, seen, ops, singles, crashes>>
    BY <1>7 DEF CommitFails
  <2>2. StoreTypes' /\ TxnTypes'
    BY <2>1, <1>inv, SMTT(60) DEF StoreTypes, TxnTypes, Statuses
  <2>3. LockInv' /\ LogInv'
    BY <2>1 DEF LockInv, LogInv
  <2>4. CommittedSurvive'
    BY <2>1, <1>len, <1>inv, CommittedKept DEF TxnTypes
  <2> QED  BY <2>2, <2>3, <2>4 DEF Inv
<1>8. ASSUME NEW t \in Txns, Finish(t)
      PROVE  Inv'
  <2>1. /\ lock = t /\ status[t] = "ending" /\ synced' = Len(log) /\ lock' = None
        /\ status' = [status EXCEPT ![t] = "committed"]
        /\ UNCHANGED <<db, log, buffer, todo, seen, ops, singles, crashes, fails>>
    BY <1>8 DEF Finish
  <2>2. todo = {}
    BY <2>1, <1>inv DEF LockInv
  <2>3. StoreTypes' /\ TxnTypes'
    BY <2>1, <1>len, <1>inv DEF StoreTypes, TxnTypes, Statuses
  <2>4. LockInv' /\ LogInv'
    BY <2>1, <2>2 DEF LockInv, LogInv
  <2>5. CommittedSurvive'
    <3> SUFFICES ASSUME NEW u \in Txns, status'[u] = "committed", NEW c \in DOMAIN buffer[u]
                 PROVE  \E i \in 1 .. Len(log) : log[i] = WriteFrame(c, buffer[u][c])
      BY <2>1 DEF CommittedSurvive
    <3>1. CASE u = t
      BY <3>1, <2>1, <2>2, <1>inv DEF LogInv, TxnTypes
    <3>2. CASE u # t
      <4>1. PICK i \in 1 .. synced : log[i] = WriteFrame(c, buffer[u][c])
        BY <3>2, <2>1, <1>inv DEF CommittedSurvive, TxnTypes
      <4> QED  BY <4>1, <1>len
    <3> QED  BY <3>1, <3>2
  <2> QED  BY <2>3, <2>4, <2>5 DEF Inv
<1>9. ASSUME NEW t \in Txns, Rollback(t)
      PROVE  Inv'
  <2>1. /\ status[t] = "active" /\ status' = [status EXCEPT ![t] = "rolledback"]
        /\ buffer' = [buffer EXCEPT ![t] = NoWrites]
        /\ UNCHANGED <<db, log, synced, lock, todo, seen, ops, singles, crashes, fails>>
    BY <1>9 DEF Rollback
  <2>2. IsBuffer(NoWrites)
    BY DEF IsBuffer, NoWrites
  <2>3. /\ buffer' = [u \in Txns |-> buffer'[u]] /\ buffer'[t] = NoWrites
        /\ \A u \in Txns : u # t => buffer'[u] = buffer[u] /\ status'[u] = status[u]
        /\ status' \in [Txns -> Statuses] /\ status'[t] = "rolledback"
    BY <2>1, <1>inv DEF TxnTypes, Statuses
  <2>4. StoreTypes' /\ TxnTypes'
    BY <2>1, <2>2, <2>3, <1>inv DEF StoreTypes, TxnTypes
  <2>5. lock # None => lock # t /\ lock \in Txns
    BY <2>1, <1>inv DEF LockInv, TxnTypes
  <2>6. LockInv' /\ LogInv'
    BY <2>1, <2>3, <2>5, <1>inv DEF LockInv, LogInv
  <2>7. CommittedSurvive'
    BY <2>1, <2>3, <1>len, <1>inv, CommittedKept
  <2> QED  BY <2>4, <2>6, <2>7 DEF Inv
<1>10. ASSUME NEW c \in Cells, NEW v \in Fits(c), Single(c, v)
       PROVE  Inv'
  <2>1. /\ singles < MaxSingles /\ singles' = singles + 1 /\ db' = [db EXCEPT ![c] = v]
        /\ log' = Append(log, WriteFrame(c, v))
        /\ UNCHANGED <<synced, lock, status, buffer, todo, seen, ops, crashes, fails>>
    BY <1>10 DEF Single
  <2>2. /\ log' \in Seq(Frames) /\ Len(log') = Len(log) + 1
        /\ \A i \in 1 .. Len(log) : log'[i] = log[i]
    BY <2>1, <1>inv, FrameFits, Appended DEF StoreTypes
  <2>3. StoreTypes' /\ TxnTypes'
    BY <2>1, <2>2, <1>len, <1>inv, CellFits, SMTT(60) DEF StoreTypes, TxnTypes
  <2>4. LockInv'
    BY <2>1, <1>inv DEF LockInv
  <2>5. LogInv'
    BY <2>1, <2>2, <1>len, <1>inv, StillLogged DEF LogInv
  <2>6. CommittedSurvive'
    BY <2>1, <2>2, <1>len, <1>inv, CommittedKept
  <2> QED  BY <2>3, <2>4, <2>5, <2>6 DEF Inv
<1>11. CASE Sync
  <2>1. synced' = Len(log)
        /\ UNCHANGED <<db, log, lock, status, buffer, todo, seen, ops, singles, crashes, fails>>
    BY <1>11 DEF Sync
  <2>2. StoreTypes'
    BY <2>1, <1>len, <1>inv DEF StoreTypes
  <2>3. TxnTypes' /\ LockInv'
    BY <2>1, <1>inv DEF TxnTypes, LockInv
  <2>4. LogInv'
    BY <2>1, <1>inv DEF LogInv
  <2>5. CommittedSurvive'
    BY <2>1, <1>len, <1>inv, CommittedKept
  <2> QED  BY <2>2, <2>3, <2>4, <2>5 DEF Inv
<1>12. CASE Crash
  <2>1. PICK n \in synced .. Len(log) : log' = SubSeq(log, 1, n) /\ synced' = n
    BY <1>12 DEF Crash
  <2>2. /\ db' = Replay(log') /\ lock' = None /\ todo' = {}
        /\ status' = [t \in Txns |-> IF status[t] = "committed" THEN "committed" ELSE "lost"]
        /\ crashes < MaxCrashes /\ crashes' = crashes + 1
        /\ UNCHANGED <<buffer, seen, ops, singles, fails>>
    BY <1>12 DEF Crash
  <2>3. log' \in Seq(Frames) /\ Len(log') = n /\ n \in Nat /\ \A i \in 1 .. n : log'[i] = log[i]
    <3>1. \A i \in 1 .. n : log[i] \in Frames
      BY <1>inv, <1>len, ElementOfSeq DEF StoreTypes
    <3> QED  BY <2>1, <3>1, <1>len, SubSeqProperties
  <2>4. StoreTypes'
    <3>1. db' \in [Cells -> Contents] /\ \A c \in Cells : db'[c] \in Fits(c)
      BY <2>2, <2>3, ReplayFits
    <3>2. synced' \in 0 .. Len(log')
      BY <2>1, <2>3
    <3> QED  BY <2>3, <3>1, <3>2 DEF StoreTypes
  <2>5. TxnTypes'
    BY <2>2, <1>inv DEF TxnTypes, Statuses
  <2>6. LockInv' /\ LogInv'
    BY <2>2 DEF LockInv, LogInv
  <2>7. CommittedSurvive'
    BY <2>1, <2>2, <2>3, <1>len, <1>inv, CommittedKept
  <2> QED  BY <2>4, <2>5, <2>6, <2>7 DEF Inv
<1>13. CASE UNCHANGED vars
  <2>1. StoreTypes' /\ TxnTypes'
    BY <1>13, <1>inv DEF vars, StoreTypes, TxnTypes
  <2>2. LockInv' /\ LogInv'
    BY <1>13, <1>inv DEF vars, LockInv, LogInv
  <2>3. CommittedSurvive'
    BY <1>13, <1>len, <1>inv, CommittedKept DEF vars
  <2> QED  BY <2>1, <2>2, <2>3 DEF Inv
<1> QED
  BY <1>1, <1>2, <1>3, <1>4, <1>5, <1>6, <1>7, <1>8, <1>9, <1>10, <1>11, <1>12, <1>13 DEF Next, Fits

-----------------------------------------------------------------------------
(* The theorems *)

\* Every write of a transaction whose commit() returned is in every log that a
\* crash can leave (txn.py commit).
THEOREM CommitsSurvive == Spec => []CommittedSurvive
<1>1. Inv => CommittedSurvive
  BY DEF Inv
<1> QED  BY <1>1, InvInit, InvStep, PTL DEF Spec

\* The store, the log and the transactions have their types.
THEOREM TypeCorrect == Spec => []TypeOK
<1>1. Inv => TypeOK
  <2> SUFFICES ASSUME Inv PROVE TypeOK
    OBVIOUS
  <2>1. StoreTypes /\ TxnTypes /\ LockInv
    BY DEF Inv
  <2>2. \A t \in Txns : /\ DOMAIN buffer[t] \subseteq Cells
                        /\ \A c \in DOMAIN buffer[t] : buffer[t][c] \in Contents
    BY <2>1, CellFits DEF TxnTypes, IsBuffer
  <2>3. todo \subseteq Cells /\ (lock # None => todo \subseteq DOMAIN buffer[lock])
    BY <2>1, <2>2 DEF TxnTypes, LockInv
  <2> DEFINE F == [op : {"SET", "DEL"}, cell : Cells, val : Contents]
                  \cup [op : {"TXN_BEGIN", "TXN_COMMIT"}, cell : {None}, val : {Absent}]
  <2>4. Frames \subseteq F
    BY DEF Frames
  <2> HIDE DEF F
  <2>5. log \in Seq(F)
    BY <2>1, <2>4 DEF StoreTypes
  <2> QED
    BY <2>1, <2>2, <2>3, <2>5 DEF TypeOK, StoreTypes, TxnTypes, Statuses, F
<1> QED  BY <1>1, InvInit, InvStep, PTL DEF Spec

\* A transaction that gathers writes leaves the commit under way alone.
LEMMA GatherStep ==
    ASSUME Inv, NEW t \in Txns, NEW w, IsBuffer(w), Buffer(t, w)
    PROVE  Atomic!Gather(t)
<1>inv. StoreTypes /\ TxnTypes /\ LockInv
  BY DEF Inv
<1>1. /\ status[t] = "active" /\ UNCHANGED <<db, lock, status, todo, singles>>
      /\ buffer' = [buffer EXCEPT ![t] = Overwritten(buffer[t], w)]
  BY DEF Buffer
<1>2. lock # None => lock # t /\ lock \in Txns
  BY <1>1, <1>inv DEF LockInv, TxnTypes
<1>3. Ahead' = Ahead
  BY <1>1, <1>2, <1>inv DEF Ahead, LockInv, TxnTypes
<1>4. IsBuffer(Overwritten(buffer[t], w)) /\ buffer'[t] = Overwritten(buffer[t], w)
  BY <1>1, <1>inv DEF IsBuffer, Overwritten, TxnTypes
<1>5. /\ DOMAIN buffer'[t] \subseteq Cells /\ buffer'[t] \in [DOMAIN buffer'[t] -> Atomic!Contents]
  BY <1>4, CellFits DEF IsBuffer, Atomic!Contents
<1> QED  BY <1>1, <1>3, <1>4, <1>5 DEF Atomic!Gather

\* A step of a commit or of another thread changes the whole store as one step
\* of the atomic one, or changes nothing there.
LEMMA AtomicStep ==
    ASSUME Inv, [Next]_vars, crashes' = 0, fails' = 0
    PROVE  [Atomic!Next]_(Atomic!vars)
<1> USE TxnAssumption
<1>inv. StoreTypes /\ TxnTypes /\ LockInv
  BY DEF Inv
<1> DEFINE Ended == {t \in Txns : status[t] # "active"}
<1>stutter. ASSUME Ahead' = Ahead, Ended' = Ended, UNCHANGED <<buffer, singles>>
            PROVE  UNCHANGED Atomic!vars
  BY <1>stutter DEF Atomic!vars
<1>same. ASSUME UNCHANGED <<db, todo>>, buffer' = buffer, lock' = lock \/ todo = {}
         PROVE  Ahead' = Ahead
  BY <1>same DEF Ahead
<1>1. ASSUME NEW t \in Txns, NEW k \in Keys, NEW v \in Vals, Set(t, k, v)
      PROVE  Atomic!Next
  <2> DEFINE w == [c \in {<<"V", k>>, <<"TYPE", k>>} |-> IF c[1] = "V" THEN v ELSE "string"]
  <2>1. w[<<"V", k>>] = v /\ w[<<"TYPE", k>>] = "string" /\ DOMAIN w = {<<"V", k>>, <<"TYPE", k>>}
    OBVIOUS
  <2>2. IsBuffer(w)
    BY <2>1, CellFits DEF IsBuffer
  <2> QED  BY <1>1, <2>2, GatherStep DEF Set, Atomic!Next
<1>2. ASSUME NEW t \in Txns, NEW k \in Keys, Delete(t, k)
      PROVE  Atomic!Next
  <2>1. IsBuffer([c \in Parts \X {k} |-> Absent])
    BY CellFits DEF IsBuffer, Cells
  <2> QED  BY <1>2, <2>1, GatherStep DEF Delete, Atomic!Next
<1>3. ASSUME NEW t \in Txns, NEW k \in Keys, Get(t, k)
      PROVE  UNCHANGED Atomic!vars
  BY <1>3, <1>same, <1>stutter DEF Get
<1>4. ASSUME NEW t \in Txns, BeginCommit(t)
      PROVE  Atomic!Next
  <2>1. /\ lock = None /\ status[t] = "active" /\ lock' = t
        /\ status' = [status EXCEPT ![t] = "committing"] /\ todo' = DOMAIN buffer[t]
        /\ UNCHANGED <<db, buffer, singles>>
    BY <1>4 DEF BeginCommit, MayCommit
  <2>2. Ended' = Ended \cup {t} /\ t \notin Ended
    BY <2>1, <1>inv DEF TxnTypes
  <2>3. todo = {}
    BY <2>1, <1>inv DEF LockInv
  <2>4. Ahead' = [c \in Cells |-> IF c \in DOMAIN buffer[t] THEN buffer[t][c] ELSE Ahead[c]]
    BY <2>1, <2>3 DEF Ahead
  <2>5. Atomic!Commit(t)
    BY <2>1, <2>2, <2>4 DEF Atomic!Commit
  <2> QED  BY <2>5 DEF Atomic!Next
<1>5. ASSUME NEW t \in Txns, CommitWrite(t)
      PROVE  UNCHANGED Atomic!vars
  <2>1. PICK c \in todo :
          /\ todo' = todo \ {c} /\ db' = [db EXCEPT ![c] = buffer[t][c]] /\ lock = t
          /\ UNCHANGED <<lock, status, buffer, singles>>
    BY <1>5 DEF CommitWrite
  <2>2. Ahead' = Ahead
    BY <2>1, <1>inv DEF Ahead, StoreTypes
  <2> QED  BY <2>1, <2>2, <1>stutter
<1>6. ASSUME NEW t \in Txns, EndCommit(t)
      PROVE  UNCHANGED Atomic!vars
  <2>1. /\ status[t] = "committing" /\ status' = [status EXCEPT ![t] = "ending"]
        /\ UNCHANGED <<db, lock, buffer, todo, singles>>
    BY <1>6 DEF EndCommit
  <2>2. Ended' = Ended
    BY <2>1, <1>inv DEF TxnTypes
  <2> QED  BY <2>1, <2>2, <1>same, <1>stutter
<1>7. ASSUME NEW t \in Txns, CommitFails(t)
      PROVE  FALSE
  BY <1>7, <1>inv DEF CommitFails, TxnTypes
<1>8. ASSUME NEW t \in Txns, Finish(t)
      PROVE  UNCHANGED Atomic!vars
  <2>1. /\ lock = t /\ status[t] = "ending" /\ status' = [status EXCEPT ![t] = "committed"]
        /\ UNCHANGED <<db, buffer, todo, singles>>
    BY <1>8 DEF Finish
  <2>2. Ended' = Ended
    BY <2>1, <1>inv DEF TxnTypes
  <2>3. todo = {}
    BY <2>1, <1>inv DEF LockInv
  <2> QED  BY <2>1, <2>2, <2>3, <1>same, <1>stutter
<1>9. ASSUME NEW t \in Txns, Rollback(t)
      PROVE  Atomic!Next
  <2>1. /\ status[t] = "active" /\ status' = [status EXCEPT ![t] = "rolledback"]
        /\ buffer' = [buffer EXCEPT ![t] = NoWrites]
        /\ UNCHANGED <<db, lock, todo, singles>>
    BY <1>9 DEF Rollback
  <2>2. Ended' = Ended \cup {t} /\ t \notin Ended
    BY <2>1, <1>inv DEF TxnTypes
  <2>3. lock # None => lock # t /\ lock \in Txns
    BY <2>1, <1>inv DEF LockInv, TxnTypes
  <2>4. Ahead' = Ahead
    BY <2>1, <2>3, <1>inv DEF Ahead, LockInv, TxnTypes
  <2>5. Atomic!Rollback(t)
    BY <2>1, <2>2, <2>4 DEF Atomic!Rollback, NoWrites, Atomic!NoWrites
  <2> QED  BY <2>5 DEF Atomic!Next
<1>10. ASSUME NEW c \in Cells, NEW v \in Fits(c), Single(c, v)
       PROVE  Atomic!Next
  <2>1. /\ singles' = singles + 1 /\ db' = [db EXCEPT ![c] = v]
        /\ UNCHANGED <<lock, status, buffer, todo>>
    BY <1>10 DEF Single
  <2> DEFINE x == IF c \in todo THEN Ahead[c] ELSE v
  <2>2. Ahead' = [Ahead EXCEPT ![c] = x]
    BY <2>1, <1>inv DEF Ahead, StoreTypes
  <2>3. x \in Contents
    <3>1. CASE c \in todo
      BY <3>1, <1>inv, CellFits DEF Ahead, LockInv, TxnTypes, IsBuffer
    <3>2. CASE c \notin todo
      BY <3>2, CellFits
    <3> QED  BY <3>1, <3>2
  <2> HIDE DEF x
  <2>4. x \in Atomic!Contents
    BY <2>3 DEF Atomic!Contents
  <2>5. Atomic!Single(c, x)
    BY <2>1, <2>2 DEF Atomic!Single
  <2> QED  BY <2>4, <2>5 DEF Atomic!Next
<1>11. CASE Sync
  BY <1>11, <1>same, <1>stutter DEF Sync
<1>12. CASE Crash
  BY <1>12, <1>inv DEF Crash, TxnTypes
<1>13. CASE UNCHANGED vars
  BY <1>13, <1>same, <1>stutter DEF vars
<1> QED
  BY <1>1, <1>2, <1>3, <1>4, <1>5, <1>6, <1>7, <1>8, <1>9, <1>10, <1>11, <1>12, <1>13 DEF Next, Fits

\* As long as no commit is cut short the store implements one in which a
\* commit is a single step, though it writes cell by cell while other threads
\* write (txn.py commit).
THEOREM CommitsAtomic == Spec => AtomicWrites
<1>1. Init => Atomic!Init
  BY DEF Init, Atomic!Init, Ahead, NoWrites, Atomic!NoWrites
<1>2. Inv /\ [Next]_vars => (crashes' = 0 /\ fails' = 0 => [Atomic!Next]_(Atomic!vars))
  BY AtomicStep
<1> QED  BY <1>1, <1>2, InvInit, InvStep, PTL DEF Spec, AtomicWrites

=============================================================================
