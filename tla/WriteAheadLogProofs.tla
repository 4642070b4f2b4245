------------------------ MODULE WriteAheadLogProofs -------------------------
(***************************************************************************)
(* Proofs about WriteAheadLog, for every set of threads, any number of     *)
(* calls and segments, and every mode, when only an append under the       *)
(* tree's lock may fill a segment.                                         *)
(*                                                                         *)
(* What a thread may do next is in its todo.  Its shape says where a step  *)
(* may stand, which makes the tree's lock exclusive; the rest of the       *)
(* invariant follows the frames not yet durable from a write to the fsync  *)
(* that secures them.                                                      *)
(***************************************************************************)
EXTENDS WriteAheadLog, TLAPS, SequenceTheorems

-----------------------------------------------------------------------------
(* The inductive invariant *)

Frames == [kind : {"write", "mark"}, by : Threads, time : 0 .. MaxNow]

Types ==
    /\ log \in Seq(Seq(Frames)) /\ log # <<>>
    /\ flushed \in Seq(Nat) /\ Len(flushed) = Len(log)
    /\ durable \in Seq(Nat) /\ Len(durable) = Len(log)
    /\ \A s \in 1 .. Len(log) : durable[s] <= flushed[s] /\ flushed[s] <= Len(log[s])
    /\ mode \in Modes /\ file \in {"open", "closed", "none"}
    /\ now \in 0 .. MaxNow /\ last \in 0 .. now
    /\ tree \in Threads \cup {None} /\ manager \in Threads \cup {None}
    /\ todo \in [Threads -> Seq(Steps)]
    /\ saved \in [Threads -> 0 .. now]
    /\ calls \in 0 .. MaxCalls

\* The thread with these steps left holds the tree's lock: it has yet to release it.
Held(s) == \E k \in 1 .. Len(s) : s[k] = "unlock" /\ \A j \in 1 .. k - 1 : s[j] # "lock"

\* The steps taken only under the tree's lock.
Inside == {"write", "spill", "close", "next", "shut", "drop"}

\* What may come right before a step.
Before(step) ==
    CASE step = "fsync" -> {"flush"}
      [] step \in {"stamp", "close", "leave"} -> {"fsync"}
      [] step \in {"next", "drop"} -> {"close"}
      [] step = "due" -> {"write", "mark"}
      [] OTHER -> Steps

\* A step and what may follow it.
Fits(step, s) ==
    /\ step = "lock" => Held(s)
    /\ step \in {"unlock", "puts"} => ~ Held(s)
    /\ step \in Inside => Held(s)
    /\ step = "write" => s # <<>> /\ Head(s) = "due"
    /\ step = "flush" => s # <<>> /\ Head(s) = "fsync"
    /\ s # <<>> => step \in Before(Head(s))

Shaped(s) == \A i \in 1 .. Len(s) : Fits(s[i], SubSeq(s, i + 1, Len(s)))

\* The lock is held by the thread whose steps say so.
Locked == \A t \in Threads : Shaped(todo[t]) /\ (tree = t <=> Held(todo[t]))

\* The frame i of segment s is a write, and at risk.
IsWrite(s, i) == s \in 1 .. Len(log) /\ i \in 1 .. Len(log[s]) /\ log[s][i].kind = "write"
Risky(s, i) == IsWrite(s, i) /\ i > durable[s]
NoRisk == \A s, i \in Nat : ~ Risky(s, i)

\* Every write of the current segment that t answers for has left the process:
\* its own, and all of them when it holds the lock.
Pushed(t) ==
    \A i \in Nat : IsWrite(seg, i) /\ (log[seg][i].by = t \/ tree = t) => i <= flushed[seg]

\* A segment is left, and a file closed, with nothing at risk.
LeftSafe ==
    /\ \A s, i \in Nat : Risky(s, i) => s = seg
    /\ file # "open" => NoRisk

\* What a sync that is under way has secured.
SyncSafe ==
    \A t \in Threads :
        /\ At(t, "fsync") => Pushed(t)
        /\ At(t, "close") \/ At(t, "next") \/ At(t, "drop") => NoRisk
        /\ At(t, "leave") => \A s, i \in Nat : Risky(s, i) => log[s][i].by # t

\* In mode always each thread syncs what it appends.
AlwaysSafe ==
    mode = "always" => \A t \in Threads :
        \/ At(t, "due") \/ At(t, "flush") \/ At(t, "fsync")
        \/ \A s, i \in Nat : Risky(s, i) => log[s][i].by # t

\* Thread t syncs because a second has passed, and will stamp the time.
Flushing(t) == At(t, "flush") /\ Len(todo[t]) >= 3 /\ todo[t][3] = "stamp"
Syncing(t) == At(t, "fsync") /\ Len(todo[t]) >= 2 /\ todo[t][2] = "stamp"

Since(x) == \A s, i \in Nat : Risky(s, i) => x <= log[s][i].time

StampSafe ==
    /\ Since(last)
    /\ \A t \in Threads :
         /\ Syncing(t) =>
              \A i \in Nat : IsWrite(seg, i) /\ i > flushed[seg] => saved[t] <= log[seg][i].time
         /\ At(t, "stamp") => Since(saved[t])
         /\ mode = "every_sec" =>
              \/ Flushing(t) \/ Syncing(t)
              \/ \A s, i \in Nat : Risky(s, i) => saved[t] < log[s][i].time + Second

IInv == Types /\ Locked /\ LeftSafe /\ SyncSafe /\ AlwaysSafe /\ StampSafe

-----------------------------------------------------------------------------
(* Lemmas about the steps a thread has left *)

\* Equal sequences.
LEMMA SeqExtensional ==
    ASSUME NEW S, NEW s \in Seq(S), NEW r \in Seq(S), Len(s) = Len(r),
           \A i \in 1 .. Len(s) : s[i] = r[i]
    PROVE  s = r
OBVIOUS

\* What a sequence with a step in front is.
LEMMA ConsSteps ==
    ASSUME NEW a \in Steps, NEW s \in Seq(Steps)
    PROVE  LET c == <<a>> \o s
           IN  /\ c \in Seq(Steps) /\ c # <<>>
               /\ Len(c) = Len(s) + 1
               /\ c[1] = a /\ Head(c) = a
               /\ \A i \in 1 .. Len(s) : c[i + 1] = s[i]
               /\ Tail(c) = s
<1> DEFINE c == <<a>> \o s
<1>1. c \in Seq(Steps) /\ Len(c) = Len(s) + 1 /\ c[1] = a
  OBVIOUS
<1>2. \A i \in 1 .. Len(s) : c[i + 1] = s[i]
  OBVIOUS
<1>3. c # <<>> /\ Head(c) = a
  BY <1>1
<1>4. Tail(c) \in Seq(Steps) /\ Len(Tail(c)) = Len(s)
  BY <1>1, <1>3
<1>5. \A i \in 1 .. Len(s) : Tail(c)[i] = s[i]
  BY <1>1, <1>2, <1>3
<1>6. Tail(c) = s
  BY <1>4, <1>5, SeqExtensional
<1> QED  BY <1>1, <1>2, <1>3, <1>6

\* What is left of a sequence from a place on.
LEMMA Rest ==
    ASSUME NEW s \in Seq(Steps), NEW m \in Nat, 1 <= m, m <= Len(s) + 1
    PROVE  /\ SubSeq(s, m, Len(s)) \in Seq(Steps)
           /\ Len(SubSeq(s, m, Len(s))) = Len(s) - m + 1
           /\ \A k \in 1 .. Len(s) - m + 1 : SubSeq(s, m, Len(s))[k] = s[m + k - 1]
<1>1. CASE m = Len(s) + 1
  <2>1. SubSeq(s, m, Len(s)) = <<>>
    BY <1>1, SubSeqEmpty
  <2> QED  BY <1>1, <2>1
<1>2. CASE m <= Len(s)
  OBVIOUS
<1> QED  BY <1>1, <1>2

\* A nonempty sequence is its head and its tail.
LEMMA TailSteps ==
    ASSUME NEW s \in Seq(Steps), s # <<>>
    PROVE  /\ Tail(s) \in Seq(Steps) /\ Head(s) \in Steps /\ s[1] = Head(s)
           /\ Len(s) \in Nat /\ Len(s) >= 1 /\ Len(Tail(s)) = Len(s) - 1
           /\ \A i \in 1 .. Len(Tail(s)) : Tail(s)[i] = s[i + 1]
           /\ SubSeq(s, 2, Len(s)) = Tail(s)
           /\ \A i \in 1 .. Len(Tail(s)) :
                SubSeq(Tail(s), i + 1, Len(Tail(s))) = SubSeq(s, i + 2, Len(s))
<1>1. /\ Tail(s) \in Seq(Steps) /\ Head(s) \in Steps /\ s[1] = Head(s)
      /\ Len(s) \in Nat /\ Len(s) >= 1 /\ Len(Tail(s)) = Len(s) - 1
  OBVIOUS
<1>2. \A i \in 1 .. Len(Tail(s)) : Tail(s)[i] = s[i + 1]
  BY <1>1
<1>3. SubSeq(s, 2, Len(s)) = Tail(s)
  <2>1. SubSeq(s, 2, Len(s)) \in Seq(Steps) /\ Len(SubSeq(s, 2, Len(s))) = Len(s) - 1
    BY <1>1
  <2>2. \A i \in 1 .. Len(s) - 1 : SubSeq(s, 2, Len(s))[i] = s[i + 1]
    BY <1>1
  <2> QED  BY <1>1, <1>2, <2>1, <2>2, SeqExtensional
<1>4. ASSUME NEW i \in 1 .. Len(Tail(s))
      PROVE  SubSeq(Tail(s), i + 1, Len(Tail(s))) = SubSeq(s, i + 2, Len(s))
  <2> DEFINE p == SubSeq(Tail(s), i + 1, Len(Tail(s)))
             q == SubSeq(s, i + 2, Len(s))
  <2>1. p \in Seq(Steps) /\ Len(p) = Len(s) - 1 - i /\ \A k \in 1 .. Len(s) - 1 - i : p[k] = s[k + i + 1]
    <3>1. /\ p \in Seq(Steps) /\ Len(p) = Len(Tail(s)) - (i + 1) + 1
          /\ \A k \in 1 .. Len(Tail(s)) - (i + 1) + 1 : p[k] = Tail(s)[(i + 1) + k - 1]
      <4>1. i + 1 \in Nat /\ 1 <= i + 1 /\ i + 1 <= Len(Tail(s)) + 1
        BY <1>1
      <4> HIDE DEF q
      <4> DEFINE m == i + 1
                 r == Tail(s)
      <4>2. m \in Nat /\ 1 <= m /\ m <= Len(r) + 1 /\ r \in Seq(Steps) /\ p = SubSeq(r, m, Len(r))
        BY <1>1, <4>1
      <4> HIDE DEF m, r, p
      <4>3. /\ p \in Seq(Steps) /\ Len(p) = Len(r) - m + 1
            /\ \A k \in 1 .. Len(r) - m + 1 : p[k] = r[m + k - 1]
        BY <4>2, Rest
      <4> QED  BY <4>3 DEF m, r
    <3>2. \A k \in 1 .. Len(s) - 1 - i : (i + 1) + k - 1 = k + i /\ Tail(s)[k + i] = s[k + i + 1]
      BY <1>1, <1>2
    <3> HIDE DEF p
    <3> QED  BY <1>1, <3>1, <3>2
  <2>2. q \in Seq(Steps) /\ Len(q) = Len(s) - 1 - i /\ \A k \in 1 .. Len(s) - 1 - i : q[k] = s[k + i + 1]
    <3>1. /\ q \in Seq(Steps) /\ Len(q) = Len(s) - (i + 2) + 1
          /\ \A k \in 1 .. Len(s) - (i + 2) + 1 : q[k] = s[(i + 2) + k - 1]
      <4>1. i + 2 \in Nat /\ 1 <= i + 2 /\ i + 2 <= Len(s) + 1
        BY <1>1
      <4> DEFINE m == i + 2
      <4>2. m \in Nat /\ 1 <= m /\ m <= Len(s) + 1 /\ q = SubSeq(s, m, Len(s))
        BY <4>1
      <4> HIDE DEF m, q
      <4>3. /\ q \in Seq(Steps) /\ Len(q) = Len(s) - m + 1
            /\ \A k \in 1 .. Len(s) - m + 1 : q[k] = s[m + k - 1]
        BY <4>2, Rest
      <4> QED  BY <4>3 DEF m
    <3>2. \A k \in 1 .. Len(s) - 1 - i : (i + 2) + k - 1 = k + i + 1
      BY <1>1
    <3> HIDE DEF q
    <3> QED  BY <1>1, <3>1, <3>2
  <2> HIDE DEF p, q
  <2>5. p = q
    BY <2>1, <2>2, SeqExtensional
  <2> QED  BY <2>5 DEF p, q
<1> QED  BY <1>1, <1>2, <1>3, <1>4

\* Whether the lock is held before a step, from whether it is held after it.
LEMMA HeldTail ==
    ASSUME NEW s \in Seq(Steps), s # <<>>
    PROVE  Held(s) <=> Head(s) = "unlock" \/ (Head(s) # "lock" /\ Held(Tail(s)))
<1> USE TailSteps
<1>1. ASSUME Head(s) = "unlock" PROVE Held(s)
  BY <1>1 DEF Held
<1>2. ASSUME Head(s) # "lock", Held(Tail(s)) PROVE Held(s)
  <2>1. PICK k \in 1 .. Len(Tail(s)) :
          Tail(s)[k] = "unlock" /\ \A j \in 1 .. k - 1 : Tail(s)[j] # "lock"
    BY <1>2 DEF Held
  <2>2. k + 1 \in 1 .. Len(s) /\ s[k + 1] = "unlock"
    BY <2>1
  <2>3. ASSUME NEW j \in 1 .. (k + 1) - 1 PROVE s[j] # "lock"
    <3>1. CASE j = 1
      BY <1>2, <3>1
    <3>2. CASE j > 1
      <4>1. j - 1 \in 1 .. k - 1 /\ j - 1 \in 1 .. Len(Tail(s)) /\ Tail(s)[j - 1] = s[(j - 1) + 1]
        BY <2>1, <3>2
      <4> QED  BY <2>1, <4>1
    <3> QED  BY <3>1, <3>2
  <2> QED  BY <2>2, <2>3 DEF Held
<1>3. ASSUME Held(s), Head(s) # "unlock" PROVE Head(s) # "lock" /\ Held(Tail(s))
  <2>1. PICK k \in 1 .. Len(s) : s[k] = "unlock" /\ \A j \in 1 .. k - 1 : s[j] # "lock"
    BY <1>3 DEF Held
  <2>2. k > 1
    BY <1>3, <2>1
  <2>3. s[1] # "lock"
    BY <2>1, <2>2
  <2>4. k - 1 \in 1 .. Len(Tail(s)) /\ Tail(s)[k - 1] = "unlock"
    BY <2>1, <2>2
  <2>5. ASSUME NEW j \in 1 .. (k - 1) - 1 PROVE Tail(s)[j] # "lock"
    <3>1. j \in 1 .. Len(Tail(s)) /\ j + 1 \in 1 .. k - 1
      BY <2>1
    <3> QED  BY <2>1, <3>1
  <2> QED  BY <2>3, <2>4, <2>5 DEF Held
<1> QED  BY <1>1, <1>2, <1>3

\* The shape of a nonempty sequence, from its head and its tail.
LEMMA ShapedTail ==
    ASSUME NEW s \in Seq(Steps), s # <<>>
    PROVE  Shaped(s) <=> Fits(Head(s), Tail(s)) /\ Shaped(Tail(s))
<1> USE TailSteps
<1>1. ASSUME Shaped(s) PROVE Fits(Head(s), Tail(s))
  <2>1. Fits(s[1], SubSeq(s, 1 + 1, Len(s)))
    BY <1>1 DEF Shaped
  <2>2. s[1] = Head(s) /\ SubSeq(s, 1 + 1, Len(s)) = Tail(s)
    OBVIOUS
  <2> QED  BY <2>1, <2>2, Zenon
<1>2. ASSUME Shaped(s) PROVE Shaped(Tail(s))
  <2> SUFFICES ASSUME NEW i \in 1 .. Len(Tail(s))
               PROVE  Fits(Tail(s)[i], SubSeq(Tail(s), i + 1, Len(Tail(s))))
    BY DEF Shaped
  <2>1. i + 1 \in 1 .. Len(s) /\ (i + 1) + 1 = i + 2
    OBVIOUS
  <2>2. Fits(s[i + 1], SubSeq(s, (i + 1) + 1, Len(s)))
    BY <1>2, <2>1 DEF Shaped
  <2> QED  BY <2>1, <2>2
<1>3. ASSUME Fits(Head(s), Tail(s)), Shaped(Tail(s)) PROVE Shaped(s)
  <2> SUFFICES ASSUME NEW i \in 1 .. Len(s)
               PROVE  Fits(s[i], SubSeq(s, i + 1, Len(s)))
    BY DEF Shaped
  <2>1. CASE i = 1
    <3>1. s[i] = Head(s) /\ SubSeq(s, i + 1, Len(s)) = Tail(s)
      BY <2>1
    <3> QED  BY <1>3, <3>1, Zenon
  <2>2. CASE i > 1
    <3>1. i - 1 \in 1 .. Len(Tail(s)) /\ (i - 1) + 2 = i + 1 /\ (i - 1) + 1 = i
      BY <2>2
    <3>2. Fits(Tail(s)[i - 1], SubSeq(Tail(s), (i - 1) + 1, Len(Tail(s))))
      BY <1>3, <3>1 DEF Shaped
    <3>3. Tail(s)[i - 1] = s[i] /\ SubSeq(Tail(s), (i - 1) + 1, Len(Tail(s))) = SubSeq(s, i + 1, Len(s))
      BY <3>1
    <3> QED  BY <3>2, <3>3
  <2> QED  BY <2>1, <2>2
<1> QED  BY <1>1, <1>2, <1>3

\* A step that fits goes in front.
LEMMA ShapedCons ==
    ASSUME NEW a \in Steps, NEW s \in Seq(Steps), Shaped(s), Fits(a, s)
    PROVE  LET c == <<a>> \o s
           IN  /\ c \in Seq(Steps) /\ c # <<>> /\ Shaped(c)
               /\ Head(c) = a /\ Tail(c) = s
               /\ Held(c) <=> a = "unlock" \/ (a # "lock" /\ Held(s))
<1> DEFINE c == <<a>> \o s
<1>1. c \in Seq(Steps) /\ c # <<>> /\ Head(c) = a /\ Tail(c) = s
  BY ConsSteps
<1> HIDE DEF c
<1>2. Held(c) <=> a = "unlock" \/ (a # "lock" /\ Held(s))
  BY <1>1, HeldTail
<1>3. Shaped(c)
  BY <1>1, ShapedTail
<1> QED  BY <1>1, <1>2, <1>3 DEF c

\* No steps left: the shape of a thread that is in no call.
LEMMA ShapedNone == <<>> \in Seq(Steps) /\ Shaped(<<>>) /\ ~ Held(<<>>)
BY DEF Shaped, Held

\* Anything may come before these steps.
Free(s) == s # <<>> => Before(Head(s)) = Steps

\* What follows most steps may follow any.
LEMMA FreeRest ==
    ASSUME NEW s \in Seq(Steps), NEW a \in Steps \ {"flush", "fsync", "close", "write", "mark"}, Fits(a, s)
    PROVE  Free(s)
BY DEF Free, Fits, Before, Steps

\* Sequences of steps joined in either order are the same.
LEMMA Regroup == \A p, q, s \in Seq(Steps) : (p \o q) \o s = p \o (q \o s)
BY ConcatAssociative, SMTT(60)

\* Two steps in front are one in front of the other.
LEMMA Pair ==
    ASSUME NEW a \in Steps, NEW b \in Steps, NEW s \in Seq(Steps)
    PROVE  <<a, b>> \o s = <<a>> \o (<<b>> \o s)
<1>1. <<a, b>> = <<a>> \o <<b>>
  <2> DEFINE p == <<a, b>>
             q == <<a>> \o <<b>>
  <2>1. p \in Seq(Steps) /\ q \in Seq(Steps) /\ Len(p) = 2 /\ Len(q) = 2
    OBVIOUS
  <2>2. p[1] = q[1] /\ p[2] = q[2]
    OBVIOUS
  <2> HIDE DEF p, q
  <2>3. p = q
    BY <2>1, <2>2, SeqExtensional
  <2> QED  BY <2>3 DEF p, q
<1>2. <<a>> \in Seq(Steps) /\ <<b>> \in Seq(Steps)
  OBVIOUS
<1> QED  BY <1>1, <1>2, Regroup

\* append() in front is its four steps.
LEMMA AppendCons ==
    ASSUME NEW f \in Steps, NEW s \in Seq(Steps)
    PROVE  /\ AppendSteps(f) \in Seq(Steps)
           /\ AppendSteps(f) \o s = <<"open">> \o (<<f>> \o (<<"due">> \o (<<"full">> \o s)))
<1>0. "open" \in Steps /\ "due" \in Steps /\ "full" \in Steps
  BY DEF Steps
<1> DEFINE p == <<"open", f>>
           q == <<"due", "full">>
<1>1. p \in Seq(Steps) /\ q \in Seq(Steps)
  BY <1>0
<1>2. AppendSteps(f) = p \o q
  <2>1. Len(AppendSteps(f)) = 4 /\ Len(p \o q) = 4 /\ AppendSteps(f) \in Seq(Steps) /\ p \o q \in Seq(Steps)
    BY <1>0, <1>1 DEF AppendSteps
  <2>2. \A i \in 1 .. 4 : AppendSteps(f)[i] = (p \o q)[i]
    BY <1>0, <1>1 DEF AppendSteps
  <2> QED  BY <2>1, <2>2, SeqExtensional
<1>3. p \o s = <<"open">> \o (<<f>> \o s)
  BY <1>0, Pair
<1>4. q \o s = <<"due">> \o (<<"full">> \o s)
  BY <1>0, Pair
<1>5. q \o s \in Seq(Steps)
  BY <1>1
<1>6. p \o (q \o s) = <<"open">> \o (<<f>> \o (q \o s))
  BY <1>0, <1>5, Pair
<1> HIDE DEF p, q
<1>7. (p \o q) \o s = p \o (q \o s) /\ p \o q \in Seq(Steps)
  BY <1>1, Regroup, SMTT(60)
<1> QED  BY <1>2, <1>4, <1>6, <1>7, Zenon

\* sync() in front of steps that may follow an fsync.
LEMMA SyncShape ==
    ASSUME NEW s \in Seq(Steps), Shaped(s), s # <<>> => "fsync" \in Before(Head(s))
    PROVE  LET c == SyncSteps \o s
           IN  /\ c \in Seq(Steps) /\ c # <<>> /\ Shaped(c) /\ Head(c) = "flush"
               /\ Held(c) <=> Held(s)
<1>0. "flush" \in Steps /\ "fsync" \in Steps
  BY DEF Steps
<1> DEFINE d2 == <<"fsync">> \o s
<1>1. Fits("fsync", s)
  BY <1>0 DEF Fits, Inside, Before
<1>2. /\ d2 \in Seq(Steps) /\ d2 # <<>> /\ Shaped(d2) /\ Head(d2) = "fsync"
      /\ Held(d2) <=> Held(s)
  BY <1>0, <1>1, ShapedCons
<1> HIDE DEF d2
<1> DEFINE d1 == <<"flush">> \o d2
<1>3. Fits("flush", d2)
  BY <1>0, <1>2 DEF Fits, Inside, Before
<1>4. /\ d1 \in Seq(Steps) /\ d1 # <<>> /\ Shaped(d1) /\ Head(d1) = "flush"
      /\ Held(d1) <=> Held(s)
  BY <1>0, <1>2, <1>3, ShapedCons
<1> HIDE DEF d1
<1>5. SyncSteps \in Seq(Steps) /\ SyncSteps \o s = d1
  BY <1>0, Pair DEF SyncSteps, d1, d2
<1> QED  BY <1>4, <1>5

\* rotate() in front of steps taken under the lock.
LEMMA RotateShape ==
    ASSUME NEW s \in Seq(Steps), Shaped(s), Free(s), Held(s)
    PROVE  LET c == RotateSteps \o s
           IN  /\ c \in Seq(Steps) /\ c # <<>> /\ Shaped(c) /\ Head(c) = "flush"
               /\ Held(c) <=> TRUE
<1>0. "close" \in Steps /\ "next" \in Steps
  BY DEF Steps
<1>1. SyncSteps \in Seq(Steps) /\ <<"close", "next">> \in Seq(Steps)
  BY <1>0 DEF SyncSteps, Steps
<1> DEFINE d2 == <<"next">> \o s
<1>2. Fits("next", s)
  BY <1>0 DEF Fits, Inside, Before, Free
<1>3. /\ d2 \in Seq(Steps) /\ d2 # <<>> /\ Shaped(d2) /\ Head(d2) = "next"
      /\ Held(d2) <=> TRUE
  BY <1>0, <1>2, ShapedCons
<1> HIDE DEF d2
<1> DEFINE d1 == <<"close">> \o d2
<1>4. Fits("close", d2)
  BY <1>0, <1>3 DEF Fits, Inside, Before
<1>5. /\ d1 \in Seq(Steps) /\ d1 # <<>> /\ Shaped(d1) /\ Head(d1) = "close"
      /\ Held(d1) <=> TRUE
  BY <1>0, <1>3, <1>4, ShapedCons
<1> HIDE DEF d1
<1>6. SyncSteps \o d1 = RotateSteps \o s
  <2> DEFINE q == <<"close", "next">>
  <2>1. q \o s = d1
    BY <1>0, Pair DEF d1, d2
  <2>2. SyncSteps \in Seq(Steps) /\ q \in Seq(Steps)
    BY <1>1
  <2> HIDE DEF q
  <2>3. (SyncSteps \o q) \o s = SyncSteps \o (q \o s)
    BY <2>2, Regroup, Zenon
  <2> QED  BY <2>1, <2>3, Zenon DEF q, RotateSteps
<1>7. "fsync" \in Before(Head(d1))
  BY <1>5 DEF Before
<1> QED  BY <1>5, <1>6, <1>7, SyncShape

\* close() of the log, in front of steps taken under the lock.
LEMMA ShutShape ==
    ASSUME NEW s \in Seq(Steps), Shaped(s), Free(s), Held(s)
    PROVE  LET c == (SyncSteps \o <<"close", "drop">>) \o s
           IN  /\ c \in Seq(Steps) /\ c # <<>> /\ Shaped(c) /\ Head(c) = "flush"
               /\ Held(c) <=> TRUE
<1>0. "close" \in Steps /\ "drop" \in Steps
  BY DEF Steps
<1>1. SyncSteps \in Seq(Steps) /\ <<"close", "drop">> \in Seq(Steps)
  BY <1>0 DEF SyncSteps, Steps
<1> DEFINE d2 == <<"drop">> \o s
<1>2. Fits("drop", s)
  BY <1>0 DEF Fits, Inside, Before, Free
<1>3. /\ d2 \in Seq(Steps) /\ d2 # <<>> /\ Shaped(d2) /\ Head(d2) = "drop"
      /\ Held(d2) <=> TRUE
  BY <1>0, <1>2, ShapedCons
<1> HIDE DEF d2
<1> DEFINE d1 == <<"close">> \o d2
<1>4. Fits("close", d2)
  BY <1>0, <1>3 DEF Fits, Inside, Before
<1>5. /\ d1 \in Seq(Steps) /\ d1 # <<>> /\ Shaped(d1) /\ Head(d1) = "close"
      /\ Held(d1) <=> TRUE
  BY <1>0, <1>3, <1>4, ShapedCons
<1> HIDE DEF d1
<1>6. SyncSteps \o d1 = (SyncSteps \o <<"close", "drop">>) \o s
  <2> DEFINE q == <<"close", "drop">>
  <2>1. q \o s = d1
    BY <1>0, Pair DEF d1, d2
  <2>2. SyncSteps \in Seq(Steps) /\ q \in Seq(Steps)
    BY <1>1
  <2> HIDE DEF q
  <2>3. (SyncSteps \o q) \o s = SyncSteps \o (q \o s)
    BY <2>2, Regroup, Zenon
  <2> QED  BY <2>1, <2>3, Zenon DEF q
<1>7. "fsync" \in Before(Head(d1))
  BY <1>5 DEF Before
<1> QED  BY <1>5, <1>6, <1>7, SyncShape

\* A sync and the stamp after it, in front of other steps.
LEMMA StampShape ==
    ASSUME NEW s \in Seq(Steps), Shaped(s), Free(s)
    PROVE  LET c == (SyncSteps \o <<"stamp">>) \o s
           IN  /\ c \in Seq(Steps) /\ c # <<>> /\ Shaped(c) /\ Head(c) = "flush"
               /\ Held(c) <=> Held(s)
               /\ Len(c) >= 3 /\ c[3] = "stamp"
<1>0. "stamp" \in Steps
  BY DEF Steps
<1>1. SyncSteps \in Seq(Steps) /\ <<"stamp">> \in Seq(Steps)
  BY <1>0 DEF SyncSteps, Steps
<1> DEFINE d1 == <<"stamp">> \o s
<1>2. Fits("stamp", s)
  BY <1>0 DEF Fits, Inside, Before, Free
<1>3. /\ d1 \in Seq(Steps) /\ d1 # <<>> /\ Shaped(d1) /\ Head(d1) = "stamp"
      /\ Held(d1) <=> Held(s)
  BY <1>0, <1>2, ShapedCons
<1> HIDE DEF d1
<1>4. SyncSteps \o d1 = (SyncSteps \o <<"stamp">>) \o s
  BY <1>1, ConcatAssociative DEF d1
<1>5. "fsync" \in Before(Head(d1))
  BY <1>3 DEF Before
<1>6. Len(SyncSteps \o d1) >= 3 /\ (SyncSteps \o d1)[3] = "stamp"
  BY <1>3 DEF SyncSteps
<1> QED  BY <1>3, <1>4, <1>5, <1>6, SyncShape

\* append() of a frame, under the lock if it is of a put.
LEMMA AppendShape ==
    ASSUME NEW s \in Seq(Steps), Shaped(s), Free(s), NEW f \in {"write", "mark"}, f = "write" => Held(s)
    PROVE  LET c == AppendSteps(f) \o s
           IN  /\ c \in Seq(Steps) /\ c # <<>> /\ Shaped(c) /\ Head(c) = "open"
               /\ Held(c) <=> Held(s)
<1>0. "open" \in Steps /\ "write" \in Steps /\ "mark" \in Steps /\ "due" \in Steps /\ "full" \in Steps
  BY DEF Steps
<1> DEFINE d4 == <<"full">> \o s
<1>1. Fits("full", s)
  BY <1>0 DEF Fits, Inside, Before, Free
<1>2. /\ d4 \in Seq(Steps) /\ d4 # <<>> /\ Shaped(d4) /\ Head(d4) = "full"
      /\ Held(d4) <=> Held(s)
  BY <1>0, <1>1, ShapedCons
<1> HIDE DEF d4
<1> DEFINE d3 == <<"due">> \o d4
<1>3. Fits("due", d4)
  BY <1>0, <1>2 DEF Fits, Inside, Before
<1>4. /\ d3 \in Seq(Steps) /\ d3 # <<>> /\ Shaped(d3) /\ Head(d3) = "due"
      /\ Held(d3) <=> Held(s)
  BY <1>0, <1>2, <1>3, ShapedCons
<1> HIDE DEF d3
<1> DEFINE d2 == <<f>> \o d3
<1>5. Fits(f, d3)
  BY <1>0, <1>4 DEF Fits, Inside, Before
<1>6. /\ d2 \in Seq(Steps) /\ d2 # <<>> /\ Shaped(d2) /\ Head(d2) = f
      /\ Held(d2) <=> Held(s)
  BY <1>0, <1>4, <1>5, ShapedCons
<1> HIDE DEF d2
<1> DEFINE d1 == <<"open">> \o d2
<1>7. Fits("open", d2)
  BY <1>0, <1>6 DEF Fits, Inside, Before
<1>8. /\ d1 \in Seq(Steps) /\ d1 # <<>> /\ Shaped(d1) /\ Head(d1) = "open"
      /\ Held(d1) <=> Held(s)
  BY <1>0, <1>6, <1>7, ShapedCons
<1> HIDE DEF d1
<1>9. AppendSteps(f) \o s = d1
  BY <1>0, AppendCons DEF d1, d2, d3, d4
<1> QED  BY <1>8, <1>9

\* put() in front of steps taken without the lock.
LEMMA PutShape ==
    ASSUME NEW s \in Seq(Steps), Shaped(s), Free(s), ~ Held(s)
    PROVE  LET c == PutSteps \o s
           IN  /\ c \in Seq(Steps) /\ c # <<>> /\ Shaped(c) /\ Head(c) = "lock"
               /\ Held(c) <=> FALSE
<1>0. "lock" \in Steps /\ "write" \in Steps /\ "spill" \in Steps /\ "unlock" \in Steps
  BY DEF Steps
<1> DEFINE e2 == <<"unlock">> \o s
<1>1. Fits("unlock", s)
  BY <1>0 DEF Fits, Inside, Before, Free
<1>2. /\ e2 \in Seq(Steps) /\ e2 # <<>> /\ Shaped(e2) /\ Head(e2) = "unlock"
      /\ Held(e2) <=> TRUE
  BY <1>0, <1>1, ShapedCons
<1> HIDE DEF e2
<1> DEFINE e1 == <<"spill">> \o e2
<1>3. Fits("spill", e2)
  BY <1>0, <1>2 DEF Fits, Inside, Before
<1>4. /\ e1 \in Seq(Steps) /\ e1 # <<>> /\ Shaped(e1) /\ Head(e1) = "spill"
      /\ Held(e1) <=> TRUE
  BY <1>0, <1>2, <1>3, ShapedCons
<1> HIDE DEF e1
<1> DEFINE a == AppendSteps("write") \o e1
<1>5. /\ a \in Seq(Steps) /\ a # <<>> /\ Shaped(a) /\ Head(a) = "open"
      /\ Held(a) <=> TRUE
  BY <1>4, AppendShape DEF Free, Before
<1> HIDE DEF a
<1> DEFINE e3 == <<"lock">> \o a
<1>6. Fits("lock", a)
  BY <1>0, <1>5 DEF Fits, Inside, Before
<1>7. /\ e3 \in Seq(Steps) /\ e3 # <<>> /\ Shaped(e3) /\ Head(e3) = "lock"
      /\ Held(e3) <=> FALSE
  BY <1>0, <1>5, <1>6, ShapedCons
<1> HIDE DEF e3
<1>8. PutSteps \o s = e3
  <2> DEFINE p == AppendSteps("write")
             q == <<"spill", "unlock">>
             l == <<"lock">>
  <2>0. q \in Seq(Steps) /\ l \in Seq(Steps)
    BY <1>0
  <2>1. p \in Seq(Steps)
    BY <1>0, AppendCons
  <2>2. PutSteps = (l \o p) \o q
    BY Zenon DEF PutSteps
  <2>3. q \o s = e1
    BY <1>0, Pair DEF e1, e2
  <2>4. e3 = l \o (p \o e1)
    BY DEF e3, a
  <2> HIDE DEF p, q, l
  <2>5. q \o s \in Seq(Steps)
    BY <2>0
  <2> DEFINE r == q \o s
             m == l \o p
  <2>6. m \in Seq(Steps)
    BY <2>0, <2>1
  <2>7. m \o r = l \o (p \o r)
    <3> HIDE DEF r
    <3>1. r \in Seq(Steps)
      BY <2>5 DEF r
    <3> QED  BY <2>0, <2>1, <3>1, Regroup, ZenonT(90) DEF m
  <2>8. (m \o q) \o s = m \o r
    <3> HIDE DEF m
    <3> QED  BY <2>0, <2>6, Regroup, Zenon DEF r
  <2> QED  BY <2>2, <2>3, <2>4, <2>7, <2>8 DEF m, r
<1> QED  BY <1>7, <1>8

\* One more put of a commit.
LEMMA PutsShape ==
    ASSUME NEW s \in Seq(Steps), Shaped(s), Free(s), ~ Held(s)
    PROVE  LET c == (PutSteps \o <<"puts">>) \o s
           IN  /\ c \in Seq(Steps) /\ c # <<>> /\ Shaped(c) /\ Head(c) = "lock"
               /\ Held(c) <=> FALSE
<1>0. "puts" \in Steps
  BY DEF Steps
<1> DEFINE d1 == <<"puts">> \o s
<1>1. Fits("puts", s)
  BY <1>0 DEF Fits, Inside, Before, Free
<1>2. /\ d1 \in Seq(Steps) /\ d1 # <<>> /\ Shaped(d1) /\ Head(d1) = "puts"
      /\ Held(d1) <=> FALSE
  BY <1>0, <1>1, ShapedCons
<1> HIDE DEF d1
<1>3. PutSteps \in Seq(Steps) /\ <<"puts">> \in Seq(Steps)
  BY <1>0 DEF PutSteps, AppendSteps, Steps
<1>4. (PutSteps \o <<"puts">>) \o s = PutSteps \o d1
  BY <1>3, ConcatAssociative DEF d1
<1> QED  BY <1>2, <1>4, PutShape DEF Free, Before

\* The steps of a put.
LEMMA PutCall ==
    /\ PutSteps \in Seq(Steps) /\ PutSteps # <<>> /\ Shaped(PutSteps) /\ Head(PutSteps) = "lock"
    /\ ~ Held(PutSteps)
<1>1. PutSteps \in Seq(Steps)
  BY DEF PutSteps, AppendSteps, Steps
<1>2. PutSteps \o <<>> = PutSteps
  BY <1>1, ConcatEmptySeq
<1> QED  BY <1>2, ShapedNone, PutShape DEF Free

\* The steps of a commit.
LEMMA CommitCall ==
    /\ CommitSteps \in Seq(Steps) /\ CommitSteps # <<>> /\ Shaped(CommitSteps) /\ Head(CommitSteps) = "enter"
    /\ ~ Held(CommitSteps)
<1>0. "enter" \in Steps /\ "puts" \in Steps /\ "leave" \in Steps /\ "mark" \in Steps
  BY DEF Steps
<1> DEFINE e == <<"enter">>
           a == AppendSteps("mark")
           p == <<"puts">>
           l == <<"leave">>
           w2 == SyncSteps \o l
           w3 == a \o w2
           w4 == p \o w3
           w5 == a \o w4
           w6 == e \o w5
<1>1. l \in Seq(Steps) /\ Shaped(l) /\ ~ Held(l) /\ l # <<>> /\ Head(l) = "leave"
  <2>1. Fits("leave", <<>>)
    BY ShapedNone DEF Fits, Inside
  <2>2. LET c == <<"leave">> \o <<>>
        IN  c \in Seq(Steps) /\ c # <<>> /\ Shaped(c) /\ Head(c) = "leave" /\ (Held(c) <=> Held(<<>>))
    BY <1>0, <2>1, ShapedNone, ShapedCons
  <2>3. l \in Seq(Steps)
    BY <1>0
  <2>4. <<"leave">> \o <<>> = l
    BY <2>3, ConcatEmptySeq
  <2> QED  BY <2>2, <2>4, ShapedNone
<1> HIDE DEF l
<1>2. w2 \in Seq(Steps) /\ Shaped(w2) /\ ~ Held(w2) /\ Head(w2) = "flush"
  <2>1. l # <<>> => "fsync" \in Before(Head(l))
    BY <1>1 DEF Before
  <2> QED  BY <1>1, <2>1, SyncShape
<1> HIDE DEF w2
<1>3. w3 \in Seq(Steps) /\ Shaped(w3) /\ ~ Held(w3) /\ w3 # <<>> /\ Head(w3) = "open"
  <2>1. Free(w2)
    BY <1>2 DEF Free, Before
  <2> QED  BY <1>2, <2>1, AppendShape
<1> HIDE DEF w3
<1>4. w4 \in Seq(Steps) /\ Shaped(w4) /\ ~ Held(w4) /\ w4 # <<>> /\ Head(w4) = "puts"
  <2>1. Fits("puts", w3)
    BY <1>0, <1>3 DEF Fits, Inside, Before
  <2> QED  BY <1>0, <1>3, <2>1, ShapedCons
<1> HIDE DEF w4
<1>5. w5 \in Seq(Steps) /\ Shaped(w5) /\ ~ Held(w5) /\ w5 # <<>> /\ Head(w5) = "open"
  <2>1. Free(w4)
    BY <1>4 DEF Free, Before
  <2> QED  BY <1>4, <2>1, AppendShape
<1> HIDE DEF w5
<1>6. w6 \in Seq(Steps) /\ Shaped(w6) /\ ~ Held(w6) /\ w6 # <<>> /\ Head(w6) = "enter"
  <2>1. Fits("enter", w5)
    BY <1>0, <1>5 DEF Fits, Inside, Before
  <2> QED  BY <1>0, <1>5, <2>1, ShapedCons
<1> HIDE DEF w6
<1>7. CommitSteps = w6
  <2>0. e \in Seq(Steps) /\ p \in Seq(Steps)
    BY <1>0
  <2>1. a \in Seq(Steps)
    BY <1>0, AppendCons, ShapedNone
  <2>2. SyncSteps \in Seq(Steps)
    BY DEF SyncSteps, Steps
  <2> DEFINE x1 == e \o a
             x2 == x1 \o p
             x3 == x2 \o a
  <2>3. CommitSteps = (x3 \o SyncSteps) \o l
    BY Zenon DEF CommitSteps, l
  <2>4. w6 = e \o w5 /\ w5 = a \o w4 /\ w4 = p \o w3 /\ w3 = a \o w2 /\ w2 = SyncSteps \o l
    BY Zenon DEF w6, w5, w4, w3, w2
  <2> HIDE DEF e, a, p
  <2>5. x1 \in Seq(Steps)
    BY <2>0, <2>1
  <2>6. x1 \o w4 = e \o (a \o w4)
    BY <2>0, <2>1, <1>4, Regroup, ZenonT(90)
  <2> HIDE DEF x1
  <2>7. x2 \in Seq(Steps)
    BY <2>0, <2>5
  <2>8. x2 \o w3 = x1 \o (p \o w3)
    BY <2>0, <2>5, <1>3, Regroup, Zenon
  <2> HIDE DEF x2
  <2>9. x3 \in Seq(Steps)
    BY <2>1, <2>7
  <2>10. x3 \o w2 = x2 \o (a \o w2)
    BY <2>1, <2>7, <1>2, Regroup, Zenon
  <2> HIDE DEF x3
  <2>11. (x3 \o SyncSteps) \o l = x3 \o (SyncSteps \o l)
    BY <2>2, <2>9, <1>1, Regroup, Zenon
  <2> QED  BY <2>3, <2>4, <2>6, <2>8, <2>10, <2>11
<1> QED  BY <1>6, <1>7

\* The steps of a shutdown.
LEMMA CloseCall ==
    /\ CloseSteps \in Seq(Steps) /\ CloseSteps # <<>> /\ Shaped(CloseSteps) /\ Head(CloseSteps) = "lock"
    /\ ~ Held(CloseSteps)
<1>0. "lock" \in Steps /\ "spill" \in Steps /\ "shut" \in Steps /\ "unlock" \in Steps
  BY DEF Steps
<1> DEFINE e2 == <<"unlock">> \o <<>>
<1>1. Fits("unlock", <<>>)
  BY <1>0, ShapedNone DEF Fits, Inside, Before
<1>2. /\ e2 \in Seq(Steps) /\ e2 # <<>> /\ Shaped(e2) /\ Head(e2) = "unlock"
      /\ Held(e2) <=> TRUE
  BY <1>0, ShapedNone, <1>1, ShapedCons
<1> HIDE DEF e2
<1> DEFINE e1 == <<"shut">> \o e2
<1>3. Fits("shut", e2)
  BY <1>0, <1>2 DEF Fits, Inside, Before
<1>4. /\ e1 \in Seq(Steps) /\ e1 # <<>> /\ Shaped(e1) /\ Head(e1) = "shut"
      /\ Held(e1) <=> TRUE
  BY <1>0, <1>2, <1>3, ShapedCons
<1> HIDE DEF e1
<1> DEFINE w == SyncSteps \o e1
<1>5. w \in Seq(Steps) /\ w # <<>> /\ Shaped(w) /\ Head(w) = "flush" /\ (Held(w) <=> TRUE)
  BY <1>4, SyncShape DEF Before, Steps
<1> HIDE DEF w
<1> DEFINE e4 == <<"spill">> \o w
<1>6. Fits("spill", w)
  BY <1>0, <1>5 DEF Fits, Inside, Before
<1>7. /\ e4 \in Seq(Steps) /\ e4 # <<>> /\ Shaped(e4) /\ Head(e4) = "spill"
      /\ Held(e4) <=> TRUE
  BY <1>0, <1>5, <1>6, ShapedCons
<1> HIDE DEF e4
<1> DEFINE e3 == <<"lock">> \o e4
<1>8. Fits("lock", e4)
  BY <1>0, <1>7 DEF Fits, Inside, Before
<1>9. /\ e3 \in Seq(Steps) /\ e3 # <<>> /\ Shaped(e3) /\ Head(e3) = "lock"
      /\ Held(e3) <=> FALSE
  BY <1>0, <1>7, <1>8, ShapedCons
<1> HIDE DEF e3
<1>10. CloseSteps = e3
  <2> DEFINE q == <<"shut", "unlock">>
             l == <<"lock", "spill">>
  <2>0. q \in Seq(Steps) /\ l \in Seq(Steps)
    BY <1>0
  <2>1. SyncSteps \in Seq(Steps)
    BY DEF SyncSteps, Steps
  <2>2. CloseSteps = (l \o SyncSteps) \o q
    BY Zenon DEF CloseSteps
  <2>3. q \o <<>> = e1
    BY <1>0, ShapedNone, Pair DEF e1, e2
  <2>4. q \o <<>> = q
    BY <2>0, ConcatEmptySeq
  <2>5. e3 = l \o w
    BY <1>0, <1>5, Pair DEF e3, e4
  <2> HIDE DEF q, l
  <2>6. (l \o SyncSteps) \o q = l \o (SyncSteps \o q)
    BY <2>0, <2>1, Regroup, Zenon
  <2> QED  BY <2>2, <2>3, <2>4, <2>5, <2>6 DEF w
<1> QED  BY <1>9, <1>10

-----------------------------------------------------------------------------
(* The tree's lock is exclusive *)

\* What the thread at a step has left.
LEMMA AtStep ==
    ASSUME Types, Locked, NEW t \in Threads, NEW a, At(t, a)
    PROVE  /\ a \in Steps /\ Tail(todo[t]) \in Seq(Steps) /\ Shaped(Tail(todo[t]))
           /\ Fits(a, Tail(todo[t]))
           /\ Held(todo[t]) <=> a = "unlock" \/ (a # "lock" /\ Held(Tail(todo[t])))
<1>1. todo[t] \in Seq(Steps) /\ todo[t] # <<>> /\ Head(todo[t]) = a /\ Shaped(todo[t])
  BY DEF Types, Locked, At
<1> QED  BY <1>1, TailSteps, HeldTail, ShapedTail

\* The steps taken under the lock are taken by its holder.
LEMMA InsideHolds ==
    ASSUME Types, Locked, NEW t \in Threads, NEW a \in Inside, At(t, a)
    PROVE  tree = t
<1>1. Fits(a, Tail(todo[t])) /\ (Held(todo[t]) <=> a = "unlock" \/ (a # "lock" /\ Held(Tail(todo[t]))))
  BY AtStep
<1> QED  BY <1>1 DEF Fits, Inside, Locked

\* A thread goes on with steps that agree with who holds the lock then.
LEMMA GoOn ==
    ASSUME Types, Locked, NEW t \in Threads, NEW z \in Seq(Steps), Shaped(z),
           todo' = [todo EXCEPT ![t] = z],
           \A u \in Threads \ {t} : tree' = u <=> tree = u,
           tree' = t <=> Held(z)
    PROVE  /\ Locked' /\ todo' \in [Threads -> Seq(Steps)]
           /\ todo'[t] = z /\ \A u \in Threads \ {t} : todo'[u] = todo[u]
<1>1. todo \in [Threads -> Seq(Steps)]
  BY DEF Types
<1>2. todo' \in [Threads -> Seq(Steps)] /\ todo'[t] = z /\ \A u \in Threads \ {t} : todo'[u] = todo[u]
  BY <1>1
<1>3. ASSUME NEW u \in Threads PROVE Shaped(todo'[u]) /\ (tree' = u <=> Held(todo'[u]))
  <2>1. CASE u = t
    BY <1>2, <2>1
  <2>2. CASE u # t
    BY <1>2, <2>2 DEF Locked
  <2> QED  BY <2>1, <2>2
<1> QED  BY <1>2, <1>3 DEF Locked

\* A thread that is done with its step has the ones after it left.
LEMMA DoneRest ==
    ASSUME Types, Locked, NEW t \in Threads, NEW a, At(t, a), Done(t)
    PROVE  todo' = [todo EXCEPT ![t] = Tail(todo[t])]
<1>1. Tail(todo[t]) \in Seq(Steps)
  BY AtStep
<1>2. <<>> \o Tail(todo[t]) = Tail(todo[t])
  BY <1>1, ConcatEmptySeq
<1> QED  BY <1>2 DEF Done, Then

\* Done with a step that does not move the lock.
LEMMA DoneLocked ==
    ASSUME Types, Locked, NEW t \in Threads, NEW a, a \notin {"lock", "unlock"}, At(t, a), Done(t),
           tree' = tree
    PROVE  /\ Locked' /\ todo' \in [Threads -> Seq(Steps)]
           /\ todo'[t] = Tail(todo[t]) /\ \A u \in Threads \ {t} : todo'[u] = todo[u]
<1>1. /\ Tail(todo[t]) \in Seq(Steps) /\ Shaped(Tail(todo[t]))
      /\ Held(todo[t]) <=> Held(Tail(todo[t]))
  BY AtStep
<1>2. todo' = [todo EXCEPT ![t] = Tail(todo[t])]
  BY DoneRest
<1>3. tree' = t <=> Held(Tail(todo[t]))
  BY <1>1 DEF Locked
<1> QED  BY <1>1, <1>2, <1>3, GoOn

\* Steps put in place of one that does not move the lock, before the ones after it.
LEMMA ThenLocked ==
    ASSUME Types, Locked, NEW t \in Threads, NEW a, a \notin {"lock", "unlock"}, At(t, a),
           NEW p, Then(t, p), tree' = tree,
           p \o Tail(todo[t]) \in Seq(Steps), Shaped(p \o Tail(todo[t])),
           Held(p \o Tail(todo[t])) <=> Held(Tail(todo[t]))
    PROVE  /\ Locked' /\ todo' \in [Threads -> Seq(Steps)]
           /\ todo'[t] = p \o Tail(todo[t]) /\ \A u \in Threads \ {t} : todo'[u] = todo[u]
<1> DEFINE z == p \o Tail(todo[t])
<1>1. Held(todo[t]) <=> Held(Tail(todo[t]))
  BY AtStep
<1>2. todo' = [todo EXCEPT ![t] = z]
  BY DEF Then
<1>3. tree' = t <=> Held(z)
  BY <1>1 DEF Locked
<1> HIDE DEF z
<1>4. z \in Seq(Steps) /\ Shaped(z)
  BY DEF z
<1>5. /\ Locked' /\ todo' \in [Threads -> Seq(Steps)]
      /\ todo'[t] = z /\ \A u \in Threads \ {t} : todo'[u] = todo[u]
  BY <1>2, <1>3, <1>4, GoOn
<1> QED  BY <1>5 DEF z

\* The steps of the other threads stay as they are, and they hold the lock as before.
Others(t) == \A u \in Threads \ {t} : todo'[u] = todo[u] /\ (tree' = u <=> tree = u)

\* Thread t is in no sync, and not right after one, nor after a write.
Plain(t) == \A x \in {"fsync", "close", "next", "drop", "leave", "stamp", "due"} : ~ At(t, x)

\* A step that is no part of a sync is followed by none inside one.
LEMMA DonePlain ==
    ASSUME Types, Locked, NEW t \in Threads,
           NEW a \in Steps \ {"flush", "fsync", "close", "write", "mark"}, At(t, a),
           todo'[t] = Tail(todo[t])
    PROVE  Plain(t)'
<1>1. Free(Tail(todo[t])) /\ Tail(todo[t]) \in Seq(Steps)
  BY AtStep, FreeRest
<1> DEFINE z == Tail(todo[t])
<1> HIDE DEF z
<1>2. Before(Head(z)) = Steps => Head(z) \notin {"fsync", "close", "next", "drop", "leave", "stamp", "due"}
  BY DEF Before, Steps
<1>3. z # <<>> => Before(Head(z)) = Steps
  BY <1>1 DEF Free, z
<1>4. todo'[t] = z
  BY DEF z
<1> QED  BY <1>2, <1>3, <1>4 DEF Plain, At

\* The actions that move no frame leave their thread outside of a sync.
LEMMA QuietControl ==
    ASSUME Types, Locked, ~ MarkersRotate, NEW t \in Threads,
           \/ Put(t) \/ Commit(t) \/ Close(t) \/ Lock(t) \/ Unlock(t) \/ Enter(t) \/ Puts(t)
           \/ Leave(t) \/ Fail(t) \/ Open(t) \/ Full(t) \/ Spill(t) \/ Shut(t) \/ Drop(t)
    PROVE  Locked' /\ todo' \in [Threads -> Seq(Steps)] /\ Others(t) /\ Plain(t)'
<1> DEFINE Goal == Locked' /\ todo' \in [Threads -> Seq(Steps)] /\ Others(t) /\ Plain(t)'
<1>a. None \notin Threads
  BY LogAssumption
<1>1. ASSUME NEW p, p \in Seq(Steps), p # <<>>, Shaped(p), Head(p) \in {"lock", "enter"}, ~ Held(p), Call(t, p)
      PROVE  Goal
  <2>1. todo' = [todo EXCEPT ![t] = p] /\ tree' = tree /\ todo[t] = <<>>
    BY <1>1 DEF Call, locks
  <2>2. tree' = t <=> Held(p)
    BY <1>1, <2>1, ShapedNone DEF Locked
  <2>3. Locked' /\ todo' \in [Threads -> Seq(Steps)] /\ todo'[t] = p /\ \A u \in Threads \ {t} : todo'[u] = todo[u]
    BY <1>1, <2>1, <2>2, GoOn
  <2>4. Plain(t)'
    BY <1>1, <2>3 DEF Plain, At
  <2> QED  BY <2>1, <2>3, <2>4 DEF Others
<1>2. ASSUME NEW a \in Steps \ {"flush", "fsync", "close", "write", "mark", "lock", "unlock"},
             At(t, a), Done(t), tree' = tree
      PROVE  Goal
  <2>1. /\ Locked' /\ todo' \in [Threads -> Seq(Steps)]
        /\ todo'[t] = Tail(todo[t]) /\ \A u \in Threads \ {t} : todo'[u] = todo[u]
    BY <1>2, DoneLocked
  <2>2. Plain(t)'
    BY <1>2, <2>1, DonePlain
  <2> QED  BY <1>2, <2>1, <2>2 DEF Others
<1>3. ASSUME NEW a \in Steps \ {"lock", "unlock"}, At(t, a), NEW p, Then(t, p), tree' = tree,
             LET c == p \o Tail(todo[t])
             IN  /\ c \in Seq(Steps) /\ c # <<>> /\ Shaped(c) /\ Head(c) \in {"flush", "lock"}
                 /\ Held(c) <=> Held(Tail(todo[t]))
      PROVE  Goal
  <2>1. /\ Locked' /\ todo' \in [Threads -> Seq(Steps)]
        /\ todo'[t] = p \o Tail(todo[t]) /\ \A u \in Threads \ {t} : todo'[u] = todo[u]
    BY <1>3, ThenLocked
  <2>2. Plain(t)'
    BY <1>3, <2>1 DEF Plain, At
  <2> QED  BY <1>3, <2>1, <2>2 DEF Others
<1>4. CASE Put(t)
  BY <1>1, <1>4, PutCall DEF Put
<1>5. CASE Commit(t)
  BY <1>1, <1>5, CommitCall DEF Commit
<1>6. CASE Close(t)
  BY <1>1, <1>6, CloseCall DEF Close
<1>7. CASE Lock(t)
  <2>1. At(t, "lock") /\ Done(t) /\ tree = None /\ tree' = t
    BY <1>7 DEF Lock
  <2>2. Tail(todo[t]) \in Seq(Steps) /\ Shaped(Tail(todo[t])) /\ Held(Tail(todo[t]))
    BY <2>1, AtStep DEF Fits
  <2>3. todo' = [todo EXCEPT ![t] = Tail(todo[t])]
    BY <2>1, DoneRest
  <2>4. \A u \in Threads \ {t} : tree' = u <=> tree = u
    BY <1>a, <2>1
  <2>5. /\ Locked' /\ todo' \in [Threads -> Seq(Steps)]
        /\ todo'[t] = Tail(todo[t]) /\ \A u \in Threads \ {t} : todo'[u] = todo[u]
    BY <2>1, <2>2, <2>3, <2>4, GoOn
  <2>6. Plain(t)'
    BY <2>1, <2>5, DonePlain DEF Steps
  <2> QED  BY <2>4, <2>5, <2>6 DEF Others
<1>8. CASE Unlock(t)
  <2>1. At(t, "unlock") /\ Done(t) /\ tree' = None
    BY <1>8 DEF Unlock
  <2>2. Tail(todo[t]) \in Seq(Steps) /\ Shaped(Tail(todo[t])) /\ ~ Held(Tail(todo[t])) /\ tree = t
    BY <2>1, AtStep DEF Fits, Locked
  <2>3. todo' = [todo EXCEPT ![t] = Tail(todo[t])]
    BY <2>1, DoneRest
  <2>4. (\A u \in Threads \ {t} : tree' = u <=> tree = u) /\ tree' # t
    BY <1>a, <2>1, <2>2
  <2>5. /\ Locked' /\ todo' \in [Threads -> Seq(Steps)]
        /\ todo'[t] = Tail(todo[t]) /\ \A u \in Threads \ {t} : todo'[u] = todo[u]
    BY <2>1, <2>2, <2>3, <2>4, GoOn
  <2>6. Plain(t)'
    BY <2>1, <2>5, DonePlain DEF Steps
  <2> QED  BY <2>4, <2>5, <2>6 DEF Others
<1>9. CASE Enter(t)
  BY <1>2, <1>9 DEF Enter, Steps
<1>10. CASE Puts(t)
  <2>1. At(t, "puts") /\ tree' = tree
    BY <1>10 DEF Puts, locks
  <2>2. CASE Done(t)
    BY <1>2, <2>1, <2>2 DEF Steps
  <2>3. CASE Then(t, PutSteps \o <<"puts">>)
    <3>1. /\ Tail(todo[t]) \in Seq(Steps) /\ Shaped(Tail(todo[t])) /\ ~ Held(Tail(todo[t]))
          /\ Fits("puts", Tail(todo[t]))
      BY <2>1, AtStep DEF Fits
    <3>2. Free(Tail(todo[t]))
      BY <3>1, FreeRest DEF Steps
    <3>3. "puts" \in Steps \ {"lock", "unlock"}
      BY DEF Steps
    <3> QED  BY <1>3, <2>1, <2>3, <3>1, <3>2, <3>3, PutsShape
  <2> QED  BY <1>10, <2>2, <2>3 DEF Puts
<1>11. CASE Leave(t)
  BY <1>2, <1>11 DEF Leave, Steps
<1>12. CASE Fail(t)
  <2>1. todo' = [todo EXCEPT ![t] = <<>>] /\ tree' = IF tree = t THEN None ELSE tree
    BY <1>12 DEF Fail, Release
  <2>2. (\A u \in Threads \ {t} : tree' = u <=> tree = u) /\ tree' # t
    BY <1>a, <2>1
  <2>3. /\ Locked' /\ todo' \in [Threads -> Seq(Steps)]
        /\ todo'[t] = <<>> /\ \A u \in Threads \ {t} : todo'[u] = todo[u]
    BY <2>1, <2>2, ShapedNone, GoOn
  <2> QED  BY <2>2, <2>3 DEF Others, Plain, At
<1>13. CASE Open(t)
  BY <1>2, <1>13 DEF Open, Steps, locks
<1>14. ASSUME NEW a \in {"full", "spill"}, At(t, a), tree = t, tree' = tree, Then(t, RotateSteps)
       PROVE  Goal
  <2>1. /\ Tail(todo[t]) \in Seq(Steps) /\ Shaped(Tail(todo[t])) /\ Held(Tail(todo[t]))
        /\ Fits(a, Tail(todo[t]))
    BY <1>14, AtStep DEF Locked
  <2>2. Free(Tail(todo[t]))
    BY <1>14, <2>1, FreeRest DEF Steps
  <2>3. a \in Steps \ {"lock", "unlock"}
    BY <1>14 DEF Steps
  <2> QED  BY <1>3, <1>14, <2>1, <2>2, <2>3, RotateShape
<1>15. CASE Full(t)
  <2>1. At(t, "full") /\ tree' = tree
    BY <1>15 DEF Full, locks
  <2>2. CASE Done(t)
    BY <1>2, <2>1, <2>2 DEF Steps
  <2>3. CASE tree = t /\ Then(t, RotateSteps)
    BY <1>14, <2>1, <2>3
  <2> QED  BY <1>15, <2>2, <2>3 DEF Full
<1>16. CASE Spill(t)
  <2>1. At(t, "spill") /\ tree' = tree
    BY <1>16 DEF Spill, locks
  <2>2. CASE Done(t)
    BY <1>2, <2>1, <2>2 DEF Steps
  <2>3. CASE Then(t, RotateSteps)
    <3>1. tree = t
      BY <2>1, InsideHolds DEF Inside
    <3> QED  BY <1>14, <2>1, <2>3, <3>1
  <2> QED  BY <1>16, <2>2, <2>3 DEF Spill
<1>17. CASE Shut(t)
  <2>1. At(t, "shut") /\ tree' = tree /\ Then(t, IF file = "open" THEN SyncSteps \o <<"close", "drop">> ELSE <<>>)
    BY <1>17 DEF Shut, locks
  <2>2. CASE file = "open"
    <3>1. /\ Tail(todo[t]) \in Seq(Steps) /\ Shaped(Tail(todo[t])) /\ Held(Tail(todo[t]))
          /\ Fits("shut", Tail(todo[t]))
      BY <2>1, AtStep DEF Fits, Inside
    <3>2. Free(Tail(todo[t]))
      BY <3>1, FreeRest DEF Steps
    <3>3. "shut" \in Steps \ {"lock", "unlock"}
      BY DEF Steps
    <3>4. Then(t, SyncSteps \o <<"close", "drop">>)
      BY <2>1, <2>2
    <3> QED  BY <1>3, <2>1, <3>1, <3>2, <3>3, <3>4, ShutShape
  <2>3. CASE file # "open"
    <3>1. Done(t)
      BY <2>1, <2>3 DEF Done
    <3> QED  BY <1>2, <2>1, <3>1 DEF Steps
  <2> QED  BY <2>2, <2>3
<1>18. CASE Drop(t)
  BY <1>2, <1>18 DEF Drop, Steps, locks
<1> QED  BY <1>4, <1>5, <1>6, <1>7, <1>8, <1>9, <1>10, <1>11, <1>12, <1>13, <1>15, <1>16, <1>17, <1>18

\* Where the other actions leave their thread.
LEMMA SyncControl ==
    ASSUME Types, Locked, NEW t \in Threads,
           \/ Due(t) \/ Stamp(t) \/ Write(t) \/ FlushFile(t) \/ Fsync(t) \/ CloseFile(t) \/ NextSegment(t)
    PROVE  /\ Locked' /\ todo' \in [Threads -> Seq(Steps)] /\ Others(t) /\ tree' = tree
           /\ Due(t) => /\ Plain(t)'
                        /\ mode = "always" => At(t, "flush")'
                        /\ mode = "every_sec" /\ Elapsed => Flushing(t)'
           /\ Stamp(t) => Plain(t)'
           /\ Write(t) => /\ \A x \in {"fsync", "close", "next", "drop", "leave", "stamp"} : ~ At(t, x)'
                          /\ At(t, "write") => At(t, "due")'
           /\ FlushFile(t) => /\ \A x \in {"next", "drop", "due"} : ~ At(t, x)'
                              /\ IF file = "open" THEN At(t, "fsync")' /\ (Flushing(t) => Syncing(t)')
                                                  ELSE ~ At(t, "fsync")'
           /\ Fsync(t) => /\ \A x \in {"fsync", "next", "drop", "due"} : ~ At(t, x)'
                          /\ At(t, "stamp")' => Syncing(t)
                          /\ Syncing(t) => At(t, "stamp")'
                          /\ At(t, "close")' => tree = t
           /\ CloseFile(t) => \A x \in {"fsync", "close", "leave", "stamp", "due"} : ~ At(t, x)'
           /\ NextSegment(t) => Plain(t)'
<1>a. todo[t] \in Seq(Steps)
  BY DEF Types
<1>1. ASSUME NEW a \in Steps \ {"lock", "unlock"}, At(t, a), Done(t), tree' = tree
      PROVE  /\ Locked' /\ todo' \in [Threads -> Seq(Steps)] /\ Others(t)
             /\ todo'[t] = Tail(todo[t])
             /\ \A x : At(t, x)' => a \in Before(x)
  <2>1. /\ Locked' /\ todo' \in [Threads -> Seq(Steps)]
        /\ todo'[t] = Tail(todo[t]) /\ \A u \in Threads \ {t} : todo'[u] = todo[u]
    BY <1>1, DoneLocked
  <2>2. Fits(a, Tail(todo[t]))
    BY <1>1, AtStep
  <2> QED  BY <1>1, <2>1, <2>2 DEF Others, At, Fits
<1>2. CASE Due(t)
  <2>1. At(t, "due") /\ tree' = tree
    BY <1>2 DEF Due, locks
  <2>2. /\ Tail(todo[t]) \in Seq(Steps) /\ Shaped(Tail(todo[t])) /\ Fits("due", Tail(todo[t]))
    BY <2>1, AtStep
  <2>3. Free(Tail(todo[t]))
    BY <2>2, FreeRest DEF Steps
  <2>4. CASE mode = "always"
    <3>1. Then(t, SyncSteps)
      BY <1>2, <2>4 DEF Due
    <3>2. LET c == SyncSteps \o Tail(todo[t])
          IN  /\ c \in Seq(Steps) /\ c # <<>> /\ Shaped(c) /\ Head(c) = "flush"
              /\ Held(c) <=> Held(Tail(todo[t]))
      <4>1. Tail(todo[t]) # <<>> => "fsync" \in Before(Head(Tail(todo[t])))
        BY <2>3 DEF Free, Steps
      <4> QED  BY <2>2, <4>1, SyncShape
    <3>3. /\ Locked' /\ todo' \in [Threads -> Seq(Steps)]
          /\ todo'[t] = SyncSteps \o Tail(todo[t]) /\ \A u \in Threads \ {t} : todo'[u] = todo[u]
      BY <2>1, <3>1, <3>2, ThenLocked
    <3>4. At(t, "flush")' /\ Plain(t)'
      BY <3>2, <3>3 DEF At, Plain
    <3> QED  BY <1>2, <2>1, <2>4, <3>3, <3>4 DEF Others, Stamp, Write, FlushFile, Fsync, CloseFile, NextSegment, At
  <2>5. CASE mode = "every_sec" /\ Elapsed
    <3>1. Then(t, SyncSteps \o <<"stamp">>)
      BY <1>2, <2>5 DEF Due
    <3>2. LET c == (SyncSteps \o <<"stamp">>) \o Tail(todo[t])
          IN  /\ c \in Seq(Steps) /\ c # <<>> /\ Shaped(c) /\ Head(c) = "flush"
              /\ Held(c) <=> Held(Tail(todo[t]))
              /\ Len(c) >= 3 /\ c[3] = "stamp"
      BY <2>2, <2>3, StampShape
    <3>3. /\ Locked' /\ todo' \in [Threads -> Seq(Steps)]
          /\ todo'[t] = (SyncSteps \o <<"stamp">>) \o Tail(todo[t]) /\ \A u \in Threads \ {t} : todo'[u] = todo[u]
      BY <2>1, <3>1, <3>2, ThenLocked
    <3>4. Flushing(t)' /\ Plain(t)'
      BY <3>2, <3>3 DEF At, Plain, Flushing
    <3> QED  BY <1>2, <2>1, <2>5, <3>3, <3>4 DEF Others, Stamp, Write, FlushFile, Fsync, CloseFile, NextSegment, At
  <2>6. CASE mode # "always" /\ ~ (mode = "every_sec" /\ Elapsed)
    <3>1. Done(t)
      BY <1>2, <2>6 DEF Due
    <3>2. Plain(t)'
      BY <1>1, <2>1, <3>1, DonePlain DEF Steps
    <3> QED  BY <1>1, <1>2, <2>1, <2>6, <3>1, <3>2
             DEF Steps, Stamp, Write, FlushFile, Fsync, CloseFile, NextSegment, At
  <2> QED  BY <2>4, <2>5, <2>6
<1>3. CASE Stamp(t)
  <2>1. At(t, "stamp") /\ tree' = tree /\ Done(t)
    BY <1>3 DEF Stamp, locks
  <2>2. Plain(t)'
    BY <1>1, <2>1, DonePlain DEF Steps
  <2> QED  BY <1>1, <2>1, <2>2 DEF Steps, Due, Write, FlushFile, Fsync, CloseFile, NextSegment, At
<1>4. CASE Write(t)
  <2>1. PICK a \in {"write", "mark"} : At(t, a)
    BY <1>4 DEF Write
  <2>2. tree' = tree /\ Done(t) /\ a \in Steps \ {"lock", "unlock"}
    BY <1>4 DEF Write, locks, Steps
  <2>3. /\ Locked' /\ todo' \in [Threads -> Seq(Steps)] /\ Others(t)
        /\ todo'[t] = Tail(todo[t]) /\ \A x : At(t, x)' => a \in Before(x)
    BY <1>1, <2>1, <2>2
  <2>4. \A x \in {"fsync", "close", "next", "drop", "leave", "stamp"} : a \notin Before(x)
    BY DEF Before
  <2>5. At(t, "write") => At(t, "due")'
    <3>1. At(t, "write") => Fits("write", Tail(todo[t]))
      BY AtStep
    <3> QED  BY <2>3, <3>1 DEF Fits, At
  <2> QED  BY <2>1, <2>2, <2>3, <2>4, <2>5 DEF Due, Stamp, FlushFile, Fsync, CloseFile, NextSegment, At
<1>5. CASE FlushFile(t)
  <2>1. At(t, "flush") /\ tree' = tree
    BY <1>5 DEF FlushFile, locks
  <2>2. /\ Tail(todo[t]) \in Seq(Steps) /\ Shaped(Tail(todo[t])) /\ Fits("flush", Tail(todo[t]))
        /\ Held(todo[t]) <=> Held(Tail(todo[t]))
    BY <2>1, AtStep
  <2>3. Tail(todo[t]) # <<>> /\ Head(Tail(todo[t])) = "fsync"
    BY <2>2 DEF Fits
  <2>4. CASE file = "open"
    <3>1. Done(t)
      BY <1>5, <2>4 DEF FlushFile
    <3>2. /\ Locked' /\ todo' \in [Threads -> Seq(Steps)] /\ Others(t)
          /\ todo'[t] = Tail(todo[t])
      BY <1>1, <2>1, <3>1 DEF Steps
    <3>3. At(t, "fsync")' /\ \A x \in {"next", "drop", "due"} : ~ At(t, x)'
      BY <2>3, <3>2 DEF At
    <3>4. Flushing(t) => Syncing(t)'
      <4> SUFFICES ASSUME Flushing(t) PROVE Syncing(t)'
        OBVIOUS
      <4>1. Len(todo[t]) >= 3 /\ todo[t][3] = "stamp" /\ todo[t] # <<>>
        BY DEF Flushing, At
      <4>2. Len(Tail(todo[t])) >= 2 /\ Tail(todo[t])[2] = "stamp"
        BY <1>a, <4>1
      <4> QED  BY <3>2, <3>3, <4>2 DEF Syncing
    <3> QED  BY <2>1, <2>4, <3>2, <3>3, <3>4 DEF Due, Stamp, Write, Fsync, CloseFile, NextSegment, At
  <2>5. CASE file # "open"
    <3> DEFINE z == Tail(Tail(todo[t]))
    <3>1. z \in Seq(Steps) /\ Shaped(z) /\ Fits("fsync", z) /\ (Held(z) <=> Held(todo[t]))
      BY <2>2, <2>3, TailSteps, HeldTail, ShapedTail
    <3>2. todo' = [todo EXCEPT ![t] = z]
      BY <1>5, <2>5 DEF FlushFile
    <3> HIDE DEF z
    <3>3. tree' = t <=> Held(z)
      BY <2>1, <3>1 DEF Locked
    <3>4. /\ Locked' /\ todo' \in [Threads -> Seq(Steps)]
          /\ todo'[t] = z /\ \A u \in Threads \ {t} : todo'[u] = todo[u]
      BY <2>1, <3>1, <3>2, <3>3, GoOn
    <3>5. \A x \in {"fsync", "next", "drop", "due"} : "fsync" \notin Before(x)
      BY SMTT(60) DEF Before
    <3>6. \A x \in {"fsync", "next", "drop", "due"} : ~ At(t, x)'
      BY <3>1, <3>4, <3>5, SMTT(60) DEF At, Fits
    <3> QED  BY <2>1, <2>5, <3>4, <3>6 DEF Others, Due, Stamp, Write, Fsync, CloseFile, NextSegment, At
  <2> QED  BY <2>4, <2>5
<1>6. CASE Fsync(t)
  <2>1. At(t, "fsync") /\ tree' = tree /\ Done(t)
    BY <1>6 DEF Fsync, locks
  <2>2. /\ Locked' /\ todo' \in [Threads -> Seq(Steps)] /\ Others(t)
        /\ todo'[t] = Tail(todo[t]) /\ \A x : At(t, x)' => "fsync" \in Before(x)
    BY <1>1, <2>1 DEF Steps
  <2>3. \A x \in {"fsync", "next", "drop", "due"} : "fsync" \notin Before(x)
    BY DEF Before
  <2>4. At(t, "stamp")' <=> Syncing(t)
    <3>1. todo[t] # <<>>
      BY <2>1 DEF At
    <3>2. Tail(todo[t]) # <<>> <=> Len(todo[t]) >= 2
      <4>1. Tail(todo[t]) \in Seq(Steps) /\ Len(Tail(todo[t])) = Len(todo[t]) - 1 /\ Len(todo[t]) \in Nat
        BY <1>a, <3>1, TailSteps
      <4> DEFINE z == Tail(todo[t])
      <4> HIDE DEF z
      <4>2. z \in Seq(Steps)
        BY <4>1 DEF z
      <4>3. z = <<>> <=> Len(z) = 0
        BY <4>2, EmptySeq
      <4>4. Len(z) = 0 <=> ~ (Len(todo[t]) >= 2)
        <5>1. Len(todo[t]) \in Nat /\ Len(todo[t]) # 0
          BY <3>1, <1>a, EmptySeq
        <5>2. Len(z) = Len(todo[t]) - 1
          BY <4>1 DEF z
        <5>3. CASE Len(todo[t]) >= 2
          BY <5>1, <5>2, <5>3
        <5>4. CASE Len(todo[t]) = 1
          BY <5>2, <5>4
        <5>5. Len(todo[t]) >= 2 \/ Len(todo[t]) = 1
          <6>1. \A n \in Nat : n # 0 => n >= 2 \/ n = 1
            OBVIOUS
          <6> QED  BY <5>1, <6>1, Zenon
        <5> QED  BY <5>3, <5>4, <5>5
      <4> QED  BY <4>3, <4>4, Zenon DEF z
    <3>3. Len(todo[t]) >= 2 => Head(Tail(todo[t])) = todo[t][2]
      BY <1>a, <3>1
    <3> QED  BY <2>1, <2>2, <3>2, <3>3 DEF At, Syncing
  <2>5. At(t, "close")' => tree = t
    <3> SUFFICES ASSUME At(t, "close")' PROVE tree = t
      OBVIOUS
    <3> DEFINE z == Tail(todo[t])
    <3>1. z \in Seq(Steps) /\ Shaped(z) /\ (Held(todo[t]) <=> Held(z))
      BY <2>1, AtStep
    <3>2. z # <<>> /\ Head(z) = "close"
      BY <2>2 DEF At
    <3> HIDE DEF z
    <3>3. Fits("close", Tail(z)) /\ (Held(z) <=> Held(Tail(z)))
      BY <3>1, <3>2, HeldTail, ShapedTail
    <3> QED  BY <3>1, <3>3 DEF Fits, Inside, Locked
  <2> QED  BY <2>1, <2>2, <2>3, <2>4, <2>5 DEF Due, Stamp, Write, FlushFile, CloseFile, NextSegment, At
<1>7. CASE CloseFile(t)
  <2>1. At(t, "close") /\ tree' = tree /\ Done(t)
    BY <1>7 DEF CloseFile, locks
  <2>2. /\ Locked' /\ todo' \in [Threads -> Seq(Steps)] /\ Others(t)
        /\ \A x : At(t, x)' => "close" \in Before(x)
    BY <1>1, <2>1 DEF Steps
  <2>3. \A x \in {"fsync", "close", "leave", "stamp", "due"} : "close" \notin Before(x)
    BY DEF Before
  <2> QED  BY <2>1, <2>2, <2>3 DEF Due, Stamp, Write, FlushFile, Fsync, NextSegment, At
<1>8. CASE NextSegment(t)
  <2>1. At(t, "next") /\ tree' = tree /\ Done(t)
    BY <1>8 DEF NextSegment, locks
  <2>2. Plain(t)'
    BY <1>1, <2>1, DonePlain DEF Steps
  <2> QED  BY <1>1, <2>1, <2>2 DEF Steps, Due, Stamp, Write, FlushFile, Fsync, CloseFile, At
<1> QED  BY <1>2, <1>3, <1>4, <1>5, <1>6, <1>7, <1>8

-----------------------------------------------------------------------------
(* Types *)

\* Bounds on what may be written, and a moment before the next second.
LEMMA Between == \A a, b, c \in Nat : a <= b /\ b <= c => a <= c
OBVIOUS

LEMMA BeforeSecond == \A a, b \in Nat : a <= b => a < b + Second
BY LogAssumption

\* A frame goes to the end of the current segment.
LEMMA Appended ==
    ASSUME Types, NEW f \in Frames, log' = [log EXCEPT ![seg] = Append(@, f)]
    PROVE  /\ log' \in Seq(Seq(Frames)) /\ log' # <<>> /\ Len(log') = Len(log)
           /\ seg \in 1 .. Len(log)
           /\ \A s \in 1 .. Len(log) : s # seg => log'[s] = log[s]
           /\ Len(log'[seg]) = Len(log[seg]) + 1
           /\ \A i \in 1 .. Len(log[seg]) : log'[seg][i] = log[seg][i]
           /\ log'[seg][Len(log[seg]) + 1] = f
<1>1. log \in Seq(Seq(Frames)) /\ seg \in 1 .. Len(log) /\ log[seg] \in Seq(Frames)
  BY SMTT(60) DEF Types, seg
<1> DEFINE r == Append(log[seg], f)
<1>2. /\ r \in Seq(Frames) /\ Len(r) = Len(log[seg]) + 1 /\ r[Len(log[seg]) + 1] = f
      /\ \A i \in 1 .. Len(log[seg]) : r[i] = log[seg][i]
  BY <1>1, AppendProperties
<1> HIDE DEF r
<1>3. log' = [log EXCEPT ![seg] = r]
  BY DEF r
<1>4. log' \in Seq(Seq(Frames)) /\ Len(log') = Len(log) /\ log'[seg] = r
      /\ \A s \in 1 .. Len(log) : s # seg => log'[s] = log[s]
  BY <1>1, <1>2, <1>3
<1> QED  BY <1>1, <1>2, <1>4, SMTT(60) DEF Types

\* A segment opens after the others, with everything written out.
LEMMA Opened ==
    ASSUME Types, log' = Append(log, <<>>), flushed' = Append(Emptied, 0), durable' = Append(durable, 0)
    PROVE  /\ log' \in Seq(Seq(Frames)) /\ Len(log') = Len(log) + 1 /\ log' # <<>>
           /\ flushed' \in Seq(Nat) /\ Len(flushed') = Len(log')
           /\ durable' \in Seq(Nat) /\ Len(durable') = Len(log')
           /\ \A s \in 1 .. Len(log) : log'[s] = log[s] /\ durable'[s] = durable[s]
           /\ log'[Len(log) + 1] = <<>>
           /\ \A s \in 1 .. Len(log') : durable'[s] <= flushed'[s] /\ flushed'[s] <= Len(log'[s])
<1>1. /\ log \in Seq(Seq(Frames)) /\ seg \in 1 .. Len(log) /\ Len(log) \in Nat /\ Len(log[seg]) \in Nat
      /\ flushed \in Seq(Nat) /\ Len(flushed) = Len(log)
      /\ durable \in Seq(Nat) /\ Len(durable) = Len(log)
      /\ \A s \in 1 .. Len(log) : durable[s] <= flushed[s] /\ flushed[s] <= Len(log[s])
  BY SMTT(60) DEF Types, seg
<1>2. /\ Emptied \in Seq(Nat) /\ Len(Emptied) = Len(log) /\ Emptied[seg] = Len(log[seg])
      /\ \A s \in 1 .. Len(log) : s # seg => Emptied[s] = flushed[s]
  BY <1>1 DEF Emptied
<1>3. /\ log' \in Seq(Seq(Frames)) /\ Len(log') = Len(log) + 1 /\ log'[Len(log) + 1] = <<>>
      /\ \A s \in 1 .. Len(log) : log'[s] = log[s]
  <2>1. <<>> \in Seq(Frames)
    OBVIOUS
  <2> QED  BY <1>1, <2>1, AppendProperties
<1>4. /\ flushed' \in Seq(Nat) /\ Len(flushed') = Len(log) + 1 /\ flushed'[Len(log) + 1] = 0
      /\ \A s \in 1 .. Len(log) : flushed'[s] = Emptied[s]
  BY <1>2, AppendProperties
<1>5. /\ durable' \in Seq(Nat) /\ Len(durable') = Len(log) + 1 /\ durable'[Len(log) + 1] = 0
      /\ \A s \in 1 .. Len(log) : durable'[s] = durable[s]
  <2>1. durable \in Seq(Nat) /\ 0 \in Nat /\ durable' = Append(durable, 0)
    BY <1>1
  <2>2. /\ durable' \in Seq(Nat) /\ Len(durable') = Len(durable) + 1
        /\ \A s \in 1 .. Len(durable) : durable'[s] = durable[s]
        /\ durable'[Len(durable) + 1] = 0
    BY <2>1, AppendProperties
  <2> QED  BY <1>1, <2>2
<1>6. ASSUME NEW s \in 1 .. Len(log') PROVE durable'[s] <= flushed'[s] /\ flushed'[s] <= Len(log'[s])
  <2>1. CASE s = Len(log) + 1
    BY <1>3, <1>4, <1>5, <2>1
  <2>2. CASE s = seg
    <3>1. durable[s] <= Len(log[s])
      BY <1>1, <2>2, SMTT(60)
    <3> QED  BY <1>1, <1>2, <1>3, <1>4, <1>5, <2>2, <3>1, SMTT(60)
  <2>3. CASE s # seg /\ s \in 1 .. Len(log)
    BY <1>1, <1>2, <1>3, <1>4, <1>5, <2>3
  <2>4. s = Len(log) + 1 \/ s \in 1 .. Len(log)
    <3>1. Len(log) \in Nat /\ Len(log') = Len(log) + 1
      BY <1>1, <1>3
    <3>2. s \in 1 .. Len(log) + 1
      BY <3>1
    <3> QED  BY ONLY <3>1, <3>2, SMT
  <2> QED  BY <2>1, <2>2, <2>3, <2>4
<1>7. log' # <<>>
  <2>1. Len(log') # 0
    BY <1>1, <1>3
  <2> QED  BY <1>3, <2>1, EmptySeq
<1> QED  BY <1>3, <1>4, <1>5, <1>6, <1>7

\* Every step keeps the types.
LEMMA TypesNext ==
    ASSUME Types, Locked, ~ MarkersRotate, [Next]_vars
    PROVE  Types'
<1>a. /\ None \notin Threads /\ MaxNow \in Nat /\ MaxCalls \in Nat
      /\ log \in Seq(Seq(Frames)) /\ log # <<>> /\ seg \in 1 .. Len(log) /\ Len(log[seg]) \in Nat
      /\ flushed \in Seq(Nat) /\ Len(flushed) = Len(log)
      /\ durable \in Seq(Nat) /\ Len(durable) = Len(log)
      /\ \A s \in 1 .. Len(log) : durable[s] <= flushed[s] /\ flushed[s] <= Len(log[s])
  BY LogAssumption DEF Types, seg
<1>1. CASE UNCHANGED vars
  BY <1>1 DEF Types, vars, files, locks
<1>2. CASE Tick
  <2>1. now \in 0 .. MaxNow /\ now + 1 \in 0 .. MaxNow
    BY <1>2, <1>a DEF Tick, Types
  <2> QED  BY <1>2, <2>1, SMTT(60) DEF Tick, Types, files, locks
<1>3. ASSUME NEW t \in Threads,
             \/ Put(t) \/ Commit(t) \/ Close(t) \/ Lock(t) \/ Unlock(t) \/ Enter(t) \/ Puts(t)
             \/ Leave(t) \/ Fail(t) \/ Open(t) \/ Full(t) \/ Spill(t) \/ Shut(t) \/ Drop(t)
      PROVE  Types'
  <2>1. todo' \in [Threads -> Seq(Steps)]
    BY <1>3, QuietControl
  <2>2. UNCHANGED <<mode, log, flushed, durable, last, now, saved>>
    BY <1>3 DEF Put, Commit, Close, Call, Lock, Unlock, Enter, Puts, Leave, Fail, Open, Full, Spill, Shut, Drop,
                files, locks
  <2>3. /\ file' \in {"open", "closed", "none"}
        /\ tree' \in Threads \cup {None} /\ manager' \in Threads \cup {None}
    BY <1>3 DEF Types, Put, Commit, Close, Call, Lock, Unlock, Enter, Puts, Leave, Fail, Release, Open, Full,
                Spill, Shut, Drop, files, locks
  <2>4. calls' \in 0 .. MaxCalls
    <3>1. calls' = calls \/ (calls < MaxCalls /\ calls' = calls + 1)
      BY <1>3 DEF Put, Commit, Close, Call, Lock, Unlock, Enter, Puts, Leave, Fail, Open, Full, Spill, Shut, Drop
    <3>2. calls \in 0 .. MaxCalls
      BY DEF Types
    <3> QED  BY <1>a, <3>1, <3>2, SMTT(60)
  <2> QED  BY <2>1, <2>2, <2>3, <2>4 DEF Types
<1>4. ASSUME NEW t \in Threads,
             \/ Due(t) \/ Stamp(t) \/ Write(t) \/ FlushFile(t) \/ Fsync(t) \/ CloseFile(t) \/ NextSegment(t)
      PROVE  Types'
  <2>1. todo' \in [Threads -> Seq(Steps)]
    BY <1>4, SyncControl
  <2>2. /\ mode' = mode /\ now' = now /\ UNCHANGED locks /\ calls' = calls
        /\ file' \in {"open", "closed", "none"}
    BY <1>4 DEF Types, Due, Stamp, Write, FlushFile, Fsync, CloseFile, NextSegment, files
  <2>3. last' \in 0 .. now /\ saved' \in [Threads -> 0 .. now]
    BY <1>4, SMTT(60) DEF Types, Due, Stamp, Write, FlushFile, Fsync, CloseFile, NextSegment, files
  <2>4. /\ log' \in Seq(Seq(Frames)) /\ log' # <<>>
        /\ flushed' \in Seq(Nat) /\ Len(flushed') = Len(log')
        /\ durable' \in Seq(Nat) /\ Len(durable') = Len(log')
        /\ \A s \in 1 .. Len(log') : durable'[s] <= flushed'[s] /\ flushed'[s] <= Len(log'[s])
    <3>1. CASE Due(t) \/ Stamp(t)
      BY <1>a, <3>1 DEF Due, Stamp, files
    <3>2. CASE Write(t)
      <4>1. PICK kind \in {"write", "mark"} :
              log' = [log EXCEPT ![seg] = Append(@, [kind |-> kind, by |-> t, time |-> now])]
        BY <3>2 DEF Write
      <4>2. [kind |-> kind, by |-> t, time |-> now] \in Frames
        BY DEF Types, Frames
      <4>3. flushed' = flushed /\ durable' = durable
        BY <3>2 DEF Write
      <4>4. /\ log' \in Seq(Seq(Frames)) /\ log' # <<>> /\ Len(log') = Len(log)
            /\ \A s \in 1 .. Len(log) : s # seg => log'[s] = log[s]
            /\ Len(log'[seg]) = Len(log[seg]) + 1
        BY <4>1, <4>2, Appended
      <4>5. \A s \in 1 .. Len(log) : Len(log[s]) \in Nat /\ flushed[s] \in Nat /\ Len(log[s]) <= Len(log'[s])
        <5> SUFFICES ASSUME NEW s \in 1 .. Len(log)
                     PROVE  Len(log[s]) \in Nat /\ flushed[s] \in Nat /\ Len(log[s]) <= Len(log'[s])
          OBVIOUS
        <5>1. log[s] \in Seq(Frames) /\ flushed[s] \in Nat
          BY <1>a, SMTT(60)
        <5>2. Len(log[s]) \in Nat
          BY <5>1
        <5> QED  BY <4>4, <5>1, <5>2
      <4>6. ASSUME NEW s \in 1 .. Len(log) PROVE flushed[s] <= Len(log'[s])
        <5>1. flushed[s] <= Len(log[s]) /\ Len(log'[s]) \in Nat
          BY <1>a, <4>4, SMTT(60)
        <5>2. Len(log[s]) \in Nat /\ flushed[s] \in Nat /\ Len(log[s]) <= Len(log'[s])
          BY <4>5
        <5> QED  BY ONLY <5>1, <5>2, Between, Zenon
      <4> QED  BY <1>a, <4>3, <4>4, <4>6
    <3>3. CASE FlushFile(t)
      <4>1. log' = log /\ durable' = durable
        BY <3>3 DEF FlushFile
      <4>2. flushed' = flushed \/ flushed' = [flushed EXCEPT ![seg] = Len(log[seg])]
        BY <3>3 DEF FlushFile
      <4>3. durable[seg] <= Len(log[seg])
        BY <1>a
      <4>4. CASE flushed' = flushed
        BY <1>a, <4>1, <4>4
      <4>5. CASE flushed' = [flushed EXCEPT ![seg] = Len(log[seg])]
        <5>1. flushed' \in Seq(Nat) /\ Len(flushed') = Len(flushed) /\ flushed'[seg] = Len(log[seg])
              /\ \A s \in 1 .. Len(log) : s # seg => flushed'[s] = flushed[s]
          BY <1>a, <4>5
        <5>2. ASSUME NEW s \in 1 .. Len(log)
              PROVE  durable[s] <= flushed'[s] /\ flushed'[s] <= Len(log[s])
          <6>1. CASE s = seg
            BY <4>3, <5>1, <6>1
          <6>2. CASE s # seg
            BY <1>a, <5>1, <6>2
          <6> QED  BY <6>1, <6>2
        <5> QED  BY <1>a, <4>1, <5>1, <5>2
      <4> QED  BY <4>2, <4>4, <4>5
    <3>4. CASE Fsync(t)
      BY <1>a, <3>4, SMTT(60) DEF Fsync, Synced
    <3>5. CASE CloseFile(t)
      BY <1>a, <3>5, SMTT(60) DEF CloseFile, Emptied
    <3>6. CASE NextSegment(t)
      BY <3>6, Opened DEF NextSegment
    <3> QED  BY <1>4, <3>1, <3>2, <3>3, <3>4, <3>5, <3>6
  <2> QED  BY <2>1, <2>2, <2>3, <2>4 DEF Types, locks
<1> QED  BY <1>1, <1>2, <1>3, <1>4 DEF Next, Step

-----------------------------------------------------------------------------
(* The frames at risk *)

Safe == LeftSafe /\ SyncSafe /\ AlwaysSafe /\ StampSafe

\* The files as they are, and all threads but one as they are: what is safe stays safe
\* when that one is outside of a sync, and was before unless nothing is at risk.
LEMMA QuietSafe ==
    ASSUME Types, Safe, NEW t \in Threads, Others(t), Plain(t)',
           UNCHANGED <<mode, log, flushed, durable, last, saved>>,
           file' # "open" => NoRisk,
           (~ At(t, "due") /\ ~ At(t, "flush") /\ ~ At(t, "fsync")) \/ NoRisk
    PROVE  Safe'
<1>1. \A s, i \in Nat : (IsWrite(s, i)' <=> IsWrite(s, i)) /\ (Risky(s, i)' <=> Risky(s, i))
  BY DEF IsWrite, Risky
<1>2. seg' = seg /\ (NoRisk' <=> NoRisk)
  BY <1>1 DEF seg, NoRisk
<1>3. ASSUME NEW u \in Threads, u # t
      PROVE  /\ \A x : At(u, x)' <=> At(u, x)
             /\ Flushing(u)' <=> Flushing(u)
             /\ Syncing(u)' <=> Syncing(u)
             /\ Pushed(u)' <=> Pushed(u)
  <2>1. todo'[u] = todo[u] /\ (tree' = u <=> tree = u)
    BY <1>3 DEF Others
  <2>2. seg \in Nat
    BY DEF Types, seg
  <2> QED  BY <1>1, <1>2, <2>1, <2>2 DEF At, Flushing, Syncing, Pushed
<1>4. LeftSafe'
  BY <1>1, <1>2 DEF Safe, LeftSafe
<1>5. SyncSafe'
  <2> SUFFICES ASSUME NEW u \in Threads
               PROVE  /\ At(u, "fsync")' => Pushed(u)'
                      /\ At(u, "close")' \/ At(u, "next")' \/ At(u, "drop")' => NoRisk'
                      /\ At(u, "leave")' => \A s, i \in Nat : Risky(s, i)' => log'[s][i].by # u
    BY DEF SyncSafe
  <2>1. CASE u = t
    BY <2>1 DEF Plain
  <2>2. CASE u # t
    BY <1>1, <1>2, <1>3, <2>2 DEF Safe, SyncSafe
  <2> QED  BY <2>1, <2>2
<1>6. AlwaysSafe'
  <2> SUFFICES ASSUME mode = "always", NEW u \in Threads
               PROVE  \/ At(u, "due")' \/ At(u, "flush")' \/ At(u, "fsync")'
                      \/ \A s, i \in Nat : Risky(s, i)' => log'[s][i].by # u
    BY DEF AlwaysSafe
  <2>1. CASE u = t
    BY <1>1, <2>1 DEF Safe, AlwaysSafe, NoRisk
  <2>2. CASE u # t
    BY <1>1, <1>3, <2>2 DEF Safe, AlwaysSafe
  <2> QED  BY <2>1, <2>2
<1>7. StampSafe'
  <2>1. \A x : Since(x)' <=> Since(x)
    BY <1>1 DEF Since
  <2>2. ASSUME NEW u \in Threads
        PROVE  /\ Syncing(u)' =>
                    \A i \in Nat : IsWrite(seg, i)' /\ i > flushed'[seg'] => saved'[u] <= log'[seg'][i].time
               /\ At(u, "stamp")' => Since(saved[u])
               /\ mode = "every_sec" =>
                    \/ Flushing(u)' \/ Syncing(u)'
                    \/ \A s, i \in Nat : Risky(s, i)' => saved[u] < log'[s][i].time + Second
    <3>1. CASE u = t
      <4>1. ~ Syncing(u)' /\ ~ At(u, "stamp")'
        BY <3>1 DEF Plain, Syncing
      <4>2. (~ Flushing(u) /\ ~ Syncing(u)) \/ NoRisk
        BY <3>1 DEF Flushing, Syncing
      <4> QED  BY <1>1, <4>1, <4>2 DEF Safe, StampSafe, NoRisk
    <3>2. CASE u # t
      <4>1. seg \in Nat
        BY DEF Types, seg
      <4> QED  BY <1>1, <1>2, <1>3, <3>2, <4>1 DEF Safe, StampSafe
    <3> QED  BY <3>1, <3>2
  <2> QED  BY <2>1, <2>2 DEF Safe, StampSafe
<1> QED  BY <1>4, <1>5, <1>6, <1>7 DEF Safe

\* When nothing is at risk and the current segment has left the process, all is safe.
LEMMA NoRiskSafe ==
    ASSUME Types', NoRisk', \A i \in Nat : IsWrite(seg, i)' => i <= flushed'[seg']
    PROVE  Safe'
<1>1. LeftSafe'
  BY DEF LeftSafe, NoRisk
<1>2. SyncSafe'
  BY DEF SyncSafe, Pushed, NoRisk
<1>3. AlwaysSafe'
  BY DEF AlwaysSafe, NoRisk
<1>4. StampSafe'
  <2>1. flushed'[seg'] \in Nat
    BY SMTT(60) DEF Types, seg
  <2>2. \A i \in Nat : ~ (IsWrite(seg, i)' /\ i > flushed'[seg'])
    BY <2>1
  <2> QED  BY <2>2 DEF StampSafe, Since, NoRisk
<1> QED  BY <1>1, <1>2, <1>3, <1>4 DEF Safe

\* The actions that move no frame.
LEMMA QuietStep ==
    ASSUME Types, Locked, Safe, ~ MarkersRotate, NEW t \in Threads,
           \/ Put(t) \/ Commit(t) \/ Close(t) \/ Lock(t) \/ Unlock(t) \/ Enter(t) \/ Puts(t)
           \/ Leave(t) \/ Fail(t) \/ Open(t) \/ Full(t) \/ Spill(t) \/ Shut(t) \/ Drop(t)
    PROVE  Safe'
<1>1. Others(t) /\ Plain(t)'
  BY QuietControl
<1>2. UNCHANGED <<mode, log, flushed, durable, last, saved>>
  BY DEF Put, Commit, Close, Call, Lock, Unlock, Enter, Puts, Leave, Fail, Open, Full, Spill, Shut, Drop,
         files, locks
<1>3. file' # "open" => NoRisk
  <2>1. CASE Drop(t)
    BY <2>1 DEF Drop, Safe, SyncSafe
  <2>2. CASE Open(t)
    BY <2>2 DEF Open, Safe, LeftSafe
  <2>3. CASE ~ Drop(t) /\ ~ Open(t)
    <3>1. file' = file
      BY <2>3 DEF Put, Commit, Close, Call, Lock, Unlock, Enter, Puts, Leave, Fail, Full, Spill, Shut, files
    <3> QED  BY <3>1 DEF Safe, LeftSafe
  <2> QED  BY <2>1, <2>2, <2>3
<1>4. (~ At(t, "due") /\ ~ At(t, "flush") /\ ~ At(t, "fsync")) \/ NoRisk
  <2>1. CASE Fail(t)
    BY <2>1 DEF Fail, Safe, LeftSafe
  <2>2. CASE ~ Fail(t)
    BY <2>2 DEF Put, Commit, Close, Call, Lock, Unlock, Enter, Puts, Leave, Open, Full, Spill, Shut, Drop, At
  <2> QED  BY <2>1, <2>2
<1> QED  BY <1>1, <1>2, <1>3, <1>4, QuietSafe

\* append() decides whether to sync.
LEMMA DueStep ==
    ASSUME Types, Locked, Safe, NEW t \in Threads, Due(t)
    PROVE  Safe'
<1>1. /\ Others(t) /\ Plain(t)'
      /\ mode = "always" => At(t, "flush")'
      /\ mode = "every_sec" /\ Elapsed => Flushing(t)'
  BY SyncControl
<1>2. /\ UNCHANGED <<mode, log, flushed, durable, file, last>>
      /\ saved'[t] = now /\ \A u \in Threads \ {t} : saved'[u] = saved[u]
  BY DEF Due, files, Types
<1>3. \A s, i \in Nat : (IsWrite(s, i)' <=> IsWrite(s, i)) /\ (Risky(s, i)' <=> Risky(s, i))
  BY <1>2 DEF IsWrite, Risky
<1>4. seg' = seg /\ (NoRisk' <=> NoRisk) /\ seg \in Nat
  BY <1>2, <1>3, SMTT(60) DEF seg, NoRisk, Types
<1>5. ASSUME NEW u \in Threads, u # t
      PROVE  /\ \A x : At(u, x)' <=> At(u, x)
             /\ Flushing(u)' <=> Flushing(u)
             /\ Syncing(u)' <=> Syncing(u)
             /\ Pushed(u)' <=> Pushed(u)
  <2>1. todo'[u] = todo[u] /\ (tree' = u <=> tree = u)
    BY <1>1, <1>5 DEF Others
  <2> QED  BY <1>2, <1>3, <1>4, <2>1 DEF At, Flushing, Syncing, Pushed
<1>6. LeftSafe'
  BY <1>2, <1>3, <1>4 DEF Safe, LeftSafe
<1>7. SyncSafe'
  <2> SUFFICES ASSUME NEW u \in Threads
               PROVE  /\ At(u, "fsync")' => Pushed(u)'
                      /\ At(u, "close")' \/ At(u, "next")' \/ At(u, "drop")' => NoRisk'
                      /\ At(u, "leave")' => \A s, i \in Nat : Risky(s, i)' => log'[s][i].by # u
    BY DEF SyncSafe
  <2>1. CASE u = t
    BY <1>1, <2>1 DEF Plain
  <2>2. CASE u # t
    BY <1>2, <1>3, <1>4, <1>5, <2>2 DEF Safe, SyncSafe
  <2> QED  BY <2>1, <2>2
<1>8. AlwaysSafe'
  <2> SUFFICES ASSUME mode = "always", NEW u \in Threads
               PROVE  \/ At(u, "due")' \/ At(u, "flush")' \/ At(u, "fsync")'
                      \/ \A s, i \in Nat : Risky(s, i)' => log'[s][i].by # u
    BY <1>2 DEF AlwaysSafe
  <2>1. CASE u = t
    BY <1>1, <2>1
  <2>2. CASE u # t
    BY <1>2, <1>3, <1>5, <2>2 DEF Safe, AlwaysSafe
  <2> QED  BY <2>1, <2>2
<1>9. StampSafe'
  <2>1. Since(last)'
    BY <1>2, <1>3 DEF Since, Safe, StampSafe
  <2>2. ASSUME NEW u \in Threads
        PROVE  /\ Syncing(u)' =>
                    \A i \in Nat : IsWrite(seg, i)' /\ i > flushed'[seg'] => saved'[u] <= log'[seg'][i].time
               /\ At(u, "stamp")' => Since(saved[u])'
               /\ mode = "every_sec" =>
                    \/ Flushing(u)' \/ Syncing(u)'
                    \/ \A s, i \in Nat : Risky(s, i)' => saved'[u] < log'[s][i].time + Second
    <3>1. CASE u = t
      <4>1. ~ Syncing(u)' /\ ~ At(u, "stamp")'
        BY <1>1, <3>1 DEF Plain, Syncing
      <4>2. ASSUME mode = "every_sec", ~ Elapsed, NEW s \in Nat, NEW i \in Nat, Risky(s, i)'
            PROVE  saved'[u] < log'[s][i].time + Second
        <5>1. last <= log[s][i].time /\ log[s][i].time \in Nat
          <6>1. log[s][i] \in Frames
            <7>1. s \in 1 .. Len(log) /\ i \in 1 .. Len(log[s])
              BY <1>3, <4>2 DEF Risky, IsWrite
            <7>2. log[s] \in Seq(Frames)
              BY <7>1 DEF Types
            <7> QED  BY <7>1, <7>2
          <6>2. log[s][i].time \in 0 .. MaxNow
            BY <6>1 DEF Frames
          <6> QED  BY <1>3, <4>2, <6>2, LogAssumption DEF Since, Safe, StampSafe
        <5>2. now < last + Second /\ now \in Nat /\ last \in Nat /\ Second \in Nat
          BY <4>2, LogAssumption DEF Elapsed, Types
        <5> QED  BY <1>2, <3>1, <5>1, <5>2
      <4> QED  BY <1>1, <3>1, <4>1, <4>2
    <3>2. CASE u # t
      <4>1. Since(saved[u])' <=> Since(saved[u])
        BY <1>2, <1>3, <3>2 DEF Since
      <4> QED  BY <1>2, <1>3, <1>4, <1>5, <3>2, <4>1 DEF Safe, StampSafe
    <3> QED  BY <3>1, <3>2
  <2> QED  BY <1>2, <2>1, <2>2 DEF StampSafe
<1> QED  BY <1>6, <1>7, <1>8, <1>9 DEF Safe

\* A sync that was due has been done, and is stamped.
LEMMA StampStep ==
    ASSUME Types, Locked, Safe, NEW t \in Threads, Stamp(t)
    PROVE  Safe'
<1>1. Others(t) /\ Plain(t)'
  BY SyncControl
<1>2. /\ UNCHANGED <<mode, log, flushed, durable, file, saved>>
      /\ last' = saved[t] /\ At(t, "stamp")
  BY DEF Stamp, files
<1>3. \A s, i \in Nat : (IsWrite(s, i)' <=> IsWrite(s, i)) /\ (Risky(s, i)' <=> Risky(s, i))
  BY <1>2 DEF IsWrite, Risky
<1>4. seg' = seg /\ (NoRisk' <=> NoRisk) /\ seg \in Nat
  BY <1>2, <1>3, SMTT(60) DEF seg, NoRisk, Types
<1>5. ASSUME NEW u \in Threads, u # t
      PROVE  /\ \A x : At(u, x)' <=> At(u, x)
             /\ Flushing(u)' <=> Flushing(u)
             /\ Syncing(u)' <=> Syncing(u)
             /\ Pushed(u)' <=> Pushed(u)
  <2>1. todo'[u] = todo[u] /\ (tree' = u <=> tree = u)
    BY <1>1, <1>5 DEF Others
  <2> QED  BY <1>2, <1>3, <1>4, <2>1 DEF At, Flushing, Syncing, Pushed
<1>6. LeftSafe'
  BY <1>2, <1>3, <1>4 DEF Safe, LeftSafe
<1>7. SyncSafe'
  <2> SUFFICES ASSUME NEW u \in Threads
               PROVE  /\ At(u, "fsync")' => Pushed(u)'
                      /\ At(u, "close")' \/ At(u, "next")' \/ At(u, "drop")' => NoRisk'
                      /\ At(u, "leave")' => \A s, i \in Nat : Risky(s, i)' => log'[s][i].by # u
    BY DEF SyncSafe
  <2>1. CASE u = t
    BY <1>1, <2>1 DEF Plain
  <2>2. CASE u # t
    BY <1>2, <1>3, <1>4, <1>5, <2>2 DEF Safe, SyncSafe
  <2> QED  BY <2>1, <2>2
<1>8. AlwaysSafe'
  <2> SUFFICES ASSUME mode = "always", NEW u \in Threads
               PROVE  \/ At(u, "due")' \/ At(u, "flush")' \/ At(u, "fsync")'
                      \/ \A s, i \in Nat : Risky(s, i)' => log'[s][i].by # u
    BY <1>2 DEF AlwaysSafe
  <2>1. CASE u = t
    BY <1>2, <1>3, <2>1 DEF Safe, AlwaysSafe, At
  <2>2. CASE u # t
    BY <1>2, <1>3, <1>5, <2>2 DEF Safe, AlwaysSafe
  <2> QED  BY <2>1, <2>2
<1>9. StampSafe'
  <2>1. Since(last)'
    BY <1>2, <1>3 DEF Since, Safe, StampSafe
  <2>2. ASSUME NEW u \in Threads
        PROVE  /\ Syncing(u)' =>
                    \A i \in Nat : IsWrite(seg, i)' /\ i > flushed'[seg'] => saved'[u] <= log'[seg'][i].time
               /\ At(u, "stamp")' => Since(saved[u])'
               /\ mode = "every_sec" =>
                    \/ Flushing(u)' \/ Syncing(u)'
                    \/ \A s, i \in Nat : Risky(s, i)' => saved'[u] < log'[s][i].time + Second
    <3>1. CASE u = t
      <4>1. ~ Syncing(u)' /\ ~ At(u, "stamp")'
        BY <1>1, <3>1 DEF Plain, Syncing
      <4>2. ~ Flushing(u) /\ ~ Syncing(u)
        BY <1>2, <3>1 DEF Flushing, Syncing, At
      <4> QED  BY <1>2, <1>3, <4>1, <4>2 DEF Safe, StampSafe
    <3>2. CASE u # t
      <4>1. Since(saved[u])' <=> Since(saved[u])
        BY <1>2, <1>3 DEF Since
      <4> QED  BY <1>2, <1>3, <1>4, <1>5, <3>2, <4>1 DEF Safe, StampSafe
    <3> QED  BY <3>1, <3>2
  <2> QED  BY <1>2, <2>1, <2>2 DEF StampSafe
<1> QED  BY <1>6, <1>7, <1>8, <1>9 DEF Safe

\* append() writes a frame.
LEMMA WriteStep ==
    ASSUME Types, Locked, Safe, NEW t \in Threads, Write(t)
    PROVE  Safe'
<1>1. /\ Others(t) /\ tree' = tree
      /\ \A x \in {"fsync", "close", "next", "drop", "leave", "stamp"} : ~ At(t, x)'
      /\ At(t, "write") => At(t, "due")'
  BY SyncControl
<1>2. UNCHANGED <<mode, flushed, durable, file, last, saved>> /\ file = "open"
  BY DEF Write
<1>3. PICK kind \in {"write", "mark"} :
        /\ At(t, kind)
        /\ log' = [log EXCEPT ![seg] = Append(@, [kind |-> kind, by |-> t, time |-> now])]
  BY DEF Write
<1> DEFINE f == [kind |-> kind, by |-> t, time |-> now]
<1>4. f \in Frames
  BY DEF Frames, Types
<1>5. /\ Len(log') = Len(log) /\ seg \in 1 .. Len(log) /\ seg' = seg
      /\ \A s \in 1 .. Len(log) : s # seg => log'[s] = log[s]
      /\ Len(log'[seg]) = Len(log[seg]) + 1
      /\ \A i \in 1 .. Len(log[seg]) : log'[seg][i] = log[seg][i]
      /\ log'[seg][Len(log[seg]) + 1] = f
  BY <1>3, <1>4, Appended DEF seg
<1>6. /\ \A s \in 1 .. Len(log) : log[s] \in Seq(Frames)
      /\ durable[seg] \in Nat /\ Second \in Nat \ {0}
      /\ now \in Nat /\ last <= now /\ \A u \in Threads : saved[u] \in Nat /\ saved[u] <= now
  <2>1. /\ log \in Seq(Seq(Frames)) /\ durable \in Seq(Nat) /\ Len(durable) = Len(log)
        /\ now \in 0 .. MaxNow /\ last \in 0 .. now /\ saved \in [Threads -> 0 .. now]
        /\ MaxNow \in Nat /\ Second \in Nat \ {0}
    BY LogAssumption DEF Types
  <2>2. durable[seg] \in Nat /\ \A s \in 1 .. Len(log) : log[s] \in Seq(Frames)
    BY <1>5, <2>1, SMTT(60)
  <2>3. now \in Nat /\ last <= now
    BY <2>1
  <2>4. \A u \in Threads : saved[u] \in Nat /\ saved[u] <= now
    BY <2>1, <2>3
  <2> QED  BY <2>1, <2>2, <2>3, <2>4
\* The writes are those there were, and the one of a put.
<1>7. ASSUME NEW s \in Nat, NEW i \in Nat, IsWrite(s, i)'
      PROVE  \/ IsWrite(s, i) /\ log'[s][i] = log[s][i] /\ (Risky(s, i)' => Risky(s, i))
             \/ /\ s = seg /\ kind = "write" /\ tree = t
                /\ log'[s][i].by = t /\ log'[s][i].time = now
  <2>1. s \in 1 .. Len(log) /\ i \in 1 .. Len(log'[s]) /\ log'[s][i].kind = "write"
    BY <1>5, <1>7 DEF IsWrite
  <2>2. CASE s # seg
    <3>1. log'[s] = log[s]
      BY <1>5, <2>1, <2>2
    <3> QED  BY <1>2, <2>1, <3>1 DEF IsWrite, Risky
  <2>3. CASE s = seg /\ i \in 1 .. Len(log[seg])
    <3>1. log'[s][i] = log[s][i]
      BY <1>5, <2>3
    <3> QED  BY <1>2, <2>1, <2>3, <3>1 DEF IsWrite, Risky
  <2>4. CASE s = seg /\ i = Len(log[seg]) + 1
    <3>1. log'[s][i] = f
      BY <1>5, <2>4
    <3>2. kind = "write"
      BY <2>1, <3>1
    <3>3. tree = t
      BY <1>3, <3>2, InsideHolds DEF Inside
    <3> QED  BY <2>4, <3>1, <3>2, <3>3
  <2>5. i \in 1 .. Len(log[seg]) \/ i = Len(log[seg]) + 1 \/ s # seg
    <3>1. Len(log[seg]) \in Nat
      BY <1>5, <1>6
    <3>2. CASE s = seg
      <4>1. i \in 1 .. Len(log[seg]) + 1
        BY <1>5, <2>1, <3>2
      <4> QED  BY ONLY <3>1, <4>1, SMT
    <3> QED  BY <3>2
  <2> QED  BY <2>2, <2>3, <2>4, <2>5
<1>8. ASSUME NEW s \in Nat, NEW i \in Nat, Risky(s, i)'
      PROVE  \/ Risky(s, i) /\ log'[s][i] = log[s][i]
             \/ /\ s = seg /\ kind = "write" /\ tree = t
                /\ log'[s][i].by = t /\ log'[s][i].time = now
  BY <1>7, <1>8 DEF Risky
<1> HIDE DEF f
<1>b. ASSUME NEW i \in Nat, IsWrite(seg, i)'
      PROVE  \/ IsWrite(seg, i) /\ log'[seg][i] = log[seg][i]
             \/ tree = t /\ log'[seg][i].by = t /\ log'[seg][i].time = now
  BY <1>5, <1>7, <1>b DEF IsWrite, seg
<1>9. ASSUME NEW u \in Threads, u # t
      PROVE  /\ \A x : At(u, x)' <=> At(u, x)
             /\ Flushing(u)' <=> Flushing(u)
             /\ Syncing(u)' <=> Syncing(u)
             /\ Pushed(u) => Pushed(u)'
  <2>1. todo'[u] = todo[u] /\ (tree' = u <=> tree = u)
    BY <1>1, <1>9 DEF Others
  <2>2. Pushed(u) => Pushed(u)'
    <3> SUFFICES ASSUME Pushed(u), NEW i \in Nat, IsWrite(seg, i)', log'[seg][i].by = u \/ tree = u
                 PROVE  i <= flushed[seg]
      BY <1>2, <1>5, <2>1 DEF Pushed
    <3>1. IsWrite(seg, i) /\ log'[seg][i] = log[seg][i]
      BY <1>9, <1>b
    <3> QED  BY <3>1 DEF Pushed
  <2> QED  BY <2>1, <2>2 DEF At, Flushing, Syncing
<1>10. LeftSafe'
  BY <1>2, <1>5, <1>8 DEF Safe, LeftSafe
<1>11. SyncSafe'
  <2> SUFFICES ASSUME NEW u \in Threads
               PROVE  /\ At(u, "fsync")' => Pushed(u)'
                      /\ At(u, "close")' \/ At(u, "next")' \/ At(u, "drop")' => NoRisk'
                      /\ At(u, "leave")' => \A s, i \in Nat : Risky(s, i)' => log'[s][i].by # u
    BY DEF SyncSafe
  <2>1. CASE u = t
    BY <1>1, <2>1
  <2>2. CASE u # t
    <3>1. At(u, "close") \/ At(u, "next") \/ At(u, "drop") => NoRisk'
      <4> SUFFICES ASSUME At(u, "close") \/ At(u, "next") \/ At(u, "drop"), NEW s \in Nat, NEW i \in Nat
                   PROVE  ~ Risky(s, i)'
        BY DEF NoRisk
      <4>1. tree = u
        BY InsideHolds DEF Inside
      <4> QED  BY <1>8, <2>2, <4>1 DEF Safe, SyncSafe, NoRisk
    <3>2. At(u, "leave") => \A s, i \in Nat : Risky(s, i)' => log'[s][i].by # u
      BY <1>8, <2>2 DEF Safe, SyncSafe
    <3> QED  BY <1>9, <2>2, <3>1, <3>2 DEF Safe, SyncSafe
  <2> QED  BY <2>1, <2>2
<1>12. AlwaysSafe'
  <2> SUFFICES ASSUME mode = "always", NEW u \in Threads
               PROVE  \/ At(u, "due")' \/ At(u, "flush")' \/ At(u, "fsync")'
                      \/ \A s, i \in Nat : Risky(s, i)' => log'[s][i].by # u
    BY <1>2 DEF AlwaysSafe
  <2>1. CASE u = t /\ kind = "write"
    BY <1>1, <1>3, <2>1
  <2>2. CASE u = t /\ kind = "mark"
    <3>1. ~ At(u, "due") /\ ~ At(u, "flush") /\ ~ At(u, "fsync")
      BY <1>3, <2>2 DEF At
    <3> QED  BY <1>8, <2>2, <3>1 DEF Safe, AlwaysSafe
  <2>3. CASE u # t
    BY <1>8, <1>9, <2>3 DEF Safe, AlwaysSafe
  <2> QED  BY <2>1, <2>2, <2>3
<1>13. StampSafe'
  <2>1. Since(last)'
    <3> SUFFICES ASSUME NEW s \in Nat, NEW i \in Nat, Risky(s, i)'
                 PROVE  last <= log'[s][i].time
      BY <1>2 DEF Since
    <3> QED  BY <1>6, <1>8 DEF Since, Safe, StampSafe
  <2>2. ASSUME NEW u \in Threads
        PROVE  /\ Syncing(u)' =>
                    \A i \in Nat : IsWrite(seg, i)' /\ i > flushed'[seg'] => saved'[u] <= log'[seg'][i].time
               /\ At(u, "stamp")' => Since(saved[u])'
               /\ mode = "every_sec" =>
                    \/ Flushing(u)' \/ Syncing(u)'
                    \/ \A s, i \in Nat : Risky(s, i)' => saved'[u] < log'[s][i].time + Second
    <3>1. ~ Flushing(u) /\ ~ Syncing(u) =>
             \A s, i \in Nat : Risky(s, i)' /\ mode = "every_sec" => saved[u] < log'[s][i].time + Second
      <4> SUFFICES ASSUME ~ Flushing(u), ~ Syncing(u), NEW s \in Nat, NEW i \in Nat, Risky(s, i)',
                          mode = "every_sec"
                   PROVE  saved[u] < log'[s][i].time + Second
        OBVIOUS
      <4>1. CASE Risky(s, i) /\ log'[s][i] = log[s][i]
        BY <4>1 DEF Safe, StampSafe
      <4>2. CASE log'[s][i].time = now
        BY <1>6, <4>2
      <4> QED  BY <1>8, <4>1, <4>2
    <3>2. CASE u = t
      <4>1. ~ Syncing(u)' /\ ~ At(u, "stamp")'
        BY <1>1, <3>2 DEF Syncing
      <4>2. ~ Flushing(u) /\ ~ Syncing(u)
        BY <1>3, <3>2 DEF Flushing, Syncing, At
      <4> QED  BY <1>2, <3>1, <4>1, <4>2
    <3>3. CASE u # t
      <4>1. At(u, "stamp") => Since(saved[u])'
        <5> SUFFICES ASSUME At(u, "stamp"), NEW s \in Nat, NEW i \in Nat, Risky(s, i)'
                     PROVE  saved[u] <= log'[s][i].time
          BY <1>2 DEF Since
        <5>1. CASE Risky(s, i) /\ log'[s][i] = log[s][i]
          BY <5>1 DEF Since, Safe, StampSafe
        <5>2. CASE log'[s][i].time = now
          BY <1>6, <5>2
        <5> QED  BY <1>8, <5>1, <5>2
      <4>2. ASSUME Syncing(u), NEW i \in Nat, IsWrite(seg, i)', i > flushed[seg]
            PROVE  saved[u] <= log'[seg][i].time
        <5>2. CASE IsWrite(seg, i) /\ log'[seg][i] = log[seg][i]
          BY <4>2, <5>2 DEF Safe, StampSafe
        <5>3. CASE log'[seg][i].time = now
          BY <1>6, <5>3
        <5> QED  BY <1>b, <4>2, <5>2, <5>3
      <4>3. mode' = mode /\ saved' = saved /\ flushed' = flushed /\ seg' = seg
        BY <1>2, <1>5
      <4> QED  BY <1>9, <3>1, <3>3, <4>1, <4>2, <4>3
    <3> QED  BY <3>2, <3>3
  <2> QED  BY <1>2, <2>1, <2>2 DEF StampSafe
<1> QED  BY <1>10, <1>11, <1>12, <1>13 DEF Safe

\* flush(): what is written so far leaves the process.
LEMMA FlushStep ==
    ASSUME Types, Locked, Safe, Types', NEW t \in Threads, FlushFile(t)
    PROVE  Safe'
<1>1. /\ Others(t) /\ tree' = tree
      /\ \A x \in {"next", "drop", "due"} : ~ At(t, x)'
      /\ file = "open" => At(t, "fsync")' /\ (Flushing(t) => Syncing(t)')
      /\ file # "open" => ~ At(t, "fsync")'
  BY SyncControl
<1>2. UNCHANGED <<mode, log, durable, file, last, saved>> /\ At(t, "flush")
  BY DEF FlushFile
<1>3. \A s, i \in Nat : (IsWrite(s, i)' <=> IsWrite(s, i)) /\ (Risky(s, i)' <=> Risky(s, i))
  BY <1>2 DEF IsWrite, Risky
<1>4. seg' = seg /\ (NoRisk' <=> NoRisk) /\ seg \in Nat
  <2>1. seg' = seg /\ seg \in Nat
    BY <1>2 DEF seg, Types
  <2> QED  BY <1>3, <2>1 DEF NoRisk
<1>5. /\ flushed[seg] \in Nat /\ flushed'[seg] \in Nat /\ flushed[seg] <= flushed'[seg]
      /\ file = "open" => flushed'[seg] = Len(log[seg])
  <2>1. /\ seg \in 1 .. Len(log) /\ log \in Seq(Seq(Frames)) /\ flushed \in Seq(Nat) /\ Len(flushed) = Len(log)
        /\ flushed[seg] <= Len(log[seg]) /\ flushed[seg] \in Nat
    <3>1. /\ log \in Seq(Seq(Frames)) /\ log # <<>> /\ flushed \in Seq(Nat) /\ Len(flushed) = Len(log)
          /\ \A s \in 1 .. Len(log) : flushed[s] <= Len(log[s])
      BY DEF Types
    <3>2. Len(log) \in 1 .. Len(log)
      BY <3>1
    <3> QED  BY <3>1, <3>2 DEF seg
  <2>2. Len(log[seg]) \in Nat
    BY <2>1
  <2>3. CASE file = "open"
    <3>1. flushed' = [flushed EXCEPT ![seg] = Len(log[seg])]
      BY <2>3 DEF FlushFile
    <3>2. flushed'[seg] = Len(log[seg])
      BY <2>1, <3>1
    <3> QED  BY <2>1, <2>2, <3>2
  <2>4. CASE file # "open"
    <3>1. flushed' = flushed
      BY <2>4 DEF FlushFile
    <3> QED  BY <2>1, <2>4, <3>1
  <2> QED  BY <2>3, <2>4
<1>6. ASSUME NEW u \in Threads, u # t
      PROVE  /\ \A x : At(u, x)' <=> At(u, x)
             /\ Flushing(u)' <=> Flushing(u)
             /\ Syncing(u)' <=> Syncing(u)
             /\ Pushed(u) => Pushed(u)'
  <2>1. todo'[u] = todo[u] /\ (tree' = u <=> tree = u)
    BY <1>1, <1>6 DEF Others
  <2> QED  BY <1>2, <1>3, <1>4, <1>5, <2>1 DEF At, Flushing, Syncing, Pushed
<1>7. file = "open" => \A i \in Nat : IsWrite(seg, i) => i <= flushed'[seg]
  BY <1>5 DEF IsWrite
<1>8. file # "open" => NoRisk
  BY DEF Safe, LeftSafe
<1>9. LeftSafe'
  BY <1>2, <1>3, <1>4 DEF Safe, LeftSafe
<1>10. SyncSafe'
  <2> SUFFICES ASSUME NEW u \in Threads
               PROVE  /\ At(u, "fsync")' => Pushed(u)'
                      /\ At(u, "close")' \/ At(u, "next")' \/ At(u, "drop")' => NoRisk'
                      /\ At(u, "leave")' => \A s, i \in Nat : Risky(s, i)' => log'[s][i].by # u
    BY DEF SyncSafe
  <2>1. CASE u = t /\ file = "open"
    BY <1>1, <1>2, <1>3, <1>4, <1>7, <2>1 DEF Pushed, At
  <2>2. CASE u = t /\ file # "open"
    BY <1>1, <1>3, <1>4, <1>8, <2>2 DEF NoRisk
  <2>3. CASE u # t
    BY <1>2, <1>3, <1>4, <1>6, <2>3 DEF Safe, SyncSafe
  <2> QED  BY <2>1, <2>2, <2>3
<1>11. AlwaysSafe'
  <2> SUFFICES ASSUME mode = "always", NEW u \in Threads
               PROVE  \/ At(u, "due")' \/ At(u, "flush")' \/ At(u, "fsync")'
                      \/ \A s, i \in Nat : Risky(s, i)' => log'[s][i].by # u
    BY <1>2 DEF AlwaysSafe
  <2>1. CASE u = t
    BY <1>1, <1>3, <1>8, <2>1 DEF NoRisk
  <2>2. CASE u # t
    BY <1>2, <1>3, <1>6, <2>2 DEF Safe, AlwaysSafe
  <2> QED  BY <2>1, <2>2
<1>12. StampSafe'
  <2>1. Since(last)'
    BY <1>2, <1>3 DEF Since, Safe, StampSafe
  <2>2. ASSUME NEW u \in Threads
        PROVE  /\ Syncing(u)' =>
                    \A i \in Nat : IsWrite(seg, i)' /\ i > flushed'[seg'] => saved'[u] <= log'[seg'][i].time
               /\ At(u, "stamp")' => Since(saved[u])'
               /\ mode = "every_sec" =>
                    \/ Flushing(u)' \/ Syncing(u)'
                    \/ \A s, i \in Nat : Risky(s, i)' => saved'[u] < log'[s][i].time + Second
    <3>1. CASE u = t /\ file = "open"
      <4>1. ~ At(u, "stamp")'
        BY <1>1, <3>1 DEF At
      <4>2. \A i \in Nat : ~ (IsWrite(seg, i)' /\ i > flushed'[seg'])
        BY <1>3, <1>4, <1>5, <1>7, <3>1
      <4>3. ~ Syncing(u)
        BY <1>2, <3>1 DEF Syncing, At
      <4> QED  BY <1>1, <1>2, <1>3, <3>1, <4>1, <4>2, <4>3 DEF Safe, StampSafe
    <3>2. CASE u = t /\ file # "open"
      <4>1. ~ Syncing(u)'
        BY <1>1, <3>2 DEF Syncing
      <4> QED  BY <1>3, <1>8, <3>2, <4>1 DEF Since, NoRisk
    <3>3. CASE u # t
      <4>1. Since(saved[u])' <=> Since(saved[u])
        BY <1>2, <1>3, <3>3 DEF Since
      <4>2. \A i \in Nat : IsWrite(seg, i)' /\ i > flushed'[seg'] => IsWrite(seg, i) /\ i > flushed[seg]
        BY <1>3, <1>4, <1>5
      <4> QED  BY <1>2, <1>3, <1>4, <1>6, <3>3, <4>1, <4>2 DEF Safe, StampSafe
    <3> QED  BY <3>1, <3>2, <3>3
  <2> QED  BY <1>2, <2>1, <2>2 DEF StampSafe
<1> QED  BY <1>9, <1>10, <1>11, <1>12 DEF Safe

\* fsync: what has left the process of the current segment is durable.
LEMMA FsyncStep ==
    ASSUME Types, Locked, Safe, NEW t \in Threads, Fsync(t)
    PROVE  Safe'
<1>1. /\ Others(t) /\ tree' = tree
      /\ \A x \in {"fsync", "next", "drop", "due"} : ~ At(t, x)'
      /\ At(t, "stamp")' => Syncing(t)
      /\ Syncing(t) => At(t, "stamp")'
      /\ At(t, "close")' => tree = t
  BY SyncControl
<1>2. /\ UNCHANGED <<mode, log, flushed, file, last, saved>> /\ At(t, "fsync")
      /\ durable' = Synced /\ file = "open"
  BY DEF Fsync
<1>3. /\ seg' = seg /\ seg \in 1 .. Len(log) /\ flushed[seg] \in Nat /\ durable[seg] \in Nat
      /\ durable[seg] <= flushed[seg]
      /\ durable'[seg] = flushed[seg] /\ \A s \in 1 .. Len(log) : s # seg => durable'[s] = durable[s]
  <2>1. /\ seg' = seg /\ seg \in 1 .. Len(log) /\ flushed \in Seq(Nat) /\ durable \in Seq(Nat)
        /\ Len(flushed) = Len(log) /\ Len(durable) = Len(log) /\ durable[seg] <= flushed[seg]
    <3>1. /\ log \in Seq(Seq(Frames)) /\ log # <<>> /\ flushed \in Seq(Nat) /\ durable \in Seq(Nat)
          /\ Len(flushed) = Len(log) /\ Len(durable) = Len(log)
          /\ \A s \in 1 .. Len(log) : durable[s] <= flushed[s]
      BY DEF Types
    <3>2. Len(log) \in 1 .. Len(log)
      BY <3>1
    <3> QED  BY <1>2, <3>1, <3>2 DEF seg
  <2>2. durable' = [durable EXCEPT ![seg] = flushed[seg]]
    BY <1>2 DEF Synced
  <2> QED  BY <2>1, <2>2
<1>4. /\ \A s, i \in Nat : IsWrite(s, i)' <=> IsWrite(s, i)
      /\ \A s, i \in Nat : Risky(s, i)' => Risky(s, i) /\ (s = seg => i > flushed[seg])
  BY <1>2, <1>3 DEF IsWrite, Risky
<1>5. \A s, i \in Nat : Risky(s, i)' => s = seg /\ IsWrite(seg, i) /\ ~ (i <= flushed[seg])
  BY <1>3, <1>4 DEF Safe, LeftSafe, Risky
<1>6. Pushed(t)
  BY <1>2 DEF Safe, SyncSafe
<1>7. ASSUME NEW u \in Threads, u # t
      PROVE  /\ \A x : At(u, x)' <=> At(u, x)
             /\ Flushing(u)' <=> Flushing(u)
             /\ Syncing(u)' <=> Syncing(u)
             /\ Pushed(u)' <=> Pushed(u)
  <2>1. todo'[u] = todo[u] /\ (tree' = u <=> tree = u)
    BY <1>1, <1>7 DEF Others
  <2>2. seg \in Nat
    BY <1>3
  <2> QED  BY <1>2, <1>3, <1>4, <2>1, <2>2 DEF At, Flushing, Syncing, Pushed
<1>8. \A s, i \in Nat : Risky(s, i)' => log[s][i].by # t
  BY <1>5, <1>6 DEF Pushed
<1>9. LeftSafe'
  BY <1>2, <1>3, <1>4, <1>5 DEF Safe, LeftSafe
<1>10. SyncSafe'
  <2> SUFFICES ASSUME NEW u \in Threads
               PROVE  /\ At(u, "fsync")' => Pushed(u)'
                      /\ At(u, "close")' \/ At(u, "next")' \/ At(u, "drop")' => NoRisk'
                      /\ At(u, "leave")' => \A s, i \in Nat : Risky(s, i)' => log'[s][i].by # u
    BY DEF SyncSafe
  <2>1. CASE u = t
    <3>1. At(t, "close")' => NoRisk'
      BY <1>1, <1>5, <1>6 DEF Pushed, NoRisk
    <3> QED  BY <1>1, <1>2, <1>8, <2>1, <3>1
  <2>2. CASE u # t
    BY <1>2, <1>4, <1>7, <2>2 DEF Safe, SyncSafe, NoRisk
  <2> QED  BY <2>1, <2>2
<1>11. AlwaysSafe'
  <2> SUFFICES ASSUME mode = "always", NEW u \in Threads
               PROVE  \/ At(u, "due")' \/ At(u, "flush")' \/ At(u, "fsync")'
                      \/ \A s, i \in Nat : Risky(s, i)' => log'[s][i].by # u
    BY <1>2 DEF AlwaysSafe
  <2>1. CASE u = t
    BY <1>2, <1>8, <2>1
  <2>2. CASE u # t
    BY <1>2, <1>4, <1>7, <2>2 DEF Safe, AlwaysSafe
  <2> QED  BY <2>1, <2>2
<1>12. StampSafe'
  <2>1. Since(last)'
    BY <1>2, <1>4 DEF Since, Safe, StampSafe
  <2>2. ASSUME NEW u \in Threads
        PROVE  /\ Syncing(u)' =>
                    \A i \in Nat : IsWrite(seg, i)' /\ i > flushed'[seg'] => saved'[u] <= log'[seg'][i].time
               /\ At(u, "stamp")' => Since(saved[u])'
               /\ mode = "every_sec" =>
                    \/ Flushing(u)' \/ Syncing(u)'
                    \/ \A s, i \in Nat : Risky(s, i)' => saved'[u] < log'[s][i].time + Second
    <3>1. CASE u = t
      <4>1. ~ Syncing(u)' /\ ~ Flushing(u)
        BY <1>1, <1>2, <3>1 DEF Syncing, Flushing, At
      <4>2. Syncing(u) => \A s, i \in Nat : Risky(s, i)' => saved[u] <= log[s][i].time
        <5> SUFFICES ASSUME Syncing(u), NEW s \in Nat, NEW i \in Nat, Risky(s, i)'
                     PROVE  saved[u] <= log[s][i].time
          OBVIOUS
        <5>1. s = seg /\ IsWrite(seg, i) /\ i > flushed[seg]
          BY <1>4, <1>5
        <5> QED  BY <5>1 DEF Safe, StampSafe
      <4>3. Syncing(u) => \A s, i \in Nat : Risky(s, i)' => saved[u] < log[s][i].time + Second
        <5> SUFFICES ASSUME Syncing(u), NEW s \in Nat, NEW i \in Nat, Risky(s, i)'
                     PROVE  saved[u] < log[s][i].time + Second
          OBVIOUS
        <5>1. log[s][i] \in Frames
          <6>1. s \in 1 .. Len(log) /\ i \in 1 .. Len(log[s])
            BY <1>4 DEF Risky, IsWrite
          <6>2. log[s] \in Seq(Frames)
            BY <6>1 DEF Types
          <6> QED  BY <6>1, <6>2
        <5>2. log[s][i].time \in Nat /\ saved[u] \in Nat
          <6>1. log[s][i].time \in Nat
            BY <5>1, LogAssumption DEF Frames
          <6>2. saved[u] \in Nat
            BY LogAssumption DEF Types
          <6> QED  BY <6>1, <6>2
        <5>3. saved[u] <= log[s][i].time
          BY <4>2
        <5> QED  BY ONLY <5>2, <5>3, BeforeSecond, Zenon
      <4>4. ~ Syncing(u) /\ mode = "every_sec" =>
               \A s, i \in Nat : Risky(s, i)' => saved[u] < log[s][i].time + Second
        BY <1>4, <4>1 DEF Safe, StampSafe
      <4> QED  BY <1>1, <1>2, <3>1, <4>1, <4>2, <4>3, <4>4 DEF Since
    <3>2. CASE u # t
      <4>1. Since(saved[u]) => Since(saved[u])'
        BY <1>2, <1>4 DEF Since
      <4> QED  BY <1>2, <1>3, <1>4, <1>7, <3>2, <4>1 DEF Safe, StampSafe
    <3> QED  BY <3>1, <3>2
  <2> QED  BY <1>2, <2>1, <2>2 DEF StampSafe
<1> QED  BY <1>9, <1>10, <1>11, <1>12 DEF Safe

\* A file is closed, and a segment left, with nothing at risk.
LEMMA RotateStep ==
    ASSUME Types, Locked, Safe, Types', NEW t \in Threads, CloseFile(t) \/ NextSegment(t)
    PROVE  Safe'
<1>1. NoRisk
  BY DEF CloseFile, NextSegment, Safe, SyncSafe
<1>2. CASE CloseFile(t)
  <2>1. log' = log /\ durable' = durable /\ flushed' = Emptied
    BY <1>2 DEF CloseFile
  <2>2. NoRisk'
    BY <1>1, <2>1 DEF NoRisk, Risky, IsWrite
  <2>3. seg' = seg /\ flushed'[seg] = Len(log[seg]) /\ Len(log[seg]) \in Nat
    BY <2>1, SMTT(60) DEF Types, seg, Emptied
  <2>4. \A i \in Nat : IsWrite(seg, i)' => i <= flushed'[seg']
    BY <2>1, <2>3 DEF IsWrite, seg
  <2> QED  BY <2>2, <2>4, NoRiskSafe
<1>3. CASE NextSegment(t)
  <2>1. /\ Len(log') = Len(log) + 1 /\ Len(log) \in Nat
        /\ \A s \in 1 .. Len(log) : log'[s] = log[s] /\ durable'[s] = durable[s]
        /\ log'[Len(log) + 1] = <<>>
    BY <1>3, Opened, SMTT(60) DEF NextSegment, Types
  <2>2. seg' = Len(log) + 1
    BY <2>1 DEF seg
  <2>3. ASSUME NEW s \in Nat, NEW i \in Nat, IsWrite(s, i)'
        PROVE  s \in 1 .. Len(log)
    <3>1. s \in 1 .. Len(log') /\ i \in 1 .. Len(log'[s])
      BY <2>3 DEF IsWrite
    <3>2. s # Len(log) + 1
      BY <2>1, <3>1
    <3>3. s \in 1 .. Len(log) + 1
      BY <2>1, <3>1
    <3> QED  BY <2>1, <3>2, <3>3
  <2>4. NoRisk'
    <3> SUFFICES ASSUME NEW s \in Nat, NEW i \in Nat, Risky(s, i)'
                 PROVE  FALSE
      BY DEF NoRisk
    <3>1. s \in 1 .. Len(log)
      BY <2>3 DEF Risky
    <3> QED  BY <1>1, <2>1, <3>1 DEF NoRisk, Risky, IsWrite
  <2>5. \A i \in Nat : IsWrite(seg, i)' => i <= flushed'[seg']
    <3> SUFFICES ASSUME NEW i \in Nat, IsWrite(seg, i)'
                 PROVE  FALSE
      OBVIOUS
    <3>1. seg' \in Nat /\ seg' = Len(log) + 1
      BY <2>1, <2>2
    <3>2. seg' \in 1 .. Len(log)
      BY <2>3, <3>1 DEF IsWrite, seg
    <3> QED  BY <2>1, <3>1, <3>2
  <2> QED  BY <2>4, <2>5, NoRiskSafe
<1> QED  BY <1>2, <1>3

\* The clock moves no frame.
LEMMA IdleStep ==
    ASSUME Safe, Tick \/ UNCHANGED vars
    PROVE  Safe'
<1>1. UNCHANGED <<mode, log, flushed, durable, file, last, tree, todo, saved>>
  BY DEF Tick, vars, files, locks
<1> QED  BY <1>1, SMTT(60) DEF Safe, LeftSafe, SyncSafe, AlwaysSafe, StampSafe, NoRisk, Risky, IsWrite, Pushed, Since,
                     Flushing, Syncing, At, seg

-----------------------------------------------------------------------------
(* The theorems *)

\* The lock of the tree stays with the thread whose steps say so.
LEMMA LockedNext ==
    ASSUME Types, Locked, ~ MarkersRotate, [Next]_vars
    PROVE  Locked'
<1>1. CASE Tick \/ UNCHANGED vars
  <2>1. UNCHANGED <<tree, todo>>
    BY <1>1 DEF Tick, vars, locks
  <2> QED  BY <2>1 DEF Locked
<1>2. ASSUME NEW t \in Threads, Put(t) \/ Commit(t) \/ Close(t) \/ Step(t)
      PROVE  Locked'
  BY <1>2, QuietControl, SyncControl DEF Step
<1> QED  BY <1>1, <1>2 DEF Next

\* Every step keeps the frames at risk where a sync will find them.
LEMMA SafeNext ==
    ASSUME Types, Locked, Safe, Types', ~ MarkersRotate, [Next]_vars
    PROVE  Safe'
<1>1. CASE Tick \/ UNCHANGED vars
  BY <1>1, IdleStep
<1>2. ASSUME NEW t \in Threads, Put(t) \/ Commit(t) \/ Close(t) \/ Step(t)
      PROVE  Safe'
  <2>1. CASE \/ Put(t) \/ Commit(t) \/ Close(t) \/ Lock(t) \/ Unlock(t) \/ Enter(t) \/ Puts(t)
             \/ Leave(t) \/ Fail(t) \/ Open(t) \/ Full(t) \/ Spill(t) \/ Shut(t) \/ Drop(t)
    BY <2>1, QuietStep
  <2>2. CASE Due(t)
    BY <2>2, DueStep
  <2>3. CASE Stamp(t)
    BY <2>3, StampStep
  <2>4. CASE Write(t)
    BY <2>4, WriteStep
  <2>5. CASE FlushFile(t)
    BY <2>5, FlushStep
  <2>6. CASE Fsync(t)
    BY <2>6, FsyncStep
  <2>7. CASE CloseFile(t) \/ NextSegment(t)
    BY <2>7, RotateStep
  <2> QED  BY <1>2, <2>1, <2>2, <2>3, <2>4, <2>5, <2>6, <2>7 DEF Step
<1> QED  BY <1>1, <1>2 DEF Next

\* The invariant holds at the start.
LEMMA InitIInv == Init => IInv
<1> SUFFICES ASSUME Init  PROVE IInv
  OBVIOUS
<1> USE DEF Init
<1>1. Types
  <2>1. log \in Seq(Seq(Frames)) /\ log # <<>> /\ Len(log) = 1 /\ log[1] = <<>>
    OBVIOUS
  <2>2. flushed \in Seq(Nat) /\ Len(flushed) = 1 /\ flushed[1] = 0
    OBVIOUS
  <2>3. durable \in Seq(Nat) /\ Len(durable) = 1 /\ durable[1] = 0
    OBVIOUS
  <2>4. \A s \in 1 .. Len(log) : durable[s] <= flushed[s] /\ flushed[s] <= Len(log[s])
    BY <2>1, <2>2, <2>3
  <2>5. /\ mode \in Modes /\ file \in {"open", "closed", "none"}
        /\ now \in 0 .. MaxNow /\ last \in 0 .. now
        /\ tree \in Threads \cup {None} /\ manager \in Threads \cup {None}
        /\ saved \in [Threads -> 0 .. now] /\ calls \in 0 .. MaxCalls
    BY LogAssumption
  <2>6. todo \in [Threads -> Seq(Steps)]
    OBVIOUS
  <2> QED  BY <2>1, <2>2, <2>3, <2>4, <2>5, <2>6 DEF Types
<1>2. Locked
  BY ShapedNone, LogAssumption DEF Locked
<1>3. \A s, i \in Nat : ~ IsWrite(s, i)
  BY DEF IsWrite
<1>4. \A t \in Threads : \A x : ~ At(t, x)
  BY DEF At
<1>5. LeftSafe /\ SyncSafe /\ AlwaysSafe /\ StampSafe
  BY <1>3, <1>4 DEF LeftSafe, SyncSafe, AlwaysSafe, StampSafe, NoRisk, Risky, Pushed, Since, Flushing, Syncing
<1> QED  BY <1>1, <1>2, <1>5 DEF IInv

\* Every step keeps the invariant.
LEMMA NextIInv ==
    ASSUME ~ MarkersRotate, IInv, [Next]_vars
    PROVE  IInv'
<1>1. Types /\ Locked /\ Safe
  BY DEF IInv, Safe
<1>2. Types' /\ Locked'
  BY <1>1, TypesNext, LockedNext
<1>3. Safe'
  BY <1>1, <1>2, SafeNext
<1> QED  BY <1>2, <1>3 DEF IInv, Safe

\* The inductive invariant holds in every reachable state.
THEOREM Invariance ==
    ASSUME ~ MarkersRotate
    PROVE  Spec => []IInv
<1>1. Init => IInv
  BY InitIInv
<1>2. IInv /\ [Next]_vars => IInv'
  BY NextIInv
<1> QED  BY <1>1, <1>2, PTL DEF Spec

\* What is fsynced has left the process before, and that was written before
\* (wal.py append, sync, rotate).
THEOREM TypesHold ==
    ASSUME ~ MarkersRotate
    PROVE  Spec => []TypeOK
<1>1. IInv => TypeOK
  <2> SUFFICES ASSUME Types  PROVE TypeOK
    BY DEF IInv
  <2>1. /\ log \in Seq(Seq(Frames)) /\ flushed \in Seq(Nat) /\ durable \in Seq(Nat)
        /\ Len(flushed) = Len(log) /\ Len(durable) = Len(log)
        /\ \A s \in 1 .. Len(log) : durable[s] <= flushed[s] /\ flushed[s] <= Len(log[s])
        /\ mode \in Modes /\ file \in {"open", "closed", "none"}
        /\ now \in 0 .. MaxNow /\ last \in 0 .. now /\ MaxNow \in Nat
        /\ tree \in Threads \cup {None} /\ manager \in Threads \cup {None}
        /\ todo \in [Threads -> Seq(Steps)] /\ saved \in [Threads -> 0 .. now]
        /\ calls \in 0 .. MaxCalls
    BY LogAssumption DEF Types
  <2>2. /\ DOMAIN log = 1 .. Len(log) /\ DOMAIN flushed = 1 .. Len(log) /\ DOMAIN durable = 1 .. Len(log)
        /\ \A s \in 1 .. Len(log) : log[s] \in Seq(Frames)
    BY <2>1
  <2>3. last \in 0 .. MaxNow /\ \A t \in Threads : todo[t] \in Seq(Steps) /\ saved[t] \in 0 .. MaxNow
    BY <2>1
  <2> QED  BY <2>1, <2>2, <2>3 DEF TypeOK, Frames
<1> QED  BY <1>1, Invariance, PTL

\* The frames a crash may take are the risky ones.
LEMMA AtRiskRisky ==
    ASSUME Types, NEW f \in AtRisk
    PROVE  f[1] \in Nat /\ f[2] \in Nat /\ Risky(f[1], f[2])
<1>1. PICK s \in DOMAIN log : f \in {<<s, i>> : i \in DOMAIN log[s]}
  BY DEF AtRisk
<1>2. f[1] = s /\ f[2] \in DOMAIN log[s] /\ log[s][f[2]].kind = "write" /\ f[2] > durable[s]
  BY <1>1 DEF AtRisk
<1>3. s \in 1 .. Len(log) /\ s \in Nat /\ log[s] \in Seq(Frames)
  BY <1>1, SMTT(60) DEF Types
<1>4. f[2] \in 1 .. Len(log[s]) /\ f[2] \in Nat
  BY <1>2, <1>3
<1> QED  BY <1>2, <1>3, <1>4 DEF Risky, IsWrite

\* A crash leaves the writes up to some one: no rotation and no marker of
\* another thread can leave a write at risk in a segment that is not the last
\* (wal.py rotate, append; lsm.py put; txn.py commit).
THEOREM CrashesLeaveAPrefix ==
    ASSUME ~ MarkersRotate
    PROVE  Spec => []PrefixSurvives
<1>1. IInv => PrefixSurvives
  <2> SUFFICES ASSUME Types, LeftSafe, NEW f \in AtRisk, NEW s \in DOMAIN log, s > f[1]
               PROVE  FALSE
    BY DEF IInv, PrefixSurvives
  <2>1. f[1] = Len(log)
    BY AtRiskRisky DEF LeftSafe, seg
  <2>2. s \in 1 .. Len(log) /\ Len(log) \in Nat
    BY DEF Types
  <2> QED  BY <2>1, <2>2
<1> QED  BY <1>1, Invariance, PTL

\* Whatever the mode, and whatever rotations and closes other threads did
\* meanwhile, a commit returns with all that its thread wrote durable
\* (txn.py commit, wal.py sync).
THEOREM CommitsAreDurable ==
    ASSUME ~ MarkersRotate
    PROVE  Spec => []CommitDurable
<1>1. IInv => CommitDurable
  <2> SUFFICES ASSUME Types, SyncSafe, NEW t \in Threads, At(t, "leave"), NEW f \in AtRisk
               PROVE  FrameOf(f).by # t
    BY DEF IInv, CommitDurable
  <2> QED  BY AtRiskRisky DEF SyncSafe, FrameOf
<1> QED  BY <1>1, Invariance, PTL

\* A put has nothing of its thread at risk in mode always, and nothing a second
\* old in mode every_sec (wal.py append).
THEOREM LossIsBounded ==
    ASSUME ~ MarkersRotate
    PROVE  Spec => []LossBounded
<1>1. IInv => LossBounded
  <2> SUFFICES ASSUME Types, AlwaysSafe, StampSafe, NEW t \in Threads, At(t, "spill"), NEW f \in AtRisk
               PROVE  /\ mode = "always" => FrameOf(f).by # t
                      /\ mode = "every_sec" => saved[t] < FrameOf(f).time + Second
    BY DEF IInv, LossBounded
  <2>1. f[1] \in Nat /\ f[2] \in Nat /\ Risky(f[1], f[2])
    BY AtRiskRisky
  <2>2. /\ ~ At(t, "due") /\ ~ At(t, "flush") /\ ~ At(t, "fsync")
        /\ ~ Flushing(t) /\ ~ Syncing(t)
    BY DEF At, Flushing, Syncing
  <2> QED  BY <2>1, <2>2 DEF AlwaysSafe, StampSafe, FrameOf
<1> QED  BY <1>1, Invariance, PTL

=============================================================================
