--------------------------------- MODULE KV ---------------------------------
(***************************************************************************)
(* The key-value engine (zenith/engine/kv.py): strings, hashes, lists,     *)
(* sets and sorted sets with deadlines, laid out over the cells of the LSM *)
(* tree.  A method is an operator from the cells to the cells it leaves    *)
(* and what it returns; Commands has the servers that call them, one       *)
(* method after the other, and StringCommands takes some of them apart     *)
(* into their steps.                                                       *)
(*                                                                         *)
(* A cell is the LSM key split at its colons: "__H__:user:1:name" is       *)
(* <<"H", "user", "1", "name">>.  A key and a member may have colons of    *)
(* their own, so both are sequences, and the prefix scans of the engine    *)
(* are prefix tests on cells.                                              *)
(***************************************************************************)
EXTENDS Integers, Sequences, FiniteSets
SE == INSTANCE SequencesExt

CONSTANTS
    Parts,     \* what stands between two colons
    Keys,      \* user keys, each a sequence of parts
    Members,   \* fields and members, sequences of parts as well
    Order,     \* how members compare with each other: member -> Nat
    Vals,      \* contents of strings, elements, fields and scores; some are integers
    Present,   \* what a set keeps under a member: "1"
    Absent,    \* a cell without contents; no deadline
    MaxIndex,  \* bound: the indexes of list elements
    MaxNow     \* bound: the time

\* The types with a cell for each member.
Scanned == {"hash", "set", "zset"}

ASSUME KVAssumption ==
    /\ Keys \subseteq Seq(Parts) /\ Members \subseteq Seq(Parts) \ {<<>>}
    /\ Absent \notin Vals \cup {Present} /\ Absent \notin Scanned \cup {"string", "list"}
    /\ Absent \notin Int /\ Absent \notin Int \X Int
    /\ Order \in [Members -> Nat]
    /\ MaxIndex \in Nat /\ MaxNow \in Nat

VARIABLES
    cells, \* the LSM tree: cell -> contents
    now    \* the clock

vars == <<cells, now>>

Indexes == (0 - MaxIndex) .. MaxIndex

\* The cells of a key.
V(k) == <<"V">> \o k
Type(k) == <<"TYPE">> \o k
Exp(k) == <<"EXP">> \o k
LMeta(k) == <<"LMETA">> \o k
Elem(k, i) == <<"L">> \o k \o <<i>>
Prefix(t, k) ==
    <<CASE t = "hash" -> "H" [] t = "set" -> "S" [] t = "zset" -> "Z">> \o k
Item(t, k, m) == Prefix(t, k) \o m

Cells ==
    UNION {{V(k), Type(k), Exp(k), LMeta(k)} \cup {Elem(k, i) : i \in Indexes}
             \cup {Item(t, k, m) : t \in Scanned, m \in Members} : k \in Keys}

\* The cells whose key begins with the prefix of a structure.
Below == [p \in {Prefix(t, k) : t \in Scanned, k \in Keys} |->
             {x \in Cells : Len(x) > Len(p) /\ SubSeq(x, 1, Len(p)) = p}]

\* What a scan from prefix p finds in c, up to the first cell without it.
Under(c, p) == {x \in Below[p] : c[x] # Absent}

\* c with the cells X removed, and with new contents in some cells.
Without(c, X) == [x \in Cells |-> IF x \in X THEN Absent ELSE c[x]]
With(c, new) == [x \in Cells |-> IF x \in DOMAIN new THEN new[x] ELSE c[x]]

Meta(c, k) == IF c[LMeta(k)] = Absent THEN <<0, 0>> ELSE c[LMeta(k)]

\* Mutant of Expired: the value is there for one more second.
ExpiredAfter(c, k) == c[Exp(k)] # Absent /\ now > c[Exp(k)]

Expired(c, k) == c[Exp(k)] # Absent /\ now >= c[Exp(k)]

\* What purging k takes away: the structure its type tag names.
Structure(c, k) ==
    LET t == c[Type(k)] IN
    CASE t = Absent -> {}
      [] t = "string" -> {V(k)}
      [] t = "list" -> {LMeta(k)} \cup {Elem(k, i) : i \in Meta(c, k)[1] .. Meta(c, k)[2] - 1}
      [] OTHER -> Under(c, Prefix(t, k))

\* Mutant of Whole: the index range of a list stays behind.
WholeNoMeta(c, k) == {Type(k), Exp(k)} \cup (Structure(c, k) \ {LMeta(k)})

Whole(c, k) == {Type(k), Exp(k)} \cup Structure(c, k)

\* Every command that asks _is_expired first works on this.
Reaped(c, k) == IF Expired(c, k) THEN Without(c, Whole(c, k)) ELSE c

Init ==
    /\ cells = [x \in Cells |-> Absent]
    /\ now = 0

-----------------------------------------------------------------------------
(* The methods of the engine *)

\* What a method does: the cells it leaves, and what it returns or that it raises.
Result(c, a) == [cells |-> c, answer |-> a, failed |-> FALSE]
Failure(c) == [cells |-> c, answer |-> Absent, failed |-> TRUE]

ReapedAll(c, K) == Without(c, UNION {Whole(c, k) : k \in {k \in K : Expired(c, k)}})

\* Strings

\* set(): ex is a number of seconds or Absent, and flags may be "nx" and "xx".
Set(c0, k, v, ex, flags) ==
    LET c == Reaped(c0, k)
        found == c[V(k)] # Absent
    IN
    IF ("nx" \in flags /\ found) \/ ("xx" \in flags /\ ~ found)
    THEN Result(c, FALSE)
    ELSE Result([c EXCEPT ![V(k)] = v, ![Type(k)] = "string",
                          ![Exp(k)] = IF ex # Absent /\ ex > 0 THEN now + ex ELSE Absent],
                TRUE)

Get(c0, k) == LET c == Reaped(c0, k) IN Result(c, c[V(k)])

\* mget(): one answer for each key named.
MGet(c0, ks) == LET c == ReapedAll(c0, {ks[i] : i \in DOMAIN ks})
                IN  Result(c, [i \in DOMAIN ks |-> c[V(ks[i])]])

\* mset(): set() of each key in turn.
MSet(c0, map) ==
    LET c == Without(ReapedAll(c0, DOMAIN map), {Exp(k) : k \in DOMAIN map})
        tagged == With(c, [x \in {Type(k) : k \in DOMAIN map} |-> "string"])
    IN  Result(With(tagged, [x \in {V(k) : k \in DOMAIN map} |-> map[Tail(x)]]), TRUE)

\* Mutant of IncrBy: what is no number counts as zero, and is written over.
IncrByAny(c0, k, n) ==
    LET c == Reaped(c0, k)
        sum == IF c[V(k)] \in Int THEN c[V(k)] + n ELSE n
        d == Set(c, k, sum, Absent, {}).cells
    IN  IF c[V(k)] # Absent /\ c[V(k)] \notin Int THEN Failure(d) ELSE Result(d, sum)

\* incrby(), and decrby() with -n: the deadline goes with the old value.
IncrBy(c0, k, n) ==
    LET c == Reaped(c0, k)
        sum == IF c[V(k)] = Absent THEN n ELSE c[V(k)] + n
    IN  IF c[V(k)] # Absent /\ c[V(k)] \notin Int THEN Failure(c)
        ELSE Result(Set(c, k, sum, Absent, {}).cells, sum)

\* append(): v is the old contents with the new ones behind them.
AppendTo(c0, k, v) == Result(Set(c0, k, v, Absent, {}).cells, v)

\* Hashes, sets and sorted sets

\* Mutant of Added: every member counts.
AddedAll(c0, k, t, map) ==
    LET c == Reaped(c0, k) IN
    Result(With([c EXCEPT ![Type(k)] = t],
                [x \in {Item(t, k, m) : m \in DOMAIN map} |-> map[SubSeq(x, Len(k) + 2, Len(x))]]),
           Cardinality(DOMAIN map))

\* What hset(), sadd() and zadd() have in common: members are put, the type is
\* put even if there were none, and the new ones are counted.
Added(c0, k, t, map) ==
    LET c == Reaped(c0, k) IN
    Result(With([c EXCEPT ![Type(k)] = t],
                [x \in {Item(t, k, m) : m \in DOMAIN map} |-> map[SubSeq(x, Len(k) + 2, Len(x))]]),
           Cardinality({m \in DOMAIN map : c[Item(t, k, m)] = Absent}))

\* hset(), once for each pair of the command.
HSet(c0, k, map) == IF DOMAIN map = {} THEN Result(c0, 0) ELSE Added(c0, k, "hash", map)
SAdd(c0, k, M) == Added(c0, k, "set", [m \in M |-> Present])
ZAdd(c0, k, map) == Added(c0, k, "zset", map)

\* hdel(), srem(), zrem(): no look at the deadline, and the type tag stays.
Removed(c, k, t, M) ==
    LET X == {x \in {Item(t, k, m) : m \in M} : c[x] # Absent}
    IN  Result(Without(c, X), Cardinality(X))

HDel(c, k, M) == Removed(c, k, "hash", M)
SRem(c, k, M) == Removed(c, k, "set", M)
ZRem(c, k, M) == Removed(c, k, "zset", M)

\* What a scan of the members of k gathers: member -> contents.
Collected(c, k, t) ==
    LET p == Prefix(t, k) IN
    [m \in {SubSeq(x, Len(p) + 1, Len(x)) : x \in Under(c, p)} |-> c[p \o m]]

\* hget(), sismember(), zscore(), hexists().
Look(c0, k, t, m) == LET c == Reaped(c0, k) IN Result(c, c[Item(t, k, m)])
HGet(c0, k, m) == Look(c0, k, "hash", m)
HExists(c0, k, m) == Result(HGet(c0, k, m).cells, HGet(c0, k, m).answer # Absent)
SIsMember(c0, k, m) == Result(Look(c0, k, "set", m).cells, Look(c0, k, "set", m).answer # Absent)
ZScore(c0, k, m) == Look(c0, k, "zset", m)

HGetAll(c0, k) == LET c == Reaped(c0, k) IN Result(c, Collected(c, k, "hash"))
HLen(c0, k) == Result(HGetAll(c0, k).cells, Cardinality(DOMAIN HGetAll(c0, k).answer))

HIncrBy(c0, k, m, n) ==
    LET got == HGet(c0, k, m)
        sum == IF got.answer = Absent THEN n ELSE got.answer + n
    IN  IF got.answer # Absent /\ got.answer \notin Int THEN Failure(got.cells)
        ELSE Result(HSet(got.cells, k, [x \in {m} |-> sum]).cells, sum)

SMembers(c0, k) == LET c == Reaped(c0, k) IN Result(c, DOMAIN Collected(c, k, "set"))
SCard(c0, k) == Result(SMembers(c0, k).cells, Cardinality(SMembers(c0, k).answer))

\* sunion(), sinter() and sdiff() read the sets one by one.
SUnion(c0, ks) ==
    LET c == ReapedAll(c0, {ks[i] : i \in DOMAIN ks})
    IN  Result(c, UNION {SMembers(c, ks[i]).answer : i \in DOMAIN ks})
SInter(c0, ks) ==
    LET c == ReapedAll(c0, {ks[i] : i \in DOMAIN ks})
    IN  Result(c, IF ks = <<>> THEN {}
                  ELSE {m \in SMembers(c, ks[1]).answer :
                          \A i \in DOMAIN ks : m \in SMembers(c, ks[i]).answer})
SDiff(c0, ks) ==
    LET c == ReapedAll(c0, {ks[i] : i \in DOMAIN ks})
    IN  Result(c, IF ks = <<>> THEN {}
                  ELSE {m \in SMembers(c, ks[1]).answer :
                          \A i \in 2 .. Len(ks) : m \notin SMembers(c, ks[i]).answer})

ZIncrBy(c0, k, m, n) ==
    LET got == ZScore(c0, k, m)
        sum == IF got.answer = Absent THEN n ELSE got.answer + n
    IN  Result(ZAdd(got.cells, k, [x \in {m} |-> sum]).cells, sum)

\* Members by score, and by name where scores are equal.
Ranked(scores) ==
    SE!SetToSortSeq(DOMAIN scores, LAMBDA m, n :
        scores[m] < scores[n] \/ (scores[m] = scores[n] /\ Order[m] < Order[n]))

\* The places start .. stop of n, as LRANGE, LTRIM and ZRANGE read them.
Start(n, start) == IF start >= 0 THEN start ELSE IF n + start > 0 THEN n + start ELSE 0
Stop(n, stop) == IF stop < 0 THEN n + stop ELSE IF stop < n THEN stop ELSE n - 1

\* The stretch start .. stop of s, and members with their scores.
Stretch(s, start, stop) ==
    LET lo == Start(Len(s), start)
        hi == Stop(Len(s), stop)
    IN  IF lo <= hi THEN SubSeq(s, lo + 1, hi + 1) ELSE <<>>
Scored(s, scores) == [i \in DOMAIN s |-> <<s[i], scores[s[i]]>>]

\* zrange() with scores: the members in the order of their ranks.
ZRange(c0, k, start, stop) ==
    LET c == Reaped(c0, k)
        scores == Collected(c, k, "zset")
    IN  Result(c, Scored(Stretch(Ranked(scores), start, stop), scores))

\* The place of m among members with scores, from 0.
PlaceOf(all, m) ==
    LET P == {i - 1 : i \in {i \in DOMAIN all : all[i][1] = m}}
    IN  IF P = {} THEN Absent ELSE CHOOSE i \in P : TRUE
ZRank(c0, k, m) ==
    LET all == ZRange(c0, k, 0, -1) IN Result(all.cells, PlaceOf(all.answer, m))

ZCard(c0, k) == Result(ZRange(c0, k, 0, -1).cells, Len(ZRange(c0, k, 0, -1).answer))

\* Lists

\* _set_list_meta().
Ranging(c, k, head, tail) == [c EXCEPT ![LMeta(k)] = <<head, tail>>, ![Type(k)] = "list"]

\* lpush() and rpush(): the elements go in one by one, then the range.
Push(c, k, head, tail, vs, left) ==
    LET lo == IF left THEN head - Len(vs) ELSE tail
        hi == IF left THEN head ELSE tail + Len(vs)
        put == With(c, [x \in {Elem(k, i) : i \in lo .. hi - 1} |->
                          vs[IF left THEN hi - x[Len(x)] ELSE x[Len(x)] - lo + 1]])
    IN  IF left THEN Result(Ranging(put, k, lo, tail), tail - lo)
        ELSE Result(Ranging(put, k, head, hi), hi - head)

LPush(c0, k, vs) ==
    LET c == Reaped(c0, k) IN Push(c, k, Meta(c, k)[1], Meta(c, k)[2], vs, TRUE)
RPush(c0, k, vs) ==
    LET c == Reaped(c0, k) IN Push(c, k, Meta(c, k)[1], Meta(c, k)[2], vs, FALSE)

\* Mutant of Pop: no look at whether anything is left.
PopUnchecked(c, k, head, tail, left) ==
    IF left THEN Result(Ranging(Without(c, {Elem(k, head)}), k, head + 1, tail), Absent)
    ELSE Result(Ranging(Without(c, {Elem(k, tail - 1)}), k, head, tail - 1), Absent)

\* lpop() and rpop(): the range stays when the list is empty.
Pop(c, k, head, tail, left) ==
    IF head >= tail THEN Result(c, Absent)
    ELSE IF left
    THEN Result(Ranging(Without(c, {Elem(k, head)}), k, head + 1, tail), c[Elem(k, head)])
    ELSE Result(Ranging(Without(c, {Elem(k, tail - 1)}), k, head, tail - 1), c[Elem(k, tail - 1)])

LPop(c0, k) == LET c == Reaped(c0, k) IN Pop(c, k, Meta(c, k)[1], Meta(c, k)[2], TRUE)
RPop(c0, k) == LET c == Reaped(c0, k) IN Pop(c, k, Meta(c, k)[1], Meta(c, k)[2], FALSE)

LLen(c0, k) == LET c == Reaped(c0, k) IN Result(c, Meta(c, k)[2] - Meta(c, k)[1])

\* The elements of the places lo .. hi of a list of n from head on.
Stretched(c, k, head, n, lo, hi) ==
    IF n <= 0 \/ lo > hi \/ lo >= n THEN <<>>
    ELSE [i \in 1 .. hi - lo + 1 |-> c[Elem(k, head + lo + i - 1)]]

\* lrange(): elements that are not there are left out.
LRange(c0, k, start, stop) ==
    LET c == Reaped(c0, k)
        n == Meta(c, k)[2] - Meta(c, k)[1]
        places == Stretched(c, k, Meta(c, k)[1], n, Start(n, start), Stop(n, stop))
    IN  Result(c, SelectSeq(places, LAMBDA v : v # Absent))

Only(got) == Result(got.cells, IF got.answer = <<>> THEN Absent ELSE got.answer[1])
LIndex(c0, k, place) == Only(LRange(c0, k, place, place))

\* lset(): negative places count from the end.
Write(c, k, head, tail, place, v) ==
    LET i == IF place < 0 THEN tail + place ELSE head + place
    IN  IF i \in head .. tail - 1 THEN Result([c EXCEPT ![Elem(k, i)] = v], TRUE) ELSE Result(c, FALSE)

LSet(c0, k, place, v) ==
    LET c == Reaped(c0, k) IN Write(c, k, Meta(c, k)[1], Meta(c, k)[2], place, v)

\* Mutant of Trimmed: the end after stop is cut from one place too far.
TrimmedShort(c, k, lo, hi) ==
    LET head == Meta(c, k)[1]
        tail == Meta(c, k)[2]
    IN  Ranging(Without(c, {Elem(k, i) : i \in (head .. head + lo - 1) \cup (head + hi + 2 .. tail - 1)}),
                k, head + lo, head + hi + 1)

\* The places lo .. hi kept, the elements outside deleted, the range moved.
Trimmed(c, k, lo, hi) ==
    LET head == Meta(c, k)[1]
        tail == Meta(c, k)[2]
    IN  Ranging(Without(c, {Elem(k, i) : i \in (head .. head + lo - 1) \cup (head + hi + 1 .. tail - 1)}),
                k, head + lo, head + hi + 1)

\* delete(): keys that have a type, with no look at the deadline.
Delete(c, K) ==
    LET D == {k \in K : c[Type(k)] # Absent}
    IN  Result(Without(c, UNION {Whole(c, k) : k \in D}), Cardinality(D))

\* ltrim(): a list of which nothing is kept is deleted.
Keeping(c, k, n, lo, hi) ==
    CASE n <= 0 -> c
      [] n > 0 /\ (lo > hi \/ lo >= n) -> Delete(c, {k}).cells
      [] OTHER -> Trimmed(c, k, lo, hi)

LTrim(c0, k, start, stop) ==
    LET c == Reaped(c0, k)
        n == Meta(c, k)[2] - Meta(c, k)[1]
    IN  Result(Keeping(c, k, n, Start(n, start), Stop(n, stop)), TRUE)

\* Keys

\* expire(): whether or not there is such a key.
Expire(c, k, seconds) ==
    Result([c EXCEPT ![Exp(k)] = now + (IF seconds > 0 THEN seconds ELSE 0)], TRUE)

Persist(c, k) == Result(Without(c, {Exp(k)}), c[Exp(k)] # Absent)

\* Mutant of TTL: no look at whether the deadline has passed.
TTLStale(c, k) ==
    Result(c, IF c[Type(k)] = Absent THEN -2
              ELSE IF c[Exp(k)] = Absent THEN -1 ELSE c[Exp(k)] - now)

\* ttl(): -2 for no key, -1 for no deadline.
TTL(c0, k) ==
    LET c == Reaped(c0, k)
    IN  Result(c, IF c[Type(k)] = Absent THEN -2
                  ELSE IF c[Exp(k)] = Absent THEN -1 ELSE c[Exp(k)] - now)

\* exists(): a key counts as often as it is named.
Exists(c0, ks) ==
    LET c == ReapedAll(c0, {ks[i] : i \in DOMAIN ks})
    IN  Result(c, Cardinality({i \in DOMAIN ks : c[Type(ks[i])] # Absent}))

TypeOf(c0, k) == LET c == Reaped(c0, k) IN Result(c, c[Type(k)])

\* The keys that have a type tag, as keys() scans them.
Tagged(c) == {k \in Keys : c[Type(k)] # Absent}

\* keys(): every key it meets is reaped; a pattern is the set of keys it fits.
KeysOf(c0, pattern) ==
    LET c == ReapedAll(c0, Tagged(c0)) IN Result(c, Tagged(c) \cap pattern)
DBSize(c0) == Result(KeysOf(c0, Keys).cells, Cardinality(KeysOf(c0, Keys).answer))

\* flushdb(): the keys keys() meets are reaped or deleted.
FlushDB(c) == Result(Without(c, UNION {Whole(c, k) : k \in Tagged(c)}), Absent)

-----------------------------------------------------------------------------
(* Properties *)

\* Every cell holds what its kind holds, and a list's range never runs
\* backwards (kv.py _get_list_meta).
TypeOK ==
    /\ now \in 0 .. MaxNow
    /\ DOMAIN cells = Cells
    /\ \A k \in Keys :
         /\ cells[V(k)] \in Vals \cup {Absent}
         /\ cells[Type(k)] \in Scanned \cup {"string", "list", Absent}
         /\ cells[Exp(k)] \in 0 .. MaxNow + 1 \cup {Absent}
         /\ \A i \in Indexes : cells[Elem(k, i)] \in Vals \cup {Absent}
         /\ \A t \in Scanned, m \in Members : cells[Item(t, k, m)] \in Vals \cup {Present, Absent}
         /\ Meta(cells, k)[1] <= Meta(cells, k)[2]

\* The value of k in c as its readers see it.
Value(c, k) ==
    LET t == c[Type(k)]
        range == Meta(c, k)
    IN
    IF t = Absent \/ Expired(c, k) THEN Absent
    ELSE [type |-> t,
          data |-> CASE t = "string" -> c[V(k)]
                     [] t = "list" -> [i \in 1 .. range[2] - range[1] |-> c[Elem(k, range[1] + i - 1)]]
                     [] OTHER -> Collected(c, k, t)]

Deadline(c, k) == IF Expired(c, k) THEN Absent ELSE c[Exp(k)]

\* The engine is a map of typed values: every command has its effect on its
\* own keys and no other, and an expired value stays gone although its cells
\* are still there until somebody reads the key (kv.py, all methods).
TypedValues == INSTANCE TypedMap
    WITH value <- [k \in Keys |-> Value(cells, k)], deadline <- [k \in Keys |-> Deadline(cells, k)]
Typed == TypedValues!Spec

\* The elements of a list are the cells of its range, without gaps and with
\* nothing left over outside, where a later push would bring it up again
\* (kv.py lpush, rpush, lpop, rpop, ltrim).
ListDense ==
    \A k \in Keys, i \in Indexes :
        cells[Elem(k, i)] # Absent <=> i \in Meta(cells, k)[1] .. Meta(cells, k)[2] - 1

\* A key without a type has no cell left but perhaps a deadline: DEL, expiry
\* and FLUSHDB take "all sub-structures" with them (kv.py delete, _purge_key_internal).
NoOrphans ==
    \A k \in Keys : cells[Type(k)] = Absent =>
        /\ cells[V(k)] = Absent /\ cells[LMeta(k)] = Absent
        /\ \A i \in Indexes : cells[Elem(k, i)] = Absent
        /\ \A t \in Scanned, m \in Members : cells[Item(t, k, m)] = Absent

=============================================================================
