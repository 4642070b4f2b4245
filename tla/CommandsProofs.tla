--------------------------- MODULE CommandsProofs ---------------------------
(***************************************************************************)
(* Proofs about Commands.                                                  *)
(***************************************************************************)
EXTENDS KVProofs, FiniteSetTheorems

-----------------------------------------------------------------------------
(* The requests *)

\* A request is served in a good state, and no client retypes a key.
Ready ==
    /\ Apart /\ "retype" \notin Liberties
    /\ now \in 0 .. MaxNow /\ Good(cells)

\* What a reply is made of leaves the cells alone.
LEMMA Replies ==
    \A e, r : /\ Reply(e, r).cells = e.cells /\ Integer(e).cells = e.cells
              /\ Flag(e).cells = e.cells /\ Bulk(e).cells = e.cells
              /\ Array(e).cells = e.cells /\ Say(r).cells = cells
BY DEF Reply, Integer, Flag, Bulk, Array, Say

\* What reading leaves.
Readings == {cells} \cup {Reaped(cells, k) : k \in Keys} \cup {ReapedAll(cells, K) : K \in SUBSET Keys}

\* What is read has not expired.
LEMMA Reaping ==
    ASSUME NEW c, NEW k \in Keys
    PROVE  ~ Expired(Reaped(c, k), k)
<1>1. CASE Expired(c, k)
  <2>1. PICK d : d = Without(c, Whole(c, k)) /\ Reaped(c, k) = d
    BY <1>1 DEF Reaped
  <2>2. Exp(k) \in Cells /\ Exp(k) \in Whole(c, k)
    BY CellsOf DEF Whole
  <2>3. d[Exp(k)] = Absent
    BY <2>1, <2>2 DEF Without
  <2> QED  BY <2>1, <2>3 DEF Expired
<1>2. CASE ~ Expired(c, k)
  BY <1>2 DEF Reaped
<1> QED  BY <1>1, <1>2

LEMMA Unmoved == ASSUME Ready PROVE Moves(cells, cells)
<1>1. \A k \in Keys : Seen(cells, cells, k)
  BY DEF Seen
<1> QED  BY <1>1, MovesUnseen DEF Ready

LEMMA ReadingMoves == ASSUME Ready, NEW c \in Readings PROVE Moves(cells, c)
<1>1. \A k \in Keys : Moves(cells, Reaped(cells, k))
  BY ReapMoves DEF Ready
<1>2. \A K \in SUBSET Keys : Moves(cells, ReapedAll(cells, K))
  BY ReapAllMoves DEF Ready
<1> QED  BY <1>1, <1>2, Unmoved DEF Readings

\* A request is refused, or its command runs.
LEMMA Executing ==
    ASSUME Ready, NEW r, NEW e, Fits(Execute(r, e).cells),
           \/ r[1] \in DOMAIN MinArgs /\ Malformed(r[1], Tail(r))
           \/ Fits(e.cells) => Moves(cells, e.cells)
    PROVE  Moves(cells, Execute(r, e).cells)
<1>1. CASE r[1] \notin DOMAIN MinArgs \/ Malformed(r[1], Tail(r))
  BY <1>1, Replies, Unmoved DEF Execute
<1>2. CASE ~ (r[1] \notin DOMAIN MinArgs \/ Malformed(r[1], Tail(r)))
  BY <1>2 DEF Execute
<1> QED  BY <1>1, <1>2

\* The keys a command names.
LEMMA Named ==
    ASSUME NEW S, NEW ks \in UpToTwo(S)
    PROVE  ks \in Seq(S) /\ {ks[i] : i \in DOMAIN ks} \in SUBSET S /\ SetOf(ks) \in SUBSET S
<1>1. PICK n \in 0 .. 2 : ks \in [1 .. n -> S]
  BY DEF UpToTwo
<1>2. ks \in Seq(S)
  BY <1>1
<1> QED  BY <1>1, <1>2 DEF SetOf

\* A key that a request writes a string to, or members or elements, is free for them.
LEMMA WrittenFree ==
    ASSUME Ready, NEW r, Allowed(r)
    PROVE  /\ r[1] \in {"SET", "SETNX", "SETEX", "INCR", "INCRBY", "DECR", "DECRBY", "APPEND", "POST /kv"}
                => Reaped(cells, r[2])[Type(r[2])] \in {Absent, "string"}
           /\ r[1] \in {"HSET", "HINCRBY"} => Reaped(cells, r[2])[Type(r[2])] \in {Absent, "hash"}
           /\ r[1] \in {"LPUSH", "RPUSH"} => Reaped(cells, r[2])[Type(r[2])] \in {Absent, "list"}
           /\ r[1] = "SADD" => Reaped(cells, r[2])[Type(r[2])] \in {Absent, "set"}
           /\ r[1] \in {"ZADD", "ZINCRBY"} => Reaped(cells, r[2])[Type(r[2])] \in {Absent, "zset"}
<1>1. \A w \in Writes(r) : Reaped(cells, w[1])[Type(w[1])] \in {Absent, w[2]}
  BY DEF Allowed, Ready
<1>2. /\ r[1] \in {"SET", "SETNX", "SETEX", "INCR", "INCRBY", "DECR", "DECRBY", "APPEND", "POST /kv"}
            => <<r[2], "string">> \in Writes(r)
      /\ r[1] \in {"HSET", "HINCRBY"} => <<r[2], "hash">> \in Writes(r)
      /\ r[1] \in {"LPUSH", "RPUSH"} => <<r[2], "list">> \in Writes(r)
      /\ r[1] = "SADD" => <<r[2], "set">> \in Writes(r)
      /\ r[1] \in {"ZADD", "ZINCRBY"} => <<r[2], "zset">> \in Writes(r)
  BY DEF Writes
<1>3. \A t : <<r[2], t>> \in Writes(r) => Reaped(cells, r[2])[Type(r[2])] \in {Absent, t}
  <2> SUFFICES ASSUME NEW t, <<r[2], t>> \in Writes(r)
               PROVE  Reaped(cells, r[2])[Type(r[2])] \in {Absent, t}
    OBVIOUS
  <2>1. PICK w : w = <<r[2], t>>
    OBVIOUS
  <2>2. w[1] = r[2] /\ w[2] = t
    BY <2>1
  <2> QED  BY <1>1, <2>1, <2>2
<1> QED  BY <1>2, <1>3

\* The names that stand in pairs with values.
LEMMA PairingOf ==
    ASSUME NEW a, NEW i, NEW d, NEW S,
           \A j \in i .. Len(a) : ((j - i) % 2) = 0 => a[j] \in S
    PROVE  DOMAIN Pairing(a, i, d) \subseteq S
BY DEF Pairing

\* Of four numbers some have a greatest.
LEMMA Greatest ==
    ASSUME NEW i \in Int, NEW S, S \subseteq i .. i + 3, S # {}
    PROVE  \E m \in S : \A y \in S : y <= m
<1>1. \A y \in S : y = i \/ y = i + 1 \/ y = i + 2 \/ y = i + 3
  OBVIOUS
<1>2. CASE i + 3 \in S
  BY <1>1, <1>2
<1>3. CASE i + 3 \notin S /\ i + 2 \in S
  BY <1>1, <1>3
<1>4. CASE i + 3 \notin S /\ i + 2 \notin S /\ i + 1 \in S
  BY <1>1, <1>4
<1>5. CASE i + 3 \notin S /\ i + 2 \notin S /\ i + 1 \notin S
  <2>1. \A y \in S : y = i
    BY <1>1, <1>5
  <2>2. i \in S
    BY <2>1
  <2>3. \A y \in S : y <= i
    BY <2>1
  <2> QED  BY <2>2, <2>3
<1> QED  BY <1>2, <1>3, <1>4, <1>5

\* The values of one or two pairs are in S.
Valued(a, i, d, S) ==
    /\ i \in Int /\ Len(a) \in Int /\ Len(a) <= i + 3
    /\ \A j \in i .. Len(a) : ((j - i) % 2) = 0 => a[j + d] \in S

\* A name gets one of the values that stand with it.
LEMMA PairingAt ==
    ASSUME NEW a, NEW i, NEW d, NEW S, Valued(a, i, d, S)
    PROVE  Pairing(a, i, d) \in [DOMAIN Pairing(a, i, d) -> S]
<1> DEFINE J == {j \in i .. Len(a) : (j - i) % 2 = 0}
           at(m) == {j \in i .. Len(a) : (j - i) % 2 = 0 /\ a[j] = m}
           last(m) == CHOOSE j \in at(m) : \A l \in at(m) : l <= j
<1>5. /\ i \in Int /\ Len(a) \in Int /\ Len(a) <= i + 3
      /\ \A j \in i .. Len(a) : ((j - i) % 2) = 0 => a[j + d] \in S
  BY DEF Valued
<1>1. Pairing(a, i, d) = [m \in {a[j] : j \in J} |-> a[last(m) + d]]
  BY DEF Pairing
<1>2. ASSUME NEW m \in {a[j] : j \in J} PROVE last(m) \in J
  <2>1. at(m) \subseteq J /\ at(m) # {}
    OBVIOUS
  <2>4. J \subseteq i .. i + 3
    BY <1>5
  <2> HIDE DEF at, J
  <2>2. \E j \in at(m) : \A l \in at(m) : l <= j
    <3>1. PICK A : A = at(m)
      OBVIOUS
    <3>2. A \subseteq i .. i + 3 /\ A # {}
      BY <2>1, <2>4, <3>1
    <3>3. \E j \in A : \A l \in A : l <= j
      BY <1>5, <3>2, Greatest
    <3> QED  BY <3>1, <3>3
  <2>3. last(m) \in at(m)
    BY <2>2
  <2> HIDE DEF last
  <2> QED  BY <2>1, <2>3
<1>3. \A j \in J : a[j + d] \in S
  BY <1>5
<1> HIDE DEF last, J
<1>4. \A m \in {a[j] : j \in J} : a[last(m) + d] \in S
  BY <1>2, <1>3
<1> QED  BY <1>1, <1>4

LEMMA StringMoves ==
    ASSUME Ready, NEW r \in StringRequests, Allowed(r), Fits(OnString(r).cells)
    PROVE  Moves(cells, OnString(r).cells)
<1> DEFINE e == StringCommand(r[1], Tail(r))
<1> SUFFICES ASSUME Fits(e.cells)
             PROVE  Moves(cells, e.cells) \/ (r[1] \in DOMAIN MinArgs /\ Malformed(r[1], Tail(r)))
  BY Executing DEF OnString
<1>1. CASE \E ks \in UpToTwo(Keys) : r = <<"MGET">> \o ks
  <2>1. PICK ks \in UpToTwo(Keys) : r = <<"MGET">> \o ks
    BY <1>1
  <2>2. r[1] = "MGET" /\ Tail(r) = ks /\ {ks[i] : i \in DOMAIN ks} \in SUBSET Keys
    BY <2>1, Shifting, Named
  <2>3. e.cells = ReapedAll(cells, {ks[i] : i \in DOMAIN ks})
    BY <2>2 DEF StringCommand, Array, Reply, MGet, Result
  <2>4. e.cells \in Readings
    BY <2>2, <2>3 DEF Readings
  <2> HIDE DEF e
  <2> QED  BY <2>4, ReadingMoves
<1>2. CASE r = <<"MSET">>
  <2>1. r[1] = "MSET" /\ Tail(r) = <<>>
    BY <1>2
  <2>2. e.cells = MSet(cells, Pairing(<<>>, 1, 1)).cells
    BY <2>1 DEF StringCommand, Reply
  <2>3. DOMAIN Pairing(<<>>, 1, 1) = {}
    BY DEF Pairing
  <2> HIDE DEF e
  <2>4. PICK map : map = Pairing(<<>>, 1, 1)
    OBVIOUS
  <2> QED  BY <2>2, <2>3, <2>4, MSetMoves DEF Ready
<1>3. ASSUME NEW k \in Of("string"),
             \/ r \in {<<"GET", k>>, <<"INCR", k>>, <<"DECR", k>>}
             \/ r = <<"APPEND", k, Word>> \/ \E v \in Vals : r = <<"SETNX", k, v>>
      PROVE  Moves(cells, e.cells)
  <2>1. k \in Keys
    BY DEF Of
  <2>2. CASE r = <<"GET", k>>
    <3>1. e.cells = Reaped(cells, k)
      BY <2>2, Replies, Results DEF StringCommand, Get
    <3> HIDE DEF e
    <3> QED  BY <2>1, <3>1, ReadingMoves DEF Readings
  <2>3. ASSUME NEW n \in Int, NEW c \in {"INCR", "DECR"}, r[1] = c, r[2] = k,
               e.cells = IncrBy(cells, k, n).cells
        PROVE  Moves(cells, e.cells)
    <3> HIDE DEF e
    <3>1. Reaped(cells, k)[Type(k)] \in {Absent, "string"}
      BY <2>3, WrittenFree
    <3> QED  BY <2>1, <2>3, <3>1, IncrByMoves DEF Ready
  <2>4. CASE r = <<"INCR", k>>
    <3>1. e.cells = IncrBy(cells, k, 1).cells
      BY <2>4, Replies DEF StringCommand
    <3> QED  BY <2>3, <2>4, <3>1
  <2>5. CASE r = <<"DECR", k>>
    <3>1. e.cells = IncrBy(cells, k, -1).cells
      BY <2>5, Replies DEF StringCommand
    <3> QED  BY <2>3, <2>5, <3>1
  <2>7. CASE r = <<"APPEND", k, Word>>
    <3>1. e.cells = Set(cells, k, Word, Absent, {}).cells
      BY <2>7, Replies, Results DEF StringCommand, AppendTo
    <3>2. Reaped(cells, k)[Type(k)] \in {Absent, "string"}
      <4>1. r[1] = "APPEND" /\ r[2] = k
        BY <2>7
      <4> QED  BY <4>1, WrittenFree
    <3>3. Word # Absent
      BY KVAssumption, CommandsAssumption
    <3> HIDE DEF e
    <3> QED  BY <2>1, <3>1, <3>2, <3>3, SetMoves DEF Ready
  <2>8. CASE \E v \in Vals : r = <<"SETNX", k, v>>
    <3>1. PICK v \in Vals : r = <<"SETNX", k, v>>
      BY <2>8
    <3>2. e.cells = Set(cells, k, v, Absent, {"nx"}).cells
      BY <3>1, Replies DEF StringCommand
    <3>3. Reaped(cells, k)[Type(k)] \in {Absent, "string"}
      <4>1. r[1] = "SETNX" /\ r[2] = k
        BY <3>1
      <4> QED  BY <4>1, WrittenFree
    <3> HIDE DEF e
    <3>4. v # Absent
      BY KVAssumption
    <3> QED  BY <2>1, <3>2, <3>3, <3>4, SetMoves DEF Ready
  <2> QED  BY <1>3, <2>2, <2>4, <2>5, <2>7, <2>8
<1>8. ASSUME NEW k \in Of("string"), r = <<"INCRBY", k, Word>>
      PROVE  r[1] \in DOMAIN MinArgs /\ Malformed(r[1], Tail(r))
  <2>1. "INCRBY" \in DOMAIN MinArgs
    BY DEF MinArgs
  <2>2. PICK a : a = <<k, Word>>
    OBVIOUS
  <2>3. r[1] = "INCRBY" /\ Tail(r) = a /\ a[2] = Word
    BY <1>8, <2>2
  <2>4. 2 \in Numeric("INCRBY", a)
    BY DEF Numeric
  <2>5. Malformed("INCRBY", a)
    BY <2>3, <2>4, CommandsAssumption DEF Malformed
  <2> QED  BY <2>1, <2>3, <2>5
<1>4. ASSUME NEW k \in Of("string"), r = <<"SETEX", k>> \/ r = <<"MSET", k>>
      PROVE  r[1] \in DOMAIN MinArgs /\ Malformed(r[1], Tail(r))
  <2>1. CASE r = <<"SETEX", k>>
    <3>1. MinArgs["SETEX"] = 3 /\ "SETEX" \in DOMAIN MinArgs
      BY DEF MinArgs
    <3>2. r[1] = "SETEX" /\ Len(Tail(r)) = 1
      BY <2>1
    <3>3. Len(Tail(r)) < MinArgs[r[1]]
      BY <3>1, <3>2, SMTT(60)
    <3> QED  BY <3>1, <3>2, <3>3 DEF Malformed
  <2>2. CASE r = <<"MSET", k>>
    <3>1. "MSET" \in DOMAIN MinArgs
      BY DEF MinArgs
    <3>2. r[1] = "MSET" /\ Len(Tail(r)) = 1
      BY <2>2
    <3>3. (Len(Tail(r)) % 2) # 0
      <4>1. \A n : n = 1 => (n % 2) # 0
        OBVIOUS
      <4> QED  BY <3>2, <4>1
    <3> QED  BY <3>1, <3>2, <3>3 DEF Malformed
  <2> QED  BY <1>4, <2>1, <2>2
<1>5. ASSUME NEW k \in Of("string"), NEW n \in {0, 1}, r = <<"SETEX", k, n, 0>>
      PROVE  Moves(cells, e.cells)
  <2>1. k \in Keys
    BY DEF Of
  <2>2. e.cells = Set(cells, k, 0, n, {}).cells
    BY <1>5, Replies DEF StringCommand
  <2>3. Reaped(cells, k)[Type(k)] \in {Absent, "string"}
    <3>1. r[1] = "SETEX" /\ r[2] = k
      BY <1>5
    <3> QED  BY <3>1, WrittenFree
  <2>4. n \in 0 .. 1
    OBVIOUS
  <2>5. 0 # Absent
    BY KVAssumption
  <2> HIDE DEF e
  <2> QED  BY <2>1, <2>2, <2>3, <2>4, <2>5, SetMoves DEF Ready
<1>6. ASSUME NEW k \in Of("string"), NEW v \in Vals, NEW ex \in {Absent, 1, Word},
             NEW f \in {{}, {"nx"}, {"xx"}}, r = <<"SET", k, v, ex, f>>
      PROVE  Moves(cells, e.cells) \/ (r[1] \in DOMAIN MinArgs /\ Malformed(r[1], Tail(r)))
  <2>1. k \in Keys
    BY DEF Of
  <2>2. r[1] = "SET" /\ Tail(r) = <<k, v, ex, f>> /\ Len(Tail(r)) = 4
    BY <1>6
  <2>0. PICK a : a = <<k, v, ex, f>>
    OBVIOUS
  <2>a. a = Tail(r)
    BY <2>0, <2>2
  <2>b. a[1] = k /\ a[2] = v /\ a[3] = ex /\ a[4] = f /\ Len(a) = 4 /\ 3 \in DOMAIN a
    BY <2>0
  <2>3. CASE ex = Word
    <3>1. "SET" \in DOMAIN MinArgs
      BY DEF MinArgs
    <3>2. Word # Absent /\ Word \notin Int
      BY KVAssumption, CommandsAssumption
    <3>3. 3 \in Numeric("SET", a)
      BY <2>b, <2>3, <3>2 DEF Numeric
    <3>4. Malformed("SET", a)
      BY <2>b, <2>3, <3>2, <3>3 DEF Malformed
    <3> QED  BY <2>2, <2>a, <3>1, <3>4
  <2>4. CASE ex # Word
    <3>1. e.cells = Set(cells, k, v, ex, f).cells
      <4>1. e = StringCommand("SET", a)
        BY <2>2, <2>a
      <4>2. StringCommand("SET", a).cells = Set(cells, k, v, ex, f).cells
        BY <2>b, Replies DEF StringCommand
      <4> QED  BY <4>1, <4>2
    <3>2. Reaped(cells, k)[Type(k)] \in {Absent, "string"}
      <4>1. r[1] = "SET" /\ r[2] = k
        BY <1>6
      <4> QED  BY <4>1, WrittenFree
    <3>3. ex = Absent \/ ex \in 0 .. 1
      BY <2>4
    <3>4. v # Absent
      BY KVAssumption
    <3> HIDE DEF e
    <3> QED  BY <2>1, <3>1, <3>2, <3>3, <3>4, SetMoves DEF Ready
  <2> QED  BY <2>3, <2>4
<1>7. ASSUME NEW k \in Of("string"), NEW j \in Keys, NEW v \in Vals, r = <<"MSET", j, v, k, v>>
      PROVE  Moves(cells, e.cells)
  <2>1. k \in Keys
    BY DEF Of
  <2>2. r[1] = "MSET" /\ Tail(r) = <<j, v, k, v>>
    BY <1>7
  <2>3. PICK map : map = Pairing(<<j, v, k, v>>, 1, 1)
    OBVIOUS
  <2>4. e.cells = MSet(cells, map).cells
    BY <2>2, <2>3, Replies, ZenonT(90) DEF StringCommand
  <2>5. DOMAIN map \subseteq {j, k}
    <3>1. PICK a : a = <<j, v, k, v>>
      OBVIOUS
    <3>2. a[1] = j /\ a[3] = k /\ Len(a) = 4
      BY <3>1
    <3>3. DOMAIN map = {a[i] : i \in {i \in 1 .. Len(a) : (i - 1) % 2 = 0}}
      BY <2>3, <3>1 DEF Pairing
    <3>4. \A i \in 1 .. 4 : ((i - 1) % 2) = 0 => i = 1 \/ i = 3
      OBVIOUS
    <3> QED  BY <3>2, <3>3, <3>4
  <2>6. \A i \in {2, 4} : Reaped(cells, r[i])[Type(r[i])] \in {Absent, "string"}
    <3>1. \A w \in Writes(r) : Reaped(cells, w[1])[Type(w[1])] \in {Absent, w[2]}
      BY DEF Allowed, Ready
    <3>2. \A i \in {2, 4} : <<r[i], "string">> \in Writes(r)
      <4>1. Writes(r) = {<<r[i], "string">> : i \in {i \in DOMAIN r : i % 2 = 0}}
        BY <2>2 DEF Writes
      <4>2. \A i \in {2, 4} : i \in DOMAIN r /\ (i % 2) = 0
        BY <1>7
      <4> QED  BY <4>1, <4>2
    <3> QED  BY <3>1, <3>2
  <2>7. \A l \in DOMAIN map : Reaped(cells, l)[Type(l)] \in {Absent, "string"}
    BY <1>7, <2>5, <2>6
  <2>8. DOMAIN map \subseteq Keys
    BY <2>1, <2>5
  <2>9. \A l \in DOMAIN map : map[l] # Absent
    <3>1. PICK a : a = <<j, v, k, v>>
      OBVIOUS
    <3>2. a[1 + 1] = v /\ a[3 + 1] = v /\ Len(a) = 4
      BY <3>1
    <3>3. \A i \in 1 .. 4 : ((i - 1) % 2) = 0 => i = 1 \/ i = 3
      OBVIOUS
    <3>4. Pairing(a, 1, 1) \in [DOMAIN Pairing(a, 1, 1) -> Vals]
      <4>1. Valued(a, 1, 1, Vals)
        BY <3>2, <3>3 DEF Valued
      <4> QED  BY <4>1, PairingAt
    <3>5. Absent \notin Vals
      BY KVAssumption
    <3> QED  BY <2>3, <3>1, <3>4, <3>5
  <2> HIDE DEF e
  <2> QED  BY <2>4, <2>7, <2>8, <2>9, MSetMoves DEF Ready
<1> QED
  BY <1>1, <1>2, <1>3, <1>4, <1>5, <1>6, <1>7, <1>8, SMTT(60) DEF StringRequests

LEMMA ServerMoves ==
    ASSUME Ready, NEW r \in ServerRequests, Allowed(r), Fits(OnServer(r).cells)
    PROVE  Moves(cells, OnServer(r).cells)
<1> DEFINE e == ServerCommand(r[1], Tail(r))
<1> SUFFICES ASSUME Fits(e.cells) PROVE Moves(cells, e.cells)
  BY Executing DEF OnServer
<1>1. CASE r = <<"DBSIZE">>
  <2>1. e.cells = ReapedAll(cells, Tagged(cells))
    BY <1>1, Replies, Results DEF ServerCommand, DBSize, KeysOf
  <2>2. Tagged(cells) \in SUBSET Keys
    BY DEF Tagged
  <2> HIDE DEF e
  <2> QED  BY <2>1, <2>2, ReadingMoves DEF Readings
<1>2. CASE r = <<"FLUSHDB">>
  <2>1. e.cells = FlushDB(cells).cells
    BY <1>2, Replies DEF ServerCommand
  <2> HIDE DEF e
  <2> QED  BY <2>1, FlushMoves DEF Ready
<1>3. CASE r = <<"PING">> \/ r = <<"COMPACT">>
  <2>1. e.cells = cells
    BY <1>3, Replies DEF ServerCommand
  <2> HIDE DEF e
  <2> QED  BY <2>1, Unmoved
<1> QED  BY <1>1, <1>2, <1>3 DEF ServerRequests

LEMMA KeyMoves ==
    ASSUME Ready, NEW r \in KeyRequests, Allowed(r), Fits(OnKeys(r).cells)
    PROVE  Moves(cells, OnKeys(r).cells)
<1> DEFINE e == KeyCommand(r[1], Tail(r))
<1> SUFFICES ASSUME Fits(e.cells)
             PROVE  Moves(cells, e.cells) \/ (r[1] \in DOMAIN MinArgs /\ Malformed(r[1], Tail(r)))
  BY Executing DEF OnKeys
<1>1. ASSUME NEW ks \in UpToTwo(Keys), NEW c \in {"DEL", "EXISTS"}, r = <<c>> \o ks PROVE Moves(cells, e.cells)
  <2>1. r[1] = c /\ Tail(r) = ks /\ {ks[i] : i \in DOMAIN ks} \in SUBSET Keys /\ SetOf(ks) \in SUBSET Keys
    BY <1>1, Shifting, Named
  <2>2. CASE c = "DEL"
    <3>1. e.cells = Delete(cells, SetOf(ks)).cells
      BY <2>1, <2>2, Replies DEF KeyCommand
    <3> HIDE DEF e
    <3> QED  BY <2>1, <3>1, DeleteMoves DEF Ready
  <2>3. CASE c = "EXISTS"
    <3>1. e.cells = ReapedAll(cells, {ks[i] : i \in DOMAIN ks})
      <4>1. e.cells = Exists(cells, ks).cells
        BY <2>1, <2>3, Replies DEF KeyCommand
      <4>2. Exists(cells, ks).cells = ReapedAll(cells, {ks[i] : i \in DOMAIN ks})
        BY Results DEF Exists
      <4> QED  BY <4>1, <4>2
    <3> HIDE DEF e
    <3> QED  BY <2>1, <3>1, ReadingMoves DEF Readings
  <2> QED  BY <2>2, <2>3
<1>2. ASSUME NEW k \in Keys, NEW n \in {0 - 1, 1}, r = <<"EXPIRE", k, n>> PROVE Moves(cells, e.cells)
  <2>1. e.cells = Expire(cells, k, n).cells
    BY <1>2, Replies DEF KeyCommand
  <2>2. n \in Int /\ n <= 1
    OBVIOUS
  <2>3. Strict => ~ Expired(cells, k)
    <3>1. r[1] = "EXPIRE" /\ r[2] = k
      BY <1>2
    <3> QED  BY <3>1 DEF Allowed, Strict
  <2> HIDE DEF e
  <2> QED  BY <2>1, <2>2, <2>3, ExpireMoves DEF Ready
<1>3. ASSUME NEW k \in Keys, r = <<"TTL", k>> \/ r = <<"TYPE", k>> PROVE Moves(cells, e.cells)
  <2>1. e.cells = Reaped(cells, k)
    <3>1. CASE r = <<"TTL", k>>
      <4>1. e.cells = TTL(cells, k).cells
        BY <3>1, Replies DEF KeyCommand
      <4>2. TTL(cells, k).cells = Reaped(cells, k)
        BY Results DEF TTL
      <4> QED  BY <4>1, <4>2
    <3>2. CASE r = <<"TYPE", k>>
      <4>1. e.cells = TypeOf(cells, k).cells
        BY <3>2, Replies DEF KeyCommand
      <4>2. TypeOf(cells, k).cells = Reaped(cells, k)
        BY Results DEF TypeOf
      <4> QED  BY <4>1, <4>2
    <3> QED  BY <1>3, <3>1, <3>2
  <2> HIDE DEF e
  <2> QED  BY <2>1, ReadingMoves DEF Readings
<1>4. ASSUME NEW k \in Keys, r = <<"PERSIST", k>> PROVE Moves(cells, e.cells)
  <2>1. e.cells = Persist(cells, k).cells
    BY <1>4, Replies DEF KeyCommand
  <2>2. Strict => ~ Expired(cells, k)
    <3>1. r[1] = "PERSIST" /\ r[2] = k
      BY <1>4
    <3> QED  BY <3>1 DEF Allowed, Strict
  <2> HIDE DEF e
  <2> QED  BY <2>1, <2>2, PersistMoves DEF Ready
<1>5. ASSUME NEW k \in Keys, r = <<"EXPIRE", k>> PROVE r[1] \in DOMAIN MinArgs /\ Malformed(r[1], Tail(r))
  <2>1. MinArgs["EXPIRE"] = 2 /\ "EXPIRE" \in DOMAIN MinArgs
    BY DEF MinArgs
  <2>2. r[1] = "EXPIRE" /\ Len(Tail(r)) = 1
    BY <1>5
  <2>3. Len(Tail(r)) < MinArgs[r[1]]
    <3>1. \A n : n = 1 => n < 2
      OBVIOUS
    <3> QED  BY <2>1, <2>2, <3>1
  <2> QED  BY <2>1, <2>2, <2>3 DEF Malformed
<1>6. ASSUME r = <<"KEYS">> \/ \E k \in Keys : r = <<"KEYS", {k}>> PROVE Moves(cells, e.cells)
  <2>1. e.cells = ReapedAll(cells, Tagged(cells))
    BY <1>6, Replies, Results DEF KeyCommand, KeysOf
  <2>2. Tagged(cells) \in SUBSET Keys
    BY DEF Tagged
  <2> HIDE DEF e
  <2> QED  BY <2>1, <2>2, ReadingMoves DEF Readings
<1> QED
  BY <1>1, <1>2, <1>3, <1>4, <1>5, <1>6 DEF KeyRequests

\* A request behind its command and its key.
LEMMA Shifting2 ==
    ASSUME NEW S, NEW a, NEW k, NEW s \in Seq(S)
    PROVE  /\ (<<a, k>> \o s)[1] = a /\ (<<a, k>> \o s)[2] = k
           /\ Tail(<<a, k>> \o s)[1] = k
           /\ From(Tail(<<a, k>> \o s), 2) = s /\ Len(Tail(<<a, k>> \o s)) >= 1
<1> DEFINE T == S \cup {a, k}
<1>1. s \in Seq(T) /\ a \in T /\ k \in T
  <2>1. S \subseteq T
    OBVIOUS
  <2> QED  BY <2>1, SeqMonotonic
<1> HIDE DEF T
<1> DEFINE r == <<a, k>> \o s
           u == Tail(r)
<1>2. <<a, k>> \in Seq(T) /\ Len(<<a, k>>) = 2 /\ <<a, k>>[1] = a /\ <<a, k>>[2] = k
  BY <1>1
<1>3. /\ r \in Seq(T) /\ Len(r) = 2 + Len(s)
      /\ \A i \in 1 .. 2 + Len(s) : r[i] = IF i <= 2 THEN <<a, k>>[i] ELSE s[i - 2]
  BY <1>1, <1>2, ConcatProperties
<1>4. Len(s) \in Nat
  BY LenProperties
<1>5. r[1] = a /\ r[2] = k /\ r # <<>>
  <2> HIDE DEF r
  <2> QED  BY <1>2, <1>3, <1>4
<1> HIDE DEF r
<1>6. /\ u \in Seq(T) /\ Len(u) = 1 + Len(s)
      /\ \A i \in 1 .. 1 + Len(s) : u[i] = r[i + 1]
  <2>1. /\ u \in Seq(T) /\ Len(u) = Len(r) - 1
        /\ \A i \in 1 .. Len(u) : u[i] = r[i + 1]
    BY <1>3, <1>5, HeadTailProperties
  <2> QED  BY <1>3, <1>4, <2>1
<1> HIDE DEF u
<1>7. u[1] = k
  BY <1>4, <1>5, <1>6
<1> DEFINE v == SubSeq(u, 2, Len(u))
<1>8. /\ v \in Seq(T) /\ Len(v) = IF 2 <= Len(u) THEN Len(u) - 2 + 1 ELSE 0
      /\ \A i \in 1 .. Len(u) - 2 + 1 : v[i] = u[2 + i - 1]
  <2>1. \A i \in 2 .. Len(u) : u[i] \in T
    <3>1. \A i \in 2 .. Len(u) : i \in 1 .. Len(u)
      BY <1>4, <1>6
    <3> QED  BY <3>1, <1>6, ElementOfSeq
  <2>2. 2 \in Int /\ Len(u) \in Int
    BY <1>4, <1>6
  <2> QED  BY <2>1, <2>2, SubSeqProperties
<1> HIDE DEF v
<1>9. Len(v) = Len(s) /\ \A i \in 1 .. Len(v) : v[i] = s[i]
  <2>1. Len(v) = Len(s)
    BY <1>4, <1>6, <1>8
  <2>2. ASSUME NEW i \in 1 .. Len(v) PROVE v[i] = s[i]
    <3>1. v[i] = u[i + 1]
      BY <1>4, <1>6, <1>8, <2>1
    <3>2. u[i + 1] = r[i + 2]
      BY <1>4, <1>6, <2>1
    <3>3. r[i + 2] = s[i]
      <4>1. i + 2 \in 1 .. 2 + Len(s) /\ ~ (i + 2 <= 2) /\ (i + 2) - 2 = i
        BY <1>4, <2>1
      <4> QED  BY <1>3, <4>1
    <3> QED  BY <3>1, <3>2, <3>3
  <2> QED  BY <2>1, <2>2
<1>10. v = s
  BY <1>1, <1>8, <1>9, SeqEqual
<1>11. Len(u) >= 1
  BY <1>4, <1>6
<1> QED  BY <1>5, <1>7, <1>10, <1>11 DEF From, u, v, r

\* A pair too few.
LEMMA Halved ==
    ASSUME NEW r, r[1] \in {"HSET", "ZADD"}, Len(Tail(r)) = 2
    PROVE  r[1] \in DOMAIN MinArgs /\ Malformed(r[1], Tail(r))
<1>1. "HSET" \in DOMAIN MinArgs /\ "ZADD" \in DOMAIN MinArgs
  BY DEF MinArgs
<1>2. (Len(Tail(r)) % 2) = 0
  <2>1. \A n : n = 2 => (n % 2) = 0
    OBVIOUS
  <2> QED  BY <2>1
<1> QED  BY <1>1, <1>2 DEF Malformed

\* hset(), once for each pair.
LEMMA HSetMoves ==
    ASSUME Apart, NEW c0, Good(c0), NEW k \in Keys, NEW map, DOMAIN map \subseteq Members,
           \A m \in DOMAIN map : map[m] # Absent,
           Reaped(c0, k)[Type(k)] \in {Absent, "hash"}, Fits(HSet(c0, k, map).cells)
    PROVE  Moves(c0, HSet(c0, k, map).cells)
<1>1. CASE DOMAIN map = {}
  BY <1>1, Results, ReapMoves DEF HSet
<1>2. CASE DOMAIN map # {}
  <2>1. HSet(c0, k, map) = Added(c0, k, "hash", map)
    BY <1>2 DEF HSet
  <2>2. "hash" \in Scanned /\ "hash" # "set" /\ "hash" # "zset"
    BY DEF Scanned
  <2> QED  BY <2>1, <2>2, AddedMoves
<1> QED  BY <1>1, <1>2

LEMMA HIncrByMoves ==
    ASSUME Apart, NEW c0, Good(c0), NEW k \in Keys, NEW m \in Members, NEW n \in Int,
           Reaped(c0, k)[Type(k)] \in {Absent, "hash"}, Fits(HIncrBy(c0, k, m, n).cells)
    PROVE  Moves(c0, HIncrBy(c0, k, m, n).cells)
<1> DEFINE c == Reaped(c0, k)
           got == HGet(c0, k, m)
           sum == IF got.answer = Absent THEN n ELSE got.answer + n
           map == [x \in {m} |-> sum]
<1>1. got.cells = c
  BY Results DEF HGet, Look
<1>2. \/ HIncrBy(c0, k, m, n).cells = c
      \/ HIncrBy(c0, k, m, n).cells = HSet(c, k, map).cells /\ sum \in Int
  BY <1>1, Results DEF HIncrBy
<1>5. sum \in Int => \A x \in DOMAIN map : map[x] # Absent
  BY KVAssumption
<1>6. Moves(c0, c) /\ \A d : Moves(c, d) => Moves(c0, d)
  BY ReapMoves
<1>3. Good(c) /\ Reaped(c, k)[Type(k)] \in {Absent, "hash"}
  <2>1. Good(c)
    BY Reaps
  <2>2. Reaped(c, k)[Type(k)] \in {c[Type(k)], Absent}
    BY <2>1, Reaps
  <2> QED  BY <2>1, <2>2
<1>4. DOMAIN map \subseteq Members
  OBVIOUS
<1> HIDE DEF c, map, sum
<1> QED  BY <1>2, <1>3, <1>4, <1>5, <1>6, HSetMoves

\* HSET with no pair, one or two.
Assigns(r, k) ==
    \/ r = <<"HSET", k>>
    \/ \E m \in Members, v \in Vals : r = <<"HSET", k, m, v>>
    \/ \E m \in Members, n \in Members, v \in Vals : r = <<"HSET", k, m, v, n, Word>>

LEMMA Assigned ==
    ASSUME NEW r, NEW k, Assigns(r, k)
    PROVE  /\ r[1] = "HSET" /\ r[2] = k /\ Tail(r)[1] = k
           /\ \E map : /\ map = Pairing(Tail(r), 2, 1) /\ DOMAIN map \subseteq Members
                       /\ \A m \in DOMAIN map : map[m] # Absent
<1>1. PICK a : a = Tail(r)
  OBVIOUS
<1>2. PICK map : map = Pairing(a, 2, 1)
  OBVIOUS
<1>3. ASSUME r[1] = "HSET", r[2] = k, a[1] = k, Valued(a, 2, 1, Vals),
             \A j \in 2 .. Len(a) : ((j - 2) % 2) = 0 => a[j] \in Members
      PROVE  /\ r[1] = "HSET" /\ r[2] = k /\ Tail(r)[1] = k
             /\ DOMAIN map \subseteq Members /\ \A m \in DOMAIN map : map[m] # Absent
  <2>1. DOMAIN map \subseteq Members
    BY <1>2, <1>3, PairingOf
  <2>2. map \in [DOMAIN map -> Vals]
    BY <1>2, <1>3, PairingAt
  <2> QED  BY <1>1, <1>3, <2>1, <2>2, KVAssumption
<1>4. CASE r = <<"HSET", k>>
  <2>1. r[1] = "HSET" /\ r[2] = k /\ a[1] = k /\ Len(a) = 1
    BY <1>1, <1>4
  <2>2. Valued(a, 2, 1, Vals)
    BY <2>1 DEF Valued
  <2> QED  BY <1>1, <1>2, <1>3, <2>1, <2>2
<1>5. CASE \E m \in Members, v \in Vals : r = <<"HSET", k, m, v>>
  <2>1. PICK m \in Members, v \in Vals : r = <<"HSET", k, m, v>>
    BY <1>5
  <2>2. r[1] = "HSET" /\ r[2] = k /\ a[1] = k /\ Len(a) = 3 /\ a[2] = m /\ a[2 + 1] = v
    BY <1>1, <2>1
  <2>3. \A j \in 2 .. 3 : ((j - 2) % 2) = 0 => j = 2
    OBVIOUS
  <2>4. Valued(a, 2, 1, Vals)
    BY <2>2, <2>3 DEF Valued
  <2> QED  BY <1>1, <1>2, <1>3, <2>2, <2>3, <2>4
<1>6. CASE \E m \in Members, n \in Members, v \in Vals : r = <<"HSET", k, m, v, n, Word>>
  <2>1. PICK m \in Members, n \in Members, v \in Vals : r = <<"HSET", k, m, v, n, Word>>
    BY <1>6
  <2>2. /\ r[1] = "HSET" /\ r[2] = k /\ a[1] = k /\ Len(a) = 5
        /\ a[2] = m /\ a[2 + 1] = v /\ a[4] = n /\ a[4 + 1] = Word
    BY <1>1, <2>1
  <2>3. \A j \in 2 .. 5 : ((j - 2) % 2) = 0 => j = 2 \/ j = 4
    OBVIOUS
  <2>4. Valued(a, 2, 1, Vals)
    BY <2>2, <2>3, CommandsAssumption DEF Valued
  <2> QED  BY <1>1, <1>2, <1>3, <2>2, <2>3, <2>4
<1> QED  BY <1>4, <1>5, <1>6 DEF Assigns

LEMMA HashMoves ==
    ASSUME Ready, NEW r \in HashRequests, Allowed(r), Fits(OnHash(r).cells)
    PROVE  Moves(cells, OnHash(r).cells)
<1> DEFINE e == HashCommand(r[1], Tail(r))
<1> SUFFICES ASSUME Fits(e.cells)
             PROVE  Moves(cells, e.cells) \/ (r[1] \in DOMAIN MinArgs /\ Malformed(r[1], Tail(r)))
  BY Executing DEF OnHash
<1> DEFINE R(k) ==
        {<<"HSET", k>>} \cup {<<"HSET", k, m>> : m \in Members}
        \cup {<<"HSET", k, m, v>> : m \in Members, v \in Vals}
        \cup {<<"HSET", k, m, v, n, Word>> : m \in Members, n \in Members, v \in Vals}
        \cup {<<"HDEL", k>> \o ms : ms \in UpToTwo(Members)}
        \cup {<<c, k, m>> : c \in {"HGET", "HINCRBY", "HEXISTS"}, m \in Members}
        \cup {<<"HINCRBY", k, m, n>> : m \in Members, n \in {0 - 1, Word}}
        \cup {<<"HGETALL", k>>, <<"HVALS", k>>, <<"HLEN", k>>}
<1>1. PICK k \in Of("hash") : r \in R(k)
  <2>1. HashRequests = UNION {R(k) : k \in Of("hash")}
    BY DEF HashRequests
  <2> HIDE DEF R
  <2> QED  BY <2>1
<1>2. k \in Keys
  BY DEF Of
<1>3. ASSUME NEW map, DOMAIN map \subseteq Members, \A m \in DOMAIN map : map[m] # Absent,
             r[1] = "HSET", r[2] = k,
             e.cells = HSet(cells, k, map).cells
      PROVE  Moves(cells, e.cells)
  <2>1. Reaped(cells, k)[Type(k)] \in {Absent, "hash"}
    BY <1>3, WrittenFree
  <2> HIDE DEF e
  <2> QED  BY <1>2, <1>3, <2>1, HSetMoves DEF Ready
<1>4. CASE Assigns(r, k)
  <2>1. PICK map : /\ map = Pairing(Tail(r), 2, 1) /\ DOMAIN map \subseteq Members
                   /\ \A m \in DOMAIN map : map[m] # Absent
    BY <1>4, Assigned
  <2>2. r[1] = "HSET" /\ r[2] = k /\ Tail(r)[1] = k
    BY <1>4, Assigned
  <2>3. e.cells = HSet(cells, k, map).cells
    BY <2>1, <2>2, Replies DEF HashCommand
  <2> HIDE DEF e
  <2> QED  BY <1>3, <2>1, <2>2, <2>3
<1>5. CASE \E m \in Members : r = <<"HSET", k, m>>
  <2>1. r[1] = "HSET" /\ Len(Tail(r)) = 2
    BY <1>5
  <2> QED  BY <2>1, Halved
<1>8. CASE \E ms \in UpToTwo(Members) : r = <<"HDEL", k>> \o ms
  <2>1. PICK ms \in UpToTwo(Members) : r = <<"HDEL", k>> \o ms
    BY <1>8
  <2>2. r[1] = "HDEL" /\ Tail(r)[1] = k /\ From(Tail(r), 2) = ms /\ SetOf(ms) \subseteq Members
    BY <2>1, Shifting2, Named
  <2>3. e.cells = Removed(cells, k, "hash", SetOf(ms)).cells
    BY <2>2, Replies DEF HashCommand, HDel
  <2>4. "hash" \in Scanned
    BY DEF Scanned
  <2> HIDE DEF e
  <2> QED  BY <1>2, <2>2, <2>3, <2>4, RemovedMoves DEF Ready
<1>9. ASSUME NEW m \in Members, NEW n \in Int, r[1] = "HINCRBY", r[2] = k,
             e.cells = HIncrBy(cells, k, m, n).cells
      PROVE  Moves(cells, e.cells)
  <2>1. Reaped(cells, k)[Type(k)] \in {Absent, "hash"}
    BY <1>9, WrittenFree
  <2> HIDE DEF e
  <2> QED  BY <1>2, <1>9, <2>1, HIncrByMoves DEF Ready
<1>10. CASE \E m \in Members : r = <<"HINCRBY", k, m>>
  <2>1. PICK m \in Members : r = <<"HINCRBY", k, m>>
    BY <1>10
  <2>2. e.cells = HIncrBy(cells, k, m, 1).cells
    BY <2>1, Replies DEF HashCommand
  <2> QED  BY <1>9, <2>1, <2>2
<1>11. CASE \E m \in Members, n \in {0 - 1, Word} : r = <<"HINCRBY", k, m, n>>
  <2>1. PICK m \in Members, n \in {0 - 1, Word} : r = <<"HINCRBY", k, m, n>>
    BY <1>11
  <2>2. CASE n = 0 - 1
    <3>1. e.cells = HIncrBy(cells, k, m, n).cells
      BY <2>1, Replies DEF HashCommand
    <3> QED  BY <1>9, <2>1, <2>2, <3>1
  <2>3. CASE n = Word
    <3>1. "HINCRBY" \in DOMAIN MinArgs
      BY DEF MinArgs
    <3>2. PICK a : a = <<k, m, Word>>
      OBVIOUS
    <3>3. r[1] = "HINCRBY" /\ Tail(r) = a /\ a[3] = Word /\ 3 \in DOMAIN a
      BY <2>1, <2>3, <3>2
    <3>4. 3 \in Numeric("HINCRBY", a)
      BY <3>3 DEF Numeric
    <3>5. Malformed("HINCRBY", a)
      BY <3>3, <3>4, CommandsAssumption DEF Malformed
    <3> QED  BY <3>1, <3>3, <3>5
  <2> QED  BY <2>1, <2>2, <2>3
<1>12. ASSUME e.cells = Reaped(cells, k) PROVE Moves(cells, e.cells)
  <2> HIDE DEF e
  <2> QED  BY <1>2, <1>12, ReadingMoves DEF Readings
<1>13. CASE \E c \in {"HGET", "HEXISTS"}, m \in Members : r = <<c, k, m>>
  <2>1. PICK c \in {"HGET", "HEXISTS"}, m \in Members : r = <<c, k, m>>
    BY <1>13
  <2>2. HGet(cells, k, m).cells = Reaped(cells, k) /\ HExists(cells, k, m).cells = Reaped(cells, k)
    BY Results DEF HGet, HExists, Look
  <2>3. e.cells \in {HGet(cells, k, m).cells, HExists(cells, k, m).cells}
    BY <2>1, Replies DEF HashCommand
  <2> QED  BY <1>12, <2>2, <2>3
<1>14. CASE r \in {<<"HGETALL", k>>, <<"HVALS", k>>, <<"HLEN", k>>}
  <2>1. HGetAll(cells, k).cells = Reaped(cells, k) /\ HLen(cells, k).cells = Reaped(cells, k)
    BY Results, SMTT(60) DEF HGetAll, HLen
  <2>2. e.cells \in {HGetAll(cells, k).cells, HLen(cells, k).cells}
    BY <1>14, Replies DEF HashCommand
  <2> QED  BY <1>12, <2>1, <2>2, SMTT(60)
<1>15. \/ Assigns(r, k) \/ \E m \in Members : r = <<"HSET", k, m>>
       \/ \E ms \in UpToTwo(Members) : r = <<"HDEL", k>> \o ms
       \/ \E m \in Members : r = <<"HINCRBY", k, m>>
       \/ \E m \in Members, n \in {0 - 1, Word} : r = <<"HINCRBY", k, m, n>>
       \/ \E c \in {"HGET", "HEXISTS"}, m \in Members : r = <<c, k, m>>
       \/ r \in {<<"HGETALL", k>>, <<"HVALS", k>>, <<"HLEN", k>>}
  BY <1>1 DEF Assigns
<1> HIDE DEF e
<1> QED
  BY <1>4, <1>5, <1>8, <1>10, <1>11, <1>13, <1>14, <1>15

LEMMA ListMoves ==
    ASSUME Ready, NEW r \in ListRequests, Allowed(r), Fits(OnList(r).cells)
    PROVE  Moves(cells, OnList(r).cells)
<1> DEFINE e == ListCommand(r[1], Tail(r))
           Pushes == UNION {[1 .. n -> Elements] : n \in 0 .. MaxPush}
           J(c, k, vs) == <<c, k>> \o vs
           C == {"LPUSH", "RPUSH"}
           P(k) == {J(c, k, vs) : c \in C, vs \in Pushes}
           R(k) ==
        P(k)
        \cup {<<"LPOP", k>>, <<"RPOP", k>>, <<"LLEN", k>>, <<"LRANGE", k, 0, Word>>}
        \cup {<<"LSET", k, i, v>> : i \in Places, v \in Elements}
        \cup {<<"LINDEX", k, i>> : i \in Places}
        \cup {<<"LTRIM", k, i, j>> : i \in Places, j \in Places} \cup {<<"LRANGE", k, 0, 0 - 1>>}
<1> SUFFICES ASSUME Fits(e.cells) PROVE Moves(cells, e.cells)
  BY Executing DEF OnList
<1>1. PICK k \in Of("list") : r \in R(k)
  <2>1. ListRequests = UNION {R(k) : k \in Of("list")}
    BY DEF ListRequests
  <2> HIDE DEF R
  <2> QED  BY <2>1
<1>2. k \in Keys
  BY DEF Of
<1> DEFINE c == Reaped(cells, k)
           head == Meta(c, k)[1]
           tail == Meta(c, k)[2]
<1>3. Good(c) /\ Places \subseteq Int
  BY <1>2, Reaps, KVAssumption DEF Ready, Places
<1>17. /\ Moves(cells, c) /\ \A d : Moves(c, d) => Moves(cells, d)
       /\ Strict => ~ Expired(c, k)
  BY <1>2, ReapMoves DEF Ready
<1>4. CASE \E b \in {"LPUSH", "RPUSH"}, vs \in Pushes : r = <<b, k>> \o vs
  <2>1. PICK b \in {"LPUSH", "RPUSH"}, vs \in Pushes : r = <<b, k>> \o vs
    BY <1>4
  <2>2. vs \in Seq(Elements)
    <3>1. PICK n \in 0 .. MaxPush : vs \in [1 .. n -> Elements]
      OBVIOUS
    <3>2. n \in Nat
      BY CommandsAssumption
    <3> QED  BY <3>1, <3>2
  <2>3. r[1] = b /\ r[2] = k /\ Tail(r)[1] = k /\ From(Tail(r), 2) = vs
    <3> HIDE DEF Pushes
    <3> QED  BY <2>1, <2>2, Shifting2
  <2>4. c[Type(k)] \in {Absent, "list"}
    BY <2>3, WrittenFree
  <2>5. ASSUME NEW left \in BOOLEAN, e.cells = Push(c, k, head, tail, vs, left).cells
        PROVE  Moves(cells, e.cells)
    <3> HIDE DEF e, c
    <3> QED  BY <1>2, <1>3, <1>17, <2>2, <2>4, <2>5, PushMoves DEF Ready
  <2>6. CASE b = "LPUSH"
    <3>1. e.cells = LPush(cells, k, vs).cells
      BY <2>3, <2>6, Replies DEF ListCommand
    <3>2. LPush(cells, k, vs) = Push(c, k, head, tail, vs, TRUE)
      BY DEF LPush
    <3> HIDE DEF e, c, head, tail
    <3> QED  BY <2>5, <3>1, <3>2
  <2>7. CASE b = "RPUSH"
    <3>1. e.cells = RPush(cells, k, vs).cells
      BY <2>3, <2>7, Replies DEF ListCommand
    <3>2. RPush(cells, k, vs) = Push(c, k, head, tail, vs, FALSE)
      BY DEF RPush
    <3> HIDE DEF e, c, head, tail
    <3> QED  BY <2>5, <3>1, <3>2
  <2> QED  BY <2>6, <2>7
<1>5. ASSUME NEW left \in BOOLEAN, e.cells = Pop(c, k, head, tail, left).cells
      PROVE  Moves(cells, e.cells)
  <2> HIDE DEF e, c
  <2> QED  BY <1>2, <1>3, <1>5, <1>17, PopMoves DEF Ready
<1>6. CASE r = <<"LPOP", k>>
  <2>1. e.cells = LPop(cells, k).cells
    BY <1>6, Replies DEF ListCommand
  <2>2. LPop(cells, k) = Pop(c, k, head, tail, TRUE)
    BY DEF LPop
  <2> HIDE DEF e, c, head, tail
  <2> QED  BY <1>5, <2>1, <2>2
<1>7. CASE r = <<"RPOP", k>>
  <2>1. e.cells = RPop(cells, k).cells
    BY <1>7, Replies DEF ListCommand
  <2>2. RPop(cells, k) = Pop(c, k, head, tail, FALSE)
    BY DEF RPop
  <2> HIDE DEF e, c, head, tail
  <2> QED  BY <1>5, <2>1, <2>2
<1>8. ASSUME e.cells = c PROVE Moves(cells, e.cells)
  <2> HIDE DEF e, c
  <2> QED  BY <1>8, <1>17
<1>9. CASE r = <<"LLEN", k>>
  <2>1. e.cells = LLen(cells, k).cells
    BY <1>9, Replies DEF ListCommand
  <2>2. LLen(cells, k).cells = c
    BY Results DEF LLen
  <2> QED  BY <1>8, <2>1, <2>2
<1>10. \A i, j : LRange(cells, k, i, j).cells = c /\ LIndex(cells, k, i).cells = c
  BY Results DEF LRange, LIndex, Only
<1>11. CASE r \in {<<"LRANGE", k, 0, Word>>, <<"LRANGE", k, 0, 0 - 1>>}
  <2>1. CASE r = <<"LRANGE", k, 0, Word>>
    <3>1. e.cells = LRange(cells, k, 0, Word).cells
      BY <2>1, Replies DEF ListCommand
    <3> QED  BY <1>8, <1>10, <3>1
  <2>2. CASE r = <<"LRANGE", k, 0, 0 - 1>>
    <3>1. e.cells = LRange(cells, k, 0, 0 - 1).cells
      BY <2>2, Replies DEF ListCommand
    <3> QED  BY <1>8, <1>10, <3>1
  <2> QED  BY <1>11, <2>1, <2>2
<1>12. CASE \E i \in Places : r = <<"LINDEX", k, i>>
  <2>1. PICK i \in Places : r = <<"LINDEX", k, i>>
    BY <1>12
  <2>2. e.cells = LIndex(cells, k, i).cells
    BY <2>1, Replies DEF ListCommand
  <2> QED  BY <1>8, <1>10, <2>2
<1>13. CASE \E i \in Places, v \in Elements : r = <<"LSET", k, i, v>>
  <2>1. PICK i \in Places, v \in Elements : r = <<"LSET", k, i, v>>
    BY <1>13
  <2>2. e.cells = LSet(cells, k, i, v).cells
    BY <2>1, Replies DEF ListCommand
  <2>3. LSet(cells, k, i, v) = Write(c, k, head, tail, i, v)
    BY DEF LSet
  <2>4. e.cells = Write(c, k, Meta(c, k)[1], Meta(c, k)[2], i, v).cells /\ i \in Int
    BY <1>3, <2>2, <2>3
  <2> HIDE DEF e, c
  <2> QED  BY <1>2, <1>3, <1>17, <2>4, WriteMoves DEF Ready
<1>14. CASE \E i, j \in Places : r = <<"LTRIM", k, i, j>>
  <2>1. PICK i \in Places, j \in Places : r = <<"LTRIM", k, i, j>>
    BY <1>14
  <2>2. e.cells = LTrim(cells, k, i, j).cells
    BY <2>1, Replies DEF ListCommand
  <2>3. i \in Int /\ j \in Int
    BY <1>3
  <2> HIDE DEF e
  <2> QED  BY <1>2, <2>2, <2>3, LTrimMoves DEF Ready
<1> HIDE DEF Pushes, e, c, head, tail
<1>15. \/ r \in P(k)
       \/ r \in {<<"LPOP", k>>, <<"RPOP", k>>, <<"LLEN", k>>, <<"LRANGE", k, 0, Word>>}
       \/ \E i \in Places, v \in Elements : r = <<"LSET", k, i, v>>
       \/ \E i \in Places : r = <<"LINDEX", k, i>>
       \/ \E i, j \in Places : r = <<"LTRIM", k, i, j>>
       \/ r = <<"LRANGE", k, 0, 0 - 1>>
  <2> HIDE DEF P
  <2> QED  BY <1>1
<1>16. r \in P(k) => \E b \in C, vs \in Pushes : r = J(b, k, vs)
  <2> HIDE DEF J, C
  <2> QED  OBVIOUS
<1> HIDE DEF P
<1> QED
  BY <1>15, <1>16, <1>4, <1>6, <1>7, <1>9, <1>11, <1>12, <1>13, <1>14

LEMMA SetsMoves ==
    ASSUME Ready, NEW r \in SetRequests, Allowed(r), Fits(OnSets(r).cells)
    PROVE  Moves(cells, OnSets(r).cells)
<1> DEFINE e == SetCommand(r[1], Tail(r))
           A == {<<c>> \o ks : c \in {"SUNION", "SINTER", "SDIFF"}, ks \in UpToTwo(Of("set"))}
           J(c, k, ms) == <<c, k>> \o ms
           C == {"SADD", "SREM"}
           P(k) == {J(c, k, ms) : c \in C, ms \in UpToTwo(Members)}
           R(k) ==
        P(k)
        \cup {<<"SISMEMBER", k, m>> : m \in Members} \cup {<<"SCARD", k>>, <<"SMEMBERS", k>>}
<1> SUFFICES ASSUME Fits(e.cells) PROVE Moves(cells, e.cells)
  BY Executing DEF OnSets
<1>1. r \in A \/ \E k \in Of("set") : r \in R(k)
  <2>1. SetRequests = A \cup UNION {R(k) : k \in Of("set")}
    BY DEF SetRequests
  <2> HIDE DEF A, R
  <2> QED  BY <2>1
<1>2. CASE r \in A
  <2>1. PICK c \in {"SUNION", "SINTER", "SDIFF"}, ks \in UpToTwo(Of("set")) : r = <<c>> \o ks
    <3> HIDE DEF e
    <3> QED  BY <1>2, SMTT(60)
  <2>2. r[1] = c /\ Tail(r) = ks /\ {ks[i] : i \in DOMAIN ks} \in SUBSET Of("set")
    BY <2>1, Shifting, Named
  <2>3. {ks[i] : i \in DOMAIN ks} \in SUBSET Keys
    BY <2>2 DEF Of
  <2>4. e.cells = ReapedAll(cells, {ks[i] : i \in DOMAIN ks})
    <3>1. e.cells \in {SUnion(cells, ks).cells, SInter(cells, ks).cells, SDiff(cells, ks).cells}
      BY <2>2, Replies DEF SetCommand
    <3>2. /\ SUnion(cells, ks).cells = ReapedAll(cells, {ks[i] : i \in DOMAIN ks})
          /\ SInter(cells, ks).cells = ReapedAll(cells, {ks[i] : i \in DOMAIN ks})
          /\ SDiff(cells, ks).cells = ReapedAll(cells, {ks[i] : i \in DOMAIN ks})
      BY Results DEF SUnion, SInter, SDiff
    <3> HIDE DEF e
    <3> QED  BY <3>1, <3>2
  <2> HIDE DEF e
  <2> QED  BY <2>3, <2>4, ReadingMoves DEF Readings
<1>3. ASSUME NEW k \in Of("set"), r \in R(k) PROVE Moves(cells, e.cells)
  <2>1. k \in Keys /\ "set" \in Scanned
    BY DEF Of, Scanned
  <2>2. CASE \E c \in {"SADD", "SREM"}, ms \in UpToTwo(Members) : r = <<c, k>> \o ms
    <3>1. PICK c \in {"SADD", "SREM"}, ms \in UpToTwo(Members) : r = <<c, k>> \o ms
      BY <2>2
    <3>2. /\ r[1] = c /\ r[2] = k /\ Tail(r)[1] = k /\ From(Tail(r), 2) = ms
          /\ SetOf(ms) \subseteq Members
      BY <3>1, Shifting2, Named
    <3>3. CASE c = "SREM"
      <4>1. e.cells = Removed(cells, k, "set", SetOf(ms)).cells
        BY <3>2, <3>3, Replies DEF SetCommand, SRem
      <4> HIDE DEF e
      <4> QED  BY <2>1, <3>2, <4>1, RemovedMoves DEF Ready
    <3>4. CASE c = "SADD"
      <4>1. PICK map : map = [m \in SetOf(ms) |-> Present]
        OBVIOUS
      <4>2. e.cells = Added(cells, k, "set", map).cells
        BY <3>2, <3>4, <4>1, Replies DEF SetCommand, SAdd
      <4>3. /\ DOMAIN map \subseteq Members /\ "set" # "zset"
            /\ \A m \in DOMAIN map : map[m] = Present /\ map[m] # Absent
        BY <3>2, <4>1, KVAssumption
      <4>4. Reaped(cells, k)[Type(k)] \in {Absent, "set"}
        BY <3>2, <3>4, WrittenFree
      <4> HIDE DEF e
      <4> QED  BY <2>1, <4>2, <4>3, <4>4, AddedMoves DEF Ready
    <3> QED  BY <3>3, <3>4
  <2>3. ASSUME e.cells = Reaped(cells, k) PROVE Moves(cells, e.cells)
    <3> HIDE DEF e
    <3> QED  BY <2>1, <2>3, ReadingMoves DEF Readings
  <2>4. CASE \E m \in Members : r = <<"SISMEMBER", k, m>>
    <3>1. PICK m \in Members : r = <<"SISMEMBER", k, m>>
      BY <2>4
    <3>2. e.cells = SIsMember(cells, k, m).cells
      BY <3>1, Replies DEF SetCommand
    <3>3. SIsMember(cells, k, m).cells = Reaped(cells, k)
      BY Results DEF SIsMember, Look
    <3> QED  BY <2>3, <3>2, <3>3
  <2>5. CASE r \in {<<"SCARD", k>>, <<"SMEMBERS", k>>}
    <3>1. e.cells \in {SCard(cells, k).cells, SMembers(cells, k).cells}
      BY <2>5, Replies DEF SetCommand
    <3>2. SCard(cells, k).cells = Reaped(cells, k) /\ SMembers(cells, k).cells = Reaped(cells, k)
      BY Results DEF SCard, SMembers
    <3> QED  BY <2>3, <3>1, <3>2
  <2> HIDE DEF e
  <2>6. \/ r \in P(k)
        \/ \E m \in Members : r = <<"SISMEMBER", k, m>>
        \/ r \in {<<"SCARD", k>>, <<"SMEMBERS", k>>}
    <3> HIDE DEF P
    <3> QED  BY <1>3
  <2>7. r \in P(k) => \E c \in C, ms \in UpToTwo(Members) : r = J(c, k, ms)
    <3> HIDE DEF J, C
    <3> QED  OBVIOUS
  <2> HIDE DEF P
  <2> QED  BY <2>2, <2>4, <2>5, <2>6, <2>7
<1> HIDE DEF A, R
<1> QED  BY <1>1, <1>2, <1>3

LEMMA ZIncrByMoves ==
    ASSUME Apart, NEW c0, Good(c0), NEW k \in Keys, NEW m \in Members, NEW n \in Int,
           Reaped(c0, k)[Type(k)] \in {Absent, "zset"}, Fits(ZIncrBy(c0, k, m, n).cells)
    PROVE  Moves(c0, ZIncrBy(c0, k, m, n).cells)
<1> DEFINE c == Reaped(c0, k)
           got == ZScore(c0, k, m)
           sum == IF got.answer = Absent THEN n ELSE got.answer + n
           map == [x \in {m} |-> sum]
<1>1. got.cells = c
  BY Results DEF ZScore, Look
<1>2. ZIncrBy(c0, k, m, n).cells = Added(c, k, "zset", map).cells
  BY <1>1, Results DEF ZIncrBy, ZAdd
<1>3. Good(c) /\ Reaped(c, k)[Type(k)] \in {Absent, "zset"}
  <2>1. Good(c)
    BY Reaps
  <2>2. Reaped(c, k)[Type(k)] \in {c[Type(k)], Absent}
    BY <2>1, Reaps
  <2> QED  BY <2>1, <2>2
<1>4. DOMAIN map \subseteq Members /\ "zset" \in Scanned /\ "zset" # "set"
  BY DEF Scanned
<1>5. got.answer = c[Item("zset", k, m)]
  BY DEF ZScore, Look, Result
<1>6. c[Item("zset", k, m)] \in Int \cup {Absent}
  <2>1. c[Item("zset", k, m)] \in Contents("zset") \cup {Absent}
    BY <1>3, <1>4 DEF Good, Tidy
  <2> QED  BY <2>1 DEF Contents
<1>7. sum \in Int
  BY <1>5, <1>6
<1> HIDE DEF sum
<1>8. \A x \in DOMAIN map : map[x] \in Int /\ map[x] # Absent
  BY <1>7, KVAssumption
<1>9. \A d : Moves(c, d) => Moves(c0, d)
  BY ReapMoves
<1> HIDE DEF c, map
<1> QED  BY <1>2, <1>3, <1>4, <1>8, <1>9, AddedMoves

\* A score that is no number.
LEMMA Scoring ==
    ASSUME NEW r, r[1] = "ZADD", NEW i \in {2, 4}, i \in DOMAIN Tail(r), Tail(r)[i] \notin Int
    PROVE  r[1] \in DOMAIN MinArgs /\ Malformed(r[1], Tail(r))
<1>1. "ZADD" \in DOMAIN MinArgs
  BY DEF MinArgs
<1>2. (i % 2) = 0
  OBVIOUS
<1>3. i \in Numeric("ZADD", Tail(r))
  BY <1>2 DEF Numeric
<1> QED  BY <1>1, <1>3 DEF Malformed

\* ZADD with no pair, one or two.
Rates(r, k) ==
    \/ r = <<"ZADD", k>>
    \/ \E n \in Vals, m \in Members : r = <<"ZADD", k, n, m>>
    \/ \E n \in Vals, m \in Members, l \in Members : r = <<"ZADD", k, 0, m, n, l>>

LEMMA Rated ==
    ASSUME NEW r, NEW k, Rates(r, k)
    PROVE  /\ r[1] = "ZADD" /\ r[2] = k /\ Tail(r)[1] = k
           /\ \/ Malformed("ZADD", Tail(r))
              \/ \E map : /\ map = Pairing(Tail(r), 3, -1) /\ DOMAIN map \subseteq Members
                          /\ \A m \in DOMAIN map : map[m] \in Int
<1>1. PICK a : a = Tail(r)
  OBVIOUS
<1>2. PICK map : map = Pairing(a, 3, -1)
  OBVIOUS
<1>3. ASSUME Valued(a, 3, -1, Int), \A j \in 3 .. Len(a) : ((j - 3) % 2) = 0 => a[j] \in Members
      PROVE  DOMAIN map \subseteq Members /\ \A m \in DOMAIN map : map[m] \in Int
  <2>1. DOMAIN map \subseteq Members
    BY <1>2, <1>3, PairingOf
  <2>2. map \in [DOMAIN map -> Int]
    BY <1>2, <1>3, PairingAt
  <2> QED  BY <2>1, <2>2
<1>4. CASE r = <<"ZADD", k>>
  <2>1. r[1] = "ZADD" /\ r[2] = k /\ a[1] = k /\ Len(a) = 1
    BY <1>1, <1>4
  <2>2. Valued(a, 3, -1, Int)
    BY <2>1 DEF Valued
  <2> QED  BY <1>1, <1>2, <1>3, <2>1, <2>2
<1>5. CASE \E n \in Vals, m \in Members : r = <<"ZADD", k, n, m>>
  <2>1. PICK n \in Vals, m \in Members : r = <<"ZADD", k, n, m>>
    BY <1>5
  <2>2. /\ r[1] = "ZADD" /\ r[2] = k /\ a[1] = k /\ Len(a) = 3
        /\ a[3] = m /\ a[3 + -1] = n /\ a[2] = n /\ 2 \in DOMAIN a
    BY <1>1, <2>1
  <2>3. CASE n \in Int
    <3>1. Valued(a, 3, -1, Int)
      BY <2>2, <2>3 DEF Valued
    <3> QED  BY <1>1, <1>2, <1>3, <2>2, <3>1
  <2>4. CASE n \notin Int
    BY <1>1, <2>2, <2>4, Scoring
  <2> QED  BY <2>3, <2>4
<1>6. CASE \E n \in Vals, m \in Members, l \in Members : r = <<"ZADD", k, 0, m, n, l>>
  <2>1. PICK n \in Vals, m \in Members, l \in Members : r = <<"ZADD", k, 0, m, n, l>>
    BY <1>6
  <2>2. /\ r[1] = "ZADD" /\ r[2] = k /\ a[1] = k /\ Len(a) = 5
        /\ a[3] = m /\ a[5] = l /\ a[3 + -1] = 0 /\ a[5 + -1] = n /\ a[4] = n /\ 4 \in DOMAIN a
    BY <1>1, <2>1
  <2>3. CASE n \in Int
    <3>1. \A j \in 3 .. 5 : ((j - 3) % 2) = 0 => j = 3 \/ j = 5
      OBVIOUS
    <3>2. Valued(a, 3, -1, Int)
      BY <2>2, <2>3, <3>1 DEF Valued
    <3> QED  BY <1>1, <1>2, <1>3, <2>2, <3>1, <3>2
  <2>4. CASE n \notin Int
    BY <1>1, <2>2, <2>4, Scoring
  <2> QED  BY <2>3, <2>4
<1> QED  BY <1>4, <1>5, <1>6 DEF Rates

LEMMA SortedSetMoves ==
    ASSUME Ready, NEW r \in SortedSetRequests, Allowed(r), Fits(OnSortedSet(r).cells)
    PROVE  Moves(cells, OnSortedSet(r).cells)
<1> DEFINE e == SortedSetCommand(r[1], Tail(r))
           R(k) ==
    {<<"ZADD", k>>} \cup {<<"ZADD", k, n>> : n \in {0, Word}}
    \cup {<<"ZADD", k, n, m>> : n \in Vals, m \in Members}
    \cup {<<"ZADD", k, 0, m, n, l>> : n \in Vals, m \in Members, l \in Members}
    \cup {<<"ZREM", k>> \o ms : ms \in UpToTwo(Members)}
    \cup {<<"ZINCRBY", k, n, m>> : n \in {0 - 1, 1}, m \in Members}
    \cup {<<c, k, m>> : c \in {"ZRANK", "ZSCORE"}, m \in Members}
    \cup {<<"ZRANGE", k, 0, 0 - 1>>, <<"ZCARD", k>>}
<1> SUFFICES ASSUME Fits(e.cells)
             PROVE  Moves(cells, e.cells) \/ (r[1] \in DOMAIN MinArgs /\ Malformed(r[1], Tail(r)))
  BY Executing DEF OnSortedSet
<1>1. PICK k \in Of("zset") : r \in R(k)
  <2>1. SortedSetRequests = UNION {R(k) : k \in Of("zset")}
    BY DEF SortedSetRequests
  <2> HIDE DEF R
  <2> QED  BY <2>1
<1>2. k \in Keys /\ "zset" \in Scanned /\ "zset" # "set"
  BY DEF Of, Scanned
<1>3. ASSUME NEW map, DOMAIN map \subseteq Members, \A m \in DOMAIN map : map[m] \in Int,
             r[1] = "ZADD", r[2] = k,
             e.cells = Added(cells, k, "zset", map).cells
      PROVE  Moves(cells, e.cells)
  <2>1. Reaped(cells, k)[Type(k)] \in {Absent, "zset"}
    BY <1>3, WrittenFree
  <2>2. \A m \in DOMAIN map : map[m] # Absent
    BY <1>3, KVAssumption
  <2> HIDE DEF e
  <2> QED  BY <1>2, <1>3, <2>1, <2>2, AddedMoves DEF Ready
<1>4. CASE Rates(r, k)
  <2>1. r[1] = "ZADD" /\ r[2] = k /\ Tail(r)[1] = k
    BY <1>4, Rated
  <2>2. CASE ~ Malformed("ZADD", Tail(r))
    <3>1. PICK map : /\ map = Pairing(Tail(r), 3, -1) /\ DOMAIN map \subseteq Members
                     /\ \A m \in DOMAIN map : map[m] \in Int
      BY <1>4, <2>2, Rated
    <3>2. e.cells = Added(cells, k, "zset", map).cells
      BY <2>1, <3>1, Replies DEF SortedSetCommand, ZAdd
    <3> HIDE DEF e
    <3> QED  BY <1>3, <2>1, <3>1, <3>2
  <2>3. "ZADD" \in DOMAIN MinArgs
    BY DEF MinArgs
  <2> QED  BY <2>1, <2>2, <2>3
<1>5. CASE \E n \in {0, Word} : r = <<"ZADD", k, n>>
  <2>1. r[1] = "ZADD" /\ Len(Tail(r)) = 2
    BY <1>5
  <2> QED  BY <2>1, Halved
<1>8. CASE \E ms \in UpToTwo(Members) : r = <<"ZREM", k>> \o ms
  <2>1. PICK ms \in UpToTwo(Members) : r = <<"ZREM", k>> \o ms
    BY <1>8
  <2>2. r[1] = "ZREM" /\ Tail(r)[1] = k /\ From(Tail(r), 2) = ms /\ SetOf(ms) \subseteq Members
    BY <2>1, Shifting2, Named
  <2>3. e.cells = Removed(cells, k, "zset", SetOf(ms)).cells
    BY <2>2, Replies DEF SortedSetCommand, ZRem
  <2> HIDE DEF e
  <2> QED  BY <1>2, <2>2, <2>3, RemovedMoves DEF Ready
<1>9. CASE \E n \in {0 - 1, 1}, m \in Members : r = <<"ZINCRBY", k, n, m>>
  <2>1. PICK n \in {0 - 1, 1}, m \in Members : r = <<"ZINCRBY", k, n, m>>
    BY <1>9
  <2>2. e.cells = ZIncrBy(cells, k, m, n).cells
    BY <2>1, Replies DEF SortedSetCommand
  <2>3. Reaped(cells, k)[Type(k)] \in {Absent, "zset"}
    <3>1. r[1] = "ZINCRBY" /\ r[2] = k
      BY <2>1
    <3> QED  BY <3>1, WrittenFree
  <2>4. n \in Int
    OBVIOUS
  <2> HIDE DEF e
  <2> QED  BY <1>2, <2>2, <2>3, <2>4, ZIncrByMoves DEF Ready
<1>10. ASSUME e.cells = Reaped(cells, k) PROVE Moves(cells, e.cells)
  <2> HIDE DEF e
  <2> QED  BY <1>2, <1>10, ReadingMoves DEF Readings
<1>11. \A i, j : ZRange(cells, k, i, j).cells = Reaped(cells, k)
  BY Results DEF ZRange
<1>12. CASE \E c \in {"ZRANK", "ZSCORE"}, m \in Members : r = <<c, k, m>>
  <2>1. PICK c \in {"ZRANK", "ZSCORE"}, m \in Members : r = <<c, k, m>>
    BY <1>12
  <2>2. CASE c = "ZRANK"
    <3>1. e.cells = ZRank(cells, k, m).cells
      BY <2>1, <2>2, Replies DEF SortedSetCommand
    <3>2. ZRank(cells, k, m).cells = Reaped(cells, k)
      BY <1>11, Results DEF ZRank
    <3> QED  BY <1>10, <3>1, <3>2
  <2>3. CASE c = "ZSCORE"
    <3>1. e.cells = ZScore(cells, k, m).cells
      BY <2>1, <2>3, Replies DEF SortedSetCommand
    <3>2. ZScore(cells, k, m).cells = Reaped(cells, k)
      BY Results DEF ZScore, Look
    <3> QED  BY <1>10, <3>1, <3>2
  <2> QED  BY <2>2, <2>3
<1>13. CASE r = <<"ZRANGE", k, 0, 0 - 1>>
  <2>1. e.cells = ZRange(cells, k, 0, 0 - 1).cells
    BY <1>13, Replies DEF SortedSetCommand
  <2> QED  BY <1>10, <1>11, <2>1
<1>14. CASE r = <<"ZCARD", k>>
  <2>1. e.cells = ZCard(cells, k).cells
    BY <1>14, Replies DEF SortedSetCommand
  <2>2. ZCard(cells, k).cells = Reaped(cells, k)
    BY <1>11, Results DEF ZCard
  <2> QED  BY <1>10, <2>1, <2>2
<1>15. \/ Rates(r, k) \/ \E n \in {0, Word} : r = <<"ZADD", k, n>>
       \/ \E ms \in UpToTwo(Members) : r = <<"ZREM", k>> \o ms
       \/ \E n \in {0 - 1, 1}, m \in Members : r = <<"ZINCRBY", k, n, m>>
       \/ \E c \in {"ZRANK", "ZSCORE"}, m \in Members : r = <<c, k, m>>
       \/ r = <<"ZRANGE", k, 0, 0 - 1>> \/ r = <<"ZCARD", k>>
  BY <1>1 DEF Rates
<1> HIDE DEF e
<1> QED
  BY <1>4, <1>5, <1>8, <1>9, <1>12, <1>13, <1>14, <1>15

-----------------------------------------------------------------------------
(* HTTP and the shell *)

LEMMA RestGetMoves ==
    ASSUME Ready, NEW r \in RestGets
    PROVE  Moves(cells, RestGet(r).cells)
<1>1. CASE \E k \in Keys : r = <<"GET /kv", k>>
  <2>1. PICK k \in Keys : r = <<"GET /kv", k>>
    BY <1>1
  <2>2. RestGet(r).cells = Get(cells, k).cells
    <3>1. r[1] = "GET /kv" /\ r[2] = k
      BY <2>1
    <3>2. \E b : RestGet(r) = Reply(Get(cells, k), b)
      BY <3>1, ZenonT(90) DEF RestGet
    <3> QED  BY <3>2, Replies
  <2>3. Get(cells, k).cells = Reaped(cells, k)
    BY Results DEF Get
  <2> QED  BY <2>2, <2>3, ReadingMoves DEF Readings
<1>2. Tagged(cells) \in SUBSET Keys
  BY DEF Tagged
<1>3. CASE \E k \in Keys : r = <<"GET /keys", {k}>>
  <2>1. PICK k \in Keys : r = <<"GET /keys", {k}>>
    BY <1>3
  <2>2. RestGet(r).cells = KeysOf(cells, {k}).cells
    <3>1. r[1] = "GET /keys" /\ r[2] = {k}
      BY <2>1
    <3>2. \E b : RestGet(r) = Reply(KeysOf(cells, {k}), b)
      BY <3>1 DEF RestGet
    <3> QED  BY <3>2, Replies
  <2>3. KeysOf(cells, {k}).cells = ReapedAll(cells, Tagged(cells))
    BY Results DEF KeysOf
  <2> QED  BY <1>2, <2>2, <2>3, ReadingMoves DEF Readings
<1>4. CASE r = <<"GET /metrics", 0>>
  <2>1. RestGet(r).cells = DBSize(cells).cells
    BY <1>4, Replies, ZenonT(90) DEF RestGet
  <2>2. DBSize(cells).cells = ReapedAll(cells, Tagged(cells))
    BY Results DEF DBSize, KeysOf
  <2> QED  BY <1>2, <2>1, <2>2, ReadingMoves DEF Readings
<1>5. CASE r = <<"GET /health", 0>>
  <2>1. RestGet(r).cells = cells
    BY <1>5, Replies, ZenonT(90) DEF RestGet
  <2> QED  BY <2>1, Unmoved
<1> QED  BY <1>1, <1>3, <1>4, <1>5 DEF RestGets

LEMMA Posts ==
    \A r \in RestPosts : \E k \in Of("string"), v \in {0, Absent}, ex \in {Absent, 1, Word} :
        r = <<"POST /kv", k, v, ex>>
<1> DEFINE A == {0, Absent}
           B == {Absent, 1, Word}
           J(k, v, ex) == <<"POST /kv", k, v, ex>>
<1>1. RestPosts = {J(k, v, ex) : k \in Of("string"), v \in A, ex \in B}
  BY DEF RestPosts
<1>2. \A r \in RestPosts : \E k \in Of("string"), v \in A, ex \in B : r = J(k, v, ex)
  <2> HIDE DEF A, B, J
  <2> QED  BY <1>1
<1> QED  BY <1>2

\* POST /kv leaves a good state although it raises: the deadline of the value
\* it wrote over stays.
LEMMA RestPostMoves ==
    ASSUME Ready, NEW r \in RestPosts, Allowed(r), Fits(RestPost(r).cells)
    PROVE  Moves(cells, RestPost(r).cells)
<1>1. ASSUME NEW k \in Of("string"), NEW v \in {0, Absent}, NEW ex \in {Absent, 1, Word},
             r = <<"POST /kv", k, v, ex>>
      PROVE  Moves(cells, RestPost(r).cells)
  <2>1. r[1] = "POST /kv" /\ r[2] = k /\ r[3] = v /\ r[4] = ex
    BY <1>1
  <2>2. k \in Keys
    BY DEF Of
  <2>3. Reaped(cells, k)[Type(k)] \in {Absent, "string"}
    BY <2>1, WrittenFree
  <2>4. CASE v = Absent
    <3>1. RestPost(r).cells = cells
      BY <2>1, <2>4, Replies, ZenonT(90) DEF RestPost
    <3> QED  BY <3>1, Unmoved
  <2>5. CASE v # Absent /\ ex # Word
    <3>1. RestPost(r).cells = Set(cells, k, v, ex, {}).cells
      BY <2>1, <2>5, Replies, ZenonT(90) DEF RestPost
    <3>2. PICK x : x = ex /\ (x = Absent \/ x \in 0 .. 1)
      BY <2>5
    <3>3. RestPost(r).cells = Set(cells, k, v, x, {}).cells
      BY <3>1, <3>2
    <3>4. Fits(Set(cells, k, v, x, {}).cells)
      BY <3>3
    <3>5. Moves(cells, Set(cells, k, v, x, {}).cells)
      BY <2>2, <2>3, <2>5, <3>2, <3>4, SetMoves DEF Ready
    <3> QED  BY <3>3, <3>5
  <2>6. CASE v # Absent /\ ex = Word
    <3> DEFINE c == Reaped(cells, k)
               d == [c EXCEPT ![V(k)] = v, ![Type(k)] = "string"]
    <3>1. RestPost(r).cells = d
      BY <2>1, <2>6, ZenonT(90) DEF RestPost
    <3>2. Good(c)
      BY <2>2, Reaps DEF Ready
    <3>9. \A x : Moves(c, x) => Moves(cells, x)
      BY <2>2, ReapMoves DEF Ready
    <3>10. ~ Expired(c, k)
      BY <2>2, Reaping DEF Ready
    <3> HIDE DEF c
    <3>3. DOMAIN c = Cells /\ Tidy(c, k)
      BY <2>2, <3>2 DEF Good
    <3>4. /\ DOMAIN d = Cells /\ d[Type(k)] = "string" /\ d[Exp(k)] = c[Exp(k)] /\ d[V(k)] = v
          /\ \A x \in Cells : d[x] = c[x] \/ x \in {V(k), Type(k), Exp(k)}
      BY <2>2, <3>3, CellsOf, Distinct
    <3> HIDE DEF d
    <3>5. d[Exp(k)] \in 0 .. MaxNow + 1 \cup {Absent}
      BY <3>3, <3>4 DEF Tidy
    <3>6. \A j \in {k} : /\ c[Type(j)] \in {Absent, "string"} /\ d[Type(j)] = "string"
                         /\ d[V(j)] # Absent
                         /\ d[Exp(j)] \in 0 .. MaxNow + 1 \cup {Absent}
                         /\ ~ Expired(d, j) /\ (d[Exp(j)] # Absent => d[Exp(j)] > now)
      <4>1. ~ Expired(d, k) /\ (d[Exp(k)] # Absent => d[Exp(k)] > now)
        <5>1. now \in Int
          BY DEF Ready
        <5> QED  BY <3>4, <3>5, <3>10, <5>1 DEF Expired
      <4>2. c[Type(k)] \in {Absent, "string"}
        BY <2>3 DEF c
      <4> QED  BY <2>6, <3>4, <3>5, <4>1, <4>2
    <3>7. {k} \in SUBSET Keys /\ \A x \in Cells : d[x] = c[x] \/ \E j \in {k} : x \in {V(j), Type(j), Exp(j)}
      BY <2>2, <3>4
    <3>8. Moves(c, d)
      <4>1. Fits(d) /\ Apart
        BY <3>1 DEF Ready
      <4>2. DOMAIN d = Cells
        BY <3>4
      <4>3. PICK K \in SUBSET Keys : K = {k}
        BY <2>2
      <4>4. \A j \in K : /\ c[Type(j)] \in {Absent, "string"}
                         /\ d[Type(j)] = "string" /\ d[V(j)] # Absent
                         /\ d[Exp(j)] \in 0 .. MaxNow + 1 \cup {Absent}
                         /\ ~ Expired(d, j) /\ (d[Exp(j)] # Absent => d[Exp(j)] > now)
        BY <3>6, <4>3
      <4>5. \A x \in Cells : d[x] = c[x] \/ \E j \in K : x \in {V(j), Type(j), Exp(j)}
        BY <3>7, <4>3
      <4> QED  BY <3>2, <4>1, <4>2, <4>4, <4>5, Writing
    <3> QED  BY <3>1, <3>8, <3>9
  <2> QED  BY <2>4, <2>5, <2>6
<1> QED  BY <1>1, Posts, ZenonT(90)

LEMMA RestDeleteMoves ==
    ASSUME Ready, NEW r \in RestDeletes
    PROVE  Moves(cells, RestDelete(r).cells)
<1>1. PICK k \in Keys : r = <<"DELETE /kv", k>>
  BY DEF RestDeletes
<1>2. RestDelete(r).cells = Delete(cells, {k}).cells
  <2>1. PICK e : e = Delete(cells, {k})
    OBVIOUS
  <2>2. PICK K : K = {r[2]}
    OBVIOUS
  <2>3. K = {k}
    BY <1>1, <2>2
  <2>4. RestDelete(r) = Reply(Delete(cells, K), <<200, Delete(cells, K).answer > 0>>)
    BY <2>2 DEF RestDelete
  <2> QED  BY <2>1, <2>3, <2>4, Replies
<1>3. {k} \in SUBSET Keys
  OBVIOUS
<1> QED  BY <1>2, <1>3, DeleteMoves DEF Ready

LEMMA ShellMoves ==
    ASSUME Ready, NEW r \in ShellRequests, Allowed(r), Fits(Shell(r).cells)
    PROVE  Moves(cells, Shell(r).cells)
<1>1. CASE r = <<"STATS">>
  <2>1. Shell(r).cells = DBSize(cells).cells
    BY <1>1, Replies DEF Shell
  <2>2. DBSize(cells).cells = ReapedAll(cells, Tagged(cells)) /\ Tagged(cells) \in SUBSET Keys
    BY Results DEF DBSize, KeysOf, Tagged
  <2> QED  BY <2>1, <2>2, ReadingMoves DEF Readings
<1>2. CASE r = <<"KEYS">>
  <2>1. Shell(r) = OnKeys(r)
    BY <1>2 DEF Shell
  <2>2. r \in KeyRequests
    BY <1>2 DEF KeyRequests
  <2> QED  BY <2>1, <2>2, KeyMoves
<1>3. CASE \E k \in Keys : r = <<"DEL", k>>
  <2>1. PICK k \in Keys : r = <<"DEL", k>>
    BY <1>3
  <2>2. Shell(r) = OnKeys(r)
    BY <2>1 DEF Shell
  <2>3. r[1] = "DEL" /\ Tail(r) = <<k>>
    BY <2>1
  <2>4. PICK K : K = SetOf(<<k>>)
    OBVIOUS
  <2>5. K \in SUBSET Keys
    BY <2>4 DEF SetOf
  <2>6. KeyCommand(r[1], Tail(r)).cells = Delete(cells, K).cells
    BY <2>3, <2>4, Replies DEF KeyCommand
  <2>7. Moves(cells, KeyCommand(r[1], Tail(r)).cells)
    BY <2>5, <2>6, DeleteMoves DEF Ready
  <2> QED  BY <2>2, <2>7, Executing DEF OnKeys
<1>4. CASE \E k \in Of("string"), v \in Vals : r = <<"SET", k, v, 1>>
  <2>1. PICK k \in Of("string"), v \in Vals : r = <<"SET", k, v, 1>>
    BY <1>4
  <2>2. Shell(r) = OnString(r)
    BY <2>1 DEF Shell
  <2>3. StringCommand(r[1], Tail(r)).cells = Set(cells, k, v, 1, {}).cells
    BY <2>1, Replies DEF StringCommand
  <2>4. r[1] = "SET" /\ r[2] = k /\ k \in Keys
    BY <2>1 DEF Of
  <2>5. Reaped(cells, k)[Type(k)] \in {Absent, "string"}
    BY <2>4, WrittenFree
  <2>7. v # Absent
    BY KVAssumption
  <2>6. Fits(StringCommand(r[1], Tail(r)).cells) => Moves(cells, StringCommand(r[1], Tail(r)).cells)
    BY <2>3, <2>4, <2>5, <2>7, SetMoves DEF Ready
  <2> QED  BY <2>2, <2>6, Executing DEF OnString
<1> QED  BY <1>1, <1>2, <1>3, <1>4 DEF ShellRequests

-----------------------------------------------------------------------------
(* The invariant *)

Invariant == now \in 0 .. MaxNow /\ Good(cells)

LEMMA InvariantInit ==
    ASSUME Init
    PROVE  Invariant
<1>1. DOMAIN cells = Cells
  BY DEF Init
<1>2. ASSUME NEW k \in Keys PROVE Tidy(cells, k)
  <2>1. Gone(cells, k)
    BY CellsOf DEF Init, Gone
  <2> QED  BY <2>1, GoneTidy
<1>3. now \in 0 .. MaxNow
  BY KVAssumption DEF Init
<1> QED  BY <1>1, <1>2, <1>3 DEF Invariant, Good

\* Time passes, or a command moves.
LEMMA Moving ==
    ASSUME Apart, "retype" \notin Liberties, Invariant, [Next]_vars
    PROVE  \/ Tick
           \/ now' = now /\ Moves(cells, cells')
<1>1. Ready
  BY DEF Ready, Invariant
<1> DEFINE Moved == now' = now /\ Moves(cells, cells')
<1>2. ASSUME NEW r, NEW e, Becomes(r, e), Allowed(r) /\ Fits(e.cells) => Moves(cells, e.cells)
      PROVE  Moved
  BY <1>2 DEF Becomes
<1> HIDE DEF Moved
<1>3. ASSUME ServeServer PROVE Moved
  BY <1>1, <1>2, <1>3, ServerMoves DEF ServeServer
<1>4. ASSUME ServeString PROVE Moved
  BY <1>1, <1>2, <1>4, StringMoves DEF ServeString
<1>5. ASSUME ServeKey PROVE Moved
  BY <1>1, <1>2, <1>5, KeyMoves DEF ServeKey
<1>6. ASSUME ServeHash PROVE Moved
  BY <1>1, <1>2, <1>6, HashMoves DEF ServeHash
<1>7. ASSUME ServeList PROVE Moved
  BY <1>1, <1>2, <1>7, ListMoves DEF ServeList
<1>8. ASSUME ServeSet PROVE Moved
  BY <1>1, <1>2, <1>8, SetsMoves DEF ServeSet
<1>9. ASSUME ServeSortedSet PROVE Moved
  BY <1>1, <1>2, <1>9, SortedSetMoves DEF ServeSortedSet
<1>10. ASSUME ServeRest PROVE Moved
  <2>1. CASE \E r \in RestGets : Becomes(r, RestGet(r))
    BY <1>1, <1>2, <2>1, RestGetMoves
  <2>2. CASE \E r \in RestPosts : Becomes(r, RestPost(r))
    BY <1>1, <1>2, <2>2, RestPostMoves
  <2>3. CASE \E r \in RestDeletes : Becomes(r, RestDelete(r))
    BY <1>1, <1>2, <2>3, RestDeleteMoves
  <2> QED  BY <1>10, <2>1, <2>2, <2>3 DEF ServeRest
<1>11. ASSUME ServeShell PROVE Moved
  BY <1>1, <1>2, <1>11, ShellMoves DEF ServeShell
<1>12. ASSUME UNCHANGED vars PROVE Moved
  BY <1>1, <1>12, Unmoved DEF vars, Moved
<1> QED
  <2>1. Tick \/ Moved
    BY <1>3, <1>4, <1>5, <1>6, <1>7, <1>8, <1>9, <1>10, <1>11, <1>12 DEF Next
  <2> QED  BY <2>1 DEF Moved

LEMMA InvariantNext ==
    ASSUME Apart, "retype" \notin Liberties, Invariant, [Next]_vars
    PROVE  Invariant'
<1>1. CASE Tick
  <2>1. cells' = cells /\ now' \in 0 .. MaxNow
    BY <1>1, KVAssumption DEF Tick, Invariant
  <2>2. Good(cells)'
    BY <2>1, ZenonT(90) DEF Invariant, Good, Tidy, Meta, Contents
  <2> QED  BY <2>1, <2>2 DEF Invariant
<1>2. CASE now' = now /\ Moves(cells, cells')
  <2>1. Good(cells')
    BY <1>2 DEF Moves
  <2>2. Good(cells)'
    BY <2>1 DEF Good, Tidy, Meta, Contents
  <2> QED  BY <1>2, <2>2 DEF Invariant
<1> QED  BY <1>1, <1>2, Moving

LEMMA InvariantHolds ==
    ASSUME Apart, "retype" \notin Liberties
    PROVE  Spec => []Invariant
<1>1. Init => Invariant
  BY InvariantInit
<1>2. Invariant /\ [Next]_vars => Invariant'
  BY InvariantNext
<1> QED  BY <1>1, <1>2, PTL DEF Spec

\* Every cell holds what its kind holds (kv.py, all methods), as long as no
\* client writes one type of value over another and no member of a key is a
\* member of another key as well, as "b:m" of a and "m" of "a:b" would be.
THEOREM TypesHold ==
    ASSUME Apart, "retype" \notin Liberties
    PROVE  Spec => []TypeOK
<1>1. Invariant => TypeOK
  <2> SUFFICES ASSUME Invariant PROVE TypeOK
    OBVIOUS
  <2>1. \A k \in Keys : Tidy(cells, k)
    BY DEF Invariant, Good
  <2>2. \A u \in Scanned : Contents(u) \subseteq Vals \cup {Present}
    BY DEF Scanned, Contents
  <2> QED  BY <2>1, <2>2 DEF Invariant, Good, TypeOK, Tidy
<1> QED  BY <1>1, InvariantHolds, PTL

\* The elements of a list are the cells of its range, without gaps and with
\* nothing left over outside for a later push to bring up again: at every
\* length and after every sequence of pushes, pops and trims on both ends,
\* deletes and expiries (kv.py lpush, rpush, lpop, rpop, ltrim, delete).
THEOREM ListsStayDense ==
    ASSUME Apart, "retype" \notin Liberties
    PROVE  Spec => []ListDense
<1>1. Invariant => ListDense
  BY DEF Invariant, Good, Tidy, ListDense
<1> QED  BY <1>1, InvariantHolds, PTL

\* A key without a type has no cell left but perhaps a deadline: DEL, expiry,
\* LTRIM of everything and FLUSHDB take all of a value with them, whatever its
\* type and size (kv.py delete, _purge_key_internal).
THEOREM NothingIsOrphaned ==
    ASSUME Apart, "retype" \notin Liberties
    PROVE  Spec => []NoOrphans
<1>1. Invariant => NoOrphans
  <2> SUFFICES ASSUME Invariant, NEW k \in Keys, cells[Type(k)] = Absent
               PROVE  /\ cells[V(k)] = Absent /\ cells[LMeta(k)] = Absent
                      /\ \A i \in Indexes : cells[Elem(k, i)] = Absent
                      /\ \A t \in Scanned, m \in Members : cells[Item(t, k, m)] = Absent
    BY DEF NoOrphans
  <2>1. Tidy(cells, k)
    BY DEF Invariant, Good
  <2>2. "string" # "list" /\ "list" \notin Scanned /\ "string" \notin Scanned
    BY DEF Scanned
  <2>3. /\ cells[V(k)] = Absent /\ cells[LMeta(k)] = Absent
        /\ \A t \in Scanned, m \in Members : cells[Item(t, k, m)] = Absent
    BY <2>1, KVAssumption DEF Tidy
  <2>4. \A i \in Indexes : cells[Elem(k, i)] = Absent
    BY <2>1, <2>2, Free
  <2> QED  BY <2>3, <2>4
<1> QED  BY <1>1, InvariantHolds, PTL

-----------------------------------------------------------------------------
(* The promise *)

\* What is seen of the next cells, while the clock stands.
LEMMA SeenNext ==
    ASSUME now' = now
    PROVE  \A k \in Keys : /\ Value(cells, k)' = Value(cells', k)
                           /\ Deadline(cells, k)' = Deadline(cells', k)
BY DEF Value, Deadline, Expired, Meta, Collected, Under

\* What is seen of keys that are not seen to change is the same.
LEMMA SameView ==
    ASSUME now' = now, \A k \in Keys : Seen(cells, cells', k)
    PROVE  TypedValues!Next
<1>1. \A k \in Keys : /\ Value(cells, k)' = Value(cells, k)
                      /\ Deadline(cells, k)' = Deadline(cells, k)
  BY SeenNext DEF Seen
<1> QED  BY <1>1 DEF TypedValues!Next, TypedValues!Delete

LEMMA KeysGo ==
    ASSUME now' = now,
           \A k \in Keys : \/ Seen(cells, cells', k)
                           \/ Value(cells', k) = Absent /\ Deadline(cells', k) = Absent
    PROVE  TypedValues!Next
<1>1. \A k \in Keys :
         \/ Value(cells, k)' = Value(cells, k) /\ Deadline(cells, k)' = Deadline(cells, k)
         \/ Value(cells, k)' = Absent /\ Deadline(cells, k)' = Absent
  BY SeenNext DEF Seen
<1> QED  BY <1>1 DEF TypedValues!Next, TypedValues!Delete

LEMMA StringsAreSet ==
    ASSUME now' = now, \A k \in Keys : Seen(cells, cells', k) \/ Written(cells, cells', k)
    PROVE  TypedValues!Next
<1>1. \A k \in Keys :
         \/ Value(cells, k)' = Value(cells, k) /\ Deadline(cells, k)' = Deadline(cells, k)
         \/ /\ Turns(Value(cells, k), Value(cells, k)', "string") /\ Value(cells, k)'.data \in Vals
            /\ Deadline(cells, k)' # Absent => Deadline(cells, k)' > now
  BY SeenNext DEF Seen, Written
<1> QED  BY <1>1 DEF TypedValues!Next, TypedValues!SetStrings, TypedValues!Keeps, Turns

\* Key k changes, as a command changes it.
LEMMA KeyChanges ==
    ASSUME now' = now, NEW k \in Keys, \A l \in Keys \ {k} : Seen(cells, cells', l),
           TypedValues!Command(k)
    PROVE  TypedValues!Next
<1>1. \A l \in Keys \ {k} : Value(cells, l)' = Value(cells, l) /\ Deadline(cells, l)' = Deadline(cells, l)
  BY SeenNext DEF Seen
<1>2. CASE Seen(cells, cells', k)
  BY <1>2, SameView
<1>3. CASE ~ Seen(cells, cells', k)
  <2>1. Value(cells, k)' # Value(cells, k) \/ Deadline(cells, k)' # Deadline(cells, k)
    BY <1>3, SeenNext DEF Seen
  <2> QED  BY <1>1, <2>1 DEF TypedValues!Next
<1> QED  BY <1>2, <1>3

LEMMA KeyIsTimed ==
    ASSUME now' = now, NEW k \in Keys, \A l \in Keys \ {k} : Seen(cells, cells', l),
           Timed(cells, cells', k)
    PROVE  TypedValues!Command(k)
<1>1. \A l \in Keys \ {k} : Value(cells, l)' = Value(cells, l) /\ Deadline(cells, l)' = Deadline(cells, l)
  BY SeenNext DEF Seen
<1>2. \/ /\ Value(cells, k)' = Value(cells, k)
         /\ Deadline(cells, k)' # Absent => Deadline(cells, k)' > now
      \/ Value(cells, k)' = Absent /\ Deadline(cells, k)' = Absent
  BY SeenNext DEF Timed
<1> QED  BY <1>1, <1>2 DEF TypedValues!Command, TypedValues!Expire, TypedValues!Persist

\* The deadlines stay, and the value of k changes as it may.
LEMMA KeyIsAltered ==
    ASSUME now' = now, NEW k \in Keys, \A l \in Keys \ {k} : Seen(cells, cells', l),
           Deadline(cells', k) = Deadline(cells, k), Altered(Value(cells, k), Value(cells', k))
    PROVE  TypedValues!Command(k)
<1>1. \A l \in Keys : Deadline(cells, l)' = Deadline(cells, l)
  BY SeenNext DEF Seen
<1>2. PICK v : v = Value(cells, k)
  OBVIOUS
<1>3. PICK w : w = Value(cells', k) /\ w = Value(cells, k)'
  BY SeenNext
<1>4. Altered(v, w)
  BY <1>2, <1>3
<1>5. CASE \E t \in Scanned : Joined(v, w, t)
  <2>1. PICK t \in Scanned : Joined(v, w, t)
    BY <1>5
  <2>2. \/ t = "hash" /\ Contents(t) \subseteq Vals
        \/ t = "zset" /\ Contents(t) \subseteq Vals
        \/ t = "set" /\ Contents(t) \subseteq {Present}
    BY DEF Scanned, Contents
  <2>3. \A C : Contents(t) \subseteq C => TypedValues!AddMembers(k, t, C)
    BY <1>1, <1>2, <1>3, <2>1 DEF Joined, Turns, Content, TypedValues!AddMembers, TypedValues!Keeps, TypedValues!Data
  <2> QED  BY <2>2, <2>3 DEF TypedValues!Command
<1>6. CASE \E t \in Scanned : Parted(v, w, t)
  <2>1. PICK t \in Scanned : Parted(v, w, t)
    BY <1>6
  <2>2. TypedValues!RemoveMembers(k, t)
    BY <1>1, <1>2, <1>3, <2>1 DEF Parted, Turns, TypedValues!RemoveMembers, TypedValues!Keeps, TypedValues!Data
  <2> QED  BY <2>2 DEF TypedValues!Command, Scanned
<1>7. CASE Pushed(v, w)
  <2>1. TypedValues!Push(k)
    BY <1>1, <1>2, <1>3, <1>7 DEF Pushed, Turns, Content, TypedValues!Push, TypedValues!Keeps, TypedValues!Data
  <2> QED  BY <2>1 DEF TypedValues!Command
<1>8. CASE Popped(v, w)
  <2>1. TypedValues!Pop(k)
    BY <1>1, <1>2, <1>3, <1>8 DEF Popped, Turns, TypedValues!Pop, TypedValues!Keeps, TypedValues!Data
  <2> QED  BY <2>1 DEF TypedValues!Command
<1>9. CASE Replaced(v, w)
  <2>1. TypedValues!Replace(k)
    BY <1>1, <1>2, <1>3, <1>9 DEF Replaced, Turns, TypedValues!Replace, TypedValues!Keeps, TypedValues!Data
  <2> QED  BY <2>1 DEF TypedValues!Command
<1>10. CASE Shortened(v, w)
  <2>1. TypedValues!Trim(k)
    BY <1>1, <1>2, <1>3, <1>10 DEF Shortened, Turns, TypedValues!Trim, TypedValues!Keeps, TypedValues!Data
  <2> QED  BY <2>1 DEF TypedValues!Command
<1> QED  BY <1>4, <1>5, <1>6, <1>7, <1>8, <1>9, <1>10 DEF Altered

\* A command does what the promise says.
LEMMA CommandsKeepPromise ==
    ASSUME now' = now, Effect(cells, cells')
    PROVE  TypedValues!Next
<1>1. CASE \E k \in Keys :
             /\ \A l \in Keys \ {k} : Seen(cells, cells', l)
             /\ \/ Deadline(cells', k) = Deadline(cells, k) /\ Altered(Value(cells, k), Value(cells', k))
                \/ Timed(cells, cells', k)
  <2>1. PICK k \in Keys :
             /\ \A l \in Keys \ {k} : Seen(cells, cells', l)
             /\ \/ Deadline(cells', k) = Deadline(cells, k) /\ Altered(Value(cells, k), Value(cells', k))
                \/ Timed(cells, cells', k)
    BY <1>1
  <2>2. TypedValues!Command(k)
    BY <2>1, KeyIsTimed, KeyIsAltered
  <2> QED  BY <2>1, <2>2, KeyChanges
<1> QED  BY <1>1, KeysGo, StringsAreSet DEF Effect

\* So does time.
LEMMA TimeKeepsPromise ==
    ASSUME Invariant, Tick
    PROVE  TypedValues!Next
<1>1. cells' = cells /\ now' = now + 1 /\ now \in Int
  BY DEF Tick, Invariant
<1>2. \A k \in Keys : cells[Exp(k)] = Absent \/ cells[Exp(k)] \in Int
  BY DEF Invariant, Good, Tidy
<1> DEFINE Due(k) == cells[Exp(k)] # Absent /\ now' >= cells[Exp(k)]
<1>3. \A k \in Keys : Expired(cells, k) => Due(k)
  BY <1>1, <1>2 DEF Expired
<1>4. \A k \in Keys : Due(k) => Value(cells, k)' = Absent /\ Deadline(cells, k)' = Absent
  BY <1>1 DEF Value, Deadline, Expired, Meta, Collected, Under
<1>5. \A k \in Keys : ~ Due(k) => Value(cells, k)' = Value(cells, k) /\ Deadline(cells, k)' = Deadline(cells, k)
  BY <1>1, <1>3 DEF Value, Deadline, Expired, Meta, Collected, Under
<1>6. \A k \in Keys : Expired(cells, k) => Value(cells, k) = Absent /\ Deadline(cells, k) = Absent
  BY DEF Value, Deadline
<1>7. \A k \in Keys : ~ Expired(cells, k) => Deadline(cells, k) = cells[Exp(k)]
  BY DEF Deadline
<1>8. ASSUME NEW k \in Keys
      PROVE  /\ Value(cells, k)' = IF Deadline(cells, k) # Absent /\ Deadline(cells, k) <= now'
                                   THEN Absent ELSE Value(cells, k)
             /\ Deadline(cells, k)' = IF Deadline(cells, k) # Absent /\ Deadline(cells, k) <= now'
                                      THEN Absent ELSE Deadline(cells, k)
  <2>1. CASE Expired(cells, k)
    BY <1>3, <1>4, <1>6, <2>1
  <2>2. CASE ~ Expired(cells, k)
    <3>1. Due(k) <=> Deadline(cells, k) # Absent /\ Deadline(cells, k) <= now'
      BY <1>1, <1>2, <1>7, <2>2
    <3> QED  BY <1>4, <1>5, <3>1
  <2> QED  BY <2>1, <2>2
<1>9. TypedValues!Tick
  BY <1>1, <1>8 DEF TypedValues!Tick
<1> QED  BY <1>9 DEF TypedValues!Next

\* The engine keeps the promise of TypedMap to its clients: whatever commands
\* they send, on strings, hashes, lists, sets and sorted sets, from the servers
\* and the shell, every command has its effect on its own keys and no other,
\* although a value is spread over many cells, and an expired value stays gone
\* although its cells are there until somebody reads the key (kv.py, all methods).
\* It takes that no key followed by anything is a member of another key (Flat),
\* so that expiry keeps to its key, and clients who leave types and the deadlines
\* that have passed alone; None is no typed value.
THEOREM ClientsSeeTypedValues ==
    ASSUME Flat, "retype" \notin Liberties, "late" \notin Liberties,
           \A t, x : [type |-> t, data |-> x] # Absent
    PROVE  Spec => Typed
<1>1. Strict /\ Apart
  BY FlatApart DEF Strict
<1>2. Init => TypedValues!Init
  <2> SUFFICES ASSUME Init PROVE TypedValues!Init
    OBVIOUS
  <2>1. \A k \in Keys : cells[Type(k)] = Absent /\ cells[Exp(k)] = Absent
    BY CellsOf DEF Init
  <2>2. \A k \in Keys : Value(cells, k) = Absent /\ Deadline(cells, k) = Absent
    BY <2>1 DEF Value, Deadline, Expired
  <2> QED  BY <2>2 DEF Init, TypedValues!Init
<1>3. Invariant /\ [Next]_vars => TypedValues!Next
  <2> SUFFICES ASSUME Invariant, [Next]_vars PROVE TypedValues!Next
    OBVIOUS
  <2>1. Tick \/ (now' = now /\ Effect(cells, cells'))
    BY <1>1, Moving DEF Moves
  <2> QED  BY <2>1, TimeKeepsPromise, CommandsKeepPromise
<1>4. Spec => []Invariant
  BY <1>1, InvariantHolds
<1>5. Invariant /\ [Next]_vars => [TypedValues!Next]_(TypedValues!vars)
  BY <1>3
<1> QED  BY <1>2, <1>4, <1>5, PTL DEF Spec, Typed, TypedValues!Spec

-----------------------------------------------------------------------------
(* Errors *)

LEMMA Unseen ==
    ASSUME NEW d, \A k \in Keys : Seen(cells, d, k)
    PROVE  View(d) = View(cells)
BY DEF View, Seen

\* An answer is an error if the method raised.
LEMMA Raised ==
    /\ \A e, r : ~ e.failed => Reply(e, r).reply = r
    /\ \A e : ~ e.failed => /\ Integer(e).reply # Error /\ Flag(e).reply # Error
                            /\ Bulk(e).reply # Error /\ Array(e).reply # Error
    /\ \A c, a : ~ Result(c, a).failed /\ Result(c, a).answer = a
    /\ \A x, y : <<x, y>> # Error
<1>1. \A x, y : <<x, y>> # Error
  <2> SUFFICES ASSUME NEW x, NEW y PROVE <<x, y>> # Error
    OBVIOUS
  <2>1. Len(<<x, y>>) = 2 /\ Len(<<"error">>) = 1
    OBVIOUS
  <2> QED  BY <2>1 DEF Error
<1> QED  BY <1>1 DEF Reply, Integer, Flag, Bulk, Array, Result

LEMMA StringErrors ==
    ASSUME Flat, Good(cells), NEW cmd, NEW a,
           cmd \in {"GET", "SET", "SETNX", "SETEX", "MGET", "MSET", "INCR", "INCRBY", "DECR", "APPEND"},
           cmd \in {"INCR", "INCRBY", "DECR"} => a[1] \in Keys,
           StringCommand(cmd, a).reply = Error
    PROVE  StringCommand(cmd, a).cells = cells
<1>1. \A c, k, v, ex, f : ~ Set(c, k, v, ex, f).failed
  BY Raised DEF Set
<1>2. ASSUME NEW k \in Keys, NEW n, Integer(IncrBy(cells, k, n)).reply = Error
      PROVE  Integer(IncrBy(cells, k, n)).cells = cells
  <2> DEFINE c == Reaped(cells, k)
  <2>1. c[V(k)] # Absent /\ IncrBy(cells, k, n) = Failure(c)
    BY <1>2, Raised DEF IncrBy
  <2>2. c = cells
    BY <2>1, ReapUnseen DEF Gone
  <2>3. IncrBy(cells, k, n).cells = cells
    BY <2>1, <2>2, Results
  <2> QED  BY <2>3, Replies
<1>3. CASE cmd = "GET"
  <2>1. StringCommand(cmd, a).reply # Error
    BY <1>3, Raised DEF StringCommand, Get
  <2> QED  BY <2>1
<1>4. CASE cmd = "SET"
  <2>1. \E e, r : ~ e.failed /\ StringCommand(cmd, a) = Reply(e, IF r THEN OK ELSE Null)
    BY <1>1, <1>4 DEF StringCommand
  <2> QED  BY <2>1, Raised DEF OK, Null
<1>5. CASE cmd = "SETNX"
  <2>1. StringCommand(cmd, a).reply # Error
    BY <1>1, <1>5, Raised DEF StringCommand
  <2> QED  BY <2>1
<1>6. CASE cmd = "SETEX"
  <2>1. StringCommand(cmd, a).reply # Error
    BY <1>1, <1>6, Raised DEF StringCommand, OK
  <2> QED  BY <2>1
<1>7. CASE cmd = "MGET"
  <2>1. StringCommand(cmd, a).reply # Error
    BY <1>7, Raised DEF StringCommand, MGet
  <2> QED  BY <2>1
<1>8. CASE cmd = "MSET"
  <2>1. \E e : ~ e.failed /\ StringCommand(cmd, a) = Reply(e, OK)
    BY <1>8, Raised DEF StringCommand, MSet
  <2> QED  BY <2>1, Raised DEF OK
<1>9. CASE cmd = "INCR"
  BY <1>2, <1>9 DEF StringCommand
<1>10. CASE cmd = "INCRBY"
  BY <1>2, <1>10 DEF StringCommand
<1>11. CASE cmd = "DECR"
  BY <1>2, <1>11 DEF StringCommand
<1>12. CASE cmd = "APPEND"
  <2>1. \E e, r : ~ e.failed /\ StringCommand(cmd, a) = Reply(e, <<"length", r>>)
    BY <1>12, Raised DEF StringCommand, AppendTo
  <2> QED  BY <2>1, Raised
<1> QED  BY <1>3, <1>4, <1>5, <1>6, <1>7, <1>8, <1>9, <1>10, <1>11, <1>12

LEMMA KeyErrors ==
    ASSUME NEW cmd \in {"DEL", "EXISTS", "EXPIRE", "TTL", "PERSIST", "TYPE", "KEYS"}, NEW a
    PROVE  KeyCommand(cmd, a).reply # Error
<1>1. CASE cmd = "DEL"
  BY <1>1, Raised DEF KeyCommand, Delete
<1>2. CASE cmd = "EXISTS"
  BY <1>2, Raised DEF KeyCommand, Exists
<1>3. CASE cmd = "EXPIRE"
  BY <1>3, Raised DEF KeyCommand, Expire
<1>4. CASE cmd = "TTL"
  BY <1>4, Raised DEF KeyCommand, TTL
<1>5. CASE cmd = "PERSIST"
  BY <1>5, Raised DEF KeyCommand, Persist
<1>6. CASE cmd = "TYPE"
  <2>1. \E e, r : ~ e.failed /\ KeyCommand(cmd, a) = Reply(e, <<"status", r>>)
    BY <1>6, Raised DEF KeyCommand, TypeOf
  <2> QED  BY <2>1, Raised
<1>7. CASE cmd = "KEYS"
  BY <1>7, Raised DEF KeyCommand, KeysOf
<1> QED  BY <1>1, <1>2, <1>3, <1>4, <1>5, <1>6, <1>7

LEMMA HashErrors ==
    ASSUME Flat, Good(cells), NEW cmd, NEW a,
           cmd \in {"HSET", "HGET", "HDEL", "HGETALL", "HVALS", "HEXISTS", "HLEN", "HINCRBY"},
           cmd = "HINCRBY" => a[1] \in Keys /\ a[2] \in Members,
           HashCommand(cmd, a).reply = Error
    PROVE  HashCommand(cmd, a).cells = cells
<1>1. \A k, m : ~ HGet(cells, k, m).failed /\ ~ HGetAll(cells, k).failed
  BY Raised DEF HGet, Look, HGetAll
<1>2. ASSUME NEW k \in Keys, NEW m \in Members, NEW n, Integer(HIncrBy(cells, k, m, n)).reply = Error
      PROVE  Integer(HIncrBy(cells, k, m, n)).cells = cells
  <2> DEFINE c == Reaped(cells, k)
             got == HGet(cells, k, m)
  <2>1. got.answer # Absent /\ HIncrBy(cells, k, m, n) = Failure(got.cells)
    BY <1>2, Raised DEF HIncrBy
  <2>2. got = Result(c, c[Item("hash", k, m)])
    BY DEF HGet, Look
  <2>3. c[Item("hash", k, m)] # Absent /\ got.cells = c
    BY <2>1, <2>2, Raised, Results
  <2>4. "hash" \in Scanned
    BY DEF Scanned
  <2>5. c = cells
    BY <2>3, <2>4, ReapUnseen DEF Gone
  <2>6. HIncrBy(cells, k, m, n).cells = cells
    BY <2>1, <2>3, <2>5, Results
  <2> QED  BY <2>6, Replies
<1>3. CASE cmd = "HSET"
  <2>1. \A k, map : ~ HSet(cells, k, map).failed
    BY Raised DEF HSet, Added
  <2>2. HashCommand(cmd, a).reply # Error
    BY <1>3, <2>1, Raised DEF HashCommand
  <2> QED  BY <2>2
<1>4. CASE cmd = "HGET"
  <2>1. HashCommand(cmd, a).reply # Error
    BY <1>1, <1>4, Raised DEF HashCommand
  <2> QED  BY <2>1
<1>5. CASE cmd = "HDEL"
  <2>1. HashCommand(cmd, a).reply # Error
    BY <1>5, Raised DEF HashCommand, HDel, Removed
  <2> QED  BY <2>1
<1>6. CASE cmd = "HGETALL" \/ cmd = "HVALS"
  <2>1. \E e, r : ~ e.failed /\ HashCommand(cmd, a) = Reply(e, <<"array", r>>)
    BY <1>1, <1>6 DEF HashCommand
  <2> QED  BY <2>1, Raised
<1>7. CASE cmd = "HEXISTS"
  <2>1. HashCommand(cmd, a).reply # Error
    BY <1>7, Raised DEF HashCommand, HExists
  <2> QED  BY <2>1
<1>8. CASE cmd = "HLEN"
  <2>1. HashCommand(cmd, a).reply # Error
    BY <1>8, Raised DEF HashCommand, HLen
  <2> QED  BY <2>1
<1>9. CASE cmd = "HINCRBY"
  <2>1. \E n : HashCommand(cmd, a) = Integer(HIncrBy(cells, a[1], a[2], n))
    BY <1>9 DEF HashCommand
  <2> QED  BY <1>2, <1>9, <2>1
<1> QED  BY <1>3, <1>4, <1>5, <1>6, <1>7, <1>8, <1>9

LEMMA ListErrors ==
    ASSUME Flat, Good(cells), NEW cmd, NEW a,
           cmd \in {"LPUSH", "RPUSH", "LPOP", "RPOP", "LRANGE", "LLEN", "LINDEX", "LSET", "LTRIM"},
           cmd = "LSET" => a[1] \in Keys,
           ListCommand(cmd, a).reply = Error
    PROVE  View(ListCommand(cmd, a).cells) = View(cells)
<1>1. CASE cmd = "LPUSH"
  <2>1. ListCommand(cmd, a).reply # Error
    BY <1>1, Raised DEF ListCommand, LPush, Push
  <2> QED  BY <2>1
<1>2. CASE cmd = "RPUSH"
  <2>1. ListCommand(cmd, a).reply # Error
    BY <1>2, Raised DEF ListCommand, RPush, Push
  <2> QED  BY <2>1
<1>3. CASE cmd = "LPOP"
  <2>1. ListCommand(cmd, a).reply # Error
    BY <1>3, Raised DEF ListCommand, LPop, Pop
  <2> QED  BY <2>1
<1>4. CASE cmd = "RPOP"
  <2>1. ListCommand(cmd, a).reply # Error
    BY <1>4, Raised DEF ListCommand, RPop, Pop
  <2> QED  BY <2>1
<1>5. CASE cmd = "LRANGE"
  <2>1. ListCommand(cmd, a).reply # Error
    BY <1>5, Raised DEF ListCommand, LRange
  <2> QED  BY <2>1
<1>6. CASE cmd = "LLEN"
  <2>1. ListCommand(cmd, a).reply # Error
    BY <1>6, Raised DEF ListCommand, LLen
  <2> QED  BY <2>1
<1>7. CASE cmd = "LINDEX"
  <2>1. ListCommand(cmd, a).reply # Error
    BY <1>7, Raised DEF ListCommand, LIndex, Only
  <2> QED  BY <2>1
<1>8. CASE cmd = "LSET"
  <2> DEFINE k == a[1]
             e == LSet(cells, k, a[2], a[3])
  <2>1. ListCommand(cmd, a) = Reply(e, IF e.answer THEN OK ELSE Error)
    BY <1>8 DEF ListCommand
  <2>2. ~ e.failed /\ (e.answer \/ e = Result(Reaped(cells, k), FALSE))
    BY Raised DEF LSet, Write
  <2>3. OK # Error
    BY Raised DEF OK
  <2>4. ListCommand(cmd, a).cells = Reaped(cells, k)
    <3> HIDE DEF e
    <3>1. ~ e.answer
      BY <2>1, <2>2, <2>3, Raised
    <3>2. e = Result(Reaped(cells, k), FALSE)
      BY <2>2, <3>1
    <3>3. e.cells = Reaped(cells, k)
      BY <3>2, Results
    <3>4. \A r : Reply(e, r).cells = e.cells
      BY Replies
    <3> QED  BY <2>1, <3>3, <3>4
  <2>5. \A l \in Keys : Seen(cells, Reaped(cells, k), l)
    BY <1>8, ReapUnseen
  <2> QED  BY <2>4, <2>5, Unseen
<1>9. CASE cmd = "LTRIM"
  <2>1. \E e : ~ e.failed /\ ListCommand(cmd, a) = Reply(e, OK)
    BY <1>9, Raised DEF ListCommand, LTrim
  <2> QED  BY <2>1, Raised DEF OK
<1> QED  BY <1>1, <1>2, <1>3, <1>4, <1>5, <1>6, <1>7, <1>8, <1>9

LEMMA SetErrors ==
    ASSUME NEW a,
           NEW cmd \in {"SADD", "SREM", "SMEMBERS", "SISMEMBER", "SCARD", "SUNION", "SINTER", "SDIFF"}
    PROVE  SetCommand(cmd, a).reply # Error
<1>1. CASE cmd = "SADD"
  BY <1>1, Raised DEF SetCommand, SAdd, Added
<1>2. CASE cmd = "SREM"
  BY <1>2, Raised DEF SetCommand, SRem, Removed
<1>3. CASE cmd = "SMEMBERS"
  BY <1>3, Raised DEF SetCommand, SMembers
<1>4. CASE cmd = "SISMEMBER"
  BY <1>4, Raised DEF SetCommand, SIsMember
<1>5. CASE cmd = "SCARD"
  BY <1>5, Raised DEF SetCommand, SCard
<1>6. CASE cmd = "SUNION"
  BY <1>6, Raised DEF SetCommand, SUnion
<1>7. CASE cmd = "SINTER"
  BY <1>7, Raised DEF SetCommand, SInter
<1>8. CASE cmd = "SDIFF"
  BY <1>8, Raised DEF SetCommand, SDiff
<1> QED  BY <1>1, <1>2, <1>3, <1>4, <1>5, <1>6, <1>7, <1>8

LEMMA SortedSetErrors ==
    ASSUME NEW a, NEW cmd \in {"ZADD", "ZREM", "ZSCORE", "ZINCRBY", "ZRANK", "ZRANGE", "ZCARD"}
    PROVE  SortedSetCommand(cmd, a).reply # Error
<1>1. CASE cmd = "ZADD"
  BY <1>1, Raised DEF SortedSetCommand, ZAdd, Added
<1>2. CASE cmd = "ZREM"
  BY <1>2, Raised DEF SortedSetCommand, ZRem, Removed
<1>3. CASE cmd = "ZSCORE"
  BY <1>3, Raised DEF SortedSetCommand, ZScore, Look
<1>4. CASE cmd = "ZINCRBY"
  BY <1>4, Raised DEF SortedSetCommand, ZIncrBy
<1>5. CASE cmd = "ZRANK"
  <2>1. \E e, b, i : ~ e.failed /\ SortedSetCommand(cmd, a) = Reply(e, IF b THEN Null ELSE <<"integer", i>>)
    BY <1>5, Raised DEF SortedSetCommand, ZRank
  <2> QED  BY <2>1, Raised DEF Null
<1>6. CASE cmd = "ZRANGE"
  BY <1>6, Raised DEF SortedSetCommand, ZRange
<1>7. CASE cmd = "ZCARD"
  BY <1>7, Raised DEF SortedSetCommand, ZCard
<1> QED  BY <1>1, <1>2, <1>3, <1>4, <1>5, <1>6, <1>7

\* The commands of the requests, and the keys and members that some name.
LEMMA StringHeads ==
    ASSUME NEW r \in StringRequests
    PROVE  /\ r[1] \in {"GET", "SET", "SETNX", "SETEX", "MGET", "MSET", "INCR", "INCRBY", "DECR", "APPEND"}
           /\ r[1] \in {"INCR", "INCRBY", "DECR"} => Tail(r)[1] \in Keys
<1>1. ASSUME NEW ks \in UpToTwo(Keys), r = <<"MGET">> \o ks PROVE r[1] = "MGET"
  BY <1>1, Shifting, Named
<1>2. ASSUME NEW k \in Of("string"), NEW v \in Vals, NEW ex \in {Absent, 1, Word},
             NEW f \in {{}, {"nx"}, {"xx"}}, r = <<"SET", k, v, ex, f>>
      PROVE  r[1] = "SET"
  BY <1>2
<1>3. ASSUME NEW k \in Of("string"), NEW j \in Keys, NEW v \in Vals, r = <<"MSET", j, v, k, v>>
      PROVE  r[1] = "MSET"
  BY <1>3
<1>4. ASSUME NEW k \in Of("string"),
             \/ r \in {<<"INCR", k>>, <<"DECR", k>>, <<"INCRBY", k, Word>>}
      PROVE  r[1] \in {"INCR", "INCRBY", "DECR"} /\ Tail(r)[1] \in Keys
  <2>1. k \in Keys
    BY DEF Of
  <2>2. CASE r = <<"INCR", k>>
    BY <2>1, <2>2
  <2>3. CASE r = <<"DECR", k>>
    BY <2>1, <2>3
  <2>4. CASE r = <<"INCRBY", k, Word>>
    BY <2>1, <2>4
  <2> QED  BY <1>4, <2>2, <2>3, <2>4
<1>5. ASSUME NEW k \in Of("string"),
             \/ r \in {<<"GET", k>>, <<"SETEX", k>>, <<"MSET", k>>, <<"APPEND", k, Word>>}
             \/ \E v \in Vals : r = <<"SETNX", k, v>>
             \/ \E n \in {0, 1} : r = <<"SETEX", k, n, 0>>
      PROVE  r[1] \in {"GET", "SETEX", "MSET", "APPEND", "SETNX"}
  BY <1>5
<1>6. CASE r = <<"MSET">>
  BY <1>6
<1> QED
  BY <1>1, <1>2, <1>3, <1>4, <1>5, <1>6, SMTT(60) DEF StringRequests

LEMMA KeyHeads ==
    ASSUME NEW r \in KeyRequests
    PROVE  /\ r[1] \in {"DEL", "EXISTS", "EXPIRE", "TTL", "PERSIST", "TYPE", "KEYS"}
           /\ r[1] = "DEL" => Tail(r) \in Seq(Keys) /\ SetOf(Tail(r)) \in SUBSET Keys
<1>1. ASSUME NEW ks \in UpToTwo(Keys), NEW c \in {"DEL", "EXISTS"}, r = <<c>> \o ks
      PROVE  r[1] = c /\ Tail(r) \in Seq(Keys) /\ SetOf(Tail(r)) \in SUBSET Keys
  <2>1. ks \in Seq(Keys) /\ SetOf(ks) \in SUBSET Keys
    BY Named
  <2>2. r[1] = c /\ Tail(r) = ks
    BY <1>1, <2>1, Shifting
  <2> QED  BY <2>1, <2>2
<1>2. ASSUME NEW k \in Keys, NEW n \in {0 - 1, 1}, r = <<"EXPIRE", k, n>> PROVE r[1] = "EXPIRE"
  BY <1>2
<1>3. ASSUME NEW k \in Keys, NEW c \in {"TTL", "PERSIST", "TYPE", "EXPIRE"}, r = <<c, k>> PROVE r[1] = c
  BY <1>3
<1>4. ASSUME r = <<"KEYS">> \/ \E k \in Keys : r = <<"KEYS", {k}>> PROVE r[1] = "KEYS"
  BY <1>4
<1> QED  BY <1>1, <1>2, <1>3, <1>4, SMTT(60) DEF KeyRequests

\* A key and members to take away.
Takes(r) == r[2] \in Keys /\ Tail(r)[1] = r[2] /\ SetOf(From(Tail(r), 2)) \subseteq Members

LEMMA HashHeads ==
    ASSUME NEW r \in HashRequests
    PROVE  /\ r[1] \in {"HSET", "HGET", "HDEL", "HGETALL", "HVALS", "HEXISTS", "HLEN", "HINCRBY"}
           /\ r[1] = "HINCRBY" => Tail(r)[1] \in Keys /\ Tail(r)[2] \in Members
           /\ r[1] = "HSET" => r[2] \in Keys /\ (Assigns(r, r[2]) \/ Malformed(r[1], Tail(r)))
           /\ r[1] = "HDEL" => Takes(r)
<1> DEFINE R(k) ==
        {<<"HSET", k>>} \cup {<<"HSET", k, m>> : m \in Members}
        \cup {<<"HSET", k, m, v>> : m \in Members, v \in Vals}
        \cup {<<"HSET", k, m, v, n, Word>> : m \in Members, n \in Members, v \in Vals}
        \cup {<<"HDEL", k>> \o ms : ms \in UpToTwo(Members)}
        \cup {<<c, k, m>> : c \in {"HGET", "HINCRBY", "HEXISTS"}, m \in Members}
        \cup {<<"HINCRBY", k, m, n>> : m \in Members, n \in {0 - 1, Word}}
        \cup {<<"HGETALL", k>>, <<"HVALS", k>>, <<"HLEN", k>>}
<1>1. PICK k \in Of("hash") : r \in R(k)
  <2>1. HashRequests = UNION {R(k) : k \in Of("hash")}
    BY DEF HashRequests
  <2> HIDE DEF R
  <2> QED  BY <2>1
<1>2. k \in Keys
  BY DEF Of
<1>3. CASE Assigns(r, k)
  BY <1>2, <1>3, Assigned
<1>4. CASE \E m \in Members : r = <<"HSET", k, m>>
  <2>1. r[1] = "HSET" /\ r[2] = k /\ Len(Tail(r)) = 2
    BY <1>4
  <2> QED  BY <1>2, <2>1, Halved
<1>5. CASE r \in {<<"HGETALL", k>>, <<"HVALS", k>>, <<"HLEN", k>>}
  BY <1>5
<1>7. CASE \E ms \in UpToTwo(Members) : r = <<"HDEL", k>> \o ms
  <2>1. r[1] = "HDEL" /\ Takes(r)
    BY <1>2, <1>7, Shifting2, Named DEF Takes
  <2> QED  BY <2>1
<1>8. CASE \E m \in Members : r = <<"HINCRBY", k, m>>
  <2>1. PICK m \in Members : r = <<"HINCRBY", k, m>>
    BY <1>8
  <2>2. r[1] = "HINCRBY" /\ Tail(r)[1] = k /\ Tail(r)[2] = m
    BY <2>1
  <2> QED  BY <1>2, <2>2
<1>10. CASE \E c \in {"HGET", "HEXISTS"}, m \in Members : r = <<c, k, m>>
  BY <1>10
<1>9. CASE \E m \in Members, n \in {0 - 1, Word} : r = <<"HINCRBY", k, m, n>>
  <2>1. PICK m \in Members, n \in {0 - 1, Word} : r = <<"HINCRBY", k, m, n>>
    BY <1>9
  <2>2. r[1] = "HINCRBY" /\ Tail(r)[1] = k /\ Tail(r)[2] = m
    BY <2>1
  <2> QED  BY <1>2, <2>2
<1>11. \/ Assigns(r, k) \/ r \in {<<"HGETALL", k>>, <<"HVALS", k>>, <<"HLEN", k>>}
       \/ \E m \in Members : r = <<"HSET", k, m>>
       \/ \E ms \in UpToTwo(Members) : r = <<"HDEL", k>> \o ms
       \/ \E m \in Members : r = <<"HINCRBY", k, m>>
       \/ \E c \in {"HGET", "HEXISTS"}, m \in Members : r = <<c, k, m>>
       \/ \E m \in Members, n \in {0 - 1, Word} : r = <<"HINCRBY", k, m, n>>
  BY <1>1 DEF Assigns
<1> QED  BY <1>3, <1>4, <1>5, <1>7, <1>8, <1>9, <1>10, <1>11

LEMMA ListHeads ==
    ASSUME NEW r \in ListRequests
    PROVE  /\ r[1] \in {"LPUSH", "RPUSH", "LPOP", "RPOP", "LRANGE", "LLEN", "LINDEX", "LSET", "LTRIM"}
           /\ r[1] = "LSET" => Tail(r)[1] \in Keys
           /\ r[1] \in {"LPUSH", "RPUSH"} =>
                /\ r[2] \in Keys /\ Tail(r)[1] = r[2] /\ Len(Tail(r)) >= 1
                /\ From(Tail(r), 2) \in Seq(Elements)
<1> DEFINE Pushes == UNION {[1 .. n -> Elements] : n \in 0 .. MaxPush}
           J(c, k, vs) == <<c, k>> \o vs
           C == {"LPUSH", "RPUSH"}
           P(k) == {J(c, k, vs) : c \in C, vs \in Pushes}
           R(k) ==
        P(k)
        \cup {<<"LPOP", k>>, <<"RPOP", k>>, <<"LLEN", k>>, <<"LRANGE", k, 0, Word>>}
        \cup {<<"LSET", k, i, v>> : i \in Places, v \in Elements}
        \cup {<<"LINDEX", k, i>> : i \in Places}
        \cup {<<"LTRIM", k, i, j>> : i \in Places, j \in Places} \cup {<<"LRANGE", k, 0, 0 - 1>>}
<1>1. PICK k \in Of("list") : r \in R(k)
  <2>1. ListRequests = UNION {R(k) : k \in Of("list")}
    BY DEF ListRequests
  <2> HIDE DEF R
  <2> QED  BY <2>1
<1>2. k \in Keys
  BY DEF Of
<1>3. ASSUME NEW c \in C, NEW vs \in Pushes, r = J(c, k, vs)
      PROVE  /\ r[1] \in C /\ r[2] \in Keys /\ Tail(r)[1] = r[2] /\ Len(Tail(r)) >= 1
             /\ From(Tail(r), 2) \in Seq(Elements)
  <2>1. vs \in Seq(Elements)
    <3>1. PICK n \in 0 .. MaxPush : vs \in [1 .. n -> Elements]
      OBVIOUS
    <3>2. n \in Nat
      BY CommandsAssumption
    <3> QED  BY <3>1, <3>2
  <2> HIDE DEF Pushes
  <2> QED  BY <1>2, <1>3, <2>1, Shifting2
<1>4. CASE r \in P(k)
  <2>1. \E c \in C, vs \in Pushes : r = J(c, k, vs)
    <3> HIDE DEF C, Pushes, J
    <3> QED  BY <1>4
  <2>2. /\ r[1] \in C /\ r[2] \in Keys /\ Tail(r)[1] = r[2] /\ Len(Tail(r)) >= 1
        /\ From(Tail(r), 2) \in Seq(Elements)
    <3> HIDE DEF C, Pushes, J
    <3> QED  BY <1>3, <2>1
  <2> QED  BY <2>2
<1>5. CASE r \in {<<"LPOP", k>>, <<"RPOP", k>>, <<"LLEN", k>>, <<"LRANGE", k, 0, Word>>, <<"LRANGE", k, 0, 0 - 1>>}
  BY <1>5
<1>6. CASE \E i \in Places, v \in Elements : r = <<"LSET", k, i, v>>
  <2>1. PICK i \in Places, v \in Elements : r = <<"LSET", k, i, v>>
    BY <1>6
  <2>2. r[1] = "LSET" /\ Tail(r)[1] = k
    BY <2>1
  <2> QED  BY <1>2, <2>2
<1>7. CASE \E i \in Places : r = <<"LINDEX", k, i>>
  BY <1>7
<1>8. CASE \E i \in Places, j \in Places : r = <<"LTRIM", k, i, j>>
  BY <1>8
<1>9. \/ r \in P(k)
      \/ r \in {<<"LPOP", k>>, <<"RPOP", k>>, <<"LLEN", k>>, <<"LRANGE", k, 0, Word>>}
      \/ \E i \in Places, v \in Elements : r = <<"LSET", k, i, v>>
      \/ \E i \in Places : r = <<"LINDEX", k, i>>
      \/ \E i, j \in Places : r = <<"LTRIM", k, i, j>>
      \/ r = <<"LRANGE", k, 0, 0 - 1>>
  <2> HIDE DEF P
  <2> QED  BY <1>1
<1> HIDE DEF P
<1> QED  BY <1>4, <1>5, <1>6, <1>7, <1>8, <1>9

LEMMA SetHeads ==
    ASSUME NEW r \in SetRequests
    PROVE  /\ r[1] \in {"SADD", "SREM", "SMEMBERS", "SISMEMBER", "SCARD", "SUNION", "SINTER", "SDIFF"}
           /\ r[1] \in {"SADD", "SREM"} => Takes(r)
<1> DEFINE A == {<<c>> \o ks : c \in {"SUNION", "SINTER", "SDIFF"}, ks \in UpToTwo(Of("set"))}
           J(c, k, ms) == <<c, k>> \o ms
           C == {"SADD", "SREM"}
           P(k) == {J(c, k, ms) : c \in C, ms \in UpToTwo(Members)}
           R(k) ==
        P(k)
        \cup {<<"SISMEMBER", k, m>> : m \in Members} \cup {<<"SCARD", k>>, <<"SMEMBERS", k>>}
<1>1. r \in A \/ \E k \in Of("set") : r \in R(k)
  <2>1. SetRequests = A \cup UNION {R(k) : k \in Of("set")}
    BY DEF SetRequests
  <2> HIDE DEF A, R
  <2> QED  BY <2>1
<1>2. CASE r \in A
  <2>1. PICK c \in {"SUNION", "SINTER", "SDIFF"}, ks \in UpToTwo(Of("set")) : r = <<c>> \o ks
    BY <1>2, SMTT(60)
  <2>2. r[1] = c
    BY <2>1, Shifting, Named
  <2> QED  BY <2>2
<1>3. ASSUME NEW k \in Of("set"), r \in R(k)
      PROVE  /\ r[1] \in {"SADD", "SREM", "SMEMBERS", "SISMEMBER", "SCARD"}
             /\ r[1] \in {"SADD", "SREM"} => Takes(r)
  <2>1. ASSUME NEW c \in C, NEW ms \in UpToTwo(Members), r = J(c, k, ms)
        PROVE  r[1] \in C /\ Takes(r)
    <3>1. k \in Keys
      BY DEF Of
    <3> QED  BY <2>1, <3>1, Shifting2, Named DEF Takes
  <2>2. CASE r \in P(k)
    <3>1. \E c \in C, ms \in UpToTwo(Members) : r = J(c, k, ms)
      <4> HIDE DEF C, J
      <4> QED  BY <2>2
    <3>2. r[1] \in C /\ Takes(r)
      <4> HIDE DEF C, J
      <4> QED  BY <2>1, <3>1
    <3> QED  BY <3>2
  <2>3. CASE \E m \in Members : r = <<"SISMEMBER", k, m>>
    BY <2>3
  <2>4. CASE r \in {<<"SCARD", k>>, <<"SMEMBERS", k>>}
    BY <2>4
  <2> HIDE DEF P
  <2> QED  BY <1>3, <2>2, <2>3, <2>4
<1> HIDE DEF A, R
<1> QED  BY <1>1, <1>2, <1>3

LEMMA SortedSetHeads ==
    ASSUME NEW r \in SortedSetRequests
    PROVE  /\ r[1] \in {"ZADD", "ZREM", "ZSCORE", "ZINCRBY", "ZRANK", "ZRANGE", "ZCARD"}
           /\ r[1] = "ZADD" => r[2] \in Keys /\ (Rates(r, r[2]) \/ Malformed(r[1], Tail(r)))
           /\ r[1] = "ZREM" => Takes(r)
<1> DEFINE R(k) ==
    {<<"ZADD", k>>} \cup {<<"ZADD", k, n>> : n \in {0, Word}}
    \cup {<<"ZADD", k, n, m>> : n \in Vals, m \in Members}
    \cup {<<"ZADD", k, 0, m, n, l>> : n \in Vals, m \in Members, l \in Members}
    \cup {<<"ZREM", k>> \o ms : ms \in UpToTwo(Members)}
    \cup {<<"ZINCRBY", k, n, m>> : n \in {0 - 1, 1}, m \in Members}
    \cup {<<c, k, m>> : c \in {"ZRANK", "ZSCORE"}, m \in Members}
    \cup {<<"ZRANGE", k, 0, 0 - 1>>, <<"ZCARD", k>>}
<1>1. PICK k \in Of("zset") : r \in R(k)
  <2>1. SortedSetRequests = UNION {R(k) : k \in Of("zset")}
    BY DEF SortedSetRequests
  <2> HIDE DEF R
  <2> QED  BY <2>1
<1>10. k \in Keys
  BY DEF Of
<1>2. CASE r \in {<<"ZRANGE", k, 0, 0 - 1>>, <<"ZCARD", k>>}
  BY <1>2
<1>3. CASE \E n \in {0, Word} : r = <<"ZADD", k, n>>
  <2>1. r[1] = "ZADD" /\ r[2] = k /\ Len(Tail(r)) = 2
    BY <1>3
  <2> QED  BY <1>10, <2>1, Halved
<1>4. CASE Rates(r, k)
  BY <1>4, <1>10, Rated
<1>6. CASE \E ms \in UpToTwo(Members) : r = <<"ZREM", k>> \o ms
  <2>1. r[1] = "ZREM" /\ Takes(r)
    BY <1>6, <1>10, Shifting2, Named DEF Takes
  <2> QED  BY <2>1
<1>7. CASE \E n \in {0 - 1, 1}, m \in Members : r = <<"ZINCRBY", k, n, m>>
  BY <1>7
<1>8. CASE \E c \in {"ZRANK", "ZSCORE"}, m \in Members : r = <<c, k, m>>
  BY <1>8
<1>9. \/ r \in {<<"ZRANGE", k, 0, 0 - 1>>, <<"ZCARD", k>>}
      \/ \E n \in {0, Word} : r = <<"ZADD", k, n>>
      \/ Rates(r, k)
      \/ \E ms \in UpToTwo(Members) : r = <<"ZREM", k>> \o ms
      \/ \E n \in {0 - 1, 1}, m \in Members : r = <<"ZINCRBY", k, n, m>>
      \/ \E c \in {"ZRANK", "ZSCORE"}, m \in Members : r = <<c, k, m>>
  BY <1>1 DEF Rates
<1> QED  BY <1>2, <1>3, <1>4, <1>6, <1>7, <1>8, <1>9

\* A request is refused, or its command answers.
LEMMA Answering ==
    ASSUME NEW r, NEW e, e.reply = Error => View(e.cells) = View(cells),
           Execute(r, e).reply = Error
    PROVE  View(Execute(r, e).cells) = View(cells)
<1>1. CASE r[1] \notin DOMAIN MinArgs \/ Malformed(r[1], Tail(r))
  BY <1>1, Replies DEF Execute
<1>2. CASE ~ (r[1] \notin DOMAIN MinArgs \/ Malformed(r[1], Tail(r)))
  BY <1>2 DEF Execute
<1> QED  BY <1>1, <1>2

\* A request that is answered with an error, because its arguments are refused
\* or because the engine raises, leaves what every client sees of every key as
\* it was; LSET of a key that has expired may take what is left of it away
\* (tcp.py execute_command; kv.py incrby, hincrby, lset).  So no key may begin
\* with another one and a member of it: expiry would take those as well.
THEOREM ErrorsAreHarmless ==
    ASSUME Flat, "retype" \notin Liberties
    PROVE  Spec => []ErrorsChangeNothing
<1>1. Invariant => ErrorsChangeNothing
  <2> SUFFICES ASSUME Invariant PROVE ErrorsChangeNothing
    OBVIOUS
  <2>1. Good(cells)
    BY DEF Invariant
  <2>2. ASSUME NEW r \in StringRequests, OnString(r).reply = Error
        PROVE  View(OnString(r).cells) = View(cells)
    <3>1. PICK e : e = StringCommand(r[1], Tail(r))
      OBVIOUS
    <3>2. e.reply = Error => View(e.cells) = View(cells)
      <4>1. PICK cmd, a : cmd = r[1] /\ a = Tail(r)
        OBVIOUS
      <4>2. e = StringCommand(cmd, a)
        BY <3>1, <4>1
      <4>3. /\ cmd \in {"GET", "SET", "SETNX", "SETEX", "MGET", "MSET", "INCR", "INCRBY", "DECR", "APPEND"}
            /\ cmd \in {"INCR", "INCRBY", "DECR"} => a[1] \in Keys
        BY <4>1, StringHeads
      <4> QED  BY <2>1, <4>2, <4>3, StringErrors
    <3>3. OnString(r) = Execute(r, e)
      BY <3>1 DEF OnString
    <3> QED  BY <2>2, <3>2, <3>3, Answering
  <2>3. ASSUME NEW r \in KeyRequests, OnKeys(r).reply = Error
        PROVE  View(OnKeys(r).cells) = View(cells)
    BY <2>3, KeyHeads, KeyErrors, Answering DEF OnKeys
  <2>4. ASSUME NEW r \in HashRequests, OnHash(r).reply = Error
        PROVE  View(OnHash(r).cells) = View(cells)
    <3>1. PICK e : e = HashCommand(r[1], Tail(r))
      OBVIOUS
    <3>2. e.reply = Error => View(e.cells) = View(cells)
      <4>1. PICK cmd, a : cmd = r[1] /\ a = Tail(r)
        OBVIOUS
      <4>2. e = HashCommand(cmd, a)
        BY <3>1, <4>1
      <4>3. /\ cmd \in {"HSET", "HGET", "HDEL", "HGETALL", "HVALS", "HEXISTS", "HLEN", "HINCRBY"}
            /\ cmd = "HINCRBY" => a[1] \in Keys /\ a[2] \in Members
        BY <4>1, HashHeads
      <4> QED  BY <2>1, <4>2, <4>3, HashErrors
    <3>3. OnHash(r) = Execute(r, e)
      BY <3>1 DEF OnHash
    <3> QED  BY <2>4, <3>2, <3>3, Answering
  <2>5. ASSUME NEW r \in ListRequests, OnList(r).reply = Error
        PROVE  View(OnList(r).cells) = View(cells)
    <3>1. PICK e : e = ListCommand(r[1], Tail(r))
      OBVIOUS
    <3>2. e.reply = Error => View(e.cells) = View(cells)
      <4>1. PICK cmd, a : cmd = r[1] /\ a = Tail(r)
        OBVIOUS
      <4>2. e = ListCommand(cmd, a)
        BY <3>1, <4>1
      <4>3. /\ cmd \in {"LPUSH", "RPUSH", "LPOP", "RPOP", "LRANGE", "LLEN", "LINDEX", "LSET", "LTRIM"}
            /\ cmd = "LSET" => a[1] \in Keys
        BY <4>1, ListHeads
      <4> QED  BY <2>1, <4>2, <4>3, ListErrors
    <3>3. OnList(r) = Execute(r, e)
      BY <3>1 DEF OnList
    <3> QED  BY <2>5, <3>2, <3>3, Answering
  <2>6. ASSUME NEW r \in SetRequests, OnSets(r).reply = Error
        PROVE  View(OnSets(r).cells) = View(cells)
    BY <2>6, SetHeads, SetErrors, Answering DEF OnSets
  <2>7. ASSUME NEW r \in SortedSetRequests, OnSortedSet(r).reply = Error
        PROVE  View(OnSortedSet(r).cells) = View(cells)
    BY <2>7, SortedSetHeads, SortedSetErrors, Answering DEF OnSortedSet
  <2> QED  BY <2>2, <2>3, <2>4, <2>5, <2>6, <2>7 DEF ErrorsChangeNothing
<1> QED  BY <1>1, InvariantHolds, FlatApart, PTL

-----------------------------------------------------------------------------
(* Counts *)

\* The members a key has cells for.
Held(c, k, t) == {m \in Members : c[Item(t, k, m)] # Absent}

\* None is no typed value.
Real == \A t, x : [type |-> t, data |-> x] # Absent

LEMMA HeldSize ==
    ASSUME Flat, Real, NEW c, NEW k \in Keys, NEW t \in Scanned, ~ Expired(c, k),
           c[Type(k)] \in Scanned \cup {"string", "list", Absent}
    PROVE  Size(c, k, t) = IF c[Type(k)] = t THEN Cardinality(Held(c, k, t)) ELSE 0
<1>1. t \notin {"string", "list", Absent}
  BY KVAssumption DEF Scanned
<1>2. Value(c, k) = IF c[Type(k)] = Absent THEN Absent
                    ELSE [type |-> c[Type(k)], data |-> DataOf(c, k, c[Type(k)])]
  BY ValueIs
<1>3. DOMAIN DataOf(c, k, t) = Held(c, k, t)
  BY <1>1 DEF DataOf, Held
<1>4. CASE c[Type(k)] = t
  <2>1. Value(c, k) = [type |-> t, data |-> DataOf(c, k, t)] /\ Value(c, k) # Absent
    BY <1>1, <1>2, <1>4 DEF Real
  <2>2. Value(c, k).type = t /\ Value(c, k).data = DataOf(c, k, t)
    BY <2>1
  <2> QED  BY <1>3, <1>4, <2>1, <2>2 DEF Size
<1>5. CASE c[Type(k)] # t
  <2>1. CASE c[Type(k)] = Absent
    BY <1>2, <1>5, <2>1 DEF Size
  <2>2. CASE c[Type(k)] # Absent
    <3>1. Value(c, k).type = c[Type(k)]
      BY <1>2, <2>2
    <3> QED  BY <1>5, <3>1 DEF Size
  <2> QED  BY <2>1, <2>2
<1> QED  BY <1>4, <1>5

\* A good key has members of its own type only.
LEMMA GoodSize ==
    ASSUME Flat, Real, NEW c, Good(c), NEW k \in Keys, NEW t \in Scanned, ~ Expired(c, k)
    PROVE  Size(c, k, t) = Cardinality(Held(c, k, t))
<1>1. Tidy(c, k)
  BY DEF Good
<1>2. c[Type(k)] \in Scanned \cup {"string", "list", Absent}
  BY <1>1 DEF Tidy
<1>3. c[Type(k)] # t => Held(c, k, t) = {}
  BY <1>1 DEF Tidy, Held
<1> QED  BY <1>2, <1>3, HeldSize, FS_EmptySet

\* hset(), sadd(), zadd().
LEMMA AddedCounts ==
    ASSUME Flat, Real, IsFiniteSet(Members), Good(cells), NEW k \in Keys, NEW t \in Scanned,
           NEW map, DOMAIN map \subseteq Members, \A m \in DOMAIN map : map[m] # Absent
    PROVE  Added(cells, k, t, map).answer = Size(Added(cells, k, t, map).cells, k, t) - Size(cells, k, t)
<1> DEFINE c == Reaped(cells, k)
           c1 == [c EXCEPT ![Type(k)] = t]
           new == [x \in {Item(t, k, m) : m \in DOMAIN map} |-> map[SubSeq(x, Len(k) + 2, Len(x))]]
           d == With(c1, new)
           M == DOMAIN map
           N == {m \in DOMAIN map : c[Item(t, k, m)] = Absent}
<1>1. Added(cells, k, t, map).cells = d /\ Added(cells, k, t, map).answer = Cardinality(N)
  BY Results, Raised DEF Added
<1>2. Good(c)
  BY Reaps
<1>3. \A x \in Cells : c1[x] = IF x = Type(k) THEN t ELSE c[x]
  <2>1. DOMAIN c = Cells
    BY <1>2 DEF Good
  <2> HIDE DEF c
  <2> QED  BY <2>1
<1>4. /\ DOMAIN d = Cells
      /\ \A x \in Cells : d[x] = IF x \in {Item(t, k, m) : m \in DOMAIN map} THEN new[x] ELSE c1[x]
  BY DEF With
<1>5. \A m \in DOMAIN map : new[Item(t, k, m)] = map[m]
  BY MemberOf
<1>6. Size(cells, k, t) = Size(c, k, t) /\ ~ Expired(c, k)
  <2>1. Seen(cells, c, k) /\ ~ Expired(c, k)
    BY ReapUnseen
  <2> QED  BY <2>1 DEF Seen, Size
<1> HIDE DEF c, c1, new, d
<1>7. d[Type(k)] = t /\ d[Exp(k)] = c[Exp(k)]
  BY <1>3, <1>4, CellsOf, Distinct
<1>8. ~ Expired(d, k)
  BY <1>6, <1>7 DEF Expired
<1>9. Size(d, k, t) = Cardinality(Held(d, k, t))
  BY <1>7, <1>8, HeldSize
<1>10. Size(c, k, t) = Cardinality(Held(c, k, t))
  BY <1>2, <1>6, GoodSize
<1>11. ASSUME NEW m \in Members
       PROVE  d[Item(t, k, m)] # Absent <=> m \in M \/ c[Item(t, k, m)] # Absent
  <2>1. Item(t, k, m) \in Cells /\ Item(t, k, m) # Type(k)
    BY CellsOf, Distinct
  <2>2. CASE m \in M
    BY <1>4, <1>5, <2>1, <2>2
  <2>3. CASE m \notin M
    <3>1. Item(t, k, m) \notin {Item(t, k, n) : n \in DOMAIN map}
      BY <2>3, FlatApart, ItemsApart
    <3> QED  BY <1>3, <1>4, <2>1, <2>3, <3>1
  <2> QED  BY <2>2, <2>3
<1>12. Held(d, k, t) = Held(c, k, t) \cup N /\ Held(c, k, t) \cap N = {}
  BY <1>11 DEF Held
<1>13. IsFiniteSet(Held(c, k, t)) /\ IsFiniteSet(N)
  BY FS_Subset DEF Held
<1> HIDE DEF N
<1>14. /\ Cardinality(Held(c, k, t)) \in Nat /\ Cardinality(N) \in Nat
       /\ Cardinality(Held(c, k, t) \cap N) = 0
       /\ Cardinality(Held(d, k, t)) =
            Cardinality(Held(c, k, t)) + Cardinality(N) - Cardinality(Held(c, k, t) \cap N)
  BY <1>12, <1>13, FS_CardinalityType, FS_EmptySet, FS_Union
<1> QED  BY <1>1, <1>6, <1>9, <1>10, <1>14

\* hdel(), srem(), zrem() of a key that has not expired.
LEMMA RemovedCounts ==
    ASSUME Flat, Real, IsFiniteSet(Members), Good(cells), NEW k \in Keys, NEW t \in Scanned,
           NEW M, M \subseteq Members, ~ Expired(cells, k)
    PROVE  Removed(cells, k, t, M).answer = Size(cells, k, t) - Size(Removed(cells, k, t, M).cells, k, t)
<1> DEFINE X == {x \in {Item(t, k, m) : m \in M} : cells[x] # Absent}
           d == Without(cells, X)
           H == Held(cells, k, t)
           f == [m \in H \cap M |-> Item(t, k, m)]
<1>1. Removed(cells, k, t, M).cells = d /\ Removed(cells, k, t, M).answer = Cardinality(X)
  BY Results, Raised DEF Removed
<1>2. \A x \in Cells : d[x] = IF x \in X THEN Absent ELSE cells[x]
  BY DEF Without
<1>3. \A m, n \in Members : Item(t, k, m) = Item(t, k, n) => m = n
  BY FlatApart, ItemsApart
<1>4. IsFiniteSet(H) /\ IsFiniteSet(H \cap M)
  BY FS_Subset DEF Held
<1>5. Cardinality(X) = Cardinality(H \cap M)
  <2>1. f \in Bijection(H \cap M, X)
    <3>1. f \in [H \cap M -> X] /\ \A x \in X : \E m \in H \cap M : f[m] = x
      BY DEF Held
    <3>2. \A m, n \in H \cap M : f[m] = f[n] => m = n
      BY <1>3
    <3> HIDE DEF f
    <3> QED  BY <3>1, <3>2 DEF Bijection, Injection, Surjection, IsInjective
  <2>2. ExistsBijection(H \cap M, X)
    BY <2>1 DEF ExistsBijection
  <2> QED  BY <1>4, <2>2, FS_Bijection
<1>6. Type(k) \notin X /\ Exp(k) \notin X
  BY Distinct
<1>7. Item(t, k, k) = Item(t, k, k) /\ \A m \in Members : Item(t, k, m) \in X <=> m \in H \cap M
  BY <1>3 DEF Held
<1> HIDE DEF d, X
<1>8. d[Type(k)] = cells[Type(k)] /\ d[Exp(k)] = cells[Exp(k)]
  BY <1>2, <1>6, CellsOf
<1>9. Held(d, k, t) = H \ M
  BY <1>2, <1>7, CellsOf DEF Held
<1>10. ~ Expired(d, k)
  BY <1>8 DEF Expired
<1>11. Size(cells, k, t) = Cardinality(H)
  BY GoodSize
<1>12. Size(d, k, t) = Cardinality(H \ M)
  <2>1. Tidy(cells, k)
    BY DEF Good
  <2>2. cells[Type(k)] \in Scanned \cup {"string", "list", Absent}
    BY <2>1 DEF Tidy
  <2>3. cells[Type(k)] # t => H = {}
    BY <2>1 DEF Tidy, Held
  <2>4. cells[Type(k)] # t => Cardinality(H \ M) = 0
    BY <2>3, FS_EmptySet
  <2>5. Size(d, k, t) = IF d[Type(k)] = t THEN Cardinality(Held(d, k, t)) ELSE 0
    BY <1>8, <1>10, <2>2, HeldSize
  <2> QED  BY <1>8, <1>9, <2>4, <2>5
<1>13. /\ Cardinality(H) \in Nat /\ Cardinality(H \cap M) \in Nat
       /\ Cardinality(H \ M) = Cardinality(H) - Cardinality(H \cap M)
  BY <1>4, FS_CardinalityType, FS_Difference
<1> QED  BY <1>1, <1>5, <1>11, <1>12, <1>13

\* hset() with no pair adds none.
LEMMA HSetCounts ==
    ASSUME Flat, Real, IsFiniteSet(Members), Good(cells), NEW k \in Keys,
           NEW map, DOMAIN map \subseteq Members, \A m \in DOMAIN map : map[m] # Absent
    PROVE  HSet(cells, k, map).answer = Size(HSet(cells, k, map).cells, k, "hash") - Size(cells, k, "hash")
<1>1. "hash" \in Scanned
  BY DEF Scanned
<1>2. CASE DOMAIN map = {}
  <2>1. HSet(cells, k, map).cells = cells /\ HSet(cells, k, map).answer = 0
    BY <1>2, Results, Raised DEF HSet
  <2>2. Size(cells, k, "hash") \in Int
    <3>1. PICK c : c = Reaped(cells, k)
      OBVIOUS
    <3>2. Good(c) /\ ~ Expired(c, k) /\ Value(c, k) = Value(cells, k)
      BY <3>1, Reaps, ReapUnseen DEF Seen
    <3>3. Size(cells, k, "hash") = Cardinality(Held(c, k, "hash"))
      BY <1>1, <3>2, GoodSize DEF Size
    <3>4. IsFiniteSet(Held(c, k, "hash"))
      BY FS_Subset DEF Held
    <3> QED  BY <3>3, <3>4, FS_CardinalityType
  <2> QED  BY <2>1, <2>2
<1>3. CASE DOMAIN map # {}
  <2>1. HSet(cells, k, map) = Added(cells, k, "hash", map)
    BY <1>3 DEF HSet
  <2> QED  BY <1>1, <2>1, AddedCounts
<1> QED  BY <1>2, <1>3

\* lpush() and rpush().
LEMMA PushedCounts ==
    ASSUME Flat, Real, Good(cells), NEW k \in Keys, NEW vs \in Seq(Elements), NEW left \in BOOLEAN,
           NEW c, c = Reaped(cells, k),
           NEW e, e = Push(c, k, Meta(c, k)[1], Meta(c, k)[2], vs, left)
    PROVE  e.answer = Size(e.cells, k, "list")
<1> DEFINE head == Meta(c, k)[1]
           tail == Meta(c, k)[2]
           lo == IF left THEN head - Len(vs) ELSE tail
           hi == IF left THEN head ELSE tail + Len(vs)
           new == [x \in {Elem(k, i) : i \in lo .. hi - 1} |->
                      vs[IF left THEN hi - x[Len(x)] ELSE x[Len(x)] - lo + 1]]
           b == With(c, new)
           first == IF left THEN lo ELSE head
           last == IF left THEN tail ELSE hi
           d == Ranging(b, k, first, last)
<1>1. e.cells = d /\ e.answer = last - first
  <2>1. e = Result(d, last - first)
    <3>1. e = IF left THEN Result(Ranging(b, k, lo, tail), tail - lo)
              ELSE Result(Ranging(b, k, head, hi), hi - head)
      BY DEF Push
    <3> HIDE DEF b, lo, hi, head, tail
    <3> QED  BY <3>1
  <2> HIDE DEF d, last, first
  <2> QED  BY <2>1, Results, Raised
<1>2. Good(c) /\ ~ Expired(c, k)
  BY Reaps, ReapUnseen
<1>3. Len(vs) \in Nat /\ head \in Int /\ tail \in Int /\ head <= tail
  BY <1>2, LenProperties, ListOf
<1>4. first \in Int /\ last \in Int /\ first <= last
  <2> HIDE DEF head, tail
  <2> QED  BY <1>3
<1>5. DOMAIN b = Cells /\ b[Exp(k)] = c[Exp(k)]
  <2>1. Exp(k) \notin DOMAIN new /\ Exp(k) \in Cells
    <3>1. lo \in Int /\ hi \in Int
      <4> HIDE DEF head, tail
      <4> QED  BY <1>3
    <3> HIDE DEF lo, hi
    <3>2. \A i \in lo .. hi - 1 : Elem(k, i) # Exp(k)
      BY <3>1, Distinct
    <3> QED  BY <3>2, CellsOf
  <2> HIDE DEF new
  <2> QED  BY <2>1 DEF With
<1> HIDE DEF b, first, last
<1>6. d[Type(k)] = "list" /\ d[LMeta(k)] = <<first, last>> /\ d[Exp(k)] = c[Exp(k)]
  BY <1>5, CellsOf, Distinct DEF Ranging
<1> HIDE DEF d
<1>7. Meta(d, k)[1] = first /\ Meta(d, k)[2] = last
  BY <1>4, <1>6, KVAssumption DEF Meta
<1>8. Value(d, k) = [type |-> "list", data |-> DataOf(d, k, "list")] /\ Value(d, k) # Absent
  <2>1. ~ Expired(d, k)
    BY <1>2, <1>6 DEF Expired
  <2>2. Value(d, k) = [type |-> "list", data |-> DataOf(d, k, "list")]
    BY <1>6, <2>1, ValueIs, KVAssumption
  <2> QED  BY <2>2 DEF Real
<1>9. DOMAIN DataOf(d, k, "list") = 1 .. last - first
  BY <1>7 DEF DataOf
<1>10. Cardinality(1 .. last - first) = last - first
  <2>1. last - first \in Nat
    BY <1>4
  <2>2. PICK n \in Nat : n = last - first
    BY <2>1
  <2>3. Cardinality(1 .. n) = IF 1 > n THEN 0 ELSE n - 1 + 1
    BY FS_Interval
  <2> QED  BY <2>2, <2>3
<1>11. Size(d, k, "list") = Cardinality(1 .. last - first)
  BY <1>8, <1>9 DEF Size
<1> QED  BY <1>1, <1>10, <1>11

\* delete(), when no deadline has passed.
LEMMA DeletedCounts ==
    ASSUME Flat, Real, Good(cells), NEW K \in SUBSET Keys, \A k \in Keys : ~ Expired(cells, k)
    PROVE  Delete(cells, K).answer =
             Cardinality({k \in Keys : Value(cells, k) # Absent /\ Value(Delete(cells, K).cells, k) = Absent})
<1> DEFINE D == {k \in K : cells[Type(k)] # Absent}
<1>1. /\ Delete(cells, K).cells = Without(cells, UNION {Whole(cells, k) : k \in D})
      /\ Delete(cells, K).answer = Cardinality(D)
  BY Results, Raised DEF Delete
<1>2. D \in SUBSET Keys
  OBVIOUS
<1>3. ASSUME NEW k \in Keys PROVE Value(cells, k) # Absent <=> cells[Type(k)] # Absent
  <2>1. cells[Type(k)] \in Scanned \cup {"string", "list", Absent}
    BY DEF Good, Tidy
  <2>2. Value(cells, k) = IF cells[Type(k)] = Absent THEN Absent
                          ELSE [type |-> cells[Type(k)], data |-> DataOf(cells, k, cells[Type(k)])]
    BY <2>1, ValueIs
  <2> QED  BY <2>2 DEF Real
<1>4. \A k \in D : cells[Type(k)] # Absent
  OBVIOUS
<1>5. \A k \in K : k \notin D => cells[Type(k)] = Absent
  OBVIOUS
<1> HIDE DEF D
<1>6. PICK d : d = Without(cells, UNION {Whole(cells, k) : k \in D})
  OBVIOUS
<1>7. \A k \in D : Value(d, k) = Absent
  BY <1>2, <1>6, Purges, GoneSeen
<1>8. ASSUME NEW k \in Keys \ D PROVE Value(d, k) = Value(cells, k)
  <2>1. Same(cells, d, k) /\ Tidy(cells, k)
    BY <1>2, <1>6, PurgesApart DEF Good
  <2> QED  BY <2>1, SameSeen DEF Seen
<1>9. {k \in Keys : Value(cells, k) # Absent /\ Value(d, k) = Absent} = D
  BY <1>2, <1>3, <1>4, <1>7, <1>8
<1> QED  BY <1>1, <1>6, <1>9

\* What a command that is not refused replies.
LEMMA Executed ==
    ASSUME NEW r, NEW e
    PROVE  Execute(r, e).reply = Error \/ (~ Malformed(r[1], Tail(r)) /\ Execute(r, e) = e)
BY DEF Execute, Say

LEMMA Integers1 ==
    ASSUME NEW c, NEW a
    PROVE  Integer(Result(c, a)).reply[2] = a /\ Integer(Result(c, a)).cells = c
BY DEF Integer, Reply, Result

\* A method that adds, and one that takes away, say how many.
Counts(e, k, t) == e = Result(e.cells, Size(e.cells, k, t) - Size(cells, k, t))
Uncounts(e, k, t) == e = Result(e.cells, Size(cells, k, t) - Size(e.cells, k, t))

LEMMA Counted ==
    ASSUME NEW r, NEW m, NEW k, NEW t, r[2] = k,
           r[1] \in {"HSET", "SADD", "ZADD"} => Counts(m, k, t),
           r[1] \in {"HDEL", "SREM", "ZREM"} /\ ~ Expired(cells, k) => Uncounts(m, k, t),
           NEW e, e.reply = Error \/ e = Integer(m)
    PROVE  CountsMembers(r, e, t)
<1>1. CASE e.reply = Error
  BY <1>1 DEF CountsMembers
<1>2. CASE e = Integer(m) /\ r[1] \in {"HSET", "SADD", "ZADD"}
  <2>1. m = Result(m.cells, Size(m.cells, k, t) - Size(cells, k, t))
    BY <1>2 DEF Counts
  <2>2. PICK c, a : c = m.cells /\ a = Size(m.cells, k, t) - Size(cells, k, t)
    OBVIOUS
  <2>3. e.reply[2] = a /\ e.cells = c
    BY <1>2, <2>1, <2>2, Integers1
  <2> QED  BY <1>2, <2>2, <2>3 DEF CountsMembers
<1>3. CASE e = Integer(m) /\ r[1] \in {"HDEL", "SREM", "ZREM"} /\ ~ Expired(cells, k)
  <2>1. m = Result(m.cells, Size(cells, k, t) - Size(m.cells, k, t))
    BY <1>3 DEF Uncounts
  <2>2. PICK c, a : c = m.cells /\ a = Size(cells, k, t) - Size(m.cells, k, t)
    OBVIOUS
  <2>3. e.reply[2] = a /\ e.cells = c
    BY <1>3, <2>1, <2>2, Integers1
  <2> QED  BY <1>3, <2>2, <2>3 DEF CountsMembers
<1> QED  BY <1>1, <1>2, <1>3 DEF CountsMembers

\* Methods that add or take away return, they do not raise.
LEMMA Returns ==
    /\ \A k, t, map : Added(cells, k, t, map) =
                        Result(Added(cells, k, t, map).cells, Added(cells, k, t, map).answer)
    /\ \A k, t, M : Removed(cells, k, t, M) =
                        Result(Removed(cells, k, t, M).cells, Removed(cells, k, t, M).answer)
    /\ \A k, map : HSet(cells, k, map) = Result(HSet(cells, k, map).cells, HSet(cells, k, map).answer)
    /\ \A K : Delete(cells, K) = Result(Delete(cells, K).cells, Delete(cells, K).answer)
    /\ \A c, k, h, g, vs, left : Push(c, k, h, g, vs, left) =
                        Result(Push(c, k, h, g, vs, left).cells, Push(c, k, h, g, vs, left).answer)
<1>1. \A c, a : Result(c, a) = Result(Result(c, a).cells, Result(c, a).answer)
  BY DEF Result
<1>2. \A k, t, map : Added(cells, k, t, map) =
                       Result(Added(cells, k, t, map).cells, Added(cells, k, t, map).answer)
  BY <1>1 DEF Added
<1>3. \A k, t, M : Removed(cells, k, t, M) =
                     Result(Removed(cells, k, t, M).cells, Removed(cells, k, t, M).answer)
  BY <1>1 DEF Removed
<1>4. \A k, map : HSet(cells, k, map) = Result(HSet(cells, k, map).cells, HSet(cells, k, map).answer)
  BY <1>1, <1>2 DEF HSet
<1>5. \A K : Delete(cells, K) = Result(Delete(cells, K).cells, Delete(cells, K).answer)
  BY <1>1 DEF Delete
<1>6. \A c, k, h, g, vs, left : Push(c, k, h, g, vs, left) =
                     Result(Push(c, k, h, g, vs, left).cells, Push(c, k, h, g, vs, left).answer)
  BY <1>1 DEF Push
<1> QED  BY <1>2, <1>3, <1>4, <1>5, <1>6

\* The hypotheses of the lemmas on counting.
Counting == Flat /\ Real /\ IsFiniteSet(Members) /\ Good(cells)

LEMMA Takings ==
    ASSUME Counting, NEW r, Takes(r), NEW t \in Scanned, ~ Expired(cells, r[2])
    PROVE  Uncounts(Removed(cells, r[2], t, SetOf(From(Tail(r), 2))), r[2], t)
<1>1. PICK M : M = SetOf(From(Tail(r), 2)) /\ M \subseteq Members
  BY DEF Takes
<1>2. PICK k \in Keys : k = r[2]
  BY DEF Takes
<1>3. PICK m : m = Removed(cells, k, t, M)
  OBVIOUS
<1>4. m.answer = Size(cells, k, t) - Size(m.cells, k, t)
  BY <1>1, <1>2, <1>3, RemovedCounts DEF Counting
<1>5. m = Result(m.cells, m.answer)
  BY <1>3, Returns
<1> QED  BY <1>1, <1>2, <1>3, <1>4, <1>5 DEF Uncounts

LEMMA HashCounts ==
    ASSUME Counting, NEW r \in HashRequests
    PROVE  CountsMembers(r, OnHash(r), "hash")
<1>1. PICK a : a = Tail(r)
  OBVIOUS
<1>2. PICK e : e = HashCommand(r[1], a)
  OBVIOUS
<1>3. OnHash(r).reply = Error \/ (~ Malformed(r[1], a) /\ OnHash(r) = e)
  BY <1>1, <1>2, Executed DEF OnHash
<1>4. CASE r[1] = "HSET" /\ ~ Malformed(r[1], a)
  <2>1. r[2] \in Keys /\ Assigns(r, r[2])
    BY <1>1, <1>4, HashHeads
  <2>2. PICK k \in Keys : k = r[2]
    BY <2>1
  <2>3. a[1] = k /\ \E map : /\ map = Pairing(a, 2, 1) /\ DOMAIN map \subseteq Members
                             /\ \A m \in DOMAIN map : map[m] # Absent
    BY <1>1, <2>1, <2>2, Assigned
  <2>4. PICK map : /\ map = Pairing(a, 2, 1) /\ DOMAIN map \subseteq Members
                   /\ \A m \in DOMAIN map : map[m] # Absent
    BY <2>3
  <2>5. PICK m : m = HSet(cells, k, map)
    OBVIOUS
  <2>6. Counts(m, k, "hash")
    <3>1. m.answer = Size(m.cells, k, "hash") - Size(cells, k, "hash")
      BY <2>4, <2>5, HSetCounts DEF Counting
    <3> QED  BY <2>5, <3>1, Returns DEF Counts
  <2>7. e = Integer(m)
    BY <1>2, <1>4, <2>3, <2>4, <2>5 DEF HashCommand
  <2> QED  BY <1>3, <1>4, <2>2, <2>6, <2>7, Counted
<1>5. CASE r[1] = "HDEL"
  <2>1. Takes(r)
    BY <1>5, HashHeads
  <2>2. PICK m : m = Removed(cells, r[2], "hash", SetOf(From(a, 2)))
    OBVIOUS
  <2>3. ~ Expired(cells, r[2]) => Uncounts(m, r[2], "hash")
    BY <1>1, <2>1, <2>2, Takings DEF Scanned
  <2>4. e = Integer(m)
    BY <1>1, <1>2, <1>5, <2>1, <2>2 DEF HashCommand, HDel, Takes
  <2> QED  BY <1>3, <1>5, <2>3, <2>4, Counted
<1>6. CASE r[1] \notin {"HSET", "HDEL"}
  BY <1>6, HashHeads DEF CountsMembers
<1>7. CASE Malformed(r[1], a)
  BY <1>3, <1>7 DEF CountsMembers
<1> QED  BY <1>4, <1>5, <1>6, <1>7

LEMMA SetCounts ==
    ASSUME Counting, NEW r \in SetRequests
    PROVE  CountsMembers(r, OnSets(r), "set")
<1>1. PICK a : a = Tail(r)
  OBVIOUS
<1>2. PICK e : e = SetCommand(r[1], a)
  OBVIOUS
<1>3. OnSets(r).reply = Error \/ OnSets(r) = e
  BY <1>1, <1>2, Executed DEF OnSets
<1>4. CASE r[1] = "SADD"
  <2>1. PICK k \in Keys : k = r[2] /\ a[1] = k /\ SetOf(From(a, 2)) \subseteq Members
    BY <1>1, <1>4, SetHeads DEF Takes
  <2>2. PICK map : map = [m \in SetOf(From(a, 2)) |-> Present]
    OBVIOUS
  <2>3. DOMAIN map \subseteq Members /\ \A m \in DOMAIN map : map[m] # Absent
    BY <2>1, <2>2, KVAssumption
  <2>4. PICK m : m = Added(cells, k, "set", map)
    OBVIOUS
  <2>5. Counts(m, k, "set")
    <3>1. m.answer = Size(m.cells, k, "set") - Size(cells, k, "set")
      <4>1. "set" \in Scanned
        BY DEF Scanned
      <4> QED  BY <2>3, <2>4, <4>1, AddedCounts DEF Counting
    <3> QED  BY <2>4, <3>1, Returns DEF Counts
  <2>6. e = Integer(m)
    BY <1>2, <1>4, <2>1, <2>2, <2>4 DEF SetCommand, SAdd
  <2> QED  BY <1>3, <1>4, <2>1, <2>5, <2>6, Counted
<1>5. CASE r[1] = "SREM"
  <2>1. Takes(r)
    BY <1>5, SetHeads
  <2>2. PICK m : m = Removed(cells, r[2], "set", SetOf(From(a, 2)))
    OBVIOUS
  <2>3. ~ Expired(cells, r[2]) => Uncounts(m, r[2], "set")
    BY <1>1, <2>1, <2>2, Takings DEF Scanned
  <2>4. e = Integer(m)
    BY <1>1, <1>2, <1>5, <2>1, <2>2 DEF SetCommand, SRem, Takes
  <2> QED  BY <1>3, <1>5, <2>3, <2>4, Counted
<1>6. CASE r[1] \notin {"SADD", "SREM"}
  BY <1>6, SetHeads DEF CountsMembers
<1> QED  BY <1>4, <1>5, <1>6

LEMMA SortedSetCounts ==
    ASSUME Counting, NEW r \in SortedSetRequests
    PROVE  CountsMembers(r, OnSortedSet(r), "zset")
<1>1. PICK a : a = Tail(r)
  OBVIOUS
<1>2. PICK e : e = SortedSetCommand(r[1], a)
  OBVIOUS
<1>3. OnSortedSet(r).reply = Error \/ (~ Malformed(r[1], a) /\ OnSortedSet(r) = e)
  BY <1>1, <1>2, Executed DEF OnSortedSet
<1>4. CASE r[1] = "ZADD" /\ ~ Malformed(r[1], a)
  <2>1. r[2] \in Keys /\ Rates(r, r[2])
    BY <1>1, <1>4, SortedSetHeads
  <2>2. PICK k \in Keys : k = r[2]
    BY <2>1
  <2>3. a[1] = k /\ \E map : /\ map = Pairing(a, 3, -1) /\ DOMAIN map \subseteq Members
                             /\ \A m \in DOMAIN map : map[m] \in Int
    BY <1>1, <1>4, <2>1, <2>2, Rated
  <2>4. PICK map : /\ map = Pairing(a, 3, -1) /\ DOMAIN map \subseteq Members
                   /\ \A m \in DOMAIN map : map[m] \in Int
    BY <2>3
  <2>8. \A m \in DOMAIN map : map[m] # Absent
    BY <2>4, KVAssumption
  <2>5. PICK m : m = Added(cells, k, "zset", map)
    OBVIOUS
  <2>6. Counts(m, k, "zset")
    <3>1. m.answer = Size(m.cells, k, "zset") - Size(cells, k, "zset")
      <4>1. "zset" \in Scanned
        BY DEF Scanned
      <4> QED  BY <2>4, <2>5, <2>8, <4>1, AddedCounts DEF Counting
    <3> QED  BY <2>5, <3>1, Returns DEF Counts
  <2>7. e = Integer(m)
    BY <1>2, <1>4, <2>3, <2>4, <2>5 DEF SortedSetCommand, ZAdd
  <2> QED  BY <1>3, <1>4, <2>2, <2>6, <2>7, Counted
<1>5. CASE r[1] = "ZREM"
  <2>1. Takes(r)
    BY <1>5, SortedSetHeads
  <2>2. PICK m : m = Removed(cells, r[2], "zset", SetOf(From(a, 2)))
    OBVIOUS
  <2>3. ~ Expired(cells, r[2]) => Uncounts(m, r[2], "zset")
    BY <1>1, <2>1, <2>2, Takings DEF Scanned
  <2>4. e = Integer(m)
    BY <1>1, <1>2, <1>5, <2>1, <2>2 DEF SortedSetCommand, ZRem, Takes
  <2> QED  BY <1>3, <1>5, <2>3, <2>4, Counted
<1>6. CASE r[1] \notin {"ZADD", "ZREM"}
  BY <1>6, SortedSetHeads DEF CountsMembers
<1>7. CASE Malformed(r[1], a)
  BY <1>3, <1>7 DEF CountsMembers
<1> QED  BY <1>4, <1>5, <1>6, <1>7

\* Pushes and DEL are never refused.
LEMMA Accepted ==
    ASSUME NEW r, NEW e,
           \/ r[1] \in {"LPUSH", "RPUSH"} /\ Len(Tail(r)) >= 1
           \/ r[1] = "DEL" /\ Len(Tail(r)) >= 0
    PROVE  Execute(r, e) = e
<1>1. PICK cmd, a : cmd = r[1] /\ a = Tail(r)
  OBVIOUS
<1>2. Numeric(cmd, a) = {}
  BY <1>1 DEF Numeric
<1>3. cmd \in DOMAIN MinArgs /\ ~ (Len(a) < MinArgs[cmd])
  BY <1>1 DEF MinArgs
<1>4. ~ Malformed(cmd, a)
  BY <1>1, <1>2, <1>3 DEF Malformed
<1> QED  BY <1>1, <1>3, <1>4 DEF Execute

LEMMA ListCounts ==
    ASSUME Counting, NEW r \in ListRequests, r[1] \in {"LPUSH", "RPUSH"}
    PROVE  OnList(r).reply[2] = Size(OnList(r).cells, r[2], "list")
<1>1. PICK a, k, vs : a = Tail(r) /\ k = r[2] /\ vs = From(a, 2)
  OBVIOUS
<1>2. k \in Keys /\ a[1] = k /\ Len(a) >= 1 /\ vs \in Seq(Elements)
  BY <1>1, ListHeads
<1>3. PICK e : e = ListCommand(r[1], a)
  OBVIOUS
<1>4. OnList(r) = e
  BY <1>1, <1>2, <1>3, Accepted DEF OnList
<1>5. PICK c : c = Reaped(cells, k)
  OBVIOUS
<1>6. PICK left \in BOOLEAN : left = (r[1] = "LPUSH")
  OBVIOUS
<1>7. PICK m : m = Push(c, k, Meta(c, k)[1], Meta(c, k)[2], vs, left)
  OBVIOUS
<1>8. e = Integer(m)
  <2>1. CASE r[1] = "LPUSH"
    BY <1>1, <1>2, <1>3, <1>5, <1>6, <1>7, <2>1 DEF ListCommand, LPush
  <2>2. CASE r[1] = "RPUSH"
    BY <1>1, <1>2, <1>3, <1>5, <1>6, <1>7, <2>2 DEF ListCommand, RPush
  <2> QED  BY <2>1, <2>2
<1>9. m.answer = Size(m.cells, k, "list")
  BY <1>2, <1>5, <1>7, PushedCounts DEF Counting
<1>10. m = Result(m.cells, m.answer)
  BY <1>7, Returns
<1>11. e.reply[2] = m.answer /\ e.cells = m.cells
  BY <1>8, <1>10, Integers1
<1> QED  BY <1>1, <1>4, <1>9, <1>11

LEMMA KeyCounts ==
    ASSUME Counting, NEW r \in KeyRequests
    PROVE  CountsKeys(r, OnKeys(r))
<1> SUFFICES ASSUME r[1] = "DEL", \A k \in Keys : ~ Expired(cells, k)
             PROVE  OnKeys(r).reply[2] =
                      Cardinality({k \in Keys : Value(cells, k) # Absent /\ Value(OnKeys(r).cells, k) = Absent})
  BY DEF CountsKeys
<1>1. PICK a : a = Tail(r)
  OBVIOUS
<1>2. PICK K \in SUBSET Keys : K = SetOf(a)
  BY <1>1, KeyHeads
<1>3. OnKeys(r) = Integer(Delete(cells, K))
  <2>1. Len(a) >= 0
    BY <1>1, KeyHeads, LenProperties
  <2>2. KeyCommand(r[1], a) = Integer(Delete(cells, K))
    BY <1>2 DEF KeyCommand
  <2> QED  BY <1>1, <2>1, <2>2, Accepted DEF OnKeys
<1>4. PICK m : m = Delete(cells, K)
  OBVIOUS
<1>5. m.answer = Cardinality({k \in Keys : Value(cells, k) # Absent /\ Value(m.cells, k) = Absent})
  BY <1>4, DeletedCounts DEF Counting
<1>6. m = Result(m.cells, m.answer)
  BY <1>4, Returns
<1>7. OnKeys(r).reply[2] = m.answer /\ OnKeys(r).cells = m.cells
  BY <1>3, <1>4, <1>6, Integers1
<1> QED  BY <1>5, <1>7

\* The number that HSET, SADD, ZADD, HDEL, SREM, ZREM, LPUSH, RPUSH and DEL
\* reply is the number of members, elements or keys that came or went, also
\* where a member is named twice, is there already, or what it belonged to has
\* expired (kv.py hset, sadd, zadd, hdel, srem, zrem, lpush, rpush, delete).
\* Counting needs members that are finitely many, and None that is no value.
THEOREM CountsAreTrue ==
    ASSUME Flat, "retype" \notin Liberties, IsFiniteSet(Members),
           \A t, x : [type |-> t, data |-> x] # Absent
    PROVE  Spec => []CountsTell
<1>1. Invariant => CountsTell
  <2> SUFFICES ASSUME Invariant PROVE CountsTell
    OBVIOUS
  <2>1. Counting
    BY DEF Counting, Real, Invariant
  <2>2. \A r \in HashRequests : CountsMembers(r, OnHash(r), "hash")
    BY <2>1, HashCounts
  <2>3. \A r \in SetRequests : CountsMembers(r, OnSets(r), "set")
    BY <2>1, SetCounts
  <2>4. \A r \in SortedSetRequests : CountsMembers(r, OnSortedSet(r), "zset")
    BY <2>1, SortedSetCounts
  <2>5. \A r \in ListRequests : CountsElements(r, OnList(r))
    BY <2>1, ListCounts DEF CountsElements
  <2>6. \A r \in KeyRequests : CountsKeys(r, OnKeys(r))
    BY <2>1, KeyCounts
  <2> QED  BY <2>2, <2>3, <2>4, <2>5, <2>6 DEF CountsTell
<1> QED  BY <1>1, InvariantHolds, FlatApart, PTL

=============================================================================
