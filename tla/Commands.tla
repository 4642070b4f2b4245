------------------------------ MODULE Commands ------------------------------
(***************************************************************************)
(* The servers in front of the key-value engine: the commands of the TCP   *)
(* server (server/tcp.py), the /kv and /keys calls of the HTTP server      *)
(* (server/http.py) and the interactive shell (cli/main.py).  The event    *)
(* loop runs a command to its end before the next; here HTTP requests and  *)
(* lines of the shell come one at a time as well.                          *)
(*                                                                         *)
(* A request is a sequence: the command and its arguments.  An argument    *)
(* that must be a number may be a word, and arguments may be missing.  The *)
(* options of SET are given as scanned: seconds or none, and a set.        *)
(***************************************************************************)
EXTENDS KV

CONSTANTS
    Word,      \* a value that is no number
    MaxPush,   \* bound: elements in one push
    Elements,  \* bound: what clients push
    Kinds,     \* bound: the types clients use each key for
    Liberties  \* what clients do besides: "retype", "late", "badex"

ASSUME CommandsAssumption ==
    /\ Word \in Vals /\ Word \notin Int /\ MaxPush \in Nat /\ Elements \subseteq Vals
    /\ Kinds \in [Keys -> SUBSET (Scanned \cup {"string", "list"})]
    /\ Liberties \subseteq {"retype", "late", "badex"}

\* The least number of arguments: fewer are refused, by a check or an IndexError.
MinArgs ==
    [PING |-> 0, ECHO |-> 0, COMMAND |-> 0, INFO |-> 0, DBSIZE |-> 0, FLUSHDB |-> 0, COMPACT |-> 0,
     GET |-> 1, SET |-> 2, SETNX |-> 2, SETEX |-> 3, MGET |-> 0, MSET |-> 0, INCR |-> 1,
     INCRBY |-> 2, DECR |-> 1, DECRBY |-> 2, APPEND |-> 2, STRLEN |-> 1,
     DEL |-> 0, EXISTS |-> 0, EXPIRE |-> 2, TTL |-> 1, PERSIST |-> 1, TYPE |-> 1, KEYS |-> 0,
     HSET |-> 1, HGET |-> 2, HDEL |-> 1, HGETALL |-> 1, HKEYS |-> 1, HVALS |-> 1, HEXISTS |-> 2,
     HLEN |-> 1, HINCRBY |-> 2,
     LPUSH |-> 1, RPUSH |-> 1, LPOP |-> 1, RPOP |-> 1, LRANGE |-> 3, LLEN |-> 1, LINDEX |-> 2,
     LSET |-> 3, LTRIM |-> 3,
     SADD |-> 1, SREM |-> 1, SMEMBERS |-> 1, SISMEMBER |-> 2, SCARD |-> 1, SUNION |-> 0,
     SINTER |-> 0, SDIFF |-> 0,
     ZADD |-> 1, ZREM |-> 1, ZSCORE |-> 2, ZINCRBY |-> 3, ZRANK |-> 2, ZRANGE |-> 3, ZCARD |-> 1]

\* Which arguments int() or float() reads, before the engine is called.
Numeric(cmd, a) ==
    CASE cmd \in {"SETEX", "INCRBY", "DECRBY", "EXPIRE", "LINDEX", "LSET", "ZINCRBY"} -> {2}
      [] cmd \in {"LRANGE", "LTRIM", "ZRANGE"} -> {2, 3}
      [] cmd = "HINCRBY" -> {3} \cap DOMAIN a
      [] cmd = "SET" -> {i \in {3} \cap DOMAIN a : a[i] # Absent}
      [] cmd = "ZADD" -> {i \in DOMAIN a : i % 2 = 0}
      [] OTHER -> {}

\* What execute_command() refuses before it calls the engine.
Malformed(cmd, a) ==
    \/ Len(a) < MinArgs[cmd]
    \/ cmd = "MSET" /\ Len(a) % 2 # 0
    \/ cmd \in {"HSET", "ZADD"} /\ Len(a) % 2 = 0
    \/ \E i \in Numeric(cmd, a) : a[i] \notin Int

\* Replies.
Error == <<"error">>
OK == <<"status", "OK">>
Null == <<"bulk", Absent>>
Reply(e, r) == [cells |-> e.cells, reply |-> IF e.failed THEN Error ELSE r]
Integer(e) == Reply(e, <<"integer", e.answer>>)
Flag(e) == Reply(e, <<"integer", IF e.answer THEN 1 ELSE 0>>)
Bulk(e) == Reply(e, <<"bulk", e.answer>>)
Array(e) == Reply(e, <<"array", e.answer>>)
Say(r) == [cells |-> cells, reply |-> r]

From(a, i) == SubSeq(a, i, Len(a))
SetOf(a) == {a[i] : i \in DOMAIN a}
\* The names at places i, i + 2, ... of a with the values d places on; the last counts.
Pairing(a, i, d) ==
    LET at(m) == {j \in i .. Len(a) : (j - i) % 2 = 0 /\ a[j] = m}
        last(m) == CHOOSE j \in at(m) : \A l \in at(m) : l <= j
    IN  [m \in {a[j] : j \in {j \in i .. Len(a) : (j - i) % 2 = 0}} |-> a[last(m) + d]]

ServerCommand(cmd, a) ==
    CASE cmd \in {"PING", "ECHO", "COMMAND"} -> Say(<<"bulk", cmd>>)
      [] cmd \in {"INFO", "DBSIZE"} -> Integer(DBSize(cells))
      [] cmd = "FLUSHDB" -> Reply(FlushDB(cells), OK)
      [] cmd = "COMPACT" -> Say(OK)

\* INCR and DECR are INCRBY and DECRBY of one; STRLEN measures what it reads.
StringCommand(cmd, a) ==
    CASE cmd = "GET" -> Bulk(Get(cells, a[1]))
      [] cmd = "SET" ->
            LET e == Set(cells, a[1], a[2], IF Len(a) > 2 THEN a[3] ELSE Absent, IF Len(a) > 3 THEN a[4] ELSE {})
            IN  Reply(e, IF e.answer THEN OK ELSE Null)
      [] cmd = "SETNX" -> Flag(Set(cells, a[1], a[2], Absent, {"nx"}))
      [] cmd = "SETEX" -> Reply(Set(cells, a[1], a[3], a[2], {}), OK)
      [] cmd = "MGET" -> Array(MGet(cells, a))
      [] cmd = "MSET" -> Reply(MSet(cells, Pairing(a, 1, 1)), OK)
      [] cmd = "INCR" -> Integer(IncrBy(cells, a[1], 1))
      [] cmd = "INCRBY" -> Integer(IncrBy(cells, a[1], a[2]))
      [] cmd = "DECR" -> Integer(IncrBy(cells, a[1], -1))
      [] cmd = "DECRBY" -> Integer(IncrBy(cells, a[1], 0 - a[2]))
      [] cmd = "APPEND" -> Reply(AppendTo(cells, a[1], a[2]), <<"length", a[2]>>)
      [] cmd = "STRLEN" -> Reply(Get(cells, a[1]), <<"length", Get(cells, a[1]).answer>>)

KeyCommand(cmd, a) ==
    CASE cmd = "DEL" -> Integer(Delete(cells, SetOf(a)))
      [] cmd = "EXISTS" -> Integer(Exists(cells, a))
      [] cmd = "EXPIRE" -> Flag(Expire(cells, a[1], a[2]))
      [] cmd = "TTL" -> Integer(TTL(cells, a[1]))
      [] cmd = "PERSIST" -> Flag(Persist(cells, a[1]))
      [] cmd = "TYPE" -> Reply(TypeOf(cells, a[1]), <<"status", TypeOf(cells, a[1]).answer>>)
      [] cmd = "KEYS" -> Array(KeysOf(cells, IF a = <<>> THEN Keys ELSE a[1]))

\* HGETALL hands its dictionary to a serialiser of lists, which takes the keys.
HashCommand(cmd, a) ==
    CASE cmd = "HSET" -> Integer(HSet(cells, a[1], Pairing(a, 2, 1)))
      [] cmd = "HGET" -> Bulk(HGet(cells, a[1], a[2]))
      [] cmd = "HDEL" -> Integer(HDel(cells, a[1], SetOf(From(a, 2))))
      [] cmd \in {"HGETALL", "HKEYS"} ->
            LET e == HGetAll(cells, a[1]) IN Reply(e, <<"array", DOMAIN e.answer>>)
      [] cmd = "HVALS" ->
            LET e == HGetAll(cells, a[1])
            IN  Reply(e, <<"array", [m \in DOMAIN e.answer |-> e.answer[m]]>>)
      [] cmd = "HEXISTS" -> Flag(HExists(cells, a[1], a[2]))
      [] cmd = "HLEN" -> Integer(HLen(cells, a[1]))
      [] cmd = "HINCRBY" -> Integer(HIncrBy(cells, a[1], a[2], IF Len(a) > 2 THEN a[3] ELSE 1))

ListCommand(cmd, a) ==
    CASE cmd = "LPUSH" -> Integer(LPush(cells, a[1], From(a, 2)))
      [] cmd = "RPUSH" -> Integer(RPush(cells, a[1], From(a, 2)))
      [] cmd = "LPOP" -> Bulk(LPop(cells, a[1]))
      [] cmd = "RPOP" -> Bulk(RPop(cells, a[1]))
      [] cmd = "LRANGE" -> Array(LRange(cells, a[1], a[2], a[3]))
      [] cmd = "LLEN" -> Integer(LLen(cells, a[1]))
      [] cmd = "LINDEX" -> Bulk(LIndex(cells, a[1], a[2]))
      [] cmd = "LSET" -> LET e == LSet(cells, a[1], a[2], a[3])
                         IN  Reply(e, IF e.answer THEN OK ELSE Error)
      [] cmd = "LTRIM" -> Reply(LTrim(cells, a[1], a[2], a[3]), OK)

SetCommand(cmd, a) ==
    CASE cmd = "SADD" -> Integer(SAdd(cells, a[1], SetOf(From(a, 2))))
      [] cmd = "SREM" -> Integer(SRem(cells, a[1], SetOf(From(a, 2))))
      [] cmd = "SMEMBERS" -> Array(SMembers(cells, a[1]))
      [] cmd = "SISMEMBER" -> Flag(SIsMember(cells, a[1], a[2]))
      [] cmd = "SCARD" -> Integer(SCard(cells, a[1]))
      [] cmd = "SUNION" -> Array(SUnion(cells, a))
      [] cmd = "SINTER" -> Array(SInter(cells, a))
      [] cmd = "SDIFF" -> Array(SDiff(cells, a))

SortedSetCommand(cmd, a) ==
    CASE cmd = "ZADD" -> Integer(ZAdd(cells, a[1], Pairing(a, 3, -1)))
      [] cmd = "ZREM" -> Integer(ZRem(cells, a[1], SetOf(From(a, 2))))
      [] cmd = "ZSCORE" -> Bulk(ZScore(cells, a[1], a[2]))
      [] cmd = "ZINCRBY" -> Bulk(ZIncrBy(cells, a[1], a[3], a[2]))
      [] cmd = "ZRANK" -> LET e == ZRank(cells, a[1], a[2])
                          IN  Reply(e, IF e.answer = Absent THEN Null ELSE <<"integer", e.answer>>)
      [] cmd = "ZRANGE" -> Array(ZRange(cells, a[1], a[2], a[3]))
      [] cmd = "ZCARD" -> Integer(ZCard(cells, a[1]))

\* execute_command(): the cells a request leaves and the reply.  What is not
\* known and what raises is answered with an error.
Execute(r, command) ==
    IF r[1] \notin DOMAIN MinArgs \/ Malformed(r[1], Tail(r)) THEN Say(Error) ELSE command

OnServer(r) == Execute(r, ServerCommand(r[1], Tail(r)))
OnString(r) == Execute(r, StringCommand(r[1], Tail(r)))
OnKeys(r) == Execute(r, KeyCommand(r[1], Tail(r)))
OnHash(r) == Execute(r, HashCommand(r[1], Tail(r)))
OnList(r) == Execute(r, ListCommand(r[1], Tail(r)))
OnSets(r) == Execute(r, SetCommand(r[1], Tail(r)))
OnSortedSet(r) == Execute(r, SortedSetCommand(r[1], Tail(r)))

\* The HTTP calls on keys: the answer is a status and, if there is one, a body.
RestGet(r) ==
    LET k == r[2] IN
    CASE r[1] = "GET /kv" ->
            LET e == Get(cells, k)
            IN  Reply(e, IF e.answer = Absent THEN <<404>>
                         ELSE <<200, <<e.answer, TypeOf(e.cells, k).answer, TTL(e.cells, k).answer>>>>)
      [] r[1] = "GET /keys" -> LET e == KeysOf(cells, r[2]) IN Reply(e, <<200, e.answer>>)
      [] r[1] = "GET /metrics" -> LET e == DBSize(cells) IN Reply(e, <<200, e.answer>>)
      [] r[1] = "GET /health" -> Say(<<200>>)

\* do_POST() leaves the type of ex to set(), which has put value and type when
\* it finds that it cannot compare a word with zero; nothing is answered then.
RestPost(r) ==
    LET k == r[2]
        v == r[3]
        ex == r[4]
    IN
    CASE v = Absent -> Say(<<400>>)
      [] v # Absent /\ ex # Word -> Reply(Set(cells, k, v, ex, {}), <<200>>)
      [] v # Absent /\ ex = Word ->
            [cells |-> [Reaped(cells, k) EXCEPT ![V(k)] = v, ![Type(k)] = "string"], reply |-> <<>>]

RestDelete(r) == LET e == Delete(cells, {r[2]}) IN Reply(e, <<200, e.answer > 0>>)

\* A line of the shell: five commands and STATS, whatever its help says, and SET
\* without NX and XX.
Shell(r) ==
    CASE r[1] = "STATS" -> Integer(DBSize(cells))
      [] r[1] = "GET" /\ Len(r) > 1 -> OnString(r)
      [] r[1] = "SET" /\ Len(r) > 2 -> OnString(IF Len(r) > 4 THEN SubSeq(r, 1, 4) ELSE r)
      [] r[1] = "COMPACT" -> OnServer(r)
      [] r[1] = "KEYS" \/ (r[1] = "DEL" /\ Len(r) > 1) -> OnKeys(r)
      [] OTHER -> Say(Error)

-----------------------------------------------------------------------------
(* The clients *)

Of(t) == {k \in Keys : t \in Kinds[k]}
Places == (0 - MaxIndex - 1) .. MaxIndex + 1
UpToTwo(S) == UNION {[1 .. n -> S] : n \in 0 .. 2}

ServerRequests == {<<"DBSIZE">>, <<"FLUSHDB">>, <<"PING">>, <<"COMPACT">>}

StringRequests ==
    {<<"MGET">> \o ks : ks \in UpToTwo(Keys)} \cup {<<"MSET">>}
    \cup UNION {
        {<<"GET", k>>, <<"INCR", k>>, <<"DECR", k>>, <<"INCRBY", k, Word>>, <<"SETEX", k>>, <<"MSET", k>>}
        \cup {<<"SET", k, v, ex, f>> : v \in Vals, ex \in {Absent, 1, Word}, f \in {{}, {"nx"}, {"xx"}}}
        \cup {<<"SETNX", k, v>> : v \in Vals} \cup {<<"SETEX", k, n, 0>> : n \in {0, 1}}
        \cup {<<"MSET", j, v, k, v>> : j \in Keys, v \in Vals}
        \cup {<<"APPEND", k, Word>>} : k \in Of("string")}

KeyRequests ==
    {<<c>> \o ks : c \in {"DEL", "EXISTS"}, ks \in UpToTwo(Keys)}
    \cup {<<"EXPIRE", k, n>> : k \in Keys, n \in {0 - 1, 1}}
    \cup {<<c, k>> : c \in {"TTL", "PERSIST", "TYPE", "EXPIRE"}, k \in Keys}
    \cup {<<"KEYS">>} \cup {<<"KEYS", {k}>> : k \in Keys}

HashRequests == UNION {
        {<<"HSET", k>>} \cup {<<"HSET", k, m>> : m \in Members}
        \cup {<<"HSET", k, m, v>> : m \in Members, v \in Vals}
        \cup {<<"HSET", k, m, v, n, Word>> : m \in Members, n \in Members, v \in Vals}
        \cup {<<"HDEL", k>> \o ms : ms \in UpToTwo(Members)}
        \cup {<<c, k, m>> : c \in {"HGET", "HINCRBY", "HEXISTS"}, m \in Members}
        \cup {<<"HINCRBY", k, m, n>> : m \in Members, n \in {0 - 1, Word}}
        \cup {<<"HGETALL", k>>, <<"HVALS", k>>, <<"HLEN", k>>} : k \in Of("hash")}

ListRequests == UNION {
    {<<c, k>> \o vs : c \in {"LPUSH", "RPUSH"}, vs \in UNION {[1 .. n -> Elements] : n \in 0 .. MaxPush}}
    \cup {<<"LPOP", k>>, <<"RPOP", k>>, <<"LLEN", k>>, <<"LRANGE", k, 0, Word>>}
    \cup {<<"LSET", k, i, v>> : i \in Places, v \in Elements}
    \cup {<<"LINDEX", k, i>> : i \in Places}
    \cup {<<"LTRIM", k, i, j>> : i \in Places, j \in Places} \cup {<<"LRANGE", k, 0, 0 - 1>>} : k \in Of("list")}

SetRequests ==
    {<<c>> \o ks : c \in {"SUNION", "SINTER", "SDIFF"}, ks \in UpToTwo(Of("set"))}
    \cup UNION {
        {<<c, k>> \o ms : c \in {"SADD", "SREM"}, ms \in UpToTwo(Members)}
        \cup {<<"SISMEMBER", k, m>> : m \in Members} \cup {<<"SCARD", k>>, <<"SMEMBERS", k>>} : k \in Of("set")}

SortedSetRequests == UNION {
    {<<"ZADD", k>>} \cup {<<"ZADD", k, n>> : n \in {0, Word}}
    \cup {<<"ZADD", k, n, m>> : n \in Vals, m \in Members}
    \cup {<<"ZADD", k, 0, m, n, l>> : n \in Vals, m \in Members, l \in Members}
    \cup {<<"ZREM", k>> \o ms : ms \in UpToTwo(Members)}
    \cup {<<"ZINCRBY", k, n, m>> : n \in {0 - 1, 1}, m \in Members}
    \cup {<<c, k, m>> : c \in {"ZRANK", "ZSCORE"}, m \in Members}
    \cup {<<"ZRANGE", k, 0, 0 - 1>>, <<"ZCARD", k>>} : k \in Of("zset")}

RestGets ==
    {<<"GET /kv", k>> : k \in Keys} \cup {<<"GET /keys", {k}>> : k \in Keys}
    \cup {<<c, 0>> : c \in {"GET /metrics", "GET /health"}}
RestPosts == {<<"POST /kv", k, v, ex>> : k \in Of("string"), v \in {0, Absent}, ex \in {Absent, 1, Word}}
RestDeletes == {<<"DELETE /kv", k>> : k \in Keys}

ShellRequests ==
    {<<"STATS">>, <<"KEYS">>} \cup {<<"DEL", k>> : k \in Keys}
    \cup {<<"SET", k, v, 1>> : k \in Of("string"), v \in Vals}

\* Clients use a key for one type at a time, leave the deadline of a key alone
\* once it has passed, and give numbers for ex, unless they take the liberty
\* not to.
Writes(r) ==
    CASE r[1] \in {"SET", "SETNX", "SETEX", "INCR", "INCRBY", "DECR", "DECRBY", "APPEND", "POST /kv"} ->
            {<<r[2], "string">>}
      [] r[1] = "MSET" -> {<<r[i], "string">> : i \in {i \in DOMAIN r : i % 2 = 0}}
      [] r[1] \in {"HSET", "HINCRBY"} -> {<<r[2], "hash">>}
      [] r[1] \in {"LPUSH", "RPUSH"} -> {<<r[2], "list">>}
      [] r[1] = "SADD" -> {<<r[2], "set">>}
      [] r[1] \in {"ZADD", "ZINCRBY"} -> {<<r[2], "zset">>}
      [] OTHER -> {}

Allowed(r) ==
    /\ "retype" \in Liberties \/ \A w \in Writes(r) : Reaped(cells, w[1])[Type(w[1])] \in {Absent, w[2]}
    /\ "late" \in Liberties \/ (r[1] \in {"EXPIRE", "PERSIST"} => ~ Expired(cells, r[2]))
    /\ "badex" \in Liberties \/ (r[1] = "POST /kv" => r[4] # Word)

\* Bounds of the instance.
Fits(c) == \A k \in Keys :
    /\ (0 - MaxIndex) <= Meta(c, k)[1] /\ Meta(c, k)[2] <= MaxIndex + 1
    /\ c[V(k)] \in Vals \cup {Absent}
    /\ \A m \in Members : {c[Item("hash", k, m)], c[Item("zset", k, m)]} \subseteq Vals \cup {Absent}

Becomes(r, e) ==
    /\ Allowed(r) /\ Fits(e.cells)
    /\ cells' = e.cells
    /\ UNCHANGED now

ServeServer == \E r \in ServerRequests : Becomes(r, OnServer(r))
ServeString == \E r \in StringRequests : Becomes(r, OnString(r))
ServeKey == \E r \in KeyRequests : Becomes(r, OnKeys(r))
ServeHash == \E r \in HashRequests : Becomes(r, OnHash(r))
ServeList == \E r \in ListRequests : Becomes(r, OnList(r))
ServeSet == \E r \in SetRequests : Becomes(r, OnSets(r))
ServeSortedSet == \E r \in SortedSetRequests : Becomes(r, OnSortedSet(r))
ServeRest ==
    \/ \E r \in RestGets : Becomes(r, RestGet(r))
    \/ \E r \in RestPosts : Becomes(r, RestPost(r))
    \/ \E r \in RestDeletes : Becomes(r, RestDelete(r))
ServeShell == \E r \in ShellRequests : Becomes(r, Shell(r))

Tick ==
    /\ now < MaxNow
    /\ now' = now + 1
    /\ UNCHANGED cells

Next ==
    \/ ServeServer \/ ServeString \/ ServeKey \/ ServeHash \/ ServeList \/ ServeSet
    \/ ServeSortedSet \/ ServeRest \/ ServeShell \/ Tick

Spec == Init /\ [][Next]_vars

-----------------------------------------------------------------------------
(* Properties *)

\* What clients see of c.
View(c) == [k \in Keys |-> <<Value(c, k), Deadline(c, k)>>]

\* A command that is answered with an error has not changed anything: arguments
\* are read before the engine is called, and what the engine refuses it refuses
\* before its first put (tcp.py execute_command; kv.py incrby, hincrby, lset).
ErrorsChangeNothing ==
    LET unharmed(e) == e.reply = Error => View(e.cells) = View(cells) IN
    /\ \A r \in StringRequests : unharmed(OnString(r))
    /\ \A r \in KeyRequests : unharmed(OnKeys(r))
    /\ \A r \in HashRequests : unharmed(OnHash(r))
    /\ \A r \in ListRequests : unharmed(OnList(r))
    /\ \A r \in SetRequests : unharmed(OnSets(r))
    /\ \A r \in SortedSetRequests : unharmed(OnSortedSet(r))

\* The members or elements of k in c, if it is of type t.
Size(c, k, t) ==
    LET v == Value(c, k) IN
    IF v = Absent THEN 0 ELSE IF v.type = t THEN Cardinality(DOMAIN v.data) ELSE 0

\* The replies to requests that add or remove members say how many e has more or less.
CountsMembers(r, e, t) ==
    e.reply # Error =>
        /\ r[1] \in {"HSET", "SADD", "ZADD"} =>
             e.reply[2] = Size(e.cells, r[2], t) - Size(cells, r[2], t)
        /\ r[1] \in {"HDEL", "SREM", "ZREM"} /\ ~ Expired(cells, r[2]) =>
             e.reply[2] = Size(cells, r[2], t) - Size(e.cells, r[2], t)
CountsElements(r, e) ==
    r[1] \in {"LPUSH", "RPUSH"} /\ Fits(e.cells) => e.reply[2] = Size(e.cells, r[2], "list")
CountsKeys(r, e) ==
    r[1] = "DEL" /\ (\A k \in Keys : ~ Expired(cells, k)) =>
        e.reply[2] = Cardinality({k \in Keys : Value(cells, k) # Absent /\ Value(e.cells, k) = Absent})

\* The number a command returns is the number of members it added or took away,
\* the length a push left, or the number of keys that went: also where members
\* are named twice, an old value has expired, or there are none.  Removals do not
\* look at the deadline and count what has expired (kv.py hset, sadd, zadd, hdel,
\* srem, zrem, lpush, rpush, delete).
CountsTell ==
    /\ \A r \in HashRequests : Allowed(r) => CountsMembers(r, OnHash(r), "hash")
    /\ \A r \in SetRequests : Allowed(r) => CountsMembers(r, OnSets(r), "set")
    /\ \A r \in SortedSetRequests : Allowed(r) => CountsMembers(r, OnSortedSet(r), "zset")
    /\ \A r \in ListRequests : Allowed(r) => CountsElements(r, OnList(r))
    /\ \A r \in KeyRequests : CountsKeys(r, OnKeys(r))

\* What Redis' slices take of a sequence, place by place.
Slice(s, start, stop) ==
    LET at(i) == IF i < 0 THEN Len(s) + i ELSE i
        P == {p \in 1 .. Len(s) : at(start) <= p - 1 /\ p - 1 <= at(stop)}
    IN  [i \in 1 .. Cardinality(P) |->
            s[CHOOSE p \in P : Cardinality({q \in P : q < p}) = i - 1]]

\* Whether a key exists, as each reader says: EXISTS, TYPE, TTL and KEYS agree.
PresenceAgrees(k) ==
    LET there == Value(cells, k) # Absent IN
    /\ OnKeys(<<"EXISTS", k, k>>).reply[2] = IF there THEN 2 ELSE 0
    /\ OnKeys(<<"TYPE", k>>).reply[2] = IF there THEN Value(cells, k).type ELSE Absent
    /\ (OnKeys(<<"TTL", k>>).reply[2] = -2) = ~ there
    /\ k \in OnKeys(<<"KEYS">>).reply[2] <=> there

\* Members by score: ZRANK is how many come before, and ZRANGE slices their order.
RanksAgree(k, v, all) ==
    v # Absent /\ v.type = "zset" =>
        /\ \A m \in Members : OnSortedSet(<<"ZRANK", k, m>>).reply =
              IF m \notin DOMAIN v.data THEN Null
              ELSE <<"integer", Cardinality({n \in DOMAIN v.data :
                        \/ v.data[n] < v.data[m]
                        \/ v.data[n] = v.data[m] /\ Order[n] < Order[m]})>>
        /\ Len(all) = Cardinality(DOMAIN v.data)
        /\ \A i, j \in Places : OnSortedSet(<<"ZRANGE", k, i, j>>).reply[2] = Slice(all, i, j)

\* LRANGE, LINDEX and LLEN see the same list.
ListAgrees(k, v) ==
    LET list == IF v = Absent THEN <<>> ELSE IF v.type = "list" THEN v.data ELSE <<>> IN
    /\ OnList(<<"LLEN", k>>).reply[2] = Len(list)
    /\ \A i \in Places :
         /\ OnList(<<"LINDEX", k, i>>).reply[2] =
               LET one == Slice(list, i, i) IN IF one = <<>> THEN Absent ELSE one[1]
         /\ \A j \in Places : OnList(<<"LRANGE", k, i, j>>).reply[2] = Slice(list, i, j)

\* Readers agree with each other and with the value, at every place of a list or
\* a sorted set and on either side of a deadline, and change nothing that is seen
\* (kv.py lrange, lindex, llen, zrange, zrank, exists, type, ttl, keys).
ReadersAgree ==
    /\ \A k \in Keys : PresenceAgrees(k)
    /\ \A k \in Of("zset") : RanksAgree(k, Value(cells, k), OnSortedSet(<<"ZRANGE", k, 0, -1>>).reply[2])
    /\ \A k \in Of("list") : ListAgrees(k, Value(cells, k))

\* HGETALL answers with the fields and their values.  It does not, see the README
\* (tcp.py HGETALL; resp.py array, encode).
HGetAllWhole ==
    \A k \in Of("hash") :
        Cardinality(OnHash(<<"HGETALL", k>>).reply[2]) = 2 * OnHash(<<"HLEN", k>>).reply[2]

=============================================================================
