------------------------------ MODULE KVProofs -------------------------------
(***************************************************************************)
(* Proofs about the methods of the key-value engine, for any keys, members *)
(* and values: the names of the cells, what a purge takes, what clients    *)
(* see of the cells, and what each method does to them.                    *)
(***************************************************************************)
EXTENDS Commands, SequenceTheorems, TLAPS

-----------------------------------------------------------------------------
(* The names of the cells *)

\* The members of two keys do not share a cell.
Apart == \A k, l \in Keys, m, n \in Members : k \o m = l \o n => k = l /\ m = n

Tag(t) == CASE t = "hash" -> "H" [] t = "set" -> "S" [] t = "zset" -> "Z"

\* What a cell's name is made of.
Alphabet == Parts \cup {"V", "TYPE", "EXP", "LMETA", "L", "H", "S", "Z"} \cup Int

LEMMA InAlphabet ==
    /\ \A x \in Keys \cup Members : x \in Seq(Alphabet)
    /\ \A t \in Scanned : Tag(t) \in Alphabet /\ Tag(t) \in {"H", "S", "Z"}
    /\ {"V", "TYPE", "EXP", "LMETA", "L"} \subseteq Alphabet /\ Int \subseteq Alphabet
<1>1. Seq(Parts) \subseteq Seq(Alphabet)
  BY SeqMonotonic DEF Alphabet
<1> QED  BY <1>1, KVAssumption DEF Alphabet, Scanned, Tag

\* A name behind a tag is the name, and one name has one tag.
LEMMA Tagging ==
    ASSUME NEW a \in Alphabet, NEW b \in Alphabet,
           NEW k \in Seq(Alphabet), NEW l \in Seq(Alphabet)
    PROVE  /\ (<<a>> \o k)[1] = a
           /\ <<a>> \o k = <<b>> \o l => a = b /\ k = l
<1>1. (<<a>> \o k)[1] = a
  OBVIOUS
<1>2. ASSUME <<a>> \o k = <<b>> \o l PROVE a = b /\ k = l
  <2>1. Len(k) = Len(l)
    <3>1. Len(<<a>> \o k) = 1 + Len(k) /\ Len(<<b>> \o l) = 1 + Len(l)
      OBVIOUS
    <3> QED  BY <3>1, <1>2
  <2>2. ASSUME NEW i \in 1 .. Len(k) PROVE k[i] = l[i]
    <3>1. (<<a>> \o k)[i + 1] = k[i]
      OBVIOUS
    <3>2. (<<b>> \o l)[i + 1] = l[i]
      BY <2>1
    <3> QED  BY <3>1, <3>2, <1>2
  <2>3. (<<a>> \o k)[1] = a /\ (<<b>> \o l)[1] = b
    OBVIOUS
  <2> QED  BY <2>1, <2>2, <2>3, <1>2, SeqEqual
<1> QED  BY <1>1, <1>2

\* The element of a list tells its list and its index.
LEMMA Elements1 ==
    ASSUME NEW k \in Seq(Alphabet), NEW l \in Seq(Alphabet), NEW i \in Int, NEW j \in Int
    PROVE  /\ (<<"L">> \o k \o <<i>>)[1] = "L"
           /\ <<"L">> \o k \o <<i>> = <<"L">> \o l \o <<j>> => k = l /\ i = j
           /\ (<<"L">> \o k \o <<i>>)[Len(<<"L">> \o k \o <<i>>)] = i
<1> DEFINE p == <<"L">> \o k
           q == <<"L">> \o l
<1>1. p \in Seq(Alphabet) /\ q \in Seq(Alphabet) /\ p[1] = "L" /\ Len(p) = 1 + Len(k)
  <2>1. <<"L">> \in Seq(Alphabet) /\ Len(<<"L">>) = 1
    BY InAlphabet
  <2> QED  BY <2>1, ConcatProperties
<1>2. (p = q => k = l)
  BY Tagging, InAlphabet
<1> HIDE DEF p, q
<1>3. Len(p \o <<i>>) = Len(p) + 1 /\ Len(q \o <<j>>) = Len(q) + 1
  BY <1>1
<1>4. (p \o <<i>>)[Len(p) + 1] = i /\ (q \o <<j>>)[Len(q) + 1] = j
  BY <1>1
<1>5. (p \o <<i>>)[1] = "L"
  BY <1>1
<1>6. ASSUME p \o <<i>> = q \o <<j>> PROVE k = l /\ i = j
  <2>1. Len(p) = Len(q)
    BY <1>3, <1>6, <1>1
  <2>2. ASSUME NEW n \in 1 .. Len(p) PROVE p[n] = q[n]
    <3>1. (p \o <<i>>)[n] = p[n] /\ (q \o <<j>>)[n] = q[n]
      BY <1>1, <2>1
    <3> QED  BY <3>1, <1>6
  <2>3. p = q
    BY <1>1, <2>1, <2>2, SeqEqual
  <2> QED  BY <2>1, <2>3, <1>2, <1>4, <1>6
<1> QED  BY <1>3, <1>4, <1>5, <1>6 DEF p, q

\* The names of the cells of a key and its members are what they are.
LEMMA Names ==
    /\ \A k \in Keys :
         /\ V(k)[1] = "V" /\ Type(k)[1] = "TYPE" /\ Exp(k)[1] = "EXP" /\ LMeta(k)[1] = "LMETA"
         /\ \A i \in Int : Elem(k, i)[1] = "L" /\ Elem(k, i)[Len(Elem(k, i))] = i
    /\ \A k, l \in Keys :
         /\ V(k) = V(l) => k = l
         /\ Type(k) = Type(l) => k = l
         /\ Exp(k) = Exp(l) => k = l
         /\ LMeta(k) = LMeta(l) => k = l
         /\ \A i, j \in Int : Elem(k, i) = Elem(l, j) => k = l /\ i = j
<1>1. \A k \in Keys : k \in Seq(Alphabet)
  BY InAlphabet
<1>2. ASSUME NEW k \in Keys, NEW l \in Keys
      PROVE  /\ V(k)[1] = "V" /\ Type(k)[1] = "TYPE" /\ Exp(k)[1] = "EXP" /\ LMeta(k)[1] = "LMETA"
             /\ V(k) = V(l) => k = l
             /\ Type(k) = Type(l) => k = l
             /\ Exp(k) = Exp(l) => k = l
             /\ LMeta(k) = LMeta(l) => k = l
  BY <1>1, InAlphabet, Tagging DEF V, Type, Exp, LMeta
<1>3. ASSUME NEW k \in Keys, NEW l \in Keys, NEW i \in Int, NEW j \in Int
      PROVE  /\ Elem(k, i)[1] = "L" /\ Elem(k, i)[Len(Elem(k, i))] = i
             /\ Elem(k, i) = Elem(l, j) => k = l /\ i = j
  <2>1. k \in Seq(Alphabet) /\ l \in Seq(Alphabet)
    BY <1>1
  <2>2. /\ (<<"L">> \o k \o <<i>>)[1] = "L"
        /\ <<"L">> \o k \o <<i>> = <<"L">> \o l \o <<j>> => k = l /\ i = j
        /\ (<<"L">> \o k \o <<i>>)[Len(<<"L">> \o k \o <<i>>)] = i
    BY <2>1, Elements1
  <2> QED  BY <2>2 DEF Elem
<1> QED  BY <1>2, <1>3

\* A scan for the members of a key finds each of them.
LEMMA ItemNames ==
    ASSUME NEW t \in Scanned, NEW k \in Keys, NEW m \in Members
    PROVE  /\ Item(t, k, m)[1] = Tag(t)
           /\ Item(t, k, m) = <<Tag(t)>> \o (k \o m)
           /\ Len(Item(t, k, m)) > Len(Prefix(t, k))
           /\ SubSeq(Item(t, k, m), 1, Len(Prefix(t, k))) = Prefix(t, k)
<1>1. k \in Seq(Alphabet) /\ m \in Seq(Alphabet) /\ m # <<>> /\ Tag(t) \in Alphabet
  BY KVAssumption, InAlphabet
<1>p. Prefix(t, k) = <<Tag(t)>> \o k
  BY DEF Tag, Prefix
<1> DEFINE p == Prefix(t, k)
<1>2. p \in Seq(Alphabet) /\ k \o m \in Seq(Alphabet) /\ <<Tag(t)>> \in Seq(Alphabet)
  <2>1. <<Tag(t)>> \in Seq(Alphabet)
    BY <1>1
  <2> QED  BY <2>1, <1>1, <1>p, ConcatProperties
<1>3. Item(t, k, m) = <<Tag(t)>> \o (k \o m)
  BY <1>1, <1>2, <1>p, ConcatAssociative DEF Item
<1>4. Item(t, k, m)[1] = Tag(t)
  BY <1>1, <1>2, <1>3, Tagging
<1> HIDE DEF p
<1>5. Len(p \o m) = Len(p) + Len(m) /\ Len(p) \in Nat /\ Len(m) > 0
  BY <1>1, <1>2, ConcatProperties, EmptySeq, LenProperties
<1>6. SubSeq(p \o m, 1, Len(p)) = p
  <2>1. /\ p \o m \in Seq(Alphabet)
        /\ \A i \in 1 .. Len(p) + Len(m) : (p \o m)[i] = IF i <= Len(p) THEN p[i] ELSE m[i - Len(p)]
    BY <1>1, <1>2, ConcatProperties
  <2>2. \A i \in 1 .. Len(p) : (p \o m)[i] \in Alphabet
    BY <2>1, <1>5, <1>2, ElementOfSeq
  <2>3. /\ SubSeq(p \o m, 1, Len(p)) \in Seq(Alphabet)
        /\ Len(SubSeq(p \o m, 1, Len(p))) = IF 1 <= Len(p) THEN Len(p) - 1 + 1 ELSE 0
        /\ \A i \in 1 .. Len(p) - 1 + 1 : SubSeq(p \o m, 1, Len(p))[i] = (p \o m)[1 + i - 1]
    BY <2>2, <1>5, SubSeqProperties
  <2> QED  BY <2>1, <2>3, <1>2, <1>5, <1>1, SeqEqual
<1> QED  BY <1>3, <1>4, <1>5, <1>6 DEF Item, p

\* The member behind the name of a key.
LEMMA MemberOf ==
    ASSUME NEW t \in Scanned, NEW k \in Keys, NEW m \in Members
    PROVE  SubSeq(Item(t, k, m), Len(k) + 2, Len(Item(t, k, m))) = m
<1> DEFINE p == Prefix(t, k)
<1>1. k \in Seq(Alphabet) /\ m \in Seq(Alphabet) /\ Tag(t) \in Alphabet /\ p = <<Tag(t)>> \o k
  BY InAlphabet DEF Tag, Prefix
<1>2. <<Tag(t)>> \in Seq(Alphabet) /\ Len(<<Tag(t)>>) = 1
  BY <1>1
<1>3. p \in Seq(Alphabet) /\ Len(p) = Len(k) + 1
  BY <1>1, <1>2, ConcatProperties, LenProperties
<1> HIDE DEF p
<1> DEFINE s == p \o m
<1>4. /\ s \in Seq(Alphabet) /\ Len(s) = Len(p) + Len(m)
      /\ \A i \in 1 .. Len(p) + Len(m) : s[i] = IF i <= Len(p) THEN p[i] ELSE m[i - Len(p)]
  BY <1>1, <1>3, ConcatProperties
<1>5. Len(k) \in Nat /\ Len(m) \in Nat
  BY <1>1, LenProperties
<1> HIDE DEF s
<1> DEFINE r == SubSeq(s, Len(k) + 2, Len(s))
<1>6. /\ r \in Seq(Alphabet)
      /\ Len(r) = IF Len(k) + 2 <= Len(s) THEN Len(s) - (Len(k) + 2) + 1 ELSE 0
      /\ \A i \in 1 .. Len(s) - (Len(k) + 2) + 1 : r[i] = s[(Len(k) + 2) + i - 1]
  <2>1. \A i \in Len(k) + 2 .. Len(s) : s[i] \in Alphabet
    <3>1. \A i \in Len(k) + 2 .. Len(s) : i \in 1 .. Len(s)
      BY <1>3, <1>4, <1>5
    <3> QED  BY <3>1, <1>4, ElementOfSeq
  <2>2. Len(k) + 2 \in Int /\ Len(s) \in Int
    BY <1>3, <1>4, <1>5
  <2> QED  BY <2>1, <2>2, SubSeqProperties
<1> HIDE DEF r
<1>7. Len(r) = Len(m)
  BY <1>3, <1>4, <1>5, <1>6
<1>8. \A i \in 1 .. Len(r) : r[i] = m[i]
  BY <1>3, <1>4, <1>5, <1>6, <1>7, SMTT(60)
<1>9. r = m
  BY <1>1, <1>6, <1>7, <1>8, SeqEqual
<1> QED  BY <1>9 DEF Item, p, s, r

\* A sequence behind its first element.
LEMMA Shifting ==
    ASSUME NEW S, NEW a, NEW s \in Seq(S)
    PROVE  (<<a>> \o s)[1] = a /\ Tail(<<a>> \o s) = s
<1> DEFINE T == S \cup {a}
<1>1. s \in Seq(T) /\ a \in T
  <2>1. S \subseteq T
    OBVIOUS
  <2> QED  BY <2>1, SeqMonotonic
<1> HIDE DEF T
<1> DEFINE r == <<a>> \o s
<1>2. <<a>> \in Seq(T) /\ Len(<<a>>) = 1 /\ <<a>>[1] = a
  BY <1>1
<1>3. /\ r \in Seq(T) /\ Len(r) = 1 + Len(s)
      /\ \A i \in 1 .. 1 + Len(s) : r[i] = IF i <= 1 THEN <<a>>[i] ELSE s[i - 1]
  BY <1>1, <1>2, ConcatProperties
<1>4. Len(s) \in Nat
  BY LenProperties
<1> HIDE DEF r
<1>5. r # <<>>
  BY <1>3, <1>4
<1>6. /\ Tail(r) \in Seq(T) /\ Len(Tail(r)) = Len(r) - 1
      /\ \A i \in 1 .. Len(Tail(r)) : Tail(r)[i] = r[i + 1]
  BY <1>3, <1>5, HeadTailProperties
<1>7. Tail(r) = s
  BY <1>1, <1>3, <1>4, <1>6, SeqEqual
<1> QED  BY <1>2, <1>3, <1>4, <1>7 DEF r

LEMMA TailOf == \A k \in Keys : Tail(V(k)) = k
<1> SUFFICES ASSUME NEW k \in Keys PROVE Tail(<<"V">> \o k) = k
  BY DEF V
<1>1. k \in Seq(Alphabet)
  BY InAlphabet
<1> QED  BY <1>1, Shifting

LEMMA ItemsApart ==
    ASSUME Apart, NEW t \in Scanned, NEW u \in Scanned, NEW k \in Keys, NEW l \in Keys,
           NEW m \in Members, NEW n \in Members, Item(t, k, m) = Item(u, l, n)
    PROVE  t = u /\ k = l /\ m = n
<1> DEFINE a == k \o m
           b == l \o n
<1>1. a \in Seq(Alphabet) /\ b \in Seq(Alphabet) /\ Tag(t) \in Alphabet /\ Tag(u) \in Alphabet
  BY InAlphabet, ConcatProperties
<1>2. Item(t, k, m) = <<Tag(t)>> \o a /\ Item(u, l, n) = <<Tag(u)>> \o b
  BY ItemNames
<1>3. a = b => k = l /\ m = n
  BY ZenonT(90), ZenonT(90) DEF Apart
<1> HIDE DEF a, b
<1>4. Tag(t) = Tag(u) /\ a = b
  <2>1. <<Tag(t)>> \o a = <<Tag(u)>> \o b
    BY <1>2
  <2>2. \A v, w \in Alphabet : <<v>> \o a = <<w>> \o b => v = w /\ a = b
    BY <1>1, Tagging
  <2> QED  BY <1>1, <2>1, <2>2
<1>5. t = u
  BY <1>4 DEF Tag, Scanned
<1> QED  BY <1>3, <1>4, <1>5

\* The cells of every key are there, and no two of them are the same.
LEMMA CellsOf ==
    \A k \in Keys :
      /\ V(k) \in Cells /\ Type(k) \in Cells /\ Exp(k) \in Cells /\ LMeta(k) \in Cells
      /\ \A i \in Indexes : Elem(k, i) \in Cells
      /\ \A t \in Scanned, m \in Members : Item(t, k, m) \in Cells
BY DEF Cells

LEMMA Distinct ==
    \A k, l \in Keys :
      /\ V(k) # Type(l) /\ V(k) # Exp(l) /\ V(k) # LMeta(l)
      /\ Type(k) # Exp(l) /\ Type(k) # LMeta(l) /\ Exp(k) # LMeta(l)
      /\ \A i \in Int : /\ Elem(k, i) # V(l) /\ Elem(k, i) # Type(l)
                        /\ Elem(k, i) # Exp(l) /\ Elem(k, i) # LMeta(l)
      /\ \A t \in Scanned, m \in Members :
           /\ Item(t, k, m) # V(l) /\ Item(t, k, m) # Type(l)
           /\ Item(t, k, m) # Exp(l) /\ Item(t, k, m) # LMeta(l)
           /\ \A i \in Int : Item(t, k, m) # Elem(l, i)
<1>1. \A t \in Scanned, k \in Keys, m \in Members : Item(t, k, m)[1] \in {"H", "S", "Z"}
  BY ItemNames, InAlphabet
<1> QED  BY <1>1, Names, SMTT(60)

\* What the scan of a structure meets has the tag of the structure.
LEMMA BelowNames ==
    ASSUME NEW t \in Scanned, NEW k \in Keys
    PROVE  /\ \A x \in Below[Prefix(t, k)] : x \in Cells /\ x[1] = Tag(t)
           /\ \A m \in Members : Item(t, k, m) \in Below[Prefix(t, k)]
<1> DEFINE p == Prefix(t, k)
<1>1. p \in {Prefix(u, j) : u \in Scanned, j \in Keys}
  OBVIOUS
<1>2. Below[p] = {x \in Cells : Len(x) > Len(p) /\ SubSeq(x, 1, Len(p)) = p}
  BY <1>1 DEF Below
<1>3. p[1] = Tag(t) /\ Len(p) \in Nat /\ Len(p) >= 1
  <2>1. k \in Seq(Alphabet) /\ Tag(t) \in Alphabet /\ p = <<Tag(t)>> \o k
    BY InAlphabet DEF Tag, Prefix
  <2>2. p[1] = Tag(t)
    BY <2>1, Tagging
  <2>3. <<Tag(t)>> \in Seq(Alphabet) /\ Len(<<Tag(t)>>) = 1
    BY <2>1
  <2>4. Len(p) = 1 + Len(k) /\ Len(k) \in Nat
    BY <2>1, <2>3, ConcatProperties, LenProperties
  <2> QED  BY <2>2, <2>4
<1>4. ASSUME NEW x \in Below[p] PROVE x \in Cells /\ x[1] = Tag(t)
  <2>1. SubSeq(x, 1, Len(p)) = p
    BY <1>2
  <2>2. SubSeq(x, 1, Len(p))[1] = x[1]
    <3> HIDE DEF p
    <3> QED  BY <1>3
  <2> QED  BY <2>1, <2>2, <1>2, <1>3
<1>5. ASSUME NEW m \in Members PROVE Item(t, k, m) \in Below[p]
  BY <1>2, ItemNames, CellsOf
<1> QED  BY <1>4, <1>5

\* An element that is a cell is within the indexes.
LEMMA CellElems ==
    ASSUME NEW k \in Keys, NEW i \in Int, Elem(k, i) \in Cells
    PROVE  i \in Indexes
<1>1. PICK l \in Keys : Elem(k, i) \in {V(l), Type(l), Exp(l), LMeta(l)} \cup {Elem(l, j) : j \in Indexes}
                                        \cup {Item(t, l, m) : t \in Scanned, m \in Members}
  BY DEF Cells
<1>2. PICK j \in Indexes : Elem(k, i) = Elem(l, j)
  BY <1>1, Distinct
<1>3. j \in Int
  BY KVAssumption DEF Indexes
<1> QED  BY <1>2, <1>3, Names

-----------------------------------------------------------------------------
(* The inductive invariant *)

\* What is kept under the members of a hash, a set and a sorted set.
Contents(t) == CASE t = "hash" -> Vals [] t = "set" -> {Present} [] t = "zset" -> Vals \cap Int

\* The cells of key k are of their types and belong to the type of k.
Tidy(c, k) ==
    /\ c[V(k)] \in Vals \cup {Absent}
    /\ c[Type(k)] \in Scanned \cup {"string", "list", Absent}
    /\ c[Exp(k)] \in 0 .. MaxNow + 1 \cup {Absent}
    /\ c[V(k)] # Absent => c[Type(k)] = "string"
    /\ c[LMeta(k)] # Absent => c[Type(k)] = "list"
    /\ Meta(c, k) \in Int \X Int
    /\ Meta(c, k)[1] <= Meta(c, k)[2]
    /\ (0 - MaxIndex) <= Meta(c, k)[1] /\ Meta(c, k)[2] <= MaxIndex + 1
    /\ \A i \in Indexes : /\ c[Elem(k, i)] \in Vals \cup {Absent}
                          /\ c[Elem(k, i)] # Absent <=> i \in Meta(c, k)[1] .. Meta(c, k)[2] - 1
    /\ \A t \in Scanned, m \in Members :
         /\ c[Item(t, k, m)] \in Contents(t) \cup {Absent}
         /\ c[Item(t, k, m)] # Absent => c[Type(k)] = t

Good(c) == DOMAIN c = Cells /\ \A k \in Keys : Tidy(c, k)

\* Key k has in d what it has in c, but for its deadline and perhaps fewer members.
Kept(c, d, k) ==
    /\ d[V(k)] = c[V(k)] /\ d[Type(k)] = c[Type(k)] /\ d[LMeta(k)] = c[LMeta(k)]
    /\ d[Exp(k)] \in 0 .. MaxNow + 1 \cup {Absent}
    /\ \A i \in Indexes : d[Elem(k, i)] = c[Elem(k, i)]
    /\ \A t \in Scanned, m \in Members : d[Item(t, k, m)] \in {c[Item(t, k, m)], Absent}

Spared(c, d, k) == Kept(c, d, k) /\ d[Exp(k)] = c[Exp(k)]

LEMMA KeptTidy ==
    ASSUME NEW c, NEW d, NEW k \in Keys, Tidy(c, k), Kept(c, d, k)
    PROVE  Tidy(d, k)
<1>1. Meta(d, k) = Meta(c, k)
  BY DEF Kept, Meta
<1> QED  BY <1>1 DEF Kept, Tidy

\* Nothing is left of key k.
Gone(d, k) ==
    /\ d[V(k)] = Absent /\ d[Type(k)] = Absent /\ d[LMeta(k)] = Absent /\ d[Exp(k)] = Absent
    /\ \A i \in Indexes : d[Elem(k, i)] = Absent
    /\ \A t \in Scanned, m \in Members : d[Item(t, k, m)] = Absent

LEMMA GoneTidy ==
    ASSUME NEW d, NEW k \in Keys, Gone(d, k)
    PROVE  Tidy(d, k)
<1>1. Meta(d, k) = <<0, 0>>
  BY DEF Gone, Meta
<1>2. <<0, 0>> \in Int \X Int /\ <<0, 0>>[1] = 0 /\ <<0, 0>>[2] = 0
  OBVIOUS
<1> QED  BY <1>1, <1>2, KVAssumption DEF Gone, Tidy, Indexes

-----------------------------------------------------------------------------
(* Purging *)

\* A purge takes the tag, the deadline and every cell that has contents; what
\* it takes besides are members.
LEMMA WholeOf ==
    ASSUME NEW c, Good(c), NEW k \in Keys
    PROVE  /\ Type(k) \in Whole(c, k) /\ Exp(k) \in Whole(c, k)
           /\ c[V(k)] # Absent => V(k) \in Whole(c, k)
           /\ c[LMeta(k)] # Absent => LMeta(k) \in Whole(c, k)
           /\ \A i \in Indexes : c[Elem(k, i)] # Absent => Elem(k, i) \in Whole(c, k)
           /\ \A t \in Scanned, m \in Members :
                c[Item(t, k, m)] # Absent => Item(t, k, m) \in Whole(c, k)
           /\ \A x \in Whole(c, k) :
                \/ x \in {V(k), Type(k), Exp(k), LMeta(k)}
                \/ \E i \in Int : x = Elem(k, i)
                \/ x[1] \in {"H", "S", "Z"}
<1> DEFINE t0 == c[Type(k)]
<1>1. Tidy(c, k)
  BY DEF Good
<1>2. Whole(c, k) = {Type(k), Exp(k)} \cup Structure(c, k)
  BY DEF Whole
<1>3. CASE t0 = Absent
  <2>1. Structure(c, k) = {}
    BY <1>3, KVAssumption DEF Structure
  <2>2. Meta(c, k) = <<0, 0>>
    BY <1>1, <1>3, KVAssumption DEF Tidy, Meta
  <2>3. \A i \in Indexes : c[Elem(k, i)] = Absent
    BY <1>1, <2>2 DEF Tidy, Indexes
  <2> QED  BY <1>1, <1>2, <1>3, <2>1, <2>3, KVAssumption DEF Tidy
<1>4. CASE t0 = "string"
  <2>1. Structure(c, k) = {V(k)}
    BY <1>4, KVAssumption DEF Structure
  <2>2. Meta(c, k) = <<0, 0>>
    BY <1>1, <1>4, KVAssumption DEF Tidy, Meta
  <2>3. \A i \in Indexes : c[Elem(k, i)] = Absent
    BY <1>1, <2>2 DEF Tidy, Indexes
  <2>4. \A t \in Scanned : t # "string"
    BY DEF Scanned
  <2> QED  BY <1>1, <1>2, <1>4, <2>1, <2>3, <2>4 DEF Tidy
<1>5. CASE t0 = "list"
  <2>1. Structure(c, k) = {LMeta(k)} \cup {Elem(k, i) : i \in Meta(c, k)[1] .. Meta(c, k)[2] - 1}
    BY <1>5, KVAssumption DEF Structure
  <2>2. \A i \in Meta(c, k)[1] .. Meta(c, k)[2] - 1 : i \in Int
    BY <1>1 DEF Tidy
  <2>3. \A t \in Scanned : t # "list"
    BY DEF Scanned
  <2> QED  BY <1>1, <1>2, <1>5, <2>1, <2>2, <2>3 DEF Tidy
<1>6. CASE t0 \in Scanned
  <2>1. t0 # Absent /\ t0 # "string" /\ t0 # "list"
    BY <1>6, KVAssumption DEF Scanned
  <2>2. Structure(c, k) = {x \in Below[Prefix(t0, k)] : c[x] # Absent}
    BY <2>1 DEF Structure, Under
  <2>3. /\ \A x \in Below[Prefix(t0, k)] : x[1] = Tag(t0)
        /\ \A m \in Members : Item(t0, k, m) \in Below[Prefix(t0, k)]
    BY <1>6, BelowNames
  <2>4. Tag(t0) \in {"H", "S", "Z"}
    BY <1>6, InAlphabet
  <2>5. Meta(c, k) = <<0, 0>>
    BY <1>1, <2>1 DEF Tidy, Meta
  <2>6. \A i \in Indexes : c[Elem(k, i)] = Absent
    BY <1>1, <2>5 DEF Tidy, Indexes
  <2> HIDE DEF t0
  <2>7. \A t \in Scanned, m \in Members : c[Item(t, k, m)] # Absent => t = t0
    BY <1>1 DEF Tidy, t0
  <2>8. c[V(k)] = Absent /\ c[LMeta(k)] = Absent
    BY <1>1, <2>1 DEF Tidy, t0
  <2> QED  BY <1>2, <2>2, <2>3, <2>4, <2>6, <2>7, <2>8
<1> QED  BY <1>1, <1>3, <1>4, <1>5, <1>6 DEF Tidy

\* Purging some keys leaves nothing of them and all of the others, but for
\* members that a scan takes for theirs.
LEMMA Purges ==
    ASSUME NEW c, Good(c), NEW K \in SUBSET Keys,
           NEW d, d = Without(c, UNION {Whole(c, k) : k \in K})
    PROVE  /\ Good(d)
           /\ \A k \in K : Gone(d, k)
           /\ \A k \in Keys \ K : Spared(c, d, k)
<1> DEFINE X == UNION {Whole(c, k) : k \in K}
<1>1. DOMAIN d = Cells /\ \A x \in Cells : d[x] = IF x \in X THEN Absent ELSE c[x]
  BY DEF Without
<1>2. ASSUME NEW k \in K PROVE Gone(d, k)
  <2>1. Whole(c, k) \subseteq X
    OBVIOUS
  <2> HIDE DEF X
  <2> QED  BY <1>1, <2>1, WholeOf, CellsOf DEF Gone
<1>3. ASSUME NEW k \in Keys \ K PROVE Spared(c, d, k)
  <2>1. ASSUME NEW x \in X
        PROVE  /\ x # V(k) /\ x # Type(k) /\ x # Exp(k) /\ x # LMeta(k)
               /\ \A i \in Indexes : x # Elem(k, i)
    <3>1. PICK j \in K : x \in Whole(c, j)
      OBVIOUS
    <3>2. j \in Keys /\ j # k
      OBVIOUS
    <3>3. \/ x \in {V(j), Type(j), Exp(j), LMeta(j)}
          \/ \E i \in Int : x = Elem(j, i)
          \/ x[1] \in {"H", "S", "Z"}
      BY <3>1, <3>2, WholeOf
    <3>4. Indexes \subseteq Int
      BY KVAssumption DEF Indexes
    <3>5. CASE x[1] \in {"H", "S", "Z"}
      <4>1. /\ V(k)[1] = "V" /\ Type(k)[1] = "TYPE" /\ Exp(k)[1] = "EXP" /\ LMeta(k)[1] = "LMETA"
            /\ \A i \in Indexes : Elem(k, i)[1] = "L"
        BY <3>4, Names
      <4> QED  BY <3>5, <4>1
    <3>6. CASE x \in {V(j), Type(j), Exp(j), LMeta(j)}
      <4>1. k \in Keys /\ \A i \in Indexes : i \in Int
        BY <3>4
      <4>2. CASE x = V(j)
        BY <3>2, <4>1, <4>2, Names, Distinct
      <4>3. CASE x = Type(j)
        BY <3>2, <4>1, <4>3, Names, Distinct
      <4>4. CASE x = Exp(j)
        BY <3>2, <4>1, <4>4, Names, Distinct
      <4>5. CASE x = LMeta(j)
        BY <3>2, <4>1, <4>5, Names, Distinct
      <4> QED  BY <3>6, <4>2, <4>3, <4>4, <4>5
    <3>7. CASE \E i \in Int : x = Elem(j, i)
      BY <3>2, <3>4, <3>7, Names, Distinct
    <3> QED  BY <3>3, <3>5, <3>6, <3>7
  <2>2. Tidy(c, k)
    BY DEF Good
  <2> HIDE DEF X
  <2> QED  BY <1>1, <2>1, <2>2, CellsOf DEF Spared, Kept, Tidy
<1>4. Good(d)
  BY <1>1, <1>2, <1>3, GoneTidy, KeptTidy DEF Good, Spared
<1> QED  BY <1>2, <1>3, <1>4

\* Reaping leaves the cells good, and a key its type or none.
LEMMA Reaps ==
    ASSUME NEW c, Good(c), NEW k \in Keys
    PROVE  Good(Reaped(c, k)) /\ Reaped(c, k)[Type(k)] \in {c[Type(k)], Absent}
<1>1. CASE Expired(c, k)
  <2>1. Whole(c, k) = UNION {Whole(c, j) : j \in {k}}
    OBVIOUS
  <2>2. Reaped(c, k) = Without(c, UNION {Whole(c, j) : j \in {k}})
    BY <1>1, <2>1 DEF Reaped
  <2>3. Good(Reaped(c, k)) /\ Gone(Reaped(c, k), k)
    BY <2>2, Purges, ZenonT(90)
  <2> QED  BY <2>3 DEF Gone
<1>2. CASE ~ Expired(c, k)
  BY <1>2 DEF Reaped
<1> QED  BY <1>1, <1>2

LEMMA ReapsAll ==
    ASSUME NEW c, Good(c), NEW K \in SUBSET Keys
    PROVE  /\ Good(ReapedAll(c, K))
           /\ \A k \in K : ReapedAll(c, K)[Type(k)] \in {Reaped(c, k)[Type(k)], Absent}
<1> DEFINE D == {k \in K : Expired(c, k)}
<1>1. ReapedAll(c, K) = Without(c, UNION {Whole(c, k) : k \in D})
  BY DEF ReapedAll
<1>2. /\ Good(ReapedAll(c, K))
      /\ \A k \in D : Gone(ReapedAll(c, K), k)
      /\ \A k \in Keys \ D : Spared(c, ReapedAll(c, K), k)
  <2>1. D \in SUBSET Keys
    OBVIOUS
  <2> HIDE DEF D
  <2> QED  BY <1>1, <2>1, Purges
<1>3. \A k \in K \ D : Reaped(c, k) = c
  BY DEF Reaped
<1> QED  BY <1>2, <1>3 DEF Gone, Kept, Spared

-----------------------------------------------------------------------------
(* Keys that begin others *)

\* No name that begins with a key is a member of another key.
Flat == \A k, l \in Keys, m \in Members, s \in Seq(Parts) : k \o s = l \o m => k = l

LEMMA Cancels ==
    ASSUME NEW S, NEW k \in Seq(S), NEW m \in Seq(S), NEW n \in Seq(S), k \o m = k \o n
    PROVE  m = n
<1>1. Len(k) \in Nat /\ Len(m) \in Nat /\ Len(n) \in Nat
  BY LenProperties
<1>2. Len(k \o m) = Len(k) + Len(m) /\ Len(k \o n) = Len(k) + Len(n)
  BY ConcatProperties
<1>3. Len(m) = Len(n)
  BY <1>1, <1>2
<1>4. ASSUME NEW i \in 1 .. Len(m) PROVE m[i] = n[i]
  <2>1. /\ (k \o m)[i + Len(k)] = IF i + Len(k) <= Len(k) THEN k[i + Len(k)] ELSE m[(i + Len(k)) - Len(k)]
        /\ (k \o n)[i + Len(k)] = IF i + Len(k) <= Len(k) THEN k[i + Len(k)] ELSE n[(i + Len(k)) - Len(k)]
    <3>1. i + Len(k) \in 1 .. Len(k) + Len(m) /\ i + Len(k) \in 1 .. Len(k) + Len(n)
      BY <1>1, <1>3
    <3> QED  BY <3>1, ConcatProperties
  <2>2. ~ (i + Len(k) <= Len(k)) /\ (i + Len(k)) - Len(k) = i
    BY <1>1
  <2> QED  BY <2>1, <2>2
<1> QED  BY <1>3, <1>4, SeqEqual

LEMMA FlatApart == Flat => Apart
<1> SUFFICES ASSUME Flat, NEW k \in Keys, NEW l \in Keys, NEW m \in Members, NEW n \in Members, k \o m = l \o n
             PROVE  k = l /\ m = n
  BY DEF Apart
<1>1. k \in Seq(Parts) /\ l \in Seq(Parts) /\ m \in Seq(Parts) /\ n \in Seq(Parts)
  BY KVAssumption
<1>2. k = l
  BY <1>1 DEF Flat
<1> QED  BY <1>1, <1>2, Cancels

\* What a sequence begins with, and the rest.
LEMMA Beginning ==
    ASSUME NEW a \in Seq(Parts), NEW p \in Seq(Parts), Len(a) >= Len(p), SubSeq(a, 1, Len(p)) = p
    PROVE  \E s \in Seq(Parts) : a = p \o s
<1> DEFINE s == SubSeq(a, Len(p) + 1, Len(a))
<1>1. Len(a) \in Nat /\ Len(p) \in Nat
  BY LenProperties
<1>2. \A i \in 1 .. Len(a) : a[i] \in Parts
  BY ElementOfSeq
<1>3. /\ s \in Seq(Parts)
      /\ Len(s) = IF Len(p) + 1 <= Len(a) THEN Len(a) - (Len(p) + 1) + 1 ELSE 0
      /\ \A i \in 1 .. Len(a) - (Len(p) + 1) + 1 : s[i] = a[(Len(p) + 1) + i - 1]
  <2>1. \A i \in Len(p) + 1 .. Len(a) : a[i] \in Parts
    <3>1. \A i \in Len(p) + 1 .. Len(a) : i \in 1 .. Len(a)
      BY <1>1
    <3> QED  BY <1>2, <3>1
  <2>2. Len(p) + 1 \in Int /\ Len(a) \in Int
    BY <1>1
  <2> QED  BY <2>1, <2>2, SubSeqProperties
<1> HIDE DEF s
<1>4. Len(s) = Len(a) - Len(p)
  BY <1>1, <1>3
<1>5. /\ p \o s \in Seq(Parts) /\ Len(p \o s) = Len(a)
      /\ \A i \in 1 .. Len(a) : (p \o s)[i] = IF i <= Len(p) THEN p[i] ELSE s[i - Len(p)]
  <2>1. /\ p \o s \in Seq(Parts) /\ Len(p \o s) = Len(p) + Len(s)
        /\ \A i \in 1 .. Len(p) + Len(s) : (p \o s)[i] = IF i <= Len(p) THEN p[i] ELSE s[i - Len(p)]
    BY <1>3, ConcatProperties
  <2>2. Len(p) + Len(s) = Len(a)
    BY <1>1, <1>4
  <2> QED  BY <2>1, <2>2
<1>6. \A i \in 1 .. Len(p) : SubSeq(a, 1, Len(p))[i] = a[i]
  <2>1. \A i \in 1 .. Len(p) : a[i] \in Parts
    BY <1>1, <1>2
  <2> QED  BY <1>1, <2>1, SubSeqProperties
<1>7. ASSUME NEW i \in 1 .. Len(a) PROVE a[i] = (p \o s)[i]
  <2>1. CASE i <= Len(p)
    BY <1>1, <1>5, <1>6, <2>1
  <2>2. CASE ~ (i <= Len(p))
    <3>1. i - Len(p) \in 1 .. Len(a) - (Len(p) + 1) + 1 /\ (Len(p) + 1) + (i - Len(p)) - 1 = i
      BY <1>1, <2>2
    <3> QED  BY <1>3, <1>5, <2>2, <3>1
  <2> QED  BY <2>1, <2>2
<1>8. a = p \o s
  BY <1>5, <1>7, SeqEqual
<1> QED  BY <1>3, <1>8

\* A scan for the members of a key finds these and no others.
LEMMA Scan ==
    ASSUME Flat, NEW t \in Scanned, NEW k \in Keys
    PROVE  Below[Prefix(t, k)] = {Item(t, k, m) : m \in Members}
<1> DEFINE p == Prefix(t, k)
<1>1. \A m \in Members : Item(t, k, m) \in Below[p]
  BY BelowNames
<1>2. ASSUME NEW x \in Below[p] PROVE x \in {Item(t, k, m) : m \in Members}
  <2>1. x \in Cells /\ x[1] = Tag(t)
    BY BelowNames
  <2>2. Tag(t) \in {"H", "S", "Z"}
    BY InAlphabet
  <2>3. PICK l \in Keys : x \in {V(l), Type(l), Exp(l), LMeta(l)} \cup {Elem(l, i) : i \in Indexes}
                                  \cup {Item(u, l, m) : u \in Scanned, m \in Members}
    BY <2>1 DEF Cells
  <2>4. \A i \in Indexes : i \in Int
    BY KVAssumption DEF Indexes
  <2>5. PICK u \in Scanned, m \in Members : x = Item(u, l, m)
    BY <2>1, <2>2, <2>3, <2>4, Names
  <2>6. u = t
    <3>1. Tag(u) = Tag(t)
      BY <2>1, <2>5, ItemNames
    <3> QED  BY <3>1 DEF Tag, Scanned
  <2>7. Len(x) > Len(p) /\ SubSeq(x, 1, Len(p)) = p
    <3>1. p \in {Prefix(v, j) : v \in Scanned, j \in Keys}
      OBVIOUS
    <3> QED  BY <3>1 DEF Below
  <2>8. /\ x = <<Tag(t)>> \o (l \o m) /\ p = <<Tag(t)>> \o k
        /\ Tag(t) \in Alphabet /\ l \o m \in Seq(Parts) /\ l \in Seq(Parts) /\ k \in Seq(Parts) /\ m \in Seq(Parts)
    <3>1. l \in Seq(Parts) /\ k \in Seq(Parts) /\ m \in Seq(Parts)
      BY KVAssumption
    <3>2. l \o m \in Seq(Parts)
      BY <3>1, ConcatProperties
    <3>3. p = <<Tag(t)>> \o k
      BY DEF Prefix, Tag
    <3>4. x = <<Tag(t)>> \o (l \o m)
      BY <2>5, <2>6, ItemNames
    <3>5. Tag(t) \in Alphabet
      BY InAlphabet
    <3> QED  BY <3>1, <3>2, <3>3, <3>4, <3>5
  <2>9. PICK s \in Seq(Parts) : l \o m = k \o s
    <3> DEFINE a == l \o m
               b == Tag(t)
    <3>1. a \in Seq(Parts) /\ x = <<b>> \o a /\ p = <<b>> \o k
      BY <2>8
    <3>2. Seq(Parts) \subseteq Seq(Alphabet) /\ b \in Alphabet
      BY <2>8, SeqMonotonic DEF Alphabet
    <3> HIDE DEF a, b, p
    <3>3. /\ Len(x) = 1 + Len(a) /\ Len(p) = 1 + Len(k) /\ Len(a) \in Nat /\ Len(k) \in Nat
          /\ \A i \in 1 .. Len(a) : x[i + 1] = a[i]
          /\ \A i \in 1 .. Len(k) : p[i + 1] = k[i]
      <4>1. a \in Seq(Alphabet) /\ k \in Seq(Alphabet) /\ b \in Alphabet
        BY <2>8, <3>1, <3>2
      <4> QED  BY <3>1, <4>1
    <3>4. Len(a) >= Len(k)
      BY <2>7, <3>3 DEF p
    <3>5. \A i \in 1 .. Len(k) : a[i] = k[i]
      <4> SUFFICES ASSUME NEW i \in 1 .. Len(k) PROVE a[i] = k[i]
        OBVIOUS
      <4>1. a[i] = x[i + 1] /\ k[i] = p[i + 1]
        BY <3>3, <3>4
      <4>2. i + 1 \in 1 .. Len(p)
        BY <3>3
      <4>3. SubSeq(x, 1, Len(p))[i + 1] = x[i + 1]
        BY <3>3, <4>2
      <4> QED  BY <2>7, <4>1, <4>3 DEF p
    <3>6. SubSeq(a, 1, Len(k)) = k
      <4>1. \A i \in 1 .. Len(k) : a[i] \in Parts
        <5>1. \A i \in 1 .. Len(k) : i \in 1 .. Len(a)
          BY <3>3, <3>4
        <5> QED  BY <3>1, <5>1, ElementOfSeq
      <4>2. /\ SubSeq(a, 1, Len(k)) \in Seq(Parts)
            /\ Len(SubSeq(a, 1, Len(k))) = IF 1 <= Len(k) THEN Len(k) - 1 + 1 ELSE 0
            /\ \A i \in 1 .. Len(k) - 1 + 1 : SubSeq(a, 1, Len(k))[i] = a[1 + i - 1]
        BY <3>3, <4>1, SubSeqProperties
      <4>3. \A i \in 1 .. Len(k) : SubSeq(a, 1, Len(k))[i] = a[i]
        BY <3>3, <4>2
      <4>4. Len(SubSeq(a, 1, Len(k))) = Len(k)
        BY <3>3, <4>2
      <4> QED  BY <2>8, <3>5, <4>2, <4>3, <4>4, SeqEqual
    <3>7. \E s \in Seq(Parts) : a = k \o s
      <4>1. k \in Seq(Parts)
        BY <2>8
      <4>2. a \in Seq(Parts)
        BY <3>1
      <4> QED  BY <4>1, <4>2, <3>4, <3>6, Beginning
    <3> QED  BY <3>7 DEF a
  <2>10. k = l
    BY <2>9 DEF Flat
  <2> QED  BY <2>5, <2>6, <2>10
<1> QED  BY <1>1, <1>2

\* What is gathered are the members that have contents.
LEMMA CollectedIs ==
    ASSUME Flat, NEW c, NEW t \in Scanned, NEW k \in Keys
    PROVE  Collected(c, k, t) =
             [m \in {m \in Members : c[Item(t, k, m)] # Absent} |-> c[Item(t, k, m)]]
<1> DEFINE p == Prefix(t, k)
           M == {m \in Members : c[Item(t, k, m)] # Absent}
<1>1. Under(c, p) = {Item(t, k, m) : m \in M}
  BY Scan DEF Under
<1>2. \A m \in Members : SubSeq(Item(t, k, m), Len(p) + 1, Len(Item(t, k, m))) = m
  <2>1. Len(p) + 1 = Len(k) + 2
    <3>1. k \in Seq(Alphabet) /\ Tag(t) \in Alphabet /\ p = <<Tag(t)>> \o k
      BY InAlphabet DEF Tag, Prefix
    <3>2. <<Tag(t)>> \in Seq(Alphabet) /\ Len(<<Tag(t)>>) = 1
      BY <3>1
    <3>3. Len(p) = 1 + Len(k) /\ Len(k) \in Nat
      BY <3>1, <3>2, ConcatProperties, LenProperties
    <3> HIDE DEF p
    <3> QED  BY <3>3
  <2> QED  BY <2>1, MemberOf
<1>3. {SubSeq(x, Len(p) + 1, Len(x)) : x \in Under(c, p)} = M
  <2> DEFINE F(x) == SubSeq(x, Len(p) + 1, Len(x))
             I(m) == Item(t, k, m)
  <2>1. \A m \in Members : F(I(m)) = m
    BY <1>2
  <2>2. Under(c, p) = {I(m) : m \in M}
    BY <1>1
  <2>3. M \subseteq Members
    OBVIOUS
  <2> HIDE DEF F, I, M, p
  <2>4. {F(x) : x \in Under(c, p)} = M
    BY <2>1, <2>2, <2>3
  <2> QED  BY <2>4 DEF F
<1>4. \A m \in M : c[p \o m] = c[Item(t, k, m)]
  BY DEF Item
<1>5. Collected(c, k, t) = [m \in {SubSeq(x, Len(p) + 1, Len(x)) : x \in Under(c, p)} |-> c[p \o m]]
  BY DEF Collected
<1> QED  BY <1>3, <1>4, <1>5

-----------------------------------------------------------------------------
(* What clients see *)

\* Key k has in d what it has in c.
Same(c, d, k) ==
    /\ d[V(k)] = c[V(k)] /\ d[Type(k)] = c[Type(k)] /\ d[LMeta(k)] = c[LMeta(k)] /\ d[Exp(k)] = c[Exp(k)]
    /\ \A i \in Indexes : d[Elem(k, i)] = c[Elem(k, i)]
    /\ \A t \in Scanned, m \in Members : d[Item(t, k, m)] = c[Item(t, k, m)]

\* Clients see no difference between c and d in key k.
Seen(c, d, k) == Value(d, k) = Value(c, k) /\ Deadline(d, k) = Deadline(c, k)

\* The data of a key of type t.
DataOf(c, k, t) ==
    CASE t = "string" -> c[V(k)]
      [] t = "list" -> [i \in 1 .. Meta(c, k)[2] - Meta(c, k)[1] |-> c[Elem(k, Meta(c, k)[1] + i - 1)]]
      [] OTHER -> [m \in {m \in Members : c[Item(t, k, m)] # Absent} |-> c[Item(t, k, m)]]

LEMMA ValueIs ==
    ASSUME Flat, NEW c, NEW k \in Keys, c[Type(k)] \in Scanned \cup {"string", "list", Absent}
    PROVE  Value(c, k) = IF c[Type(k)] = Absent \/ Expired(c, k) THEN Absent
                         ELSE [type |-> c[Type(k)], data |-> DataOf(c, k, c[Type(k)])]
<1>0. PICK t : t = c[Type(k)]
  OBVIOUS
<1>1. CASE t = Absent \/ Expired(c, k)
  BY <1>0, <1>1 DEF Value
<1>2. CASE ~ (t = Absent \/ Expired(c, k))
  <2> DEFINE D == CASE t = "string" -> c[V(k)]
                    [] t = "list" -> [i \in 1 .. Meta(c, k)[2] - Meta(c, k)[1] |-> c[Elem(k, Meta(c, k)[1] + i - 1)]]
                    [] OTHER -> Collected(c, k, t)
  <2>1. Value(c, k) = [type |-> t, data |-> D]
    BY <1>0, <1>2 DEF Value
  <2>2. D = DataOf(c, k, t)
    <3>1. CASE t = "string"
      BY <3>1 DEF DataOf
    <3>2. CASE t = "list"
      BY <3>2 DEF DataOf
    <3>3. CASE t \in Scanned
      <4>1. t # "string" /\ t # "list"
        BY <3>3 DEF Scanned
      <4>2. D = Collected(c, k, t)
        BY <4>1
      <4>3. DataOf(c, k, t) = [m \in {m \in Members : c[Item(t, k, m)] # Absent} |-> c[Item(t, k, m)]]
        BY <4>1 DEF DataOf
      <4>4. Collected(c, k, t) = [m \in {m \in Members : c[Item(t, k, m)] # Absent} |-> c[Item(t, k, m)]]
        BY <3>3, CollectedIs
      <4> HIDE DEF D
      <4> QED  BY <4>2, <4>3, <4>4
    <3> QED  BY <1>0, <1>2, <3>1, <3>2, <3>3
  <2> HIDE DEF D
  <2> QED  BY <1>0, <1>2, <2>1, <2>2
<1> QED  BY <1>1, <1>2

\* Key k has in d what it has in c but perhaps for its deadline.
Alike(c, d, k) ==
    /\ d[V(k)] = c[V(k)] /\ d[Type(k)] = c[Type(k)] /\ d[LMeta(k)] = c[LMeta(k)]
    /\ \A i \in Indexes : d[Elem(k, i)] = c[Elem(k, i)]
    /\ \A t \in Scanned, m \in Members : d[Item(t, k, m)] = c[Item(t, k, m)]

LEMMA AlikeData ==
    ASSUME NEW c, NEW d, NEW k \in Keys, Tidy(c, k), Alike(c, d, k),
           NEW t, t \in Scanned \cup {"string", "list"}
    PROVE  DataOf(d, k, t) = DataOf(c, k, t)
<1>0. Meta(d, k) = Meta(c, k)
  BY DEF Alike, Meta
<1>1. CASE t = "string"
  BY <1>1 DEF DataOf, Alike
<1>2. CASE t = "list"
  <2> DEFINE h == Meta(c, k)[1]
             g == Meta(c, k)[2]
             n == g - h
  <2>1. \A i \in 1 .. n : h + i - 1 \in Indexes
    <3>1. h \in Int /\ g \in Int /\ (0 - MaxIndex) <= h /\ g <= MaxIndex + 1
      BY DEF Tidy
    <3> HIDE DEF h, g
    <3> QED  BY <3>1, KVAssumption DEF Indexes
  <2>2. \A i \in 1 .. n : d[Elem(k, h + i - 1)] = c[Elem(k, h + i - 1)]
    BY <2>1 DEF Alike
  <2>3. DataOf(c, k, t) = [i \in 1 .. n |-> c[Elem(k, h + i - 1)]]
    BY <1>2 DEF DataOf
  <2>4. DataOf(d, k, t) = [i \in 1 .. n |-> d[Elem(k, h + i - 1)]]
    BY <1>0, <1>2 DEF DataOf
  <2> HIDE DEF h, g, n
  <2> QED  BY <2>2, <2>3, <2>4
<1>3. CASE t \in Scanned
  <2>1. t # "string" /\ t # "list"
    BY <1>3 DEF Scanned
  <2>2. \A m \in Members : d[Item(t, k, m)] = c[Item(t, k, m)]
    BY <1>3 DEF Alike
  <2>3. DataOf(c, k, t) = [m \in {m \in Members : c[Item(t, k, m)] # Absent} |-> c[Item(t, k, m)]]
    BY <2>1 DEF DataOf
  <2>4. DataOf(d, k, t) = [m \in {m \in Members : d[Item(t, k, m)] # Absent} |-> d[Item(t, k, m)]]
    BY <2>1 DEF DataOf
  <2>5. {m \in Members : d[Item(t, k, m)] # Absent} = {m \in Members : c[Item(t, k, m)] # Absent}
    BY <2>2
  <2> QED  BY <2>2, <2>3, <2>4, <2>5
<1> QED  BY <1>1, <1>2, <1>3

LEMMA AlikeSeen ==
    ASSUME Flat, NEW c, NEW d, NEW k \in Keys, Tidy(c, k), Alike(c, d, k), Expired(d, k) = Expired(c, k)
    PROVE  Value(d, k) = Value(c, k)
<1>1. c[Type(k)] \in Scanned \cup {"string", "list", Absent} /\ d[Type(k)] = c[Type(k)]
  BY DEF Tidy, Alike
<1>2. \A t : t \in Scanned \cup {"string", "list"} => DataOf(d, k, t) = DataOf(c, k, t)
  BY AlikeData
<1> QED  BY <1>1, <1>2, ValueIs

LEMMA SameSeen ==
    ASSUME Flat, NEW c, NEW d, NEW k \in Keys, Tidy(c, k), Same(c, d, k)
    PROVE  Seen(c, d, k)
<1>1. Alike(c, d, k) /\ Expired(d, k) = Expired(c, k)
  BY DEF Same, Alike, Expired
<1>2. Deadline(d, k) = Deadline(c, k)
  BY <1>1 DEF Same, Deadline
<1> QED  BY <1>1, <1>2, AlikeSeen DEF Seen

LEMMA GoneSeen ==
    ASSUME NEW d, NEW k \in Keys, Gone(d, k)
    PROVE  Value(d, k) = Absent /\ Deadline(d, k) = Absent
BY DEF Gone, Value, Deadline, Expired

\* A purge takes from no other key.
LEMMA PurgesApart ==
    ASSUME Flat, NEW c, Good(c), NEW K \in SUBSET Keys,
           NEW d, d = Without(c, UNION {Whole(c, k) : k \in K})
    PROVE  \A k \in Keys \ K : Same(c, d, k)
<1>3. \A k \in Keys \ K : Kept(c, d, k) /\ d[Exp(k)] = c[Exp(k)]
  <2>1. \A k \in Keys \ K : Spared(c, d, k)
    BY Purges
  <2> QED  BY <2>1 DEF Spared
<1> DEFINE X == UNION {Whole(c, k) : k \in K}
<1>1. DOMAIN d = Cells /\ \A x \in Cells : d[x] = IF x \in X THEN Absent ELSE c[x]
  BY DEF Without
<1>2. ASSUME NEW k \in Keys \ K, NEW t \in Scanned, NEW m \in Members PROVE Item(t, k, m) \notin X
  <2> SUFFICES ASSUME NEW j \in K, Item(t, k, m) \in Whole(c, j) PROVE FALSE
    OBVIOUS
  <2> DEFINE x == Item(t, k, m)
             u == c[Type(j)]
  <2>1. j \in Keys /\ j # k /\ Tidy(c, j)
    BY DEF Good
  <2>2. \A l \in Keys : /\ x # V(l) /\ x # Type(l) /\ x # Exp(l) /\ x # LMeta(l)
                        /\ \A i \in Int : x # Elem(l, i)
    BY Distinct
  <2>3. x \in Structure(c, j)
    BY <2>1, <2>2 DEF Whole
  <2>4. u \in Scanned \cup {"string", "list", Absent}
    BY <2>1 DEF Tidy
  <2>5. CASE u \in {"string", "list", Absent}
    <3>1. Absent # "string" /\ Absent # "list" /\ "list" # "string"
      BY KVAssumption
    <3>2. CASE u = Absent
      BY <2>3, <3>1, <3>2 DEF Structure
    <3>3. CASE u = "string"
      BY <2>1, <2>2, <2>3, <3>1, <3>3 DEF Structure
    <3>4. CASE u = "list"
      <4>1. Structure(c, j) = {LMeta(j)} \cup {Elem(j, i) : i \in Meta(c, j)[1] .. Meta(c, j)[2] - 1}
        BY <3>1, <3>4 DEF Structure
      <4>2. \A i \in Meta(c, j)[1] .. Meta(c, j)[2] - 1 : i \in Int
        BY <2>1 DEF Tidy
      <4> QED  BY <2>1, <2>2, <2>3, <4>1, <4>2
    <3> QED  BY <2>5, <3>2, <3>3, <3>4
  <2>6. CASE u \in Scanned
    <3>1. u # Absent /\ u # "string" /\ u # "list"
      BY <2>6, KVAssumption DEF Scanned
    <3>2. Structure(c, j) = Under(c, Prefix(u, j))
      BY <3>1 DEF Structure
    <3>3. x \in Below[Prefix(u, j)]
      BY <2>3, <3>2 DEF Under
    <3>4. PICK n \in Members : x = Item(u, j, n)
      BY <2>1, <2>6, <3>3, Scan
    <3> HIDE DEF u
    <3> QED  BY <2>1, <2>6, <3>4, FlatApart, ItemsApart
  <2> QED  BY <2>4, <2>5, <2>6
<1>4. ASSUME NEW k \in Keys \ K PROVE Same(c, d, k)
  <2>1. \A t \in Scanned, m \in Members : d[Item(t, k, m)] = c[Item(t, k, m)]
    <3> HIDE DEF X
    <3> QED  BY <1>1, <1>2, CellsOf
  <2> QED  BY <1>3, <2>1 DEF Kept, Same
<1> QED  BY <1>4

\* Reaping is not seen, and leaves no key it reaps expired.
LEMMA ReapsUnseen ==
    ASSUME Flat, NEW c, Good(c), NEW K \in SUBSET Keys
    PROVE  /\ \A k \in Keys : Seen(c, ReapedAll(c, K), k)
           /\ \A k \in K : ~ Expired(ReapedAll(c, K), k)
           /\ \A k \in Keys : ~ Expired(c, k) => Same(c, ReapedAll(c, K), k)
<1> DEFINE D == {k \in K : Expired(c, k)}
           d == ReapedAll(c, K)
<1>1. d = Without(c, UNION {Whole(c, k) : k \in D}) /\ D \in SUBSET Keys
  BY DEF ReapedAll
<1>2. \A k \in D : k \in K /\ Expired(c, k)
  OBVIOUS
<1>3. \A k \in K \ D : ~ Expired(c, k)
  OBVIOUS
<1> HIDE DEF D, d
<1>4. \A k \in Keys \ D : Same(c, d, k)
  BY <1>1, PurgesApart
<1>5. \A k \in D : Gone(d, k)
  BY <1>1, Purges
<1>6. ASSUME NEW k \in Keys PROVE Seen(c, d, k)
  <2>1. CASE k \in D
    <3>1. Value(c, k) = Absent /\ Deadline(c, k) = Absent
      BY <1>2, <2>1 DEF Value, Deadline
    <3> QED  BY <1>5, <2>1, <3>1, GoneSeen DEF Seen
  <2>2. CASE k \notin D
    <3>1. Tidy(c, k)
      BY DEF Good
    <3> QED  BY <1>4, <2>2, <3>1, SameSeen
  <2> QED  BY <2>1, <2>2
<1>7. ASSUME NEW k \in K PROVE ~ Expired(d, k)
  <2>1. CASE k \in D
    BY <1>5, <2>1 DEF Gone, Expired
  <2>2. CASE k \notin D
    BY <1>3, <1>4, <2>2 DEF Same, Expired
  <2> QED  BY <2>1, <2>2
<1>8. \A k \in Keys : ~ Expired(c, k) => Same(c, d, k)
  BY <1>2, <1>4
<1> QED  BY <1>6, <1>7, <1>8 DEF d

LEMMA ReapUnseen ==
    ASSUME Flat, NEW c, Good(c), NEW k \in Keys
    PROVE  /\ \A l \in Keys : Seen(c, Reaped(c, k), l)
           /\ ~ Expired(Reaped(c, k), k)
           /\ \A l \in Keys \ {k} : Same(c, Reaped(c, k), l)
           /\ Expired(c, k) => Gone(Reaped(c, k), k)
           /\ ~ Expired(c, k) => Reaped(c, k) = c
<1>1. CASE Expired(c, k)
  <2>1. Whole(c, k) = UNION {Whole(c, j) : j \in {k}} /\ {k} \in SUBSET Keys
    OBVIOUS
  <2>2. Reaped(c, k) = Without(c, UNION {Whole(c, j) : j \in {k}})
    BY <1>1, <2>1 DEF Reaped
  <2>3. Gone(Reaped(c, k), k)
    BY <2>2, Purges, ZenonT(90)
  <2>4. \A l \in Keys \ {k} : Same(c, Reaped(c, k), l)
    BY <2>1, <2>2, PurgesApart
  <2>5. ASSUME NEW l \in Keys PROVE Seen(c, Reaped(c, k), l)
    <3>1. CASE l = k
      <4>1. Value(c, k) = Absent /\ Deadline(c, k) = Absent
        BY <1>1 DEF Value, Deadline
      <4> QED  BY <2>3, <3>1, <4>1, GoneSeen DEF Seen
    <3>2. CASE l # k
      <4>1. Tidy(c, l)
        BY DEF Good
      <4> QED  BY <2>4, <3>2, <4>1, SameSeen
    <3> QED  BY <3>1, <3>2
  <2> QED  BY <1>1, <2>3, <2>4, <2>5 DEF Gone, Expired
<1>2. CASE ~ Expired(c, k)
  BY <1>2 DEF Reaped, Seen, Same
<1> QED  BY <1>1, <1>2

-----------------------------------------------------------------------------
(* What commands do, as clients see it *)

\* The promise holds where expiry keeps to its key (Flat), clients leave the
\* deadline of a key alone once it has passed, and None is no value of a key.
Strict ==
    /\ Flat /\ "late" \notin Liberties
    /\ \A t, x : [type |-> t, data |-> x] # Absent

\* Nothing or a value of type t makes way for one of type t.
Turns(v, w, t) == (v = Absent \/ v.type = t) /\ w # Absent /\ w.type = t
Content(v) == IF v = Absent THEN <<>> ELSE v.data

\* Key k is a string in d, and its deadline is to come.
Written(c, d, k) ==
    /\ Turns(Value(c, k), Value(d, k), "string") /\ Value(d, k).data \in Vals
    /\ Deadline(d, k) # Absent => Deadline(d, k) > now

Joined(v, w, t) ==
    /\ Turns(v, w, t)
    /\ DOMAIN Content(v) \subseteq DOMAIN w.data /\ DOMAIN w.data \subseteq Members
    /\ \A m \in DOMAIN w.data : w.data[m] \in Contents(t)

Parted(v, w, t) ==
    /\ v # Absent /\ Turns(v, w, t)
    /\ DOMAIN w.data \subseteq DOMAIN v.data
    /\ \A m \in DOMAIN w.data : w.data[m] = v.data[m]

Pushed(v, w) ==
    /\ Turns(v, w, "list") /\ TypedValues!Grows(Content(v), w.data)
    /\ \A i \in DOMAIN w.data : w.data[i] \in Vals

Popped(v, w) ==
    /\ v # Absent /\ Turns(v, w, "list")
    /\ Len(w.data) = Len(v.data) - 1 /\ TypedValues!Grows(w.data, v.data)

Replaced(v, w) ==
    /\ v # Absent /\ Turns(v, w, "list")
    /\ \E i \in DOMAIN v.data, x \in Vals : w.data = [v.data EXCEPT ![i] = x]

Shortened(v, w) ==
    /\ v # Absent /\ Turns(v, w, "list")
    /\ \E i, j \in DOMAIN v.data : i <= j /\ w.data = SubSeq(v.data, i, j)

Altered(v, w) ==
    \/ \E t \in Scanned : Joined(v, w, t) \/ Parted(v, w, t)
    \/ Pushed(v, w) \/ Popped(v, w) \/ Replaced(v, w) \/ Shortened(v, w)

\* A deadline is put or taken.
Timed(c, d, k) ==
    \/ Value(d, k) = Value(c, k) /\ (Deadline(d, k) # Absent => Deadline(d, k) > now)
    \/ Value(d, k) = Absent /\ Deadline(d, k) = Absent

\* What clients see of the step from c to d: some keys go, some are strings
\* now, or one key changes.
Effect(c, d) ==
    \/ \A k \in Keys : Seen(c, d, k) \/ (Value(d, k) = Absent /\ Deadline(d, k) = Absent)
    \/ \A k \in Keys : Seen(c, d, k) \/ Written(c, d, k)
    \/ \E k \in Keys :
         /\ \A l \in Keys \ {k} : Seen(c, d, l)
         /\ \/ Deadline(d, k) = Deadline(c, k) /\ Altered(Value(c, k), Value(d, k))
            \/ Timed(c, d, k)

\* From c a command may go to d.
Moves(c, d) == Good(d) /\ (Strict => Effect(c, d))

\* What is not seen may come before.
LEMMA MovesAfter ==
    ASSUME NEW b, NEW c, NEW d, Strict => \A k \in Keys : Seen(b, c, k), Moves(c, d)
    PROVE  Moves(b, d)
<1>1. ASSUME Strict PROVE Effect(b, d)
  <2>1. \A k \in Keys : Value(c, k) = Value(b, k) /\ Deadline(c, k) = Deadline(b, k)
    BY <1>1 DEF Seen
  <2>2. Effect(c, d)
    BY <1>1 DEF Moves
  <2>3. \A k \in Keys : /\ Seen(c, d, k) => Seen(b, d, k)
                        /\ Written(c, d, k) => Written(b, d, k)
                        /\ Timed(c, d, k) => Timed(b, d, k)
    BY <2>1 DEF Seen, Written, Timed
  <2>4. CASE \A k \in Keys : Seen(c, d, k) \/ (Value(d, k) = Absent /\ Deadline(d, k) = Absent)
    BY <2>3, <2>4 DEF Effect
  <2>5. CASE \A k \in Keys : Seen(c, d, k) \/ Written(c, d, k)
    BY <2>3, <2>5 DEF Effect
  <2>6. CASE \E k \in Keys :
               /\ \A l \in Keys \ {k} : Seen(c, d, l)
               /\ \/ Deadline(d, k) = Deadline(c, k) /\ Altered(Value(c, k), Value(d, k))
                  \/ Timed(c, d, k)
    <3>1. PICK k \in Keys : /\ \A l \in Keys \ {k} : Seen(c, d, l)
                            /\ \/ Deadline(d, k) = Deadline(c, k) /\ Altered(Value(c, k), Value(d, k))
                               \/ Timed(c, d, k)
      BY <2>6
    <3>2. \/ Deadline(d, k) = Deadline(b, k) /\ Altered(Value(b, k), Value(d, k))
          \/ Timed(b, d, k)
      BY <2>1, <2>3, <3>1
    <3> QED  BY <2>3, <3>1, <3>2 DEF Effect
  <2> QED  BY <2>2, <2>4, <2>5, <2>6 DEF Effect
<1> QED  BY <1>1 DEF Moves

\* What is not seen is a step.
LEMMA MovesUnseen ==
    ASSUME NEW c, NEW d, Good(d), Strict => \A k \in Keys : Seen(c, d, k)
    PROVE  Moves(c, d)
BY DEF Moves, Effect

\* Reaping comes before a step of the key reaped, or of all.
LEMMA ReapMoves ==
    ASSUME NEW c, Good(c), NEW k \in Keys
    PROVE  /\ Moves(c, c) /\ Moves(c, Reaped(c, k))
           /\ \A d : Moves(Reaped(c, k), d) => Moves(c, d)
           /\ Strict => ~ Expired(Reaped(c, k), k)
<1>1. Good(Reaped(c, k))
  BY Reaps
<1>2. Strict => /\ \A l \in Keys : Seen(c, Reaped(c, k), l)
                /\ ~ Expired(Reaped(c, k), k)
  BY ReapUnseen DEF Strict
<1>3. Moves(c, Reaped(c, k))
  BY <1>1, <1>2, MovesUnseen
<1>4. Moves(c, c)
  <2>1. \A l \in Keys : Seen(c, c, l)
    BY DEF Seen
  <2> QED  BY <2>1, MovesUnseen
<1>5. ASSUME NEW d, Moves(Reaped(c, k), d) PROVE Moves(c, d)
  BY <1>2, <1>5, MovesAfter
<1> QED  BY <1>2, <1>3, <1>4, <1>5

LEMMA ReapAllMoves ==
    ASSUME NEW c, Good(c), NEW K \in SUBSET Keys
    PROVE  /\ Moves(c, ReapedAll(c, K))
           /\ \A d : Moves(ReapedAll(c, K), d) => Moves(c, d)
           /\ Strict => \A k \in K : ~ Expired(ReapedAll(c, K), k)
<1>1. Good(ReapedAll(c, K))
  BY ReapsAll
<1>2. Strict => /\ \A l \in Keys : Seen(c, ReapedAll(c, K), l)
                /\ \A k \in K : ~ Expired(ReapedAll(c, K), k)
  BY ReapsUnseen DEF Strict
<1>3. Moves(c, ReapedAll(c, K))
  BY <1>1, <1>2, MovesUnseen
<1>4. ASSUME NEW d, Moves(ReapedAll(c, K), d) PROVE Moves(c, d)
  BY <1>2, <1>4, MovesAfter
<1> QED  BY <1>2, <1>3, <1>4

\* What clients see of a key that has not expired.
LEMMA Shows ==
    ASSUME Strict, NEW c, Good(c), NEW k \in Keys, ~ Expired(c, k)
    PROVE  /\ c[Type(k)] = Absent => Value(c, k) = Absent
           /\ c[Type(k)] # Absent => /\ Value(c, k) # Absent
                                     /\ Value(c, k).type = c[Type(k)]
                                     /\ Value(c, k).data = DataOf(c, k, c[Type(k)])
           /\ Deadline(c, k) = c[Exp(k)]
<1>1. c[Type(k)] \in Scanned \cup {"string", "list", Absent}
  BY DEF Good, Tidy
<1>2. Value(c, k) = IF c[Type(k)] = Absent \/ Expired(c, k) THEN Absent
                    ELSE [type |-> c[Type(k)], data |-> DataOf(c, k, c[Type(k)])]
  BY <1>1, ValueIs DEF Strict
<1> QED  BY <1>2 DEF Strict, Deadline

-----------------------------------------------------------------------------
(* Writes *)

\* The cells of a key.
Own(k) == {V(k), Type(k), Exp(k), LMeta(k)} \cup {Elem(k, i) : i \in Int}
            \cup {Item(t, k, m) : t \in Scanned, m \in Members}

LEMMA OwnApart ==
    ASSUME Apart, NEW k \in Keys, NEW l \in Keys, k # l
    PROVE  Own(k) \cap Own(l) = {}
<1> SUFFICES ASSUME NEW x \in Own(k), x \in Own(l) PROVE FALSE
  OBVIOUS
<1>1. CASE \E t \in Scanned, m \in Members : x = Item(t, k, m)
  <2>1. PICK t \in Scanned, m \in Members : x = Item(t, k, m)
    BY <1>1
  <2>2. CASE \E u \in Scanned, n \in Members : x = Item(u, l, n)
    <3>1. PICK u \in Scanned, n \in Members : x = Item(u, l, n)
      BY <2>2
    <3>2. Item(t, k, m) = Item(u, l, n)
      BY <2>1, <3>1
    <3> QED  BY <3>2, ItemsApart
  <2>3. CASE x \in {V(l), Type(l), Exp(l), LMeta(l)} \cup {Elem(l, i) : i \in Int}
    BY <2>1, <2>3, Distinct
  <2> QED  BY <2>2, <2>3 DEF Own
<1>2. CASE x \in {V(k), Type(k), Exp(k), LMeta(k)}
  <2>1. CASE \E u \in Scanned, n \in Members : x = Item(u, l, n)
    BY <1>2, <2>1, Distinct
  <2>2. CASE x \in {Elem(l, i) : i \in Int}
    BY <1>2, <2>2, Distinct
  <2>3. CASE x \in {V(l), Type(l), Exp(l), LMeta(l)}
    <3>1. CASE x = V(k)
      BY <2>3, <3>1, Distinct, Names
    <3>2. CASE x = Type(k)
      BY <2>3, <3>2, Distinct, Names
    <3>3. CASE x = Exp(k)
      BY <2>3, <3>3, Distinct, Names
    <3>4. CASE x = LMeta(k)
      BY <2>3, <3>4, Distinct, Names
    <3> QED  BY <1>2, <3>1, <3>2, <3>3, <3>4
  <2> QED  BY <2>1, <2>2, <2>3 DEF Own
<1>3. CASE x \in {Elem(k, i) : i \in Int}
  <2>1. CASE \E u \in Scanned, n \in Members : x = Item(u, l, n)
    BY <1>3, <2>1, Distinct
  <2>2. CASE x \in {Elem(l, i) : i \in Int}
    BY <1>3, <2>2, Names
  <2>3. CASE x \in {V(l), Type(l), Exp(l), LMeta(l)}
    BY <1>3, <2>3, Distinct
  <2> QED  BY <2>1, <2>2, <2>3 DEF Own
<1> QED  BY <1>1, <1>2, <1>3 DEF Own

\* What changes cells of some keys only and leaves these tidy leaves all good.
LEMMA Elsewhere ==
    ASSUME Apart, NEW c, Good(c), NEW d, NEW K \in SUBSET Keys, DOMAIN d = Cells,
           \A k \in K : Tidy(d, k),
           \A x \in Cells : d[x] = c[x] \/ \E k \in K : x \in Own(k)
    PROVE  Good(d) /\ \A l \in Keys \ K : Same(c, d, l)
<1>1. ASSUME NEW l \in Keys \ K PROVE Tidy(d, l) /\ Same(c, d, l)
  <2>1. \A x \in Cells : x \in Own(l) => d[x] = c[x]
    <3> SUFFICES ASSUME NEW x \in Cells, x \in Own(l) PROVE d[x] = c[x]
      OBVIOUS
    <3>1. ASSUME NEW k \in K, x \in Own(k) PROVE FALSE
      BY <3>1, OwnApart
    <3> QED  BY <3>1
  <2>2. Tidy(c, l)
    BY DEF Good
  <2>3. Same(c, d, l)
    <3>1. Indexes \subseteq Int
      BY KVAssumption DEF Indexes
    <3> QED  BY <2>1, <3>1, CellsOf DEF Own, Same
  <2>4. Kept(c, d, l)
    BY <2>2, <2>3 DEF Same, Kept, Tidy
  <2> QED  BY <2>2, <2>3, <2>4, KeptTidy
<1> QED  BY <1>1 DEF Good

\* The contents a command leaves are within the bounds of the instance.
LEMMA FitsAt ==
    ASSUME NEW d, Fits(d), NEW k \in Keys
    PROVE  /\ (0 - MaxIndex) <= Meta(d, k)[1] /\ Meta(d, k)[2] <= MaxIndex + 1
           /\ d[V(k)] \in Vals \cup {Absent}
           /\ \A m \in Members : /\ d[Item("hash", k, m)] \in Vals \cup {Absent}
                                 /\ d[Item("zset", k, m)] \in Vals \cup {Absent}
BY DEF Fits

\* A key of another type than t has no cell but its tag and its deadline, if
\* it is not of another type.
LEMMA Free ==
    ASSUME NEW c, NEW k \in Keys, Tidy(c, k), NEW t, c[Type(k)] \in {Absent, t}
    PROVE  /\ t # "string" => c[V(k)] = Absent
           /\ t # "list" => /\ c[LMeta(k)] = Absent /\ Meta(c, k) = <<0, 0>>
                            /\ \A i \in Indexes : c[Elem(k, i)] = Absent
           /\ \A u \in Scanned, m \in Members : t # u => c[Item(u, k, m)] = Absent
<1>1. Absent \notin Scanned \cup {"string", "list"}
  BY KVAssumption
<1>2. t # "string" => c[V(k)] = Absent
  BY <1>1 DEF Tidy
<1>3. t # "list" => c[LMeta(k)] = Absent
  BY <1>1 DEF Tidy
<1>4. t # "list" => Meta(c, k) = <<0, 0>>
  BY <1>3 DEF Meta
<1>5. t # "list" => \A i \in Indexes : c[Elem(k, i)] = Absent
  BY <1>4 DEF Tidy, Indexes
<1>6. \A u \in Scanned, m \in Members : t # u => c[Item(u, k, m)] = Absent
  BY <1>1 DEF Tidy
<1> QED  BY <1>2, <1>3, <1>4, <1>5, <1>6

\* Strings are written over nothing or a string.
LEMMA Writing ==
    ASSUME Apart, NEW c, Good(c), NEW d, Fits(d), NEW K \in SUBSET Keys, DOMAIN d = Cells,
           \A k \in K : /\ c[Type(k)] \in {Absent, "string"}
                        /\ d[Type(k)] = "string" /\ d[V(k)] # Absent
                        /\ d[Exp(k)] \in 0 .. MaxNow + 1 \cup {Absent}
                        /\ ~ Expired(d, k) /\ (d[Exp(k)] # Absent => d[Exp(k)] > now),
           \A x \in Cells : d[x] = c[x] \/ \E k \in K : x \in {V(k), Type(k), Exp(k)}
    PROVE  Moves(c, d)
<1>1. ASSUME NEW k \in K PROVE Tidy(d, k)
  <2>1. Tidy(c, k)
    BY DEF Good
  <2>2. /\ c[LMeta(k)] = Absent /\ Meta(c, k) = <<0, 0>>
        /\ \A i \in Indexes : c[Elem(k, i)] = Absent
        /\ \A u \in Scanned, m \in Members : c[Item(u, k, m)] = Absent
    <3>1. \A u \in Scanned : u # "string"
      BY DEF Scanned
    <3>2. c[Type(k)] \in {Absent, "string"} /\ "string" # "list"
      OBVIOUS
    <3>3. k \in Keys
      OBVIOUS
    <3>4. \A t : c[Type(k)] \in {Absent, t} =>
            /\ t # "list" => /\ c[LMeta(k)] = Absent /\ Meta(c, k) = <<0, 0>>
                             /\ \A i \in Indexes : c[Elem(k, i)] = Absent
            /\ \A u \in Scanned, m \in Members : t # u => c[Item(u, k, m)] = Absent
      BY ONLY <2>1, <3>3, Free
    <3> QED  BY <3>1, <3>2, <3>4, SMTT(60)
  <2>3. Indexes \subseteq Int
    BY KVAssumption DEF Indexes
  <2>4. /\ d[LMeta(k)] = Absent
        /\ \A i \in Indexes : d[Elem(k, i)] = Absent
        /\ \A u \in Scanned, m \in Members : d[Item(u, k, m)] = Absent
    BY <2>2, <2>3, CellsOf, Distinct
  <2>5. Meta(d, k) = <<0, 0>>
    BY <2>4 DEF Meta
  <2>6. /\ <<0, 0>> \in Int \X Int /\ <<0, 0>>[1] = 0 /\ <<0, 0>>[2] = 0
        /\ \A i \in Indexes : i \notin 0 .. 0 - 1
        /\ 0 - MaxIndex <= 0 /\ 0 <= MaxIndex + 1
    BY KVAssumption DEF Indexes
  <2>7. d[V(k)] \in Vals \cup {Absent}
    BY FitsAt
  <2> QED  BY <2>4, <2>5, <2>6, <2>7 DEF Tidy
<1>2. \A x \in Cells : d[x] = c[x] \/ \E k \in K : x \in Own(k)
  BY DEF Own
<1>3. Good(d) /\ \A l \in Keys \ K : Same(c, d, l)
  BY <1>1, <1>2, Elsewhere
<1>4. ASSUME Strict PROVE Effect(c, d)
  <2>1. ASSUME NEW k \in K PROVE Written(c, d, k)
    <3>1. d[V(k)] \in Vals
      BY FitsAt
    <3>2. "string" # Absent
      BY KVAssumption
    <3>3. /\ Value(d, k) # Absent /\ Value(d, k).type = "string"
          /\ Value(d, k).data = DataOf(d, k, "string") /\ Deadline(d, k) = d[Exp(k)]
      BY <1>3, <1>4, <3>2, Shows
    <3>4. Value(c, k) = Absent \/ Value(c, k).type = "string"
      <4>1. CASE Expired(c, k)
        BY <4>1 DEF Value
      <4>2. CASE ~ Expired(c, k)
        BY <1>4, <4>2, Shows
      <4> QED  BY <4>1, <4>2
    <3>5. DataOf(d, k, "string") = d[V(k)]
      BY DEF DataOf
    <3> QED  BY <3>1, <3>3, <3>4, <3>5 DEF Written, Turns
  <2>2. \A l \in Keys \ K : Seen(c, d, l)
    BY <1>3, <1>4, SameSeen DEF Good, Strict
  <2> QED  BY <2>1, <2>2 DEF Effect
<1> QED  BY <1>3, <1>4 DEF Moves

\* Members are put into nothing or a structure of their type.
LEMMA Adding ==
    ASSUME Apart, NEW c, Good(c), NEW d, Fits(d), NEW k \in Keys, NEW t \in Scanned,
           DOMAIN d = Cells, c[Type(k)] \in {Absent, t}, d[Type(k)] = t,
           \A x \in Cells :
              \/ d[x] = c[x] \/ x = Type(k)
              \/ \E m \in Members :
                   /\ x = Item(t, k, m) /\ d[x] # Absent
                   /\ (t = "set" => d[x] = Present) /\ (t = "zset" => d[x] \in Int),
           Strict => ~ Expired(c, k)
    PROVE  Moves(c, d)
<1>1. Tidy(c, k)
  BY DEF Good
<1>2. /\ c[V(k)] = Absent /\ c[LMeta(k)] = Absent /\ Meta(c, k) = <<0, 0>>
      /\ \A i \in Indexes : c[Elem(k, i)] = Absent
      /\ \A u \in Scanned, m \in Members : t # u => c[Item(u, k, m)] = Absent
  <2>1. t # "string" /\ t # "list"
    BY DEF Scanned
  <2>2. \A u : c[Type(k)] \in {Absent, u} =>
          /\ u # "string" => c[V(k)] = Absent
          /\ u # "list" => /\ c[LMeta(k)] = Absent /\ Meta(c, k) = <<0, 0>>
                           /\ \A i \in Indexes : c[Elem(k, i)] = Absent
          /\ \A w \in Scanned, m \in Members : u # w => c[Item(w, k, m)] = Absent
    BY <1>1, Free
  <2> QED  BY <2>1, <2>2, SMTT(60)
<1>3. Indexes \subseteq Int
  BY KVAssumption DEF Indexes
<1>4. /\ d[V(k)] = Absent /\ d[LMeta(k)] = Absent /\ d[Exp(k)] = c[Exp(k)]
      /\ \A i \in Indexes : d[Elem(k, i)] = Absent
  BY <1>2, <1>3, CellsOf, Distinct
<1>5. ASSUME NEW u \in Scanned, NEW m \in Members
      PROVE  /\ d[Item(u, k, m)] \in Contents(u) \cup {Absent}
             /\ d[Item(u, k, m)] # Absent => d[Type(k)] = u
             /\ c[Item(u, k, m)] # Absent => d[Item(u, k, m)] # Absent
  <2>1. Item(u, k, m) \in Cells /\ Item(u, k, m) # Type(k)
    BY CellsOf, Distinct
  <2>2. c[Item(u, k, m)] \in Contents(u) \cup {Absent}
    BY <1>1 DEF Tidy
  <2>3. CASE u # t
    <3>1. \A n \in Members : Item(u, k, m) # Item(t, k, n)
      BY <2>3, ItemsApart
    <3>2. d[Item(u, k, m)] = c[Item(u, k, m)]
      BY <2>1, <3>1
    <3> QED  BY <1>2, <2>2, <2>3, <3>2
  <2>4. CASE u = t
    <3>1. \/ d[Item(u, k, m)] = c[Item(u, k, m)]
          \/ /\ d[Item(u, k, m)] # Absent
             /\ (u = "set" => d[Item(u, k, m)] = Present) /\ (u = "zset" => d[Item(u, k, m)] \in Int)
      BY <2>1, <2>4
    <3>2. u = "hash" \/ u = "zset" => d[Item(u, k, m)] \in Vals \cup {Absent}
      BY FitsAt
    <3> QED  BY <2>2, <2>4, <3>1, <3>2 DEF Contents, Scanned
  <2> QED  BY <2>3, <2>4
<1>6. Tidy(d, k)
  <2>1. Meta(d, k) = <<0, 0>>
    BY <1>4 DEF Meta
  <2>2. /\ <<0, 0>> \in Int \X Int /\ <<0, 0>>[1] = 0 /\ <<0, 0>>[2] = 0
        /\ \A i \in Indexes : i \notin 0 .. 0 - 1
        /\ 0 - MaxIndex <= 0 /\ 0 <= MaxIndex + 1
    BY KVAssumption DEF Indexes
  <2>3. c[Exp(k)] \in 0 .. MaxNow + 1 \cup {Absent}
    BY <1>1 DEF Tidy
  <2> QED  BY <1>4, <1>5, <2>1, <2>2, <2>3 DEF Tidy
<1>7. Good(d) /\ \A l \in Keys \ {k} : Same(c, d, l)
  <2>1. \A x \in Cells : d[x] = c[x] \/ \E j \in {k} : x \in Own(j)
    BY DEF Own
  <2> QED  BY <1>6, <2>1, Elsewhere, ZenonT(90)
<1>8. ASSUME Strict PROVE Effect(c, d)
  <2>1. ~ Expired(c, k) /\ ~ Expired(d, k)
    BY <1>4, <1>8 DEF Expired
  <2>2. Deadline(d, k) = Deadline(c, k)
    BY <1>4, <2>1 DEF Deadline
  <2> DEFINE v == Value(c, k)
             w == Value(d, k)
  <2>3. t # Absent /\ t # "string" /\ t # "list"
    BY KVAssumption DEF Scanned
  <2>4. w # Absent /\ w.type = t /\ w.data = DataOf(d, k, t)
    BY <1>7, <1>8, <2>1, <2>3, Shows
  <2>5. v = Absent \/ (v.type = t /\ v.data = DataOf(c, k, t))
    BY <1>8, <2>1, Shows
  <2>6. DataOf(d, k, t) = [m \in {m \in Members : d[Item(t, k, m)] # Absent} |-> d[Item(t, k, m)]]
    BY <2>3 DEF DataOf
  <2>7. DataOf(c, k, t) = [m \in {m \in Members : c[Item(t, k, m)] # Absent} |-> c[Item(t, k, m)]]
    BY <2>3 DEF DataOf
  <2> HIDE DEF v, w
  <2>8. DOMAIN Content(v) \subseteq DOMAIN w.data
    <3>1. DOMAIN w.data = {m \in Members : d[Item(t, k, m)] # Absent}
      BY <2>4, <2>6
    <3>2. CASE v = Absent
      BY <3>2 DEF Content
    <3>3. CASE v # Absent
      <4>1. DOMAIN v.data = {m \in Members : c[Item(t, k, m)] # Absent}
        BY <2>5, <2>7, <3>3
      <4> QED  BY <1>5, <3>1, <3>3, <4>1 DEF Content
    <3> QED  BY <3>2, <3>3
  <2>9. DOMAIN w.data \subseteq Members /\ \A m \in DOMAIN w.data : w.data[m] \in Contents(t)
    BY <1>5, <2>4, <2>6
  <2>10. Joined(v, w, t)
    BY <2>4, <2>5, <2>8, <2>9 DEF Joined, Turns
  <2>11. Altered(v, w)
    BY <2>10 DEF Altered
  <2>12. \A l \in Keys \ {k} : Seen(c, d, l)
    BY <1>7, <1>8, SameSeen DEF Good, Strict
  <2> QED  BY <2>2, <2>11, <2>12 DEF Effect, v, w
<1> QED  BY <1>7, <1>8 DEF Moves

\* Members are taken out of any structure.
LEMMA Removing ==
    ASSUME NEW c, Good(c), NEW t \in Scanned, NEW k \in Keys, NEW X,
           \A x \in X : \E m \in Members : x = Item(t, k, m)
    PROVE  Moves(c, Without(c, X))
<1> DEFINE d == Without(c, X)
<1>1. DOMAIN d = Cells /\ \A x \in Cells : d[x] = IF x \in X THEN Absent ELSE c[x]
  BY DEF Without
<1> HIDE DEF d
<1>2. ASSUME NEW l \in Keys PROVE Tidy(d, l)
  <2>1. Tidy(c, l)
    BY DEF Good
  <2>2. Indexes \subseteq Int
    BY KVAssumption DEF Indexes
  <2>3. /\ V(l) \notin X /\ Type(l) \notin X /\ Exp(l) \notin X /\ LMeta(l) \notin X
        /\ \A i \in Indexes : Elem(l, i) \notin X
    BY <2>2, Distinct
  <2>4. Kept(c, d, l)
    BY <1>1, <2>1, <2>3, CellsOf DEF Kept, Tidy
  <2> QED  BY <2>1, <2>4, KeptTidy
<1>3. Good(d)
  BY <1>1, <1>2 DEF Good
<1>4. ASSUME NEW l \in Keys
      PROVE  /\ d[V(l)] = c[V(l)] /\ d[Type(l)] = c[Type(l)]
             /\ d[Exp(l)] = c[Exp(l)] /\ d[LMeta(l)] = c[LMeta(l)]
             /\ \A i \in Indexes : d[Elem(l, i)] = c[Elem(l, i)]
  <2>1. Indexes \subseteq Int
    BY KVAssumption DEF Indexes
  <2>2. /\ V(l) \notin X /\ Type(l) \notin X /\ Exp(l) \notin X /\ LMeta(l) \notin X
        /\ \A i \in Indexes : Elem(l, i) \notin X
    BY <2>1, Distinct
  <2> QED  BY <1>1, <2>2, CellsOf
<1>5. ASSUME Strict PROVE Effect(c, d)
  <2>1. Apart
    BY <1>5, FlatApart DEF Strict
  <2>2. ASSUME NEW l \in Keys, NEW u \in Scanned, NEW m \in Members, l # k \/ u # t
        PROVE  d[Item(u, l, m)] = c[Item(u, l, m)]
    <3>1. \A n \in Members : Item(u, l, m) # Item(t, k, n)
      BY <2>1, <2>2, ItemsApart
    <3> QED  BY <1>1, <3>1, CellsOf
  <2>3. \A l \in Keys \ {k} : Seen(c, d, l)
    <3>1. ASSUME NEW l \in Keys \ {k} PROVE Same(c, d, l)
      BY <1>4, <2>2 DEF Same
    <3> QED  BY <1>5, <3>1, SameSeen DEF Good, Strict
  <2>4. ASSUME Seen(c, d, k) PROVE Effect(c, d)
    BY <2>3, <2>4 DEF Effect
  <2>5. CASE c[Type(k)] # t
    <3>1. \A m \in Members : c[Item(t, k, m)] = Absent
      BY <2>5 DEF Good, Tidy
    <3>2. \A m \in Members : d[Item(t, k, m)] = Absent
      BY <1>1, <3>1, CellsOf
    <3>3. Same(c, d, k)
      BY <1>4, <2>2, <3>1, <3>2 DEF Same
    <3> QED  BY <1>5, <2>4, <3>3, SameSeen DEF Good, Strict
  <2>6. CASE Expired(c, k)
    <3>1. Expired(d, k)
      BY <1>4, <2>6 DEF Expired
    <3> QED  BY <2>4, <2>6, <3>1 DEF Seen, Value, Deadline
  <2>7. CASE c[Type(k)] = t /\ ~ Expired(c, k)
    <3> DEFINE v == Value(c, k)
               w == Value(d, k)
    <3>1. ~ Expired(d, k) /\ d[Type(k)] = t /\ d[Exp(k)] = c[Exp(k)]
      BY <1>4, <2>7 DEF Expired
    <3>2. t # Absent /\ t # "string" /\ t # "list"
      BY KVAssumption DEF Scanned
    <3>3. v # Absent /\ v.type = t /\ v.data = DataOf(c, k, t)
      BY <1>5, <2>7, <3>2, Shows
    <3>4. w # Absent /\ w.type = t /\ w.data = DataOf(d, k, t)
      BY <1>3, <1>5, <3>1, <3>2, Shows
    <3>5. DataOf(d, k, t) = [m \in {m \in Members : d[Item(t, k, m)] # Absent} |-> d[Item(t, k, m)]]
      BY <3>2 DEF DataOf
    <3>6. DataOf(c, k, t) = [m \in {m \in Members : c[Item(t, k, m)] # Absent} |-> c[Item(t, k, m)]]
      BY <3>2 DEF DataOf
    <3>7. \A m \in Members : d[Item(t, k, m)] # Absent => d[Item(t, k, m)] = c[Item(t, k, m)]
      BY <1>1, CellsOf
    <3> HIDE DEF v, w
    <3>8. DOMAIN w.data \subseteq DOMAIN v.data /\ \A m \in DOMAIN w.data : w.data[m] = v.data[m]
      BY <3>3, <3>4, <3>5, <3>6, <3>7
    <3>9. Altered(v, w)
      BY <3>3, <3>4, <3>8 DEF Altered, Parted, Turns
    <3>10. Deadline(d, k) = Deadline(c, k)
      BY <2>7, <3>1 DEF Deadline
    <3> QED  BY <2>3, <3>9, <3>10 DEF Effect, v, w
  <2> QED  BY <2>5, <2>6, <2>7
<1> QED  BY <1>3, <1>5 DEF Moves, d

\* The list of k with the range head .. tail - 1.
Window(d, k, head, tail) == [i \in 1 .. tail - head |-> d[Elem(k, head + i - 1)]]
ListIn(d, k, head, tail) == [type |-> "list", data |-> Window(d, k, head, tail)]

\* A list takes the place of nothing or a list.
LEMMA Listing ==
    ASSUME Apart, NEW c, Good(c), NEW d, Fits(d), NEW k \in Keys,
           NEW head \in Int, NEW tail \in Int, head <= tail,
           DOMAIN d = Cells, c[Type(k)] \in {Absent, "list"},
           d[Type(k)] = "list", d[LMeta(k)] = <<head, tail>>,
           \A i \in Indexes : /\ d[Elem(k, i)] \in Vals \cup {Absent}
                              /\ d[Elem(k, i)] # Absent <=> i \in head .. tail - 1,
           \A x \in Cells : \/ d[x] = c[x] \/ x \in {Type(k), LMeta(k)}
                            \/ \E i \in Indexes : x = Elem(k, i),
           Strict => /\ ~ Expired(c, k)
                     /\ Altered(Value(c, k), ListIn(d, k, head, tail))
    PROVE  Moves(c, d)
<1>1. Tidy(c, k)
  BY DEF Good
<1>2. /\ c[V(k)] = Absent
      /\ \A u \in Scanned, m \in Members : c[Item(u, k, m)] = Absent
  <2>1. \A u \in Scanned : u # "list"
    BY DEF Scanned
  <2> QED  BY <1>1, <2>1, Free
<1>3. Indexes \subseteq Int
  BY KVAssumption DEF Indexes
<1>4. /\ d[V(k)] = Absent /\ d[Exp(k)] = c[Exp(k)]
      /\ \A u \in Scanned, m \in Members : d[Item(u, k, m)] = Absent
  BY <1>2, <1>3, CellsOf, Distinct
<1>5. Meta(d, k) = <<head, tail>>
  <2>1. <<head, tail>> # Absent
    BY KVAssumption
  <2> QED  BY <2>1 DEF Meta
<1>6. /\ <<head, tail>> \in Int \X Int /\ <<head, tail>>[1] = head /\ <<head, tail>>[2] = tail
  OBVIOUS
<1>7. Tidy(d, k)
  <2>1. c[Exp(k)] \in 0 .. MaxNow + 1 \cup {Absent}
    BY <1>1 DEF Tidy
  <2>2. (0 - MaxIndex) <= head /\ tail <= MaxIndex + 1
    BY <1>5, <1>6, FitsAt
  <2> QED  BY <1>4, <1>5, <1>6, <2>1, <2>2 DEF Tidy
<1>8. Good(d) /\ \A l \in Keys \ {k} : Same(c, d, l)
  <2>1. \A x \in Cells : d[x] = c[x] \/ \E j \in {k} : x \in Own(j)
    BY <1>3 DEF Own
  <2> QED  BY <1>7, <2>1, Elsewhere, ZenonT(90)
<1>9. ASSUME Strict PROVE Effect(c, d)
  <2>1. ~ Expired(c, k) /\ ~ Expired(d, k)
    BY <1>4, <1>9 DEF Expired
  <2>2. Deadline(d, k) = Deadline(c, k)
    BY <1>4, <2>1 DEF Deadline
  <2>3. "list" # Absent
    BY KVAssumption
  <2>4. Value(d, k) = ListIn(d, k, head, tail)
    BY <1>5, <1>6, <2>1, <2>3 DEF Value, ListIn, Window
  <2>5. \A l \in Keys \ {k} : Seen(c, d, l)
    BY <1>8, <1>9, SameSeen DEF Good, Strict
  <2> QED  BY <1>9, <2>2, <2>4, <2>5 DEF Effect
<1> QED  BY <1>8, <1>9 DEF Moves

\* A deadline is put or taken.
LEMMA Timing ==
    ASSUME NEW c, Good(c), NEW d, NEW k \in Keys, DOMAIN d = Cells,
           d[Exp(k)] \in 0 .. MaxNow + 1 \cup {Absent},
           \A x \in Cells : d[x] = c[x] \/ x = Exp(k),
           now \in Nat, Strict => ~ Expired(c, k)
    PROVE  Moves(c, d)
<1>1. ASSUME NEW l \in Keys PROVE Tidy(d, l)
  <2>1. Tidy(c, l)
    BY DEF Good
  <2>2. Indexes \subseteq Int
    BY KVAssumption DEF Indexes
  <2>3. d[Exp(l)] \in 0 .. MaxNow + 1 \cup {Absent}
    BY <2>1, CellsOf DEF Tidy
  <2>4. Kept(c, d, l)
    BY <2>2, <2>3, CellsOf, Distinct DEF Kept
  <2> QED  BY <2>1, <2>4, KeptTidy
<1>2. Good(d)
  BY <1>1 DEF Good
<1>3. ASSUME Strict PROVE Effect(c, d)
  <2>1. Indexes \subseteq Int
    BY KVAssumption DEF Indexes
  <2>2. ASSUME NEW l \in Keys
        PROVE  /\ d[V(l)] = c[V(l)] /\ d[Type(l)] = c[Type(l)] /\ d[LMeta(l)] = c[LMeta(l)]
               /\ \A i \in Indexes : d[Elem(l, i)] = c[Elem(l, i)]
               /\ \A t \in Scanned, m \in Members : d[Item(t, l, m)] = c[Item(t, l, m)]
               /\ l # k => d[Exp(l)] = c[Exp(l)]
    BY <2>1, CellsOf, Distinct, Names, ZenonT(90)
  <2>3. ASSUME NEW l \in Keys \ {k} PROVE Seen(c, d, l)
    <3>1. Same(c, d, l)
      BY <2>2 DEF Same
    <3> QED  BY <1>3, <3>1, SameSeen DEF Good, Strict
  <2>4. Timed(c, d, k)
    <3>1. CASE Expired(d, k)
      BY <3>1 DEF Timed, Value, Deadline
    <3>2. CASE ~ Expired(d, k)
      <4>1. Value(d, k) = Value(c, k)
        <5>1. Alike(c, d, k)
          BY <2>2 DEF Alike
        <5>2. Expired(d, k) = Expired(c, k)
          BY <1>3, <3>2 DEF Expired
        <5> QED  BY <1>3, <5>1, <5>2, AlikeSeen DEF Good, Strict
      <4>2. Deadline(d, k) = d[Exp(k)]
        BY <3>2 DEF Deadline
      <4>3. d[Exp(k)] # Absent => d[Exp(k)] > now
        BY <3>2 DEF Expired
      <4> QED  BY <4>1, <4>2, <4>3 DEF Timed
    <3> QED  BY <3>1, <3>2
  <2> QED  BY <2>3, <2>4 DEF Effect
<1> QED  BY <1>2, <1>3 DEF Moves

-----------------------------------------------------------------------------
(* The methods *)

LEMMA Results == \A c, a : Result(c, a).cells = c /\ Failure(c).cells = c
BY DEF Result, Failure

\* set().
LEMMA SetMoves ==
    ASSUME Apart, now \in 0 .. MaxNow, NEW c0, Good(c0), NEW k \in Keys, NEW v, v # Absent,
           NEW ex, ex = Absent \/ ex \in 0 .. 1, NEW flags,
           Reaped(c0, k)[Type(k)] \in {Absent, "string"},
           Fits(Set(c0, k, v, ex, flags).cells)
    PROVE  Moves(c0, Set(c0, k, v, ex, flags).cells)
<1> DEFINE c == Reaped(c0, k)
           e == IF ex # Absent /\ ex > 0 THEN now + ex ELSE Absent
           d == [c EXCEPT ![V(k)] = v, ![Type(k)] = "string", ![Exp(k)] = e]
<1>1. Good(c)
  BY Reaps
<1>2. Set(c0, k, v, ex, flags).cells \in {c, d}
  BY Results DEF Set
<1>3. e \in 0 .. MaxNow + 1 \cup {Absent} /\ (e # Absent => e > now)
  BY KVAssumption
<1> HIDE DEF c, e
<1>4. ASSUME Fits(d) PROVE Moves(c, d)
  <2>1. DOMAIN c = Cells
    BY <1>1 DEF Good
  <2>2. /\ V(k) \in Cells /\ Type(k) \in Cells /\ Exp(k) \in Cells
        /\ V(k) # Type(k) /\ V(k) # Exp(k) /\ Type(k) # Exp(k)
    BY CellsOf, Distinct
  <2>3. /\ DOMAIN d = Cells /\ d[V(k)] = v /\ d[Type(k)] = "string" /\ d[Exp(k)] = e
        /\ \A x \in Cells : d[x] = c[x] \/ x \in {V(k), Type(k), Exp(k)}
    BY <2>1, <2>2
  <2>4. c[Type(k)] \in {Absent, "string"}
    BY DEF c
  <2> HIDE DEF d
  <2>9. PICK K \in SUBSET Keys : K = {k}
    OBVIOUS
  <2>5. \A x \in Cells : d[x] = c[x] \/ \E j \in K : x \in {V(j), Type(j), Exp(j)}
    BY <2>3, <2>9
  <2>6. ~ Expired(d, k)
    BY <1>3, <2>3 DEF Expired
  <2>7. \A j \in K : /\ c[Type(j)] \in {Absent, "string"} /\ d[Type(j)] = "string" /\ d[V(j)] # Absent
                     /\ d[Exp(j)] \in 0 .. MaxNow + 1 \cup {Absent}
                     /\ ~ Expired(d, j) /\ (d[Exp(j)] # Absent => d[Exp(j)] > now)
    BY <2>3, <2>4, <1>3, <2>6, <2>9
  <2> QED  BY <1>1, <1>4, <2>3, <2>5, <2>7, Writing
<1> HIDE DEF d
<1>5. Moves(c0, c) /\ (Moves(c, d) => Moves(c0, d))
  BY ReapMoves DEF c
<1> QED  BY <1>2, <1>4, <1>5

\* mset().
LEMMA MSetMoves ==
    ASSUME Apart, NEW c0, Good(c0), NEW map, DOMAIN map \subseteq Keys,
           \A k \in DOMAIN map : map[k] # Absent,
           \A k \in DOMAIN map : Reaped(c0, k)[Type(k)] \in {Absent, "string"},
           Fits(MSet(c0, map).cells)
    PROVE  Moves(c0, MSet(c0, map).cells)
<1> DEFINE K == DOMAIN map
           c == ReapedAll(c0, K)
           X == {Exp(k) : k \in K}
           c1 == Without(c, X)
           tags == [x \in {Type(k) : k \in K} |-> "string"]
           c2 == With(c1, tags)
           new == [x \in {V(k) : k \in K} |-> map[Tail(x)]]
           d == With(c2, new)
<1>1. MSet(c0, map).cells = d
  BY Results DEF MSet
<1>2. Good(c) /\ \A k \in K : c[Type(k)] \in {Absent, "string"}
  <2>1. K \in SUBSET Keys
    OBVIOUS
  <2>2. Good(c) /\ \A k \in K : c[Type(k)] \in {Reaped(c0, k)[Type(k)], Absent}
    BY <2>1, ReapsAll
  <2> QED  BY <2>2
<1>3. \A x \in Cells : c1[x] = IF x \in X THEN Absent ELSE c[x]
  BY DEF Without
<1>4. \A x \in Cells : c2[x] = IF x \in {Type(k) : k \in K} THEN "string" ELSE c1[x]
  BY DEF With
<1>5. /\ DOMAIN d = Cells
      /\ \A x \in Cells : d[x] = IF x \in {V(k) : k \in K} THEN new[x] ELSE c2[x]
  BY DEF With
<1>12. ASSUME NEW k \in K PROVE new[V(k)] = map[k]
  <2>1. Tail(V(k)) = k
    BY TailOf
  <2>2. V(k) \in DOMAIN new
    OBVIOUS
  <2> QED  BY <2>1, <2>2
<1> HIDE DEF c, c1, c2, d, new
<1>6. \A x \in Cells : d[x] = c[x] \/ \E k \in K : x \in {V(k), Type(k), Exp(k)}
  BY <1>3, <1>4, <1>5
<1>7. \A k \in K : d[Type(k)] = "string" /\ d[Exp(k)] = Absent
  BY <1>3, <1>4, <1>5, CellsOf, Distinct
<1>8. ASSUME NEW k \in K
      PROVE  /\ c[Type(k)] \in {Absent, "string"} /\ d[Type(k)] = "string" /\ d[V(k)] # Absent
             /\ d[Exp(k)] \in 0 .. MaxNow + 1 \cup {Absent}
             /\ ~ Expired(d, k) /\ (d[Exp(k)] # Absent => d[Exp(k)] > now)
  <2>1. d[V(k)] = map[k]
    BY <1>5, <1>12, CellsOf
  <2>2. ~ Expired(d, k)
    BY <1>7 DEF Expired
  <2> QED  BY <1>2, <1>7, <2>1, <2>2
<1>9. Fits(d)
  BY <1>1
<1>10. K \in SUBSET Keys
  OBVIOUS
<1>11. Moves(c, d)
  <2> HIDE DEF K
  <2> QED  BY <1>2, <1>5, <1>6, <1>8, <1>9, <1>10, Writing
<1> QED  BY <1>1, <1>10, <1>11, ReapAllMoves DEF c

\* incrby(), and append().
LEMMA IncrByMoves ==
    ASSUME Apart, now \in 0 .. MaxNow, NEW c0, Good(c0), NEW k \in Keys, NEW n \in Int,
           Reaped(c0, k)[Type(k)] \in {Absent, "string"},
           Fits(IncrBy(c0, k, n).cells)
    PROVE  Moves(c0, IncrBy(c0, k, n).cells)
<1> DEFINE c == Reaped(c0, k)
           sum == IF c[V(k)] = Absent THEN n ELSE c[V(k)] + n
<1>1. \/ IncrBy(c0, k, n).cells = c
      \/ sum # Absent /\ IncrBy(c0, k, n).cells = Set(c, k, sum, Absent, {}).cells
  <2>1. CASE c[V(k)] # Absent /\ c[V(k)] \notin Int
    BY <2>1, Results DEF IncrBy
  <2>2. CASE ~ (c[V(k)] # Absent /\ c[V(k)] \notin Int)
    <3>1. sum \in Int
      BY <2>2
    <3>2. sum # Absent
      BY <3>1, KVAssumption
    <3> HIDE DEF sum
    <3> QED  BY <2>2, <3>2, Results DEF IncrBy, sum
  <2> QED  BY <2>1, <2>2
<1>2. Good(c) /\ Reaped(c, k)[Type(k)] \in {Absent, "string"}
  <2>1. Good(c)
    BY Reaps
  <2>2. Reaped(c, k)[Type(k)] \in {c[Type(k)], Absent}
    BY <2>1, Reaps
  <2> QED  BY <2>1, <2>2
<1>3. Moves(c0, c) /\ \A d : Moves(c, d) => Moves(c0, d)
  BY ReapMoves
<1> HIDE DEF c, sum
<1>4. ASSUME sum # Absent, IncrBy(c0, k, n).cells = Set(c, k, sum, Absent, {}).cells
      PROVE  Moves(c, Set(c, k, sum, Absent, {}).cells)
  BY <1>2, <1>4, SetMoves
<1> QED  BY <1>1, <1>3, <1>4

\* hset(), sadd() and zadd().
LEMMA AddedMoves ==
    ASSUME Apart, NEW c0, Good(c0), NEW k \in Keys, NEW t \in Scanned,
           NEW map, DOMAIN map \subseteq Members,
           \A m \in DOMAIN map : /\ map[m] # Absent
                                 /\ (t = "set" => map[m] = Present) /\ (t = "zset" => map[m] \in Int),
           Reaped(c0, k)[Type(k)] \in {Absent, t},
           Fits(Added(c0, k, t, map).cells)
    PROVE  Moves(c0, Added(c0, k, t, map).cells)
<1> DEFINE c == Reaped(c0, k)
           c1 == [c EXCEPT ![Type(k)] = t]
           new == [x \in {Item(t, k, m) : m \in DOMAIN map} |-> map[SubSeq(x, Len(k) + 2, Len(x))]]
           d == With(c1, new)
<1>1. Added(c0, k, t, map).cells = d
  BY Results DEF Added
<1>2. Good(c)
  BY Reaps
<1>3. \A x \in Cells : c1[x] = IF x = Type(k) THEN t ELSE c[x]
  <2>1. DOMAIN c = Cells
    BY <1>2 DEF Good
  <2> HIDE DEF c
  <2> QED  BY <2>1
<1>4. /\ DOMAIN d = Cells
      /\ \A x \in Cells : d[x] = IF x \in {Item(t, k, m) : m \in DOMAIN map} THEN new[x] ELSE c1[x]
  BY DEF With
<1>5. \A m \in DOMAIN map : new[Item(t, k, m)] = map[m]
  BY MemberOf
<1>6. c[Type(k)] \in {Absent, t}
  OBVIOUS
<1>10. /\ Strict => ~ Expired(c, k)
       /\ \A x : Moves(c, x) => Moves(c0, x)
  BY ReapMoves
<1> HIDE DEF c, c1, new, d
<1>7. d[Type(k)] = t
  BY <1>3, <1>4, CellsOf, Distinct
<1>8. ASSUME NEW x \in Cells
      PROVE  \/ d[x] = c[x] \/ x = Type(k)
             \/ \E m \in Members :
                  /\ x = Item(t, k, m) /\ d[x] # Absent
                  /\ (t = "set" => d[x] = Present) /\ (t = "zset" => d[x] \in Int)
  <2>1. CASE x \in {Item(t, k, m) : m \in DOMAIN map}
    <3>1. PICK m \in DOMAIN map : x = Item(t, k, m)
      BY <2>1
    <3>2. d[x] = map[m]
      BY <1>4, <1>5, <2>1, <3>1
    <3> QED  BY <3>1, <3>2
  <2>2. CASE x \notin {Item(t, k, m) : m \in DOMAIN map}
    BY <1>3, <1>4, <2>2
  <2> QED  BY <2>1, <2>2
<1>9. Moves(c, d)
  BY <1>1, <1>2, <1>4, <1>6, <1>7, <1>8, <1>10, Adding
<1> QED  BY <1>1, <1>9, <1>10

\* hdel(), srem() and zrem().
LEMMA RemovedMoves ==
    ASSUME NEW c, Good(c), NEW k \in Keys, NEW t \in Scanned, NEW M, M \subseteq Members
    PROVE  Moves(c, Removed(c, k, t, M).cells)
<1> DEFINE X == {x \in {Item(t, k, m) : m \in M} : c[x] # Absent}
<1>1. Removed(c, k, t, M).cells = Without(c, X)
  BY Results DEF Removed
<1>2. \A x \in X : \E m \in Members : x = Item(t, k, m)
  OBVIOUS
<1> HIDE DEF X
<1> QED  BY <1>1, <1>2, Removing

\* expire() and persist().
LEMMA ExpireMoves ==
    ASSUME now \in 0 .. MaxNow, NEW c, Good(c), NEW k \in Keys, NEW n \in Int, n <= 1,
           Strict => ~ Expired(c, k)
    PROVE  Moves(c, Expire(c, k, n).cells)
<1> DEFINE e == now + (IF n > 0 THEN n ELSE 0)
           d == [c EXCEPT ![Exp(k)] = e]
<1>1. Expire(c, k, n).cells = d
  BY Results DEF Expire
<1>2. e \in 0 .. MaxNow + 1
  BY KVAssumption
<1> HIDE DEF e
<1>3. DOMAIN d = Cells /\ d[Exp(k)] = e /\ \A x \in Cells : d[x] = c[x] \/ x = Exp(k)
  BY CellsOf DEF Good
<1> HIDE DEF d
<1> QED  BY <1>1, <1>2, <1>3, Timing

LEMMA PersistMoves ==
    ASSUME now \in 0 .. MaxNow, NEW c, Good(c), NEW k \in Keys, Strict => ~ Expired(c, k)
    PROVE  Moves(c, Persist(c, k).cells)
<1> DEFINE d == Without(c, {Exp(k)})
<1>1. Persist(c, k).cells = d
  BY Results DEF Persist
<1>2. DOMAIN d = Cells /\ d[Exp(k)] = Absent /\ \A x \in Cells : d[x] = c[x] \/ x = Exp(k)
  BY CellsOf DEF Without
<1> HIDE DEF d
<1> QED  BY <1>1, <1>2, Timing

\* delete() and flushdb().
LEMMA PurgeMoves ==
    ASSUME NEW c, Good(c), NEW K \in SUBSET Keys,
           NEW d, d = Without(c, UNION {Whole(c, k) : k \in K})
    PROVE  Moves(c, d)
<1>1. Good(d)
  BY Purges
<1>3. \A k \in K : Gone(d, k)
  BY Purges
<1>2. ASSUME Strict PROVE Effect(c, d)
  <2>1. \A k \in Keys \ K : Same(c, d, k)
    BY <1>2, PurgesApart DEF Strict
  <2>2. \A k \in Keys \ K : Seen(c, d, k)
    BY <1>2, <2>1, SameSeen DEF Good, Strict
  <2>3. \A k \in K : Value(d, k) = Absent /\ Deadline(d, k) = Absent
    BY <1>3, GoneSeen
  <2> QED  BY <2>2, <2>3 DEF Effect
<1> QED  BY <1>1, <1>2 DEF Moves

LEMMA DeleteMoves ==
    ASSUME NEW c, Good(c), NEW K \in SUBSET Keys
    PROVE  Moves(c, Delete(c, K).cells)
<1> DEFINE D == {k \in K : c[Type(k)] # Absent}
<1>1. Delete(c, K).cells = Without(c, UNION {Whole(c, k) : k \in D})
  BY Results DEF Delete
<1>2. D \in SUBSET Keys
  OBVIOUS
<1> HIDE DEF D
<1>3. PICK d : d = Without(c, UNION {Whole(c, k) : k \in D})
  OBVIOUS
<1>4. Moves(c, d)
  BY <1>2, <1>3, PurgeMoves
<1> QED  BY <1>1, <1>3, <1>4

LEMMA FlushMoves ==
    ASSUME NEW c, Good(c)
    PROVE  Moves(c, FlushDB(c).cells)
<1>1. FlushDB(c).cells = Without(c, UNION {Whole(c, k) : k \in Tagged(c)})
  BY Results DEF FlushDB
<1>2. Tagged(c) \in SUBSET Keys
  BY DEF Tagged
<1>3. PICK d : d = Without(c, UNION {Whole(c, k) : k \in Tagged(c)})
  OBVIOUS
<1>4. Moves(c, d)
  BY <1>2, <1>3, PurgeMoves
<1> QED  BY <1>1, <1>3, <1>4

-----------------------------------------------------------------------------
(* Lists *)

LEMMA Windows ==
    ASSUME NEW c, NEW k, NEW h \in Int, NEW g \in Int, h <= g
    PROVE  /\ Len(Window(c, k, h, g)) = g - h
           /\ DOMAIN Window(c, k, h, g) = 1 .. g - h
           /\ \A i \in 1 .. g - h : Window(c, k, h, g)[i] = c[Elem(k, h + i - 1)]
<1> DEFINE n == g - h
           w == [i \in 1 .. n |-> c[Elem(k, h + i - 1)]]
<1>1. n \in Nat
  OBVIOUS
<1> HIDE DEF n
<1>2. Len(w) = n /\ DOMAIN w = 1 .. n
  BY <1>1
<1> QED  BY <1>2 DEF Window, n

LEMMA WindowSeq ==
    ASSUME NEW c, NEW k, NEW h \in Int, NEW g \in Int, h <= g
    PROVE  \E S : Window(c, k, h, g) \in Seq(S)
<1> DEFINE S == {c[Elem(k, j)] : j \in Int}
           n == g - h
           w == [i \in 1 .. n |-> c[Elem(k, h + i - 1)]]
<1>1. n \in Nat
  OBVIOUS
<1>2. \A i \in 1 .. n : c[Elem(k, h + i - 1)] \in S
  OBVIOUS
<1> HIDE DEF S, n
<1>3. w \in Seq(S)
  BY <1>1, <1>2
<1> QED  BY <1>3 DEF Window, n

\* A stretch of a list.
LEMMA WindowSub ==
    ASSUME NEW c, NEW k, NEW h \in Int, NEW g \in Int, NEW p \in Int, NEW q \in Int,
           h <= p, p <= q, q <= g
    PROVE  SubSeq(Window(c, k, h, g), (p - h) + 1, q - h) = Window(c, k, p, q)
<1>16. PICK a \in Int, b \in Int : a = (p - h) + 1 /\ b = q - h
  OBVIOUS
<1>17. /\ h <= g /\ 1 <= a /\ a <= b + 1 /\ b <= g - h
       /\ p = h + a - 1 /\ q = h + b
  BY <1>16
<1>1. PICK w : w = Window(c, k, h, g)
  OBVIOUS
<1>14. /\ Len(Window(c, k, h, g)) = g - h
       /\ \A i \in 1 .. g - h : Window(c, k, h, g)[i] = c[Elem(k, h + i - 1)]
  BY <1>17, Windows
<1>2. Len(w) = g - h /\ \A i \in 1 .. g - h : w[i] = c[Elem(k, h + i - 1)]
  BY <1>1, <1>14
<1>11. PICK S : w \in Seq(S)
  BY <1>1, <1>17, WindowSeq
<1>4. PICK v : v = Window(c, k, p, q)
  OBVIOUS
<1>15. /\ Len(Window(c, k, p, q)) = q - p
       /\ \A i \in 1 .. q - p : Window(c, k, p, q)[i] = c[Elem(k, p + i - 1)]
  BY Windows
<1>5. Len(v) = q - p /\ \A i \in 1 .. q - p : v[i] = c[Elem(k, p + i - 1)]
  BY <1>4, <1>15
<1>13. PICK T : v \in Seq(T)
  BY <1>4, WindowSeq
<1> DEFINE r == SubSeq(w, a, b)
<1>6. \A i \in a .. b : w[i] \in S
  <2>1. \A i \in a .. b : i \in 1 .. Len(w)
    BY <1>2, <1>17
  <2> QED  BY <1>11, <2>1, ElementOfSeq
<1>7. /\ r \in Seq(S) /\ Len(r) = IF a <= b THEN b - a + 1 ELSE 0
      /\ \A i \in 1 .. b - a + 1 : r[i] = w[a + i - 1]
  BY <1>6, <1>17, SubSeqProperties
<1> HIDE DEF r
<1>8. Len(r) = Len(v)
  BY <1>17, <1>5, <1>7
<1>9. ASSUME NEW i \in 1 .. Len(r) PROVE r[i] = v[i]
  <2>3. i \in 1 .. q - p /\ q - p = b - a + 1
    BY <1>17, <1>5, <1>8
  <2>1. i \in 1 .. b - a + 1 /\ i \in 1 .. q - p /\ a + i - 1 \in 1 .. g - h
    BY <1>17, <2>3
  <2>2. h + (a + i - 1) - 1 = p + i - 1
    BY <1>17, <2>1
  <2> QED  BY <1>2, <1>5, <1>7, <2>1, <2>2
<1>10. r = v
  BY <1>7, <1>8, <1>9, <1>13, SeqEqual
<1> QED  BY <1>1, <1>17, <1>4, <1>10, <1>16 DEF r

\* Lists whose elements are the same in the same range.
LEMMA WindowSame ==
    ASSUME NEW c, NEW d, NEW k, NEW h \in Int, NEW g \in Int,
           \A j \in h .. g - 1 : d[Elem(k, j)] = c[Elem(k, j)]
    PROVE  Window(d, k, h, g) = Window(c, k, h, g)
<1>1. \A i \in 1 .. g - h : h + i - 1 \in h .. g - 1
  OBVIOUS
<1>2. \A i \in 1 .. g - h : d[Elem(k, h + i - 1)] = c[Elem(k, h + i - 1)]
  BY <1>1
<1> QED  BY <1>2 DEF Window

\* A range that grows at one of its ends.
LEMMA WindowGrows ==
    ASSUME NEW c, NEW d, NEW k, NEW h \in Int, NEW g \in Int, NEW p \in Int, NEW q \in Int,
           p <= h, h <= g, g <= q, p = h \/ q = g,
           \A j \in h .. g - 1 : d[Elem(k, j)] = c[Elem(k, j)]
    PROVE  TypedValues!Grows(Window(c, k, h, g), Window(d, k, p, q))
<1>1. PICK old, new : old = Window(c, k, h, g) /\ new = Window(d, k, p, q)
  OBVIOUS
<1>7. p <= q
  OBVIOUS
<1>8. Len(Window(c, k, h, g)) = g - h
  BY Windows
<1>9. Len(Window(d, k, p, q)) = q - p
  BY <1>7, Windows
<1>2. Len(old) = g - h /\ Len(new) = q - p
  BY <1>1, <1>8, <1>9
<1>3. old = Window(d, k, h, g)
  BY <1>1, WindowSame
<1>4. SubSeq(Window(d, k, p, q), (h - p) + 1, g - p) = Window(d, k, h, g)
  BY WindowSub
<1>5. SubSeq(new, (h - p) + 1, g - p) = old
  BY <1>1, <1>3, <1>4
<1>6. CASE p = h
  <2>1. (h - p) + 1 = 1 /\ g - p = Len(old) /\ Len(new) - Len(old) >= 0
    BY <1>2, <1>6
  <2> QED  BY <1>1, <1>5, <2>1 DEF TypedValues!Grows
<1>10. CASE q = g
  <2>1. (h - p) + 1 = (Len(new) - Len(old)) + 1 /\ g - p = Len(new) /\ Len(new) - Len(old) >= 0
    BY <1>2, <1>10
  <2> QED  BY <1>1, <1>5, <2>1 DEF TypedValues!Grows
<1> QED  BY <1>6, <1>10

\* What clients see of a list.
LEMMA ListShows ==
    ASSUME Strict, NEW c, Good(c), NEW k \in Keys, ~ Expired(c, k), c[Type(k)] \in {Absent, "list"}
    PROVE  /\ Value(c, k) = Absent \/ Value(c, k).type = "list"
           /\ Content(Value(c, k)) = Window(c, k, Meta(c, k)[1], Meta(c, k)[2])
           /\ c[Type(k)] = "list" =>
                /\ Value(c, k) # Absent
                /\ Value(c, k).data = Window(c, k, Meta(c, k)[1], Meta(c, k)[2])
<1>1. CASE c[Type(k)] = "list"
  <2>1. "list" # Absent
    BY KVAssumption
  <2>2. Value(c, k) # Absent /\ Value(c, k).type = "list" /\ Value(c, k).data = DataOf(c, k, "list")
    BY <1>1, <2>1, Shows
  <2>3. DataOf(c, k, "list") = Window(c, k, Meta(c, k)[1], Meta(c, k)[2])
    BY DEF DataOf, Window
  <2> QED  BY <2>2, <2>3 DEF Content
<1>2. CASE c[Type(k)] = Absent
  <2>1. Value(c, k) = Absent
    BY <1>2, Shows
  <2>2. Meta(c, k) = <<0, 0>>
    <3>1. c[LMeta(k)] = Absent
      BY <1>2, KVAssumption DEF Good, Tidy
    <3> QED  BY <3>1 DEF Meta
  <2>3. Window(c, k, 0, 0) = <<>>
    BY DEF Window
  <2>4. "list" # Absent
    BY KVAssumption
  <2> QED  BY <1>2, <2>1, <2>2, <2>3, <2>4 DEF Content
<1> QED  BY <1>1, <1>2

\* The range of a list is within the bounds of the instance.
LEMMA RangingFits ==
    ASSUME NEW k \in Keys, NEW b, DOMAIN b = Cells, NEW head \in Int, NEW tail \in Int,
           Fits(Ranging(b, k, head, tail))
    PROVE  \A i \in head .. tail - 1 : i \in Indexes
<1> DEFINE d == [b EXCEPT ![LMeta(k)] = <<head, tail>>, ![Type(k)] = "list"]
<1>1. Ranging(b, k, head, tail) = d
  BY DEF Ranging
<1>2. d[LMeta(k)] = <<head, tail>>
  BY CellsOf, Distinct
<1> HIDE DEF d
<1>3. Meta(d, k) = <<head, tail>> /\ <<head, tail>>[1] = head /\ <<head, tail>>[2] = tail
  BY <1>2, KVAssumption DEF Meta
<1>4. (0 - MaxIndex) <= head /\ tail <= MaxIndex + 1
  BY <1>1, <1>3, FitsAt
<1> QED  BY <1>4, KVAssumption DEF Indexes

\* _set_list_meta() behind a change of elements.
LEMMA RangingMoves ==
    ASSUME Apart, NEW c, Good(c), NEW k \in Keys, c[Type(k)] \in {Absent, "list"},
           NEW b, DOMAIN b = Cells, NEW head \in Int, NEW tail \in Int, head <= tail,
           \A x \in Cells : b[x] = c[x] \/ \E i \in Indexes : x = Elem(k, i),
           \A i \in Indexes : /\ b[Elem(k, i)] \in Vals \cup {Absent}
                              /\ b[Elem(k, i)] # Absent <=> i \in head .. tail - 1,
           Fits(Ranging(b, k, head, tail)),
           Strict => /\ ~ Expired(c, k)
                     /\ Altered(Value(c, k), ListIn(b, k, head, tail))
    PROVE  Moves(c, Ranging(b, k, head, tail))
<1> DEFINE d == [b EXCEPT ![LMeta(k)] = <<head, tail>>, ![Type(k)] = "list"]
<1>1. Ranging(b, k, head, tail) = d
  BY DEF Ranging
<1>2. /\ DOMAIN d = Cells /\ d[Type(k)] = "list" /\ d[LMeta(k)] = <<head, tail>>
      /\ \A x \in Cells : x \notin {Type(k), LMeta(k)} => d[x] = b[x]
  BY CellsOf, Distinct
<1> HIDE DEF d
<1>3. Indexes \subseteq Int
  BY KVAssumption DEF Indexes
<1>4. \A i \in Indexes : d[Elem(k, i)] = b[Elem(k, i)]
  BY <1>2, <1>3, CellsOf, Distinct
<1>5. \A i \in Indexes : /\ d[Elem(k, i)] \in Vals \cup {Absent}
                         /\ d[Elem(k, i)] # Absent <=> i \in head .. tail - 1
  BY <1>4
<1>6. \A x \in Cells : \/ d[x] = c[x] \/ x \in {Type(k), LMeta(k)}
                       \/ \E i \in Indexes : x = Elem(k, i)
  BY <1>2
<1>7. ListIn(d, k, head, tail) = ListIn(b, k, head, tail)
  <2>1. \A i \in head .. tail - 1 : i \in Indexes
    BY RangingFits
  <2> QED  BY <1>4, <2>1, WindowSame DEF ListIn
<1>8. Moves(c, d)
  BY <1>1, <1>2, <1>5, <1>6, <1>7, Listing
<1> QED  BY <1>1, <1>8

\* The elements of a list.
LEMMA ListOf ==
    ASSUME NEW c, Good(c), NEW k \in Keys
    PROVE  /\ Meta(c, k)[1] \in Int /\ Meta(c, k)[2] \in Int /\ Meta(c, k)[1] <= Meta(c, k)[2]
           /\ \A i \in Indexes :
                /\ c[Elem(k, i)] \in Vals \cup {Absent}
                /\ c[Elem(k, i)] # Absent <=> i \in Meta(c, k)[1] .. Meta(c, k)[2] - 1
           /\ Meta(c, k)[1] < Meta(c, k)[2] => c[Type(k)] = "list"
           /\ \A i \in Meta(c, k)[1] .. Meta(c, k)[2] - 1 : i \in Indexes
<1>1. Tidy(c, k)
  BY DEF Good
<1>2. Meta(c, k) \in Int \X Int
  BY <1>1 DEF Tidy
<1>3. ASSUME Meta(c, k)[1] < Meta(c, k)[2] PROVE c[Type(k)] = "list"
  <2>1. CASE c[LMeta(k)] = Absent
    <3>1. Meta(c, k) = <<0, 0>>
      BY <2>1 DEF Meta
    <3> QED  BY <1>3, <3>1
  <2>2. CASE c[LMeta(k)] # Absent
    BY <1>1, <2>2 DEF Tidy
  <2> QED  BY <2>1, <2>2
<1>4. \A i \in Meta(c, k)[1] .. Meta(c, k)[2] - 1 : i \in Indexes
  BY <1>1, <1>2, KVAssumption DEF Tidy, Indexes
<1> QED  BY <1>1, <1>2, <1>3, <1>4 DEF Tidy

\* lpush() and rpush().
LEMMA PushMoves ==
    ASSUME Apart, NEW c, Good(c), NEW k \in Keys, c[Type(k)] \in {Absent, "list"}, Strict => ~ Expired(c, k),
           NEW vs \in Seq(Elements), NEW left \in BOOLEAN,
           Fits(Push(c, k, Meta(c, k)[1], Meta(c, k)[2], vs, left).cells)
    PROVE  Moves(c, Push(c, k, Meta(c, k)[1], Meta(c, k)[2], vs, left).cells)
<1> DEFINE head == Meta(c, k)[1]
           tail == Meta(c, k)[2]
           lo == IF left THEN head - Len(vs) ELSE tail
           hi == IF left THEN head ELSE tail + Len(vs)
           new == [x \in {Elem(k, i) : i \in lo .. hi - 1} |->
                      vs[IF left THEN hi - x[Len(x)] ELSE x[Len(x)] - lo + 1]]
           b == With(c, new)
           first == IF left THEN lo ELSE head
           last == IF left THEN tail ELSE hi
<1>1. Push(c, k, head, tail, vs, left).cells = Ranging(b, k, first, last)
  BY Results DEF Push
<1>2. Len(vs) \in Nat /\ \A i \in 1 .. Len(vs) : vs[i] \in Elements
  BY LenProperties, ElementOfSeq
<1>3. head \in Int /\ tail \in Int /\ head <= tail
  BY ListOf
<1>4. lo \in Int /\ hi \in Int /\ hi - lo = Len(vs) /\ first \in Int /\ last \in Int /\ first <= last
  BY <1>2, <1>3, SMTT(60)
<1>5. \A i \in lo .. hi - 1 : new[Elem(k, i)] \in Elements
  <2> SUFFICES ASSUME NEW i \in lo .. hi - 1 PROVE new[Elem(k, i)] \in Elements
    OBVIOUS
  <2>1. i \in Int /\ Elem(k, i)[Len(Elem(k, i))] = i
    BY <1>4, Names
  <2>2. new[Elem(k, i)] = vs[IF left THEN hi - i ELSE i - lo + 1]
    BY <2>1
  <2>3. (IF left THEN hi - i ELSE i - lo + 1) \in 1 .. Len(vs)
    <3> HIDE DEF lo, hi
    <3> QED  BY <1>2, <1>4
  <2> QED  BY <1>2, <2>2, <2>3
<1>6. DOMAIN new = {Elem(k, i) : i \in lo .. hi - 1}
  OBVIOUS
<1>7. /\ DOMAIN b = Cells
      /\ \A x \in Cells : b[x] = IF x \in DOMAIN new THEN new[x] ELSE c[x]
  BY DEF With
<1> HIDE DEF new, b
<1>8. Indexes \subseteq Int
  BY KVAssumption DEF Indexes
<1>9. ASSUME NEW i \in Indexes
      PROVE  /\ b[Elem(k, i)] \in Vals \cup {Absent}
             /\ b[Elem(k, i)] # Absent <=> i \in first .. last - 1
  <2>1. Elem(k, i) \in DOMAIN new <=> i \in lo .. hi - 1
    <3>1. \A j \in lo .. hi - 1 : Elem(k, i) = Elem(k, j) => i = j
      BY <1>4, <1>8, Names
    <3> QED  BY <1>6, <3>1
  <2>2. Elem(k, i) \in Cells
    BY CellsOf
  <2>3. c[Elem(k, i)] \in Vals \cup {Absent} /\ (c[Elem(k, i)] # Absent <=> i \in head .. tail - 1)
    BY ListOf
  <2>4. i \in first .. last - 1 <=> i \in lo .. hi - 1 \/ i \in head .. tail - 1
    BY <1>2, <1>3, <1>8
  <2>5. CASE i \in lo .. hi - 1
    <3>1. b[Elem(k, i)] \in Elements
      BY <1>5, <1>7, <2>1, <2>2, <2>5
    <3>2. b[Elem(k, i)] \in Vals /\ b[Elem(k, i)] # Absent
      BY <3>1, KVAssumption, CommandsAssumption
    <3> QED  BY <2>4, <2>5, <3>2
  <2>6. CASE i \notin lo .. hi - 1
    <3>1. b[Elem(k, i)] = c[Elem(k, i)]
      BY <1>7, <2>1, <2>2, <2>6
    <3> QED  BY <2>3, <2>4, <2>6, <3>1
  <2> QED  BY <2>5, <2>6
<1>10. \A x \in Cells : b[x] = c[x] \/ \E i \in Indexes : x = Elem(k, i)
  <2> SUFFICES ASSUME NEW x \in Cells, b[x] # c[x] PROVE \E i \in Indexes : x = Elem(k, i)
    OBVIOUS
  <2>1. PICK i \in lo .. hi - 1 : x = Elem(k, i)
    BY <1>6, <1>7
  <2>2. i \in Indexes
    <3>1. i \in Int
      BY <1>4
    <3> QED  BY <2>1, <3>1, CellElems
  <2> QED  BY <2>1, <2>2
<1>13. ASSUME NEW j \in head .. tail - 1 PROVE b[Elem(k, j)] = c[Elem(k, j)]
  <2>1. j \in Indexes
    BY ListOf
  <2>2. j \in Int /\ j \notin lo .. hi - 1 /\ Elem(k, j) \in Cells
    BY <1>2, <1>3, <2>1, CellsOf
  <2>3. \A i \in lo .. hi - 1 : Elem(k, i) # Elem(k, j)
    <3>1. \A i \in lo .. hi - 1 : i \in Int
      BY <1>4
    <3> QED  BY <2>2, <3>1, Names
  <2> QED  BY <1>6, <1>7, <2>2, <2>3
<1>14. first <= head /\ tail <= last /\ (first = head \/ last = tail)
  BY <1>2, <1>3
<1> HIDE DEF head, tail, lo, hi, first, last
<1>11. Fits(Ranging(b, k, first, last))
  BY <1>1 DEF head, tail
<1>15. ASSUME Strict PROVE Altered(Value(c, k), ListIn(b, k, first, last))
  <2> DEFINE v == Value(c, k)
             w == ListIn(b, k, first, last)
  <2>1. (v = Absent \/ v.type = "list") /\ Content(v) = Window(c, k, head, tail)
    BY <1>15, ListShows DEF head, tail
  <2>2. w.type = "list" /\ w.data = Window(b, k, first, last) /\ w # Absent
    BY <1>15 DEF ListIn, Strict
  <2> HIDE DEF v, w
  <2>3. TypedValues!Grows(Content(v), w.data)
    BY <1>3, <1>4, <1>13, <1>14, <2>1, <2>2, WindowGrows
  <2>4. ASSUME NEW i \in DOMAIN w.data PROVE w.data[i] \in Vals
    <3>4. /\ DOMAIN Window(b, k, first, last) = 1 .. last - first
          /\ \A j \in 1 .. last - first : Window(b, k, first, last)[j] = b[Elem(k, first + j - 1)]
      BY <1>4, Windows, SMTT(60)
    <3>1. i \in 1 .. last - first /\ w.data[i] = b[Elem(k, first + i - 1)]
      BY <2>2, <2>4, <3>4
    <3>2. PICK j \in first .. last - 1 : j = first + i - 1
      BY <1>4, <3>1
    <3>3. j \in Indexes
      BY <1>4, <1>7, <1>11, RangingFits
    <3> QED  BY <1>9, <3>1, <3>2, <3>3
  <2>5. Pushed(v, w)
    BY <2>1, <2>2, <2>3, <2>4 DEF Pushed, Turns
  <2> QED  BY <2>5 DEF Altered, v, w
<1>12. Moves(c, Ranging(b, k, first, last))
  BY <1>4, <1>7, <1>9, <1>10, <1>11, <1>15, RangingMoves
<1> QED  BY <1>1, <1>12 DEF head, tail

\* lpop() and rpop().
LEMMA PopMoves ==
    ASSUME Apart, NEW c, Good(c), NEW k \in Keys, NEW left \in BOOLEAN, Strict => ~ Expired(c, k),
           Fits(Pop(c, k, Meta(c, k)[1], Meta(c, k)[2], left).cells)
    PROVE  Moves(c, Pop(c, k, Meta(c, k)[1], Meta(c, k)[2], left).cells)
<1> DEFINE head == Meta(c, k)[1]
           tail == Meta(c, k)[2]
           e == IF left THEN head ELSE tail - 1
           b == Without(c, {Elem(k, e)})
           first == IF left THEN head + 1 ELSE head
           last == IF left THEN tail ELSE tail - 1
<1>1. CASE head >= tail
  BY <1>1, Results, ReapMoves DEF Pop
<1>2. CASE ~ (head >= tail)
  <2>1. Pop(c, k, head, tail, left).cells = Ranging(b, k, first, last)
    BY <1>2, Results DEF Pop
  <2>2. head \in Int /\ tail \in Int /\ head < tail /\ c[Type(k)] = "list"
    BY <1>2, ListOf
  <2>3. e \in Int /\ e \in head .. tail - 1 /\ first \in Int /\ last \in Int /\ first <= last
    BY <2>2
  <2>4. e \in Indexes
    BY <2>3, ListOf
  <2>5. DOMAIN b = Cells /\ \A x \in Cells : b[x] = IF x = Elem(k, e) THEN Absent ELSE c[x]
    BY DEF Without
  <2>6. Indexes \subseteq Int
    BY KVAssumption DEF Indexes
  <2>7. ASSUME NEW i \in Indexes
        PROVE  /\ b[Elem(k, i)] \in Vals \cup {Absent}
               /\ b[Elem(k, i)] # Absent <=> i \in first .. last - 1
    <3>1. Elem(k, i) \in Cells /\ (Elem(k, i) = Elem(k, e) <=> i = e)
      BY <2>3, <2>6, CellsOf, Names
    <3>2. c[Elem(k, i)] \in Vals \cup {Absent} /\ (c[Elem(k, i)] # Absent <=> i \in head .. tail - 1)
      BY ListOf
    <3>3. i \in first .. last - 1 <=> i \in head .. tail - 1 /\ i # e
      BY <2>2, <2>6
    <3> HIDE DEF e, b
    <3> QED  BY <2>5, <3>1, <3>2, <3>3
  <2>10. ASSUME NEW j \in first .. last - 1 PROVE c[Elem(k, j)] = b[Elem(k, j)]
    <3>1. j \in head .. tail - 1 /\ j # e /\ j \in Int
      BY <2>2
    <3>2. j \in Indexes
      BY <3>1, ListOf
    <3>3. Elem(k, j) # Elem(k, e) /\ Elem(k, j) \in Cells
      BY <2>3, <3>1, <3>2, CellsOf, Names
    <3> QED  BY <2>5, <3>3
  <2>11. /\ head <= first /\ last <= tail /\ (head = first \/ tail = last)
         /\ last - first = (tail - head) - 1
    BY <2>2
  <2> HIDE DEF b, first, last, e
  <2>8. \A x \in Cells : b[x] = c[x] \/ \E i \in Indexes : x = Elem(k, i)
    BY <2>4, <2>5
  <2>12. ASSUME Strict PROVE Altered(Value(c, k), ListIn(b, k, first, last))
    <3> DEFINE v == Value(c, k)
               w == ListIn(b, k, first, last)
    <3>1. v # Absent /\ v.type = "list" /\ v.data = Window(c, k, head, tail)
      BY <2>2, <2>12, ListShows
    <3>2. w.type = "list" /\ w.data = Window(b, k, first, last) /\ w # Absent
      BY <2>12 DEF ListIn, Strict
    <3> HIDE DEF v, w, head, tail
    <3>3. TypedValues!Grows(w.data, v.data)
      BY <2>2, <2>3, <2>10, <2>11, <3>1, <3>2, WindowGrows
    <3>4. Len(w.data) = Len(v.data) - 1
      <4>1. Len(Window(c, k, head, tail)) = tail - head
        BY <2>2, Windows
      <4>2. Len(Window(b, k, first, last)) = last - first
        BY <2>3, Windows
      <4> QED  BY <2>11, <3>1, <3>2, <4>1, <4>2
    <3>5. Popped(v, w)
      BY <3>1, <3>2, <3>3, <3>4 DEF Popped, Turns
    <3> QED  BY <3>5 DEF Altered, v, w
  <2>9. Moves(c, Ranging(b, k, first, last))
    BY <2>1, <2>2, <2>3, <2>5, <2>7, <2>8, <2>12, RangingMoves
  <2> QED  BY <2>1, <2>9
<1> QED  BY <1>1, <1>2

\* lset().
LEMMA WriteMoves ==
    ASSUME Apart, NEW c, Good(c), NEW k \in Keys, NEW place \in Int, NEW v \in Elements,
           Strict => ~ Expired(c, k),
           Fits(Write(c, k, Meta(c, k)[1], Meta(c, k)[2], place, v).cells)
    PROVE  Moves(c, Write(c, k, Meta(c, k)[1], Meta(c, k)[2], place, v).cells)
<1> DEFINE head == Meta(c, k)[1]
           tail == Meta(c, k)[2]
           e == IF place < 0 THEN tail + place ELSE head + place
           d == [c EXCEPT ![Elem(k, e)] = v]
<1>1. Write(c, k, head, tail, place, v).cells = IF e \in head .. tail - 1 THEN d ELSE c
  BY Results DEF Write
<1>2. CASE e \in head .. tail - 1
  <2>1. head \in Int /\ tail \in Int /\ head <= tail
    BY ListOf
  <2>2. c[Type(k)] = "list" /\ e \in Indexes /\ e \in Int
    <3>1. head < tail
      BY <1>2, <2>1
    <3> QED  BY <1>2, <2>1, <3>1, ListOf
  <2>3. DOMAIN c = Cells /\ Tidy(c, k)
    BY DEF Good
  <2>4. Elem(k, e) \in Cells
    BY <2>2, CellsOf
  <2>5. DOMAIN d = Cells /\ \A x \in Cells : d[x] = IF x = Elem(k, e) THEN v ELSE c[x]
    BY <2>3, <2>4
  <2>6. Indexes \subseteq Int
    BY KVAssumption DEF Indexes
  <2>7. ASSUME NEW i \in Indexes
        PROVE  /\ d[Elem(k, i)] \in Vals \cup {Absent}
               /\ d[Elem(k, i)] # Absent <=> i \in head .. tail - 1
    <3>1. Elem(k, i) \in Cells /\ (Elem(k, i) = Elem(k, e) <=> i = e)
      BY <2>2, <2>6, CellsOf, Names, SMTT(60)
    <3>2. c[Elem(k, i)] \in Vals \cup {Absent} /\ (c[Elem(k, i)] # Absent <=> i \in head .. tail - 1)
      BY ListOf
    <3>3. v \in Vals /\ v # Absent
      BY KVAssumption, CommandsAssumption
    <3> HIDE DEF e, d
    <3> QED  BY <1>2, <2>5, <3>1, <3>2, <3>3
  <2>8. d[LMeta(k)] = <<head, tail>> /\ d[Type(k)] = "list"
    <3>1. c[LMeta(k)] = <<head, tail>>
      <4>1. c[LMeta(k)] # Absent
        <5>1. SUFFICES ASSUME c[LMeta(k)] = Absent PROVE FALSE
          OBVIOUS
        <5>2. Meta(c, k) = <<0, 0>>
          BY <5>1 DEF Meta
        <5> QED  BY <1>2, <5>2
      <4>2. c[LMeta(k)] = Meta(c, k) /\ Meta(c, k) \in Int \X Int
        BY <4>1, <2>3 DEF Meta, Tidy
      <4> QED  BY <4>2
    <3>2. LMeta(k) # Elem(k, e) /\ Type(k) # Elem(k, e) /\ LMeta(k) \in Cells /\ Type(k) \in Cells
      BY <2>2, CellsOf, Distinct
    <3> HIDE DEF e, d
    <3> QED  BY <2>2, <2>5, <3>1, <3>2
  <2> HIDE DEF d, e
  <2>9. \A x \in Cells : \/ d[x] = c[x] \/ x \in {Type(k), LMeta(k)}
                         \/ \E i \in Indexes : x = Elem(k, i)
    BY <2>2, <2>5
  <2>10. Fits(d)
    BY <1>1, <1>2
  <2>12. ASSUME NEW j \in head .. tail - 1
         PROVE  d[Elem(k, j)] = IF j = e THEN v ELSE c[Elem(k, j)]
    <3>1. j \in Indexes /\ j \in Int
      BY <2>1, ListOf
    <3>2. Elem(k, j) \in Cells /\ (Elem(k, j) = Elem(k, e) <=> j = e)
      BY <2>2, <3>1, CellsOf, Names
    <3> QED  BY <2>5, <3>2
  <2>13. ASSUME Strict PROVE Altered(Value(c, k), ListIn(d, k, head, tail))
    <3> DEFINE x == Value(c, k)
               y == ListIn(d, k, head, tail)
    <3>1. x # Absent /\ x.type = "list" /\ x.data = Window(c, k, head, tail)
      BY <2>2, <2>13, ListShows
    <3>2. y.type = "list" /\ y.data = Window(d, k, head, tail) /\ y # Absent
      BY <2>13 DEF ListIn, Strict
    <3> HIDE DEF x, y, head, tail
    <3>3. PICK p \in 1 .. tail - head : e = head + p - 1
      <4>1. (e - head) + 1 \in 1 .. tail - head /\ e = head + ((e - head) + 1) - 1
        BY <1>2, <2>1, <2>2
      <4> QED  BY <4>1
    <3>4. /\ DOMAIN x.data = 1 .. tail - head
          /\ \A i \in 1 .. tail - head : x.data[i] = c[Elem(k, head + i - 1)]
      BY <2>1, <3>1, Windows
    <3>5. \A i \in 1 .. tail - head : d[Elem(k, head + i - 1)] = IF i = p THEN v ELSE x.data[i]
      <4>1. ASSUME NEW i \in 1 .. tail - head
            PROVE  d[Elem(k, head + i - 1)] = IF i = p THEN v ELSE x.data[i]
        <5>1. PICK j \in head .. tail - 1 : j = head + i - 1
          BY <2>1
        <5>2. j = e <=> i = p
          BY <2>1, <3>3, <5>1
        <5> QED  BY <2>12, <3>4, <5>1, <5>2
      <4> QED  BY <4>1
    <3>6. Window(d, k, head, tail) = [i \in 1 .. tail - head |-> IF i = p THEN v ELSE x.data[i]]
      BY <3>5 DEF Window
    <3>7. Window(c, k, head, tail) = [i \in 1 .. tail - head |-> x.data[i]]
      BY <3>4 DEF Window
    <3>8. y.data = [x.data EXCEPT ![p] = v]
      BY <3>1, <3>2, <3>4, <3>6, <3>7
    <3>9. p \in DOMAIN x.data /\ v \in Vals
      BY <3>4, CommandsAssumption
    <3>10. Replaced(x, y)
      BY <3>1, <3>2, <3>8, <3>9 DEF Replaced, Turns
    <3> QED  BY <3>10 DEF Altered, x, y
  <2>11. Moves(c, d)
    BY <2>1, <2>2, <2>5, <2>7, <2>8, <2>9, <2>10, <2>13, Listing
  <2> QED  BY <1>1, <1>2, <2>11
<1>3. CASE ~ (e \in head .. tail - 1)
  BY <1>1, <1>3, ReapMoves
<1> QED  BY <1>2, <1>3

\* Where a stretch of n elements begins and ends.
LEMMA Slicing ==
    ASSUME NEW n \in Nat, NEW start \in Int, NEW stop \in Int
    PROVE  Start(n, start) \in Nat /\ Stop(n, stop) \in Int /\ Stop(n, stop) <= n - 1
BY DEF Start, Stop

\* ltrim().
LEMMA TrimmedMoves ==
    ASSUME Apart, NEW c, Good(c), NEW k \in Keys, NEW lo \in Nat, NEW hi \in Int, lo <= hi,
           hi <= Meta(c, k)[2] - Meta(c, k)[1] - 1, Strict => ~ Expired(c, k),
           Fits(Trimmed(c, k, lo, hi))
    PROVE  Moves(c, Trimmed(c, k, lo, hi))
<1> DEFINE head == Meta(c, k)[1]
           tail == Meta(c, k)[2]
           X == {Elem(k, i) : i \in (head .. head + lo - 1) \cup (head + hi + 1 .. tail - 1)}
           b == Without(c, X)
<1>1. Trimmed(c, k, lo, hi) = Ranging(b, k, head + lo, head + hi + 1)
  BY DEF Trimmed
<1>2. head \in Int /\ tail \in Int /\ head < tail /\ c[Type(k)] = "list"
  BY ListOf
<1>3. DOMAIN b = Cells /\ \A x \in Cells : b[x] = IF x \in X THEN Absent ELSE c[x]
  BY DEF Without
<1>4. Indexes \subseteq Int
  BY KVAssumption DEF Indexes
<1>5. ASSUME NEW i \in Indexes
      PROVE  /\ b[Elem(k, i)] \in Vals \cup {Absent}
             /\ b[Elem(k, i)] # Absent <=> i \in head + lo .. (head + hi + 1) - 1
  <2>1. Elem(k, i) \in X <=> i \in (head .. head + lo - 1) \cup (head + hi + 1 .. tail - 1)
    <3>1. \A j \in (head .. head + lo - 1) \cup (head + hi + 1 .. tail - 1) :
             Elem(k, i) = Elem(k, j) => i = j
      BY <1>2, <1>4, Names
    <3> QED  BY <3>1
  <2>2. c[Elem(k, i)] \in Vals \cup {Absent} /\ (c[Elem(k, i)] # Absent <=> i \in head .. tail - 1)
    BY ListOf
  <2>3. i \in head + lo .. (head + hi + 1) - 1
          <=> i \in head .. tail - 1 /\ i \notin (head .. head + lo - 1) \cup (head + hi + 1 .. tail - 1)
    BY <1>2, <1>4
  <2>4. Elem(k, i) \in Cells
    BY CellsOf
  <2> HIDE DEF X, b
  <2> QED  BY <1>3, <2>1, <2>2, <2>3, <2>4
<1>6. ASSUME NEW x \in Cells, b[x] # c[x] PROVE \E i \in Indexes : x = Elem(k, i)
  <2>1. x \in X
    BY <1>3, <1>6
  <2>2. PICK i \in (head .. head + lo - 1) \cup (head + hi + 1 .. tail - 1) : x = Elem(k, i)
    BY <2>1
  <2>3. i \in Int
    BY <1>2
  <2> QED  BY <2>2, <2>3, CellElems
<1> HIDE DEF b, X
<1>7. \A x \in Cells : b[x] = c[x] \/ \E i \in Indexes : x = Elem(k, i)
  BY <1>6
<1>8. head + lo \in Int /\ head + hi + 1 \in Int /\ head + lo <= head + hi + 1
  BY <1>2
<1>9. PICK first \in Int, last \in Int : first = head + lo /\ last = head + hi + 1
  BY <1>8
<1>11. ASSUME NEW j \in first .. last - 1 PROVE b[Elem(k, j)] = c[Elem(k, j)]
  <2>1. /\ j \in head .. tail - 1 /\ j \in Int
        /\ j \notin (head .. head + lo - 1) \cup (head + hi + 1 .. tail - 1)
    BY <1>2, <1>9
  <2>2. Elem(k, j) \in Cells
    BY <2>1, ListOf, CellsOf
  <2>3. \A i \in (head .. head + lo - 1) \cup (head + hi + 1 .. tail - 1) : Elem(k, i) # Elem(k, j)
    <3>1. \A i \in (head .. head + lo - 1) \cup (head + hi + 1 .. tail - 1) : i \in Int
      BY <1>2
    <3> QED  BY <2>1, <3>1, Names, SMTT(60)
  <2>4. Elem(k, j) \notin X
    BY <2>3 DEF X
  <2> QED  BY <1>3, <2>2, <2>4
<1>12. ASSUME Strict PROVE Altered(Value(c, k), ListIn(b, k, first, last))
  <2> DEFINE v == Value(c, k)
             w == ListIn(b, k, first, last)
  <2>1. v # Absent /\ v.type = "list" /\ v.data = Window(c, k, head, tail)
    BY <1>2, <1>12, ListShows
  <2>2. w.type = "list" /\ w.data = Window(b, k, first, last) /\ w # Absent
    BY <1>12 DEF ListIn, Strict
  <2> HIDE DEF v, w
  <2>3. w.data = Window(c, k, first, last)
    BY <1>11, <2>2, WindowSame
  <2>4. PICK i \in Int, j \in Int : i = lo + 1 /\ j = hi + 1
    OBVIOUS
  <2>5. DOMAIN v.data = 1 .. tail - head
    BY <1>2, <2>1, Windows
  <2> HIDE DEF head, tail
  <2>6. 1 <= i /\ i <= j /\ j <= tail - head /\ head + i - 1 = first /\ head + j = last
    BY <1>2, <1>9, <2>4 DEF head, tail
  <2>7. SubSeq(Window(c, k, head, tail), i, j) = Window(c, k, first, last)
    <3>1. /\ head <= first /\ first <= last /\ last <= tail
          /\ i = (first - head) + 1 /\ j = last - head
      BY <1>2, <2>6
    <3>2. SubSeq(Window(c, k, head, tail), (first - head) + 1, last - head) = Window(c, k, first, last)
      BY <1>2, <3>1, WindowSub
    <3> QED  BY <3>1, <3>2
  <2>8. w.data = SubSeq(v.data, i, j) /\ i \in DOMAIN v.data /\ j \in DOMAIN v.data
    BY <1>2, <2>1, <2>3, <2>5, <2>6, <2>7
  <2>9. Shortened(v, w)
    BY <2>1, <2>2, <2>6, <2>8 DEF Shortened, Turns
  <2> QED  BY <2>9 DEF Altered, v, w
<1> HIDE DEF head, tail
<1>10. Moves(c, Ranging(b, k, first, last))
  BY <1>1, <1>2, <1>3, <1>5, <1>7, <1>8, <1>9, <1>12, RangingMoves
<1> QED  BY <1>1, <1>9, <1>10

LEMMA LTrimMoves ==
    ASSUME Apart, NEW c0, Good(c0), NEW k \in Keys, NEW start \in Int, NEW stop \in Int,
           Fits(LTrim(c0, k, start, stop).cells)
    PROVE  Moves(c0, LTrim(c0, k, start, stop).cells)
<1> DEFINE c == Reaped(c0, k)
           n == Meta(c, k)[2] - Meta(c, k)[1]
           lo == Start(n, start)
           hi == Stop(n, stop)
<1>1. LTrim(c0, k, start, stop).cells = Keeping(c, k, n, lo, hi)
  BY Results DEF LTrim
<1>2. Good(c)
  BY Reaps
<1>8. /\ Moves(c0, c) /\ \A d : Moves(c, d) => Moves(c0, d)
      /\ Strict => ~ Expired(c, k)
  BY ReapMoves
<1> HIDE DEF c
<1>3. n \in Nat
  BY <1>2, ListOf
<1>4. lo \in Nat /\ hi \in Int /\ hi <= n - 1
  BY <1>3, Slicing
<1> HIDE DEF lo, hi
<1>5. \/ Keeping(c, k, n, lo, hi) = c \/ Keeping(c, k, n, lo, hi) = Delete(c, {k}).cells
      \/ Keeping(c, k, n, lo, hi) = Trimmed(c, k, lo, hi) /\ lo <= hi
  BY <1>3, <1>4 DEF Keeping
<1>6. Moves(c, Delete(c, {k}).cells)
  <2>1. {k} \in SUBSET Keys
    OBVIOUS
  <2> QED  BY <1>2, <2>1, DeleteMoves
<1>7. ASSUME lo <= hi, Fits(Trimmed(c, k, lo, hi)) PROVE Moves(c, Trimmed(c, k, lo, hi))
  BY <1>2, <1>4, <1>7, <1>8, TrimmedMoves
<1> QED  BY <1>1, <1>5, <1>6, <1>7, <1>8

=============================================================================
