--------------------------- MODULE SSTableProofs ----------------------------
(***************************************************************************)
(* Proofs about SSTable, for every set of keys and values, every interval  *)
(* of the index and every size of the filter.                              *)
(***************************************************************************)
EXTENDS SSTable, TLAPS, FiniteSetTheorems, WellFoundedInduction

-----------------------------------------------------------------------------
(* Numbers *)

\* A nonempty set of naturals has a least element.
LEMMA Least ==
    ASSUME NEW S \in SUBSET Nat, S # {}
    PROVE  \E m \in S : \A n \in S : m <= n
<1>1. IsWellFoundedOn(OpToRel(<, Nat), Nat)
  BY NatLessThanWellFounded
<1>2. PICK m \in S : \A n \in S : ~ (<<n, m>> \in OpToRel(<, Nat))
  BY <1>1, WFMin
<1>3. \A n \in S : m <= n
  <2> SUFFICES ASSUME NEW n \in S, ~ (m <= n)
               PROVE  FALSE
    OBVIOUS
  <2>1. n \in Nat /\ m \in Nat /\ n < m
    OBVIOUS
  <2> QED  BY <1>2, <2>1 DEF OpToRel
<1> QED  BY <1>3

\* Min is that element.
LEMMA MinIn ==
    ASSUME NEW S \in SUBSET Nat, S # {}
    PROVE  Min(S) \in S /\ \A n \in S : Min(S) <= n
BY Least DEF Min

\* A nonempty bounded set of naturals has a greatest element, which is Max.
LEMMA MaxIn ==
    ASSUME NEW b \in Nat, NEW S \in SUBSET (0 .. b), S # {}
    PROVE  Max(S) \in S /\ \A n \in S : n <= Max(S)
<1> DEFINE T == {b - x : x \in S}
<1>1. T \in SUBSET Nat /\ T # {}
  <2>1. \A x \in S : b - x \in Nat
    OBVIOUS
  <2> QED  BY <2>1
<1>2. PICK t \in T : \A u \in T : t <= u
  BY <1>1, Least
<1>3. PICK m \in S : t = b - m
  OBVIOUS
<1>4. \A n \in S : n <= m
  <2> SUFFICES ASSUME NEW n \in S
               PROVE  n <= m
    OBVIOUS
  <2>1. b - n \in T
    OBVIOUS
  <2>2. b - m <= b - n
    BY <1>2, <1>3, <2>1
  <2> QED  BY <2>2
<1>5. \A n \in S : m >= n
  BY <1>4
<1>6. Max(S) \in S /\ \A n \in S : Max(S) >= n
  BY <1>5 DEF Max
<1> QED  BY <1>6

\* The running sums of a sequence of numbers exist.
LEMMA Sums ==
    ASSUME NEW N \in Nat, NEW b \in Nat, NEW g \in [1 .. N -> Nat]
    PROVE  \E f \in [0 .. N -> Nat] : f[0] = b /\ \A n \in 1 .. N : f[n] = f[n - 1] + g[n]
<1> DEFINE Good(m) == \E f \in [0 .. m -> Nat] : f[0] = b /\ \A n \in 1 .. m : f[n] = f[n - 1] + g[n]
           S == {m \in 0 .. N : ~ Good(m)}
<1> SUFFICES S = {}
  <2>1. N \in 0 .. N
    OBVIOUS
  <2> QED  BY <2>1
<1> SUFFICES ASSUME S # {}
             PROVE  FALSE
  OBVIOUS
<1>1. S \in SUBSET Nat
  OBVIOUS
<1>2. PICK m \in S : \A n \in S : m <= n
  BY <1>1, Least
<1>3. m \in 0 .. N /\ ~ Good(m)
  OBVIOUS
<1>4. m # 0
  <2> SUFFICES Good(0)
    BY <1>3
  <2>1. [n \in 0 .. 0 |-> b] \in [0 .. 0 -> Nat] /\ [n \in 0 .. 0 |-> b][0] = b /\ 1 .. 0 = {}
    OBVIOUS
  <2> QED  BY <2>1
<1>5. Good(m - 1)
  <2>1. m - 1 \in 0 .. N /\ ~ (m <= m - 1)
    BY <1>3, <1>4
  <2>2. m - 1 \notin S
    BY <1>2, <2>1
  <2> QED  BY <2>1, <2>2
<1>6. PICK f \in [0 .. m - 1 -> Nat] : f[0] = b /\ \A n \in 1 .. m - 1 : f[n] = f[n - 1] + g[n]
  BY <1>5
<1> DEFINE h == [n \in 0 .. m |-> IF n < m THEN f[n] ELSE f[m - 1] + g[m]]
<1>7. g[m] \in Nat /\ f[m - 1] \in Nat
  BY <1>3, <1>4, <1>6
<1>8. h \in [0 .. m -> Nat] /\ h[0] = b
  BY <1>3, <1>4, <1>6, <1>7
<1>9. \A n \in 1 .. m : h[n] = h[n - 1] + g[n]
  BY <1>3, <1>4, <1>6, <1>7, SMTT(60)
<1> QED  BY <1>3, <1>8, <1>9

\* A multiple and what is left: as many as fit, and fewer than the divisor.
LEMMA Divided ==
    ASSUME NEW a \in Nat, NEW d \in Nat \ {0}
    PROVE  /\ a \div d \in Nat /\ a % d \in 0 .. d - 1
           /\ a = d * (a \div d) + (a % d)
OBVIOUS

\* Multiples of a number are ordered as the factors are.
LEMMA Times ==
    ASSUME NEW a \in Int, NEW b \in Int, NEW d \in Nat \ {0}
    PROVE  a * d < b * d => a < b
<1> SUFFICES ASSUME b <= a
             PROVE  b * d <= a * d
  OBVIOUS
<1>1. PICK c \in Nat : a = b + c
  <2>1. a - b \in Nat /\ a = b + (a - b)
    OBVIOUS
  <2> QED  BY <2>1
<1>2. a * d = b * d + c * d
  BY <1>1
<1>3. c * d \in Nat /\ b * d \in Int
  OBVIOUS
<1> QED  BY <1>2, <1>3

\* The size of the filter in bits is not changed by rounding it up again.
LEMMA AlignedTwice ==
    ASSUME NEW m \in Nat
    PROVE  Bytes(m) \in Nat /\ Aligned(m) \in Nat /\ Bytes(Aligned(m)) = Bytes(m)
<1>1. Octet \in Nat \ {0}
  BY SSTableAssumption
<1>2. Bytes(m) \in Nat
  BY <1>1, Divided DEF Bytes
<1>3. PICK q \in Nat : q = Bytes(m)
  BY <1>2
<1>4. Aligned(m) = q * Octet /\ q * Octet \in Nat
  BY <1>1, <1>3 DEF Aligned
<1>5. PICK a \in Nat : a = q * Octet + Octet - 1
  BY <1>1, <1>4
<1>6. PICK p \in Nat, r \in 0 .. Octet - 1 : p = a \div Octet /\ a = Octet * p + r
  BY <1>1, Divided
<1>7. q * Octet < (p + 1) * Octet /\ p * Octet < (q + 1) * Octet
  BY <1>1, <1>5, <1>6
<1>8. q < p + 1 /\ p < q + 1
  BY <1>1, <1>7, Times
<1>9. p = q
  BY <1>8
<1> QED  BY <1>3, <1>4, <1>5, <1>6, <1>9 DEF Bytes

-----------------------------------------------------------------------------
(* The layout of the file *)

Entry == [key : Written, val : Vals]

\* What is written is a sequence of entries.
WrittenType == written \in Seq(Entry)

LEMMA EntryBytes ==
    ASSUME NEW e \in Entry
    PROVE  e.key \in Nat /\ EntrySize(e) \in Nat /\ EntrySize(e) > 0
<1>1. e.key \in Keys /\ e.val \in Vals
  BY SSTableAssumption DEF Entry
<1>2. e.key \in Nat
  BY <1>1, SSTableAssumption
<1>3. KeyBytes[e.key] \in Nat /\ ValBytes[e.val] \in Nat
  BY <1>1, SSTableAssumption
<1> QED  BY <1>2, <1>3 DEF EntrySize

\* The entries start one after the other.
Laid ==
    /\ StartOf \in [1 .. Len(written) + 1 -> Nat]
    /\ StartOf[1] = HeaderSize
    /\ \A n \in DOMAIN written : StartOf[n + 1] = StartOf[n] + EntrySize(written[n])
    /\ \A n, m \in 1 .. Len(written) + 1 : n < m => StartOf[n] < StartOf[m]

LEMMA Starts == WrittenType => Laid
<1> SUFFICES ASSUME WrittenType
             PROVE  Laid
  OBVIOUS
<1> DEFINE L == Len(written)
           D == 1 .. L + 1
           sizes == [n \in 1 .. L |-> EntrySize(written[n])]
           Step(f) == [n \in D |-> IF n = 1 THEN HeaderSize ELSE f[n - 1] + EntrySize(written[n - 1])]
<1>1. L \in Nat /\ DOMAIN written = 1 .. L /\ \A n \in 1 .. L : written[n] \in Entry
  BY DEF WrittenType
<1>2. \A n \in 1 .. L : EntrySize(written[n]) \in Nat /\ EntrySize(written[n]) > 0
  BY <1>1, EntryBytes
<1>3. PICK f \in [0 .. L -> Nat] : f[0] = HeaderSize /\ \A n \in 1 .. L : f[n] = f[n - 1] + sizes[n]
  <2>1. L \in Nat /\ HeaderSize \in Nat /\ sizes \in [1 .. L -> Nat]
    BY <1>1, <1>2 DEF HeaderSize
  <2> HIDE DEF L, sizes
  <2> QED  BY <2>1, Sums
<1> DEFINE at == [n \in D |-> f[n - 1]]
<1>4. at = Step(at)
  <2> SUFFICES ASSUME NEW n \in D
               PROVE  at[n] = Step(at)[n]
    OBVIOUS
  <2>1. n \in Nat /\ n - 1 \in 0 .. L
    BY <1>1
  <2>2. CASE n = 1
    BY <1>3, <2>2
  <2>3. CASE n # 1
    <3>1. n - 1 \in 1 .. L /\ n - 1 \in D /\ n - 2 \in 0 .. L
      BY <1>1, <2>1, <2>3
    <3>2. f[n - 1] = f[n - 2] + EntrySize(written[n - 1])
      BY <1>3, <3>1
    <3>3. at[n] = f[n - 1] /\ at[n - 1] = f[n - 2]
      BY <3>1
    <3> QED  BY <2>3, <3>2, <3>3
  <2> QED  BY <2>2, <2>3
<1>5. StartOf = Step(StartOf)
  BY <1>4 DEF StartOf
<1>6. D = DOMAIN StartOf /\ StartOf[1] = HeaderSize
  BY <1>1, <1>5
<1>7. \A n \in 1 .. L : StartOf[n + 1] = StartOf[n] + EntrySize(written[n])
  <2> SUFFICES ASSUME NEW n \in 1 .. L
               PROVE  StartOf[n + 1] = StartOf[n] + EntrySize(written[n])
    OBVIOUS
  <2>1. n + 1 \in D /\ n + 1 # 1 /\ (n + 1) - 1 = n
    BY <1>1
  <2>2. Step(StartOf)[n + 1] = StartOf[n] + EntrySize(written[n])
    BY <2>1
  <2> HIDE DEF Step
  <2> QED  BY <1>5, <2>2
<1>8. \A n \in D : StartOf[n] \in Nat
  <2> DEFINE S == {n \in D : StartOf[n] \notin Nat}
  <2> SUFFICES ASSUME S # {}
               PROVE  FALSE
    OBVIOUS
  <2>1. S \in SUBSET Nat
    BY <1>1
  <2>2. PICK n \in S : \A i \in S : n <= i
    BY <2>1, Least
  <2>3. n # 1
    BY <1>6 DEF HeaderSize
  <2>4. PICK k \in 1 .. L : n = k + 1 /\ k \notin S
    <3>1. n - 1 \in 1 .. L /\ n - 1 \notin S /\ n = (n - 1) + 1
      BY <1>1, <2>2, <2>3
    <3> QED  BY <3>1
  <2>5. StartOf[k] \in Nat
    BY <1>1, <2>4
  <2>6. StartOf[k + 1] \in Nat
    BY <1>2, <1>7, <2>4, <2>5
  <2> QED  BY <2>4, <2>6
<1>9. \A n, m \in D : n < m => StartOf[n] < StartOf[m]
  <2> SUFFICES ASSUME NEW n \in D
               PROVE  {m \in D : n < m /\ ~ (StartOf[n] < StartOf[m])} = {}
    OBVIOUS
  <2> DEFINE S == {m \in D : n < m /\ ~ (StartOf[n] < StartOf[m])}
  <2> SUFFICES ASSUME S # {}
               PROVE  FALSE
    OBVIOUS
  <2>1. S \in SUBSET Nat
    BY <1>1
  <2>2. PICK m \in S : \A i \in S : m <= i
    BY <2>1, Least
  <2>3. m - 1 \in 1 .. L /\ m - 1 \notin S /\ n <= m - 1
    BY <1>1, <2>2
  <2>4. StartOf[(m - 1) + 1] = StartOf[m - 1] + EntrySize(written[m - 1])
    BY <1>7, <2>3
  <2>5. StartOf[n] <= StartOf[m - 1]
    BY <1>1, <1>8, <2>3
  <2>6. (m - 1) + 1 = m
    BY <1>1
  <2> QED  BY <1>2, <1>8, <2>3, <2>4, <2>5, <2>6, SMTT(60)
<1> QED  BY <1>1, <1>5, <1>6, <1>7, <1>8, <1>9 DEF Laid

LEMMA StartsNext == WrittenType' => Laid'
BY Starts, PTL

\* An entry more leaves the others where they are.
LEMMA StartsStay ==
    ASSUME WrittenType, NEW e \in Entry, written' = Append(written, e)
    PROVE  /\ WrittenType'
           /\ \A n \in 1 .. Len(written) + 1 : StartOf'[n] = StartOf[n]
           /\ StartOf'[Len(written) + 2] = StartOf[Len(written) + 1] + EntrySize(e)
<1> DEFINE L == Len(written)
<1>1. /\ WrittenType' /\ L \in Nat /\ Len(written') = L + 1 /\ written'[L + 1] = e
      /\ \A n \in 1 .. L : written'[n] = written[n]
  BY DEF WrittenType
<1>2. \A n \in 1 .. L + 1 : StartOf'[n] = StartOf[n]
  <2> DEFINE S == {n \in 1 .. L + 1 : StartOf'[n] # StartOf[n]}
  <2> SUFFICES ASSUME S # {}
               PROVE  FALSE
    OBVIOUS
  <2>1. S \in SUBSET Nat
    BY <1>1
  <2>2. PICK n \in S : \A i \in S : n <= i
    BY <2>1, Least
  <2>3. n # 1
    BY <1>1, Starts, StartsNext DEF Laid
  <2>4. n - 1 \in 1 .. L /\ n - 1 \notin S
    BY <1>1, <2>2, <2>3
  <2>5. StartOf'[n - 1] = StartOf[n - 1]
    BY <1>1, <2>4
  <2>6. n - 1 \in DOMAIN written /\ n - 1 \in DOMAIN written' /\ (n - 1) + 1 = n
    BY <1>1, <2>4 DEF WrittenType
  <2>7. /\ StartOf[(n - 1) + 1] = StartOf[n - 1] + EntrySize(written[n - 1])
        /\ StartOf'[(n - 1) + 1] = StartOf'[n - 1] + EntrySize(written'[n - 1])
    BY <1>1, <2>6, Starts, StartsNext DEF Laid
  <2> QED  BY <1>1, <2>2, <2>4, <2>5, <2>6, <2>7
<1>3. L + 1 \in DOMAIN written' /\ L + 1 \in 1 .. L + 1 /\ (L + 1) + 1 = L + 2
  BY <1>1 DEF WrittenType
<1>4. StartOf'[(L + 1) + 1] = StartOf'[L + 1] + EntrySize(e)
  BY <1>1, <1>3, StartsNext DEF Laid
<1> QED  BY <1>1, <1>2, <1>3, <1>4

-----------------------------------------------------------------------------
(* The invariant *)

\* The entry that the i-th of the index names.
Position(i) == (i - 1) * Interval + 1

DigestType == digest \in [Keys -> (0 .. M - 1) \X (0 .. M - 1)]

Ascending == \A i, j \in DOMAIN written : i < j => written[i].key < written[j].key

Pointer == [key : Written, offset : Nat]

\* As many of the index as there are first ones of Interval entries.
IndexLength ==
    /\ index \in Seq(Pointer)
    /\ (Len(index) - 1) * Interval < Len(written)
    /\ Len(written) <= Len(index) * Interval

Noted ==
    \A i \in DOMAIN index :
        /\ Position(i) \in DOMAIN written
        /\ index[i].key = written[Position(i)].key
        /\ index[i].offset = StartOf[Position(i)]

Marked ==
    /\ bits \subseteq 0 .. M - 1
    /\ \A i \in DOMAIN written : Hashes(written[i].key, M, K) \subseteq bits

Placed == \A i \in DOMAIN written : StartOf[i] \in DOMAIN file /\ file[StartOf[i]] = written[i]

\* Until the table is finished there is nothing but the entries.
Open ==
    ~ finished =>
        /\ end = StartOf[Len(written) + 1]
        /\ \A o \in DOMAIN file : o = 0 \/ \E i \in DOMAIN written : o = StartOf[i]

\* From the end of a finished file the reader finds what was put there.
Closed ==
    finished =>
        /\ written # <<>>
        /\ Meta.index = StartOf[Len(written) + 1]
        /\ Meta.min = written[1].key /\ Meta.max = written[Len(written)].key
        /\ Meta.count = Len(written)
        /\ Loaded = index
        /\ Filter.m = M /\ Filter.k = K /\ Filter.bits = bits
        /\ DOMAIN file \subseteq Nat
        /\ \A o \in DOMAIN file :
              HeaderSize <= o /\ o < Meta.index => \E i \in DOMAIN written : o = StartOf[i]

Inv ==
    /\ DigestType /\ WrittenType /\ Ascending /\ IndexLength /\ Noted
    /\ Marked /\ Placed /\ Open /\ Closed

LEMMA Sizes == Interval \in Nat \ {0} /\ K \in Nat \ {0} /\ Octet \in Nat \ {0} /\ M \in Nat \ {0}
<1>1. /\ Interval \in Nat \ {0} /\ K \in Nat \ {0} /\ Octet \in Nat \ {0}
      /\ BitCount \in Nat \ {0}
  BY SSTableAssumption
<1>2. Bytes(BitCount) \in Nat /\ M = Bytes(BitCount) * Octet
  BY <1>1, AlignedTwice DEF M, Aligned
<1>3. Bytes(BitCount) # 0
  <2> SUFFICES ASSUME Bytes(BitCount) = 0
               PROVE  FALSE
    OBVIOUS
  <2>1. PICK a \in Nat : a = BitCount + Octet - 1
    BY <1>1
  <2>2. a = Octet * (a \div Octet) + (a % Octet) /\ a % Octet \in 0 .. Octet - 1 /\ a \div Octet = 0
    BY <1>1, <2>1, Divided DEF Bytes
  <2> QED  BY <1>1, <2>1, <2>2
<1>4. PICK q \in Nat \ {0} : q = Bytes(BitCount)
  BY <1>2, <1>3
<1>5. q * Octet \in Nat \ {0}
  BY <1>1
<1> QED  BY <1>1, <1>2, <1>4, <1>5

\* A hash is a bit of the filter.
LEMMA HashesIn ==
    ASSUME DigestType, NEW k \in Keys
    PROVE  Hashes(k, M, K) \subseteq 0 .. M - 1
<1>1. K \in Nat \ {0} /\ M \in Nat \ {0}
  BY Sizes
<1>2. PICK a \in 0 .. M - 1, b \in 0 .. M - 1 : digest[k] = <<a, b>>
  BY DEF DigestType
<1> SUFFICES ASSUME NEW i \in 0 .. K - 1
             PROVE  (a + i * b) % M \in 0 .. M - 1
  BY <1>2 DEF Hashes
<1>3. i * b \in Nat
  BY <1>1
<1>4. PICK c \in Nat : c = a + i * b
  BY <1>1, <1>3
<1> QED  BY <1>1, <1>4, Divided

LEMMA InvInit == Init => Inv
<1> SUFFICES ASSUME Init
             PROVE  Inv
  OBVIOUS
<1>1. /\ DigestType /\ written = <<>> /\ index = <<>> /\ bits = {} /\ finished = FALSE
      /\ end = HeaderSize /\ file = [o \in {0} |-> [header |-> "ZSST"]]
  BY DEF Init, DigestType
<1>2. WrittenType /\ DOMAIN written = {} /\ Len(written) = 0 /\ DOMAIN index = {} /\ Len(index) = 0
  BY <1>1 DEF WrittenType
<1>3. IndexLength
  BY <1>1, <1>2, Sizes DEF IndexLength
<1>4. end = StartOf[Len(written) + 1]
  BY <1>1, <1>2, Starts DEF Laid
<1>5. DOMAIN file = {0}
  BY <1>1
<1>6. Open
  BY <1>4, <1>5 DEF Open
<1> QED  BY <1>1, <1>2, <1>3, <1>6 DEF Inv, Ascending, Noted, Marked, Placed, Closed

\* Writing an entry keeps the invariant.
LEMMA InvWrite ==
    ASSUME Inv, NEW e \in Entry, WriteEntry(e)
    PROVE  Inv'
<1> DEFINE L == Len(written)
<1>1. /\ ~ finished /\ finished' = finished /\ digest' = digest
      /\ \A i \in DOMAIN written : written[i].key < e.key
      /\ bits' = bits \cup Hashes(e.key, M, K)
      /\ file' = [o \in DOMAIN file \cup {end} |-> IF o = end THEN e ELSE file[o]]
      /\ end' = end + EntrySize(e)
      /\ written' = Append(written, e)
  BY DEF WriteEntry
<1>2. /\ DigestType /\ WrittenType /\ Ascending /\ IndexLength /\ Noted
      /\ Marked /\ Placed /\ Open
  BY DEF Inv
<1>3. /\ WrittenType' /\ L \in Nat /\ DOMAIN written = 1 .. L /\ DOMAIN written' = 1 .. L + 1
      /\ Len(written') = L + 1 /\ written'[L + 1] = e /\ \A i \in 1 .. L : written'[i] = written[i]
  BY <1>1, <1>2, StartsStay DEF WrittenType
<1>4. /\ \A n \in 1 .. L + 1 : StartOf'[n] = StartOf[n]
      /\ StartOf'[L + 2] = StartOf[L + 1] + EntrySize(e)
  BY <1>1, <1>2, StartsStay
<1>5. e.key \in Keys /\ e.key \in Written
  BY SSTableAssumption DEF Entry
<1>6. DigestType'
  BY <1>1, <1>2 DEF DigestType
<1>7. Ascending'
  BY <1>1, <1>2, <1>3 DEF Ascending
<1>8. IndexLength' /\ Noted'
  <2>1. /\ index \in Seq(Pointer) /\ Len(index) \in Nat
        /\ (Len(index) - 1) * Interval < L /\ L <= Len(index) * Interval
    BY <1>2 DEF IndexLength
  <2>2. PICK q \in Nat, r \in 0 .. Interval - 1 : r = L % Interval /\ L = Interval * q + r
    <3>1. L \in Nat /\ Interval \in Nat \ {0}
      BY <1>3, Sizes
    <3> HIDE DEF L
    <3> QED  BY <3>1, Divided
  <2>3. Interval \in Nat \ {0} /\ end \in Nat /\ end = StartOf[L + 1]
    BY <1>1, <1>2, <1>3, Starts, Sizes DEF Open, Laid
  <2>4. q * Interval \in Nat /\ L = q * Interval + r
    BY <2>2, <2>3
  <2>5. /\ (Len(index) - 1) * Interval \in Int /\ Len(index) * Interval \in Nat
        /\ Len(index) * Interval = (Len(index) - 1) * Interval + Interval
        /\ (Len(index) + 1) * Interval = Len(index) * Interval + Interval
    BY <2>1, <2>3
  <2>6. CASE r = 0
    <3>1. index' = Append(index, [key |-> e.key, offset |-> end])
      BY <2>2, <2>6 DEF WriteEntry, Indexed
    <3>2. q = Len(index)
      <4>1. (Len(index) - 1) * Interval < q * Interval
        BY <2>1, <2>4, <2>6
      <4>2. q * Interval < (Len(index) + 1) * Interval
        BY <2>1, <2>3, <2>4, <2>5, <2>6
      <4>3. Len(index) - 1 < q /\ q < Len(index) + 1
        BY <2>1, <2>3, <4>1, <4>2, Times
      <4> QED  BY <2>1, <4>3
    <3>3. Position(Len(index) + 1) = L + 1
      BY <2>1, <2>4, <2>6, <3>2 DEF Position
    <3>4. [key |-> e.key, offset |-> end] \in Pointer
      BY <1>5, <2>3 DEF Pointer
    <3>5. /\ index' \in Seq(Pointer) /\ Len(index') = Len(index) + 1
          /\ DOMAIN index = 1 .. Len(index) /\ DOMAIN index' = 1 .. Len(index) + 1
          /\ index'[Len(index) + 1] = [key |-> e.key, offset |-> end]
          /\ \A i \in 1 .. Len(index) : index'[i] = index[i]
      BY <2>1, <3>1, <3>4
    <3>6. IndexLength'
      <4>1. Len(index) * Interval = L
        BY <2>1, <2>3, <2>4, <2>6, <3>2
      <4>2. Len(index') - 1 = Len(index)
        BY <2>1, <3>5
      <4>3. (Len(index') - 1) * Interval = L
        BY <4>1, <4>2
      <4>4. Len(index') * Interval = L + Interval
        BY <2>5, <3>5, <4>1
      <4> QED  BY <1>3, <2>3, <3>5, <4>3, <4>4 DEF IndexLength
    <3>7. Noted'
      <4> SUFFICES ASSUME NEW i \in 1 .. Len(index) + 1
                   PROVE  /\ Position(i) \in 1 .. L + 1
                          /\ index'[i].key = written'[Position(i)].key
                          /\ index'[i].offset = StartOf'[Position(i)]
        BY <1>3, <3>5 DEF Noted, Position
      <4>1. CASE i = Len(index) + 1
        BY <1>3, <1>4, <2>3, <3>3, <3>5, <4>1
      <4>2. CASE i # Len(index) + 1
        <5>1. i \in DOMAIN index
          BY <2>1, <4>2
        <5>2. /\ Position(i) \in 1 .. L
              /\ index[i].key = written[Position(i)].key
              /\ index[i].offset = StartOf[Position(i)]
          BY <1>2, <1>3, <5>1 DEF Noted
        <5> QED  BY <1>3, <1>4, <3>5, <5>1, <5>2
      <4> QED  BY <4>1, <4>2
    <3> QED  BY <3>6, <3>7
  <2>7. CASE r # 0
    <3>1. index' = index
      BY <2>2, <2>7 DEF WriteEntry, Indexed
    <3>2. L # Len(index) * Interval
      <4> SUFFICES ASSUME L = Len(index) * Interval
                   PROVE  FALSE
        OBVIOUS
      <4>1. q * Interval < Len(index) * Interval
        BY <2>2, <2>4, <2>7
      <4>2. q < Len(index)
        BY <2>1, <2>3, <4>1, Times
      <4>3. Len(index) * Interval < (q + 1) * Interval
        BY <2>2, <2>3, <2>4, SMTT(60)
      <4>4. Len(index) < q + 1
        BY <2>1, <2>3, <4>3, Times
      <4> QED  BY <2>1, <4>2, <4>4
    <3>3. Len(index) * Interval \in Nat
      BY <2>1, <2>3
    <3>4. IndexLength'
      BY <1>3, <2>1, <2>5, <3>1, <3>2, <3>3 DEF IndexLength
    <3>5. Noted'
      BY <1>2, <1>3, <1>4, <3>1 DEF Noted, Position
    <3> QED  BY <3>4, <3>5
  <2> QED  BY <2>6, <2>7
<1>9. Marked'
  <2>1. \A k : Hashes(k, M, K)' = Hashes(k, M, K)
    BY <1>1 DEF Hashes
  <2>2. Hashes(e.key, M, K) \subseteq 0 .. M - 1
    BY <1>2, <1>5, HashesIn
  <2>3. \A i \in 1 .. L + 1 : Hashes(written'[i].key, M, K) \subseteq bits'
    BY <1>1, <1>2, <1>3 DEF Marked
  <2>4. \A i \in 1 .. L + 1 : Hashes(written[i].key, M, K)' \subseteq bits'
    BY <1>1, <2>3 DEF Hashes
  <2> QED  BY <1>1, <1>2, <1>3, <2>2, <2>4 DEF Marked
<1>10. Placed' /\ Open'
  <2>1. end = StartOf[L + 1] /\ \A o \in DOMAIN file : o = 0 \/ \E i \in DOMAIN written : o = StartOf[i]
    BY <1>1, <1>2 DEF Open
  <2>2. \A i \in 1 .. L : StartOf[i] # end
    BY <1>2, <1>3, <2>1, Starts DEF Laid
  <2>3. Placed'
    <3> SUFFICES ASSUME NEW i \in 1 .. L + 1
                 PROVE  StartOf'[i] \in DOMAIN file' /\ file'[StartOf'[i]] = written'[i]
      BY <1>3 DEF Placed
    <3>1. CASE i = L + 1
      BY <1>1, <1>3, <1>4, <2>1, <3>1
    <3>2. CASE i # L + 1
      BY <1>1, <1>2, <1>3, <1>4, <2>2, <3>2 DEF Placed
    <3> QED  BY <3>1, <3>2
  <2>4. end' = StartOf'[Len(written') + 1]
    BY <1>1, <1>3, <1>4, <2>1
  <2>5. \A o \in DOMAIN file' : o = 0 \/ \E i \in DOMAIN written' : o = StartOf'[i]
    BY <1>1, <1>3, <1>4, <2>1, SMTT(60)
  <2> QED  BY <2>3, <2>4, <2>5 DEF Open
<1>11. Closed'
  BY <1>1 DEF Closed
<1> QED  BY <1>3, <1>6, <1>7, <1>8, <1>9, <1>10, <1>11 DEF Inv

\* The sizes of the index block, entry by entry, are numbers.
LEMMA IndexSizes ==
    ASSUME IndexLength
    PROVE  IndexSize[Len(index)] \in Nat \ {0}
<1> DEFINE n == Len(index)
           D == 0 .. n
           size(i) == 10 + KeyBytes[index[i].key]
           g == [i \in 1 .. n |-> size(i)]
           Step(f) == [i \in D |-> IF i = 0 THEN 4 ELSE f[i - 1] + 10 + KeyBytes[index[i].key]]
<1>1. n \in Nat /\ \A i \in 1 .. n : index[i].key \in Written
  <2>1. n \in Nat /\ \A i \in 1 .. n : index[i] \in Pointer
    <3>1. index \in Seq(Pointer)
      BY DEF IndexLength
    <3> QED  BY <3>1
  <2> QED  BY <2>1 DEF Pointer
<1>2. \A i \in 1 .. n : KeyBytes[index[i].key] \in Nat
  BY <1>1, SSTableAssumption
<1>3. PICK f \in [D -> Nat] : f[0] = 4 /\ \A i \in 1 .. n : f[i] = f[i - 1] + g[i]
  <2>1. n \in Nat /\ g \in [1 .. n -> Nat]
    BY <1>1, <1>2
  <2>2. PICK b \in Nat : b = 4
    OBVIOUS
  <2> HIDE DEF n, g
  <2>3. \E f \in [0 .. n -> Nat] : f[0] = b /\ \A i \in 1 .. n : f[i] = f[i - 1] + g[i]
    BY <2>1, Sums
  <2> QED  BY <2>2, <2>3
<1>4. f = Step(f)
  <2> SUFFICES ASSUME NEW i \in D
               PROVE  f[i] = Step(f)[i]
    BY <1>3
  <2>1. CASE i = 0
    BY <1>3, <2>1
  <2>2. CASE i # 0
    <3>1. i \in 1 .. n /\ i - 1 \in D
      BY <1>1, <2>2
    <3>2. f[i] = f[i - 1] + size(i)
      BY <1>3, <3>1
    <3>3. f[i - 1] \in Nat /\ KeyBytes[index[i].key] \in Nat
      BY <1>2, <1>3, <3>1
    <3>4. f[i - 1] + (10 + KeyBytes[index[i].key]) = f[i - 1] + 10 + KeyBytes[index[i].key]
      <4>1. \A a, b \in Nat : a + (10 + b) = a + 10 + b
        BY ONLY SMT
      <4> QED  BY ONLY <3>3, <4>1, Zenon
    <3>5. f[i] = f[i - 1] + (10 + KeyBytes[index[i].key])
      BY <3>2
    <3>6. Step(f)[i] = f[i - 1] + 10 + KeyBytes[index[i].key]
      BY <2>2, <3>1
    <3> QED  BY <3>3, <3>4, <3>5, <3>6
  <2> QED  BY <2>1, <2>2
<1>5. IndexSize = Step(IndexSize)
  BY <1>4 DEF IndexSize
<1>6. IndexSize[0] = 4
  BY <1>1, <1>5
<1>7. \A i \in 1 .. n : IndexSize[i] = IndexSize[i - 1] + 10 + KeyBytes[index[i].key]
  <2> SUFFICES ASSUME NEW i \in 1 .. n
               PROVE  IndexSize[i] = IndexSize[i - 1] + 10 + KeyBytes[index[i].key]
    OBVIOUS
  <2>1. i \in D /\ i # 0
    BY <1>1
  <2>2. Step(IndexSize)[i] = IndexSize[i - 1] + 10 + KeyBytes[index[i].key]
    BY <2>1
  <2> HIDE DEF Step
  <2> QED  BY <1>5, <2>2
<1>8. {i \in D : IndexSize[i] \notin Nat \ {0}} = {}
  <2> DEFINE S == {i \in D : IndexSize[i] \notin Nat \ {0}}
  <2> SUFFICES ASSUME S # {}
               PROVE  FALSE
    OBVIOUS
  <2>1. S \in SUBSET Nat
    BY <1>1
  <2>2. PICK i \in S : \A j \in S : i <= j
    BY <2>1, Least
  <2>3. i # 0
    BY <1>6
  <2>4. i \in 1 .. n /\ i - 1 \in D /\ i - 1 \notin S
    BY <1>1, <2>2, <2>3
  <2>5. IndexSize[i - 1] \in Nat \ {0}
    BY <2>4
  <2>6. IndexSize[i] = IndexSize[i - 1] + 10 + KeyBytes[index[i].key] /\ KeyBytes[index[i].key] \in Nat
    BY <1>2, <1>7, <2>4
  <2>7. IndexSize[i] \in Nat \ {0}
    BY <2>5, <2>6, SMTT(60)
  <2> QED  BY <2>7
<1> QED  BY <1>1, <1>8

\* The bytes of the filter hold its bits.
LEMMA FilterBytes == M \div Octet \in Nat /\ (M \div Octet) * Octet = M
<1>1. BitCount \in Nat /\ Octet \in Nat \ {0} /\ M \in Nat
  BY SSTableAssumption, Sizes
<1>2. PICK q \in Nat : q = Bytes(BitCount) /\ M = q * Octet
  BY <1>1, AlignedTwice DEF M, Aligned
<1>3. PICK p \in Nat, r \in 0 .. Octet - 1 : p = M \div Octet /\ M = Octet * p + r
  BY <1>1, Divided
<1>4. q * Octet < (p + 1) * Octet /\ p * Octet <= q * Octet
  BY <1>1, <1>2, <1>3
<1>5. p * Octet < (q + 1) * Octet
  BY <1>1, <1>4
<1>6. q < p + 1 /\ p < q + 1
  BY <1>1, <1>4, <1>5, Times
<1> QED  BY <1>2, <1>3, <1>6

\* Finishing the table keeps the invariant.
LEMMA InvFinish ==
    ASSUME Inv, Finish
    PROVE  Inv'
<1> DEFINE L == Len(written)
           flt == Footer.filter
           at == flt + FilterSize
           trailer == at + FooterSize(Footer)
<1>1. /\ ~ finished /\ finished' /\ written # <<>>
      /\ UNCHANGED <<digest, written, index, bits>>
      /\ end' = trailer + TrailerSize
      /\ file' = [o \in DOMAIN file \cup {end, flt, at, trailer} |->
                     CASE o = end     -> [index |-> index]
                       [] o = flt     -> [m |-> M, k |-> K, bits |-> bits]
                       [] o = at      -> Footer
                       [] o = trailer -> [footer |-> at]
                       [] OTHER       -> file[o]]
  BY DEF Finish, Footer
<1>2. /\ DigestType /\ WrittenType /\ Ascending /\ IndexLength /\ Noted
      /\ Marked /\ Placed /\ Open
  BY DEF Inv
<1>3. L \in Nat \ {0} /\ DOMAIN written = 1 .. L /\ \A i \in 1 .. L : written[i] \in Entry
  BY <1>1, <1>2 DEF WrittenType
<1>4. StartOf' = StartOf
  BY <1>1 DEF StartOf
<1>5. /\ DigestType' /\ WrittenType' /\ Ascending' /\ IndexLength' /\ Noted' /\ Marked'
  <2>1. DigestType' /\ WrittenType' /\ Ascending' /\ IndexLength'
    BY <1>1, <1>2 DEF DigestType, WrittenType, Ascending, IndexLength
  <2>2. Noted'
    BY <1>1, <1>2, <1>4 DEF Noted, Position
  <2>3. Marked'
    BY <1>1, <1>2 DEF Marked, Hashes
  <2> QED  BY <2>1, <2>2, <2>3
<1>6. end \in Nat /\ end = StartOf[L + 1] /\ end # 0 /\ \A i \in 1 .. L : StartOf[i] < end /\ StartOf[i] \in Nat
  <2>1. end = StartOf[L + 1] /\ Laid
    BY <1>1, <1>2, Starts DEF Open
  <2>2. /\ L + 1 \in 1 .. L + 1 /\ 1 \in 1 .. L + 1 /\ 1 < L + 1
        /\ \A i \in 1 .. L : i \in 1 .. L + 1 /\ i < L + 1
    BY <1>3
  <2>3. /\ StartOf[L + 1] \in Nat /\ StartOf[1] \in Nat /\ StartOf[1] < StartOf[L + 1]
        /\ \A i \in 1 .. L : StartOf[i] \in Nat /\ StartOf[i] < StartOf[L + 1]
    BY <2>1, <2>2 DEF Laid
  <2> QED  BY <2>1, <2>3
<1>7. flt \in Nat /\ at \in Nat /\ trailer \in Nat /\ end < flt /\ flt < at /\ at < trailer
  <2>1. flt = end + IndexSize[Len(index)] /\ IndexSize[Len(index)] \in Nat \ {0}
    BY <1>2, IndexSizes DEF Footer
  <2>2. FilterSize \in Nat \ {0}
    BY FilterBytes DEF FilterSize
  <2>3. FooterSize(Footer) \in Nat \ {0}
    <3>1. Footer.min = written[1].key /\ Footer.max = written[L].key
      BY DEF Footer
    <3>2. 1 \in 1 .. L /\ L \in 1 .. L
      BY <1>3
    <3>3. written[1].key \in Written /\ written[L].key \in Written
      BY <1>3, <3>2 DEF Entry
    <3>4. KeyBytes[Footer.min] \in Nat /\ KeyBytes[Footer.max] \in Nat
      BY <3>1, <3>3, SSTableAssumption
    <3> QED  BY <3>4 DEF FooterSize
  <2> HIDE DEF flt
  <2>4. flt \in Nat /\ end < flt
    BY <1>6, <2>1
  <2>5. at \in Nat /\ flt < at
    BY <2>2, <2>4
  <2> HIDE DEF at
  <2>6. trailer \in Nat /\ at < trailer
    BY <2>3, <2>5
  <2> QED  BY <2>4, <2>5, <2>6
<1> HIDE DEF flt, at, trailer
<1>8. /\ file'[end] = [index |-> index] /\ file'[flt] = [m |-> M, k |-> K, bits |-> bits]
      /\ file'[at] = Footer /\ file'[trailer] = [footer |-> at]
      /\ DOMAIN file' = DOMAIN file \cup {end, flt, at, trailer}
      /\ \A o \in DOMAIN file : o < end => file'[o] = file[o]
  <2>1. end # flt /\ end # at /\ end # trailer /\ flt # at /\ flt # trailer /\ at # trailer
    BY <1>6, <1>7
  <2>2. \A o \in DOMAIN file : o < end => o # end /\ o # flt /\ o # at /\ o # trailer
    <3>1. \A o \in DOMAIN file : o \in Nat
      BY <1>1, <1>2, <1>3, <1>6 DEF Open
    <3> QED  BY <1>6, <1>7, <3>1
  <2> QED  BY <1>1, <2>1, <2>2
<1>9. Placed'
  BY <1>1, <1>2, <1>3, <1>4, <1>6, <1>8 DEF Placed
<1>10. Meta' = Footer
  <2>1. end' - TrailerSize = trailer
    BY <1>1, <1>7 DEF TrailerSize
  <2>2. TrailerSize' = TrailerSize
    BY DEF TrailerSize
  <2> QED  BY <1>8, <2>1, <2>2 DEF Meta
<1>11. Closed'
  <2>1. /\ Footer.index = end /\ Footer.filter = flt /\ Footer.min = written[1].key
        /\ Footer.max = written[L].key /\ Footer.count = L /\ Footer.filterSize = FilterSize
    BY DEF Footer, flt
  <2>2. Loaded' = index
    BY <1>8, <1>10, <2>1 DEF Loaded
  <2>3. Filter'.m = M /\ Filter'.k = K /\ Filter'.bits = bits
    <3>1. Aligned(M) = M
      BY Sizes, AlignedTwice, SSTableAssumption DEF M, Aligned
    <3>2. (FilterSize - 18) * Octet - 1 = M - 1
      <4>1. FilterSize - 18 = M \div Octet
        BY FilterBytes DEF FilterSize
      <4> QED  BY <4>1, FilterBytes
    <3>3. bits \subseteq 0 .. M - 1
      BY <1>2 DEF Marked
    <3>4. file'[Meta'.filter] = [m |-> M, k |-> K, bits |-> bits]
      BY <1>8, <1>10, <2>1
    <3>5. Meta'.filterSize = FilterSize
      BY <1>10, <2>1
    <3> QED  BY <3>1, <3>2, <3>3, <3>4, <3>5 DEF Filter
  <2>4. \A o \in DOMAIN file' : HeaderSize <= o /\ o < end => \E i \in DOMAIN written : o = StartOf[i]
    <3>1. \A o \in DOMAIN file' : o < end => o \in DOMAIN file
      BY <1>6, <1>7, <1>8
    <3> QED  BY <1>1, <1>2, <3>1 DEF Open, HeaderSize
  <2>5. DOMAIN file' \subseteq Nat
    <3>1. \A o \in DOMAIN file : o \in Nat
      BY <1>1, <1>2, <1>3, <1>6 DEF Open
    <3> QED  BY <1>6, <1>7, <1>8, <3>1
  <2> QED  BY <1>1, <1>4, <1>6, <1>10, <2>1, <2>2, <2>3, <2>4, <2>5 DEF Closed, HeaderSize
<1> QED  BY <1>1, <1>5, <1>9, <1>11 DEF Inv, Open

LEMMA InvStep == Inv /\ [Next]_vars => Inv'
<1> SUFFICES ASSUME Inv, [Next]_vars
             PROVE  Inv'
  OBVIOUS
<1>1. ASSUME NEW k \in Written, NEW v \in Vals, WriteEntry([key |-> k, val |-> v])
      PROVE  Inv'
  <2>1. [key |-> k, val |-> v] \in Entry
    BY DEF Entry
  <2> QED  BY <1>1, <2>1, InvWrite
<1>2. CASE Finish
  BY <1>2, InvFinish
<1>3. CASE UNCHANGED vars
  <2>1. /\ digest' = digest /\ file' = file /\ end' = end /\ written' = written /\ index' = index
        /\ bits' = bits /\ finished' = finished
    BY <1>3 DEF vars
  <2>2. StartOf' = StartOf /\ Meta' = Meta
    BY <2>1 DEF StartOf, Meta
  <2>3. Loaded' = Loaded /\ Filter' = Filter
    BY <2>1, <2>2 DEF Loaded, Filter
  <2>4. DigestType' /\ WrittenType' /\ Ascending' /\ IndexLength' /\ Marked'
    BY <2>1 DEF Inv, DigestType, WrittenType, Ascending, IndexLength, Marked, Hashes
  <2>5. Noted' /\ Placed' /\ Open'
    BY <2>1, <2>2 DEF Inv, Noted, Position, Placed, Open
  <2>6. Closed'
    BY <2>1, <2>2, <2>3 DEF Inv, Closed
  <2> QED  BY <2>4, <2>5, <2>6 DEF Inv
<1> QED  BY <1>1, <1>2, <1>3 DEF Next

\* A table is laid out the way its reader expects it at every step.
THEOREM Layout == Spec => []Inv
BY InvInit, InvStep, PTL DEF Spec

\* Records follow each other without gaps, and each index entry names the
\* record at its offset, Interval entries apart (sstable.py write_entry, finish).
THEOREM TypeCorrect == Spec => []TypeOK
<1>1. Inv => TypeOK
  <2> SUFFICES ASSUME Inv
               PROVE  TypeOK
    OBVIOUS
  <2>1. WrittenType /\ IndexLength /\ Noted /\ Marked /\ Placed /\ Open
    BY DEF Inv
  <2>2. /\ Len(index) \in Nat /\ DOMAIN index = 1 .. Len(index) /\ Len(written) \in Nat
        /\ (written # <<>> => Len(written) # 0)
    BY <2>1 DEF WrittenType, IndexLength
  <2>3. ASSUME written # <<>>
        PROVE  index # <<>> /\ index[1].offset = HeaderSize
    <3>1. Len(index) # 0
      <4> SUFFICES ASSUME Len(index) = 0
                   PROVE  FALSE
        OBVIOUS
      <4>1. Len(index) * Interval = 0
        BY Sizes
      <4> QED  BY <2>1, <2>2, <2>3, <4>1 DEF IndexLength
    <3>2. 1 \in DOMAIN index
      BY <2>2, <3>1
    <3>3. Position(1) = 1
      BY Sizes DEF Position
    <3>4. index[1].offset = StartOf[1] /\ StartOf[1] = HeaderSize
      BY <2>1, <3>2, <3>3, Starts DEF Noted, Laid
    <3> QED  BY <3>2, <3>4
  <2>4. \A i \in DOMAIN index :
           index[i].offset \in DOMAIN file /\ file[index[i].offset] = written[(i - 1) * Interval + 1]
    BY <2>1 DEF Noted, Placed, Position
  <2> QED  BY <2>1, <2>3, <2>4 DEF TypeOK, Marked, Open
<1> QED  BY <1>1, Layout, PTL

-----------------------------------------------------------------------------
(* The reader *)

\* What a reader of a finished table works with.
LEMMA Reading ==
    ASSUME Inv, finished
    PROVE  /\ Len(written) \in Nat \ {0} /\ DOMAIN written = 1 .. Len(written)
           /\ \A i \in 1 .. Len(written) : written[i].key \in Written /\ written[i].key \in Nat
           /\ \A i, j \in 1 .. Len(written) : i < j <=> written[i].key < written[j].key
           /\ \A i \in 1 .. Len(written) + 1 : StartOf[i] \in Nat
           /\ \A i, j \in 1 .. Len(written) + 1 : i < j <=> StartOf[i] < StartOf[j]
           /\ \A i \in 1 .. Len(written) : file[StartOf[i]] = written[i]
<1>1. WrittenType /\ Ascending /\ Placed /\ Closed
  BY DEF Inv
<1>2. Len(written) \in Nat \ {0} /\ DOMAIN written = 1 .. Len(written)
  BY <1>1 DEF WrittenType, Closed
<1>3. \A i \in 1 .. Len(written) : written[i] \in Entry
  BY <1>1, <1>2 DEF WrittenType
<1>4. \A i \in 1 .. Len(written) : written[i].key \in Written /\ written[i].key \in Nat
  BY <1>3, EntryBytes DEF Entry
<1>5. \A i, j \in 1 .. Len(written) : i < j <=> written[i].key < written[j].key
  <2> SUFFICES ASSUME NEW i \in 1 .. Len(written), NEW j \in 1 .. Len(written)
               PROVE  i < j <=> written[i].key < written[j].key
    OBVIOUS
  <2>1. /\ i < j => written[i].key < written[j].key
        /\ j < i => written[j].key < written[i].key
    BY <1>1, <1>2 DEF Ascending
  <2>2. i < j \/ i = j \/ j < i
    BY <1>2
  <2> QED  BY <1>2, <1>4, <2>1, <2>2
<1>6. \A i \in 1 .. Len(written) + 1 : StartOf[i] \in Nat
  BY <1>1, Starts DEF Laid
<1>7. \A i, j \in 1 .. Len(written) + 1 : i < j <=> StartOf[i] < StartOf[j]
  <2> SUFFICES ASSUME NEW i \in 1 .. Len(written) + 1, NEW j \in 1 .. Len(written) + 1
               PROVE  i < j <=> StartOf[i] < StartOf[j]
    OBVIOUS
  <2>1. /\ i < j => StartOf[i] < StartOf[j]
        /\ j < i => StartOf[j] < StartOf[i]
    BY <1>1, Starts DEF Laid
  <2>2. i < j \/ i = j \/ j < i
    BY <1>2
  <2> QED  BY <1>2, <1>6, <2>1, <2>2
<1> QED  BY <1>1, <1>2, <1>4, <1>5, <1>6, <1>7 DEF Placed

\* A walk meets the entries from where it starts.
LEMMA WalkMeets ==
    ASSUME Inv, finished, NEW s \in 1 .. Len(written)
    PROVE  From(StartOf[s]) = {StartOf[p] : p \in s .. Len(written)}
<1> DEFINE L == Len(written)
<1>1. L \in Nat \ {0} /\ DOMAIN written = 1 .. L /\ StartOf[1] = HeaderSize
  BY Reading, Starts DEF Inv, Laid
<1>2. /\ Meta.index = StartOf[L + 1]
      /\ \A o \in DOMAIN file : HeaderSize <= o /\ o < Meta.index => \E i \in 1 .. L : o = StartOf[i]
      /\ \A i \in 1 .. L : StartOf[i] \in DOMAIN file
  BY <1>1 DEF Inv, Closed, Placed
<1>3. ASSUME NEW p \in s .. L
      PROVE  StartOf[p] \in From(StartOf[s])
  <2>1. p \in 1 .. L /\ p \in 1 .. L + 1 /\ s \in 1 .. L + 1 /\ L + 1 \in 1 .. L + 1 /\ p < L + 1 /\ ~ (p < s)
    BY <1>1
  <2>2. StartOf[p] < StartOf[L + 1] /\ ~ (StartOf[p] < StartOf[s]) /\ StartOf[p] \in Nat /\ StartOf[s] \in Nat
    BY <2>1, Reading
  <2> QED  BY <1>2, <2>1, <2>2 DEF From
<1>4. ASSUME NEW o \in From(StartOf[s])
      PROVE  \E p \in s .. L : o = StartOf[p]
  <2>1. o \in DOMAIN file /\ StartOf[s] <= o /\ o < StartOf[L + 1]
    BY <1>2 DEF From
  <2>2. HeaderSize <= StartOf[s] /\ StartOf[s] \in Nat
    <3>1. s \in 1 .. L + 1 /\ 1 \in 1 .. L + 1 /\ ~ (s < 1)
      BY <1>1
    <3>2. StartOf[s] \in Nat /\ StartOf[1] \in Nat /\ ~ (StartOf[s] < StartOf[1])
      BY <3>1, Reading
    <3> QED  BY <1>1, <3>2
  <2>3. o \in Nat
    <3>1. DOMAIN file \subseteq Nat
      BY DEF Inv, Closed
    <3> QED  BY <2>1, <3>1
  <2>4. PICK p \in 1 .. L : o = StartOf[p]
    BY <1>1, <1>2, <2>1, <2>2, <2>3 DEF HeaderSize
  <2>5. ~ (p < s)
    <3>1. p \in 1 .. L + 1 /\ s \in 1 .. L + 1
      BY <1>1
    <3>2. p < s => StartOf[p] < StartOf[s]
      BY <3>1, Reading
    <3> QED  BY <2>1, <2>2, <2>3, <2>4, <3>2
  <2> QED  BY <1>1, <2>4, <2>5
<1> QED  BY <1>3, <1>4

\* The walk for a key starts at an entry, and skips only smaller keys.
LEMMA WalkStarts ==
    ASSUME Inv, finished, NEW k \in Nat
    PROVE  \E s \in 1 .. Len(written) :
              WalkFrom(k) = StartOf[s] /\ \A p \in 1 .. s - 1 : written[p].key < k
<1> DEFINE L == Len(written)
           n == Len(index)
           I == {i \in DOMAIN index : index[i].key <= k}
<1>1. L \in Nat \ {0} /\ DOMAIN written = 1 .. L
  BY Reading
<1>2. n \in Nat \ {0} /\ DOMAIN index = 1 .. n /\ Loaded = index
  <2>1. IndexLength /\ Loaded = index
    BY DEF Inv, Closed
  <2>2. n \in Nat /\ DOMAIN index = 1 .. n /\ L <= n * Interval
    BY <2>1 DEF IndexLength
  <2>3. n # 0
    <3> SUFFICES ASSUME n = 0
                 PROVE  FALSE
      OBVIOUS
    <3>1. n * Interval = 0
      BY Sizes
    <3> QED  BY <1>1, <2>2, <3>1
  <2> QED  BY <2>1, <2>2, <2>3
<1>3. \A i \in 1 .. n : /\ Position(i) \in 1 .. L /\ index[i].key = written[Position(i)].key
                        /\ index[i].offset = StartOf[Position(i)]
  BY <1>1, <1>2 DEF Inv, Noted
<1>4. CASE I = {}
  <2>1. WalkFrom(k) = index[1].offset /\ 1 \in 1 .. n
    BY <1>2, <1>4 DEF WalkFrom
  <2>2. Position(1) = 1
    BY Sizes DEF Position
  <2>3. WalkFrom(k) = StartOf[1] /\ 1 \in 1 .. L /\ 1 .. 1 - 1 = {}
    BY <1>3, <2>1, <2>2
  <2> QED  BY <2>3
<1>5. CASE I # {}
  <2>1. n \in Nat /\ I \in SUBSET (0 .. n)
    BY <1>2
  <2>2. Max(I) \in I
    BY <1>5, <2>1, MaxIn
  <2>3. PICK m \in 1 .. n : m = Max(I) /\ index[m].key <= k
    BY <1>2, <2>2
  <2>4. WalkFrom(k) = StartOf[Position(m)]
    BY <1>2, <1>3, <1>5, <2>3 DEF WalkFrom
  <2>5. PICK s \in 1 .. L : s = Position(m) /\ written[s].key <= k
    BY <1>3, <2>3
  <2>6. \A p \in 1 .. s - 1 : written[p].key < k
    <3> SUFFICES ASSUME NEW p \in 1 .. s - 1
                 PROVE  written[p].key < k
      OBVIOUS
    <3>1. p \in 1 .. L /\ p < s
      BY <1>1
    <3>2. written[p].key < written[s].key /\ written[p].key \in Nat /\ written[s].key \in Nat
      BY <3>1, Reading
    <3> QED  BY <2>5, <3>2, SMTT(60)
  <2> QED  BY <2>4, <2>5, <2>6
<1> QED  BY <1>4, <1>5

\* Every key that was written passes the filter, whatever the digests.
LEMMA NoFalseNegatives ==
    ASSUME Inv, finished, NEW i \in DOMAIN written
    PROVE  MayContain(written[i].key)
<1>1. Filter.m = M /\ Filter.k = K /\ Filter.bits = bits
  BY DEF Inv, Closed
<1>2. Hashes(written[i].key, M, K) \subseteq bits
  BY DEF Inv, Marked
<1> QED  BY <1>1, <1>2 DEF MayContain

\* get() finds every key of a finished table with its value and no other key,
\* whatever range, filter and sparse index skip, as long as nobody writes the
\* empty key, which get() takes for the missing min_key of an empty table
\* (sstable.py get).
THEOREM GetCorrect ==
    ASSUME 0 \notin Written
    PROVE  Spec => []GetFinds
<1>1. Inv => GetFinds
  <2> SUFFICES ASSUME Inv, finished, NEW k \in Keys
               PROVE  Get(k) = Content(k)
    BY DEF GetFinds
  <2> DEFINE L == Len(written)
             O == {o \in From(WalkFrom(k)) : file[o].key >= k}
  <2>1. k \in Nat
    BY SSTableAssumption
  <2>2. L \in Nat \ {0} /\ DOMAIN written = 1 .. L
    BY Reading
  <2>3. PICK s \in 1 .. L : WalkFrom(k) = StartOf[s] /\ \A p \in 1 .. s - 1 : written[p].key < k
    BY <2>1, WalkStarts
  <2>4. From(WalkFrom(k)) = {StartOf[p] : p \in s .. L}
    BY <2>3, WalkMeets
  <2>5. \A p \in s .. L : p \in 1 .. L /\ file[StartOf[p]] = written[p] /\ StartOf[p] \in Nat
    BY <2>2, Reading
  <2>6. O \subseteq {StartOf[p] : p \in s .. L} /\ O \in SUBSET Nat
    BY <2>4, <2>5
  <2>7. Walk(k) = IF O = {} THEN {} ELSE {Min(O)}
    BY DEF Walk
  <2>8. CASE \E i \in 1 .. L : written[i].key = k
    <3>1. PICK i \in 1 .. L : written[i].key = k
      BY <2>8
    <3>2. i \in s .. L
      BY <2>1, <2>2, <2>3, <3>1
    <3>3. StartOf[i] \in O
      BY <2>1, <2>4, <2>5, <3>1, <3>2
    <3>4. \A o \in O : StartOf[i] <= o
      <4> SUFFICES ASSUME NEW p \in s .. L, StartOf[p] \in O
                   PROVE  StartOf[i] <= StartOf[p]
        BY <2>6
      <4>1. p \in 1 .. L /\ p \in 1 .. L + 1 /\ i \in 1 .. L + 1
        BY <2>2, <2>5
      <4>2. written[p].key >= k /\ written[p].key \in Nat
        BY <2>5, <4>1, Reading
      <4>3. ~ (p < i)
        BY <2>1, <3>1, <4>1, <4>2, Reading
      <4>4. ~ (StartOf[p] < StartOf[i]) /\ StartOf[p] \in Nat /\ StartOf[i] \in Nat
        BY <4>1, <4>3, Reading
      <4> QED  BY <4>4
    <3>5. Min(O) = StartOf[i]
      <4>1. Min(O) \in O /\ \A o \in O : Min(O) <= o
        BY <2>6, <3>3, MinIn
      <4>2. Min(O) <= StartOf[i] /\ StartOf[i] <= Min(O) /\ Min(O) \in Nat /\ StartOf[i] \in Nat
        BY <2>6, <3>3, <3>4, <4>1
      <4> QED  BY <4>2
    <3>6. Walk(k) = {StartOf[i]} /\ file[StartOf[i]] = written[i]
      BY <2>5, <2>7, <3>2, <3>3, <3>5
    <3>7. ~ (Meta.min = 0 \/ k < Meta.min \/ k > Meta.max)
      <4>1. Meta.min = written[1].key /\ Meta.max = written[L].key
        BY DEF Inv, Closed
      <4>2. 1 \in 1 .. L /\ L \in 1 .. L /\ ~ (i < 1) /\ ~ (L < i)
        BY <2>2
      <4>3. /\ written[1].key \in Written /\ written[1].key \in Nat /\ written[L].key \in Nat
            /\ ~ (k < written[1].key) /\ ~ (written[L].key < k)
        BY <3>1, <4>2, Reading
      <4> QED  BY <2>1, <4>1, <4>3
    <3>8. MayContain(k)
      BY <2>2, <3>1, NoFalseNegatives
    <3>9. Get(k) = written[i].val
      BY <3>1, <3>6, <3>7, <3>8 DEF Get
    <3>10. {j \in DOMAIN written : written[j].key = k} = {i}
      <4> SUFFICES ASSUME NEW j \in 1 .. L, written[j].key = k
                   PROVE  j = i
        BY <2>2, <3>1
      <4>1. ~ (i < j) /\ ~ (j < i)
        BY <2>1, <3>1, Reading
      <4> QED  BY <2>2, <4>1
    <3>11. Content(k) = written[i].val
      BY <3>10 DEF Content
    <3> QED  BY <3>9, <3>11
  <2>9. CASE \A i \in 1 .. L : written[i].key # k
    <3>1. Walk(k) \subseteq O
      BY <2>6, <2>7, MinIn
    <3>2. {o \in Walk(k) : file[o].key = k} = {}
      BY <2>5, <2>6, <2>9, <3>1
    <3>3. Get(k) = Absent
      BY <3>2 DEF Get
    <3>4. {j \in DOMAIN written : written[j].key = k} = {}
      BY <2>2, <2>9
    <3>5. Content(k) = Absent
      BY <3>4 DEF Content
    <3> QED  BY <3>3, <3>5
  <2> QED  BY <2>8, <2>9
<1> QED  BY <1>1, Layout, PTL

\* A walk meets no more entries than the footer counts.
LEMMA CountEnough ==
    ASSUME Inv, finished, NEW T \in SUBSET {StartOf[p] : p \in 1 .. Len(written)}
    PROVE  Cardinality(T) <= Meta.count
<1> DEFINE L == Len(written)
           all == {StartOf[p] : p \in 1 .. L}
           f == [p \in 1 .. L |-> StartOf[p]]
<1>1. L \in Nat /\ Meta.count = L
  BY Reading DEF Inv, Closed
<1>2. IsFiniteSet(1 .. L) /\ Cardinality(1 .. L) = L
  <2>1. 1 \in Int /\ L \in Int /\ (IF 1 > L THEN 0 ELSE L - 1 + 1) = L
    BY <1>1
  <2> HIDE DEF L
  <2> QED  BY <2>1, FS_Interval
<1>3. f \in Surjection(1 .. L, all)
  BY DEF Surjection
<1>4. IsFiniteSet(all) /\ Cardinality(all) <= L
  <2> HIDE DEF f, all
  <2> QED  BY <1>2, <1>3, FS_Surjection
<1>5. Cardinality(T) <= Cardinality(all) /\ Cardinality(T) \in Nat /\ Cardinality(all) \in Nat
  <2> HIDE DEF all
  <2>1. T \in SUBSET all
    BY DEF all
  <2>2. IsFiniteSet(T) /\ Cardinality(T) <= Cardinality(all)
    BY <1>4, <2>1, FS_Subset
  <2> QED  BY <1>4, <2>2, FS_CardinalityType
<1> QED  BY <1>1, <1>4, <1>5

\* scan() yields the entries of its range, all of them and no others, from
\* wherever the sparse index lets it start (sstable.py scan, iter_all).
THEOREM ScanCorrect == Spec => []ScanFinds
<1>1. Inv => ScanFinds
  <2> SUFFICES ASSUME Inv, finished, NEW lo \in Keys \cup {Absent}, NEW hi \in Keys \cup {Absent}
               PROVE  Scan(lo, hi) = {e \in {written[i] : i \in DOMAIN written} :
                                         /\ lo = Absent \/ lo <= e.key
                                         /\ hi = Absent \/ e.key <= hi}
    BY DEF ScanFinds
  <2> DEFINE L == Len(written)
             InRange(e) == (lo = Absent \/ lo <= e.key) /\ (hi = Absent \/ e.key <= hi)
             start == IF lo = Absent THEN HeaderSize ELSE WalkFrom(lo)
             walk == From(start)
             before(o) == {p \in walk : p <= o}
             Yielded(o) == /\ Cardinality(before(o)) <= Meta.count
                           /\ lo = Absent \/ file[o].key >= lo
                           /\ \A p \in before(o) : ScanTo(hi, file[p].key)
  <2>1. /\ lo = Absent \/ lo \in Nat
        /\ hi = Absent \/ hi \in Nat
    BY SSTableAssumption
  <2>2. L \in Nat \ {0} /\ DOMAIN written = 1 .. L /\ \A i \in 1 .. L : written[i].key \in Nat
    BY Reading
  <2>3. Meta.min = written[1].key /\ Meta.max = written[L].key
    BY DEF Inv, Closed
  <2>4. \A i \in 1 .. L : written[1].key <= written[i].key /\ written[i].key <= written[L].key
    <3> SUFFICES ASSUME NEW i \in 1 .. L
                 PROVE  written[1].key <= written[i].key /\ written[i].key <= written[L].key
      OBVIOUS
    <3>1. 1 \in 1 .. L /\ L \in 1 .. L /\ ~ (i < 1) /\ ~ (L < i)
      BY <2>2
    <3>2. ~ (written[i].key < written[1].key) /\ ~ (written[L].key < written[i].key)
      BY <3>1, Reading
    <3> QED  BY <2>2, <3>1, <3>2
  <2>5. PICK s \in 1 .. L : start = StartOf[s] /\ \A p \in 1 .. s - 1 : lo # Absent /\ written[p].key < lo
    <3>1. CASE lo = Absent
      <4>1. StartOf[1] = HeaderSize /\ 1 \in 1 .. L /\ 1 .. 1 - 1 = {}
        BY <2>2, Starts DEF Inv, Laid
      <4> QED  BY <3>1, <4>1
    <3>2. CASE lo # Absent
      BY <2>1, <3>2, WalkStarts
    <3> QED  BY <3>1, <3>2
  <2>6. walk = {StartOf[p] : p \in s .. L}
    BY <2>5, WalkMeets
  <2>7. \A p \in s .. L : p \in 1 .. L /\ file[StartOf[p]] = written[p] /\ StartOf[p] \in Nat
    BY <2>2, Reading
  <2>8. \A p \in s .. L : before(StartOf[p]) = {StartOf[q] : q \in s .. p}
    <3> SUFFICES ASSUME NEW p \in s .. L
                 PROVE  before(StartOf[p]) = {StartOf[q] : q \in s .. p}
      OBVIOUS
    <3>1. \A q \in s .. L : q <= p <=> StartOf[q] <= StartOf[p]
      <4> SUFFICES ASSUME NEW q \in s .. L
                   PROVE  q <= p <=> StartOf[q] <= StartOf[p]
        OBVIOUS
      <4>1. p \in 1 .. L + 1 /\ q \in 1 .. L + 1
        BY <2>2
      <4>2. p < q <=> StartOf[p] < StartOf[q]
        BY <4>1, Reading
      <4> QED  BY <2>2, <2>7, <4>2
    <3>2. \A q : q \in s .. p <=> q \in s .. L /\ q <= p
      BY <2>2
    <3> HIDE DEF walk
    <3> QED  BY <2>6, <3>1, <3>2
  <2>9. \A p \in s .. L : Yielded(StartOf[p]) <=> InRange(written[p])
    <3> SUFFICES ASSUME NEW p \in s .. L
                 PROVE  Yielded(StartOf[p]) <=> InRange(written[p])
      OBVIOUS
    <3>1. Cardinality(before(StartOf[p])) <= Meta.count
      <4>1. before(StartOf[p]) \in SUBSET {StartOf[q] : q \in 1 .. L}
        BY <2>2, <2>6
      <4> HIDE DEF before
      <4> QED  BY <4>1, CountEnough
    <3>2. file[StartOf[p]].key >= lo <=> lo <= written[p].key
      BY <2>7
    <3>3. (\A o \in before(StartOf[p]) : ScanTo(hi, file[o].key)) <=> hi = Absent \/ written[p].key <= hi
      <4>1. \A q \in s .. p : q \in s .. L /\ q \in 1 .. L /\ p \in 1 .. L /\ ~ (p < q)
        BY <2>2
      <4>2. \A q \in s .. p : written[q].key <= written[p].key
        BY <2>2, <4>1, Reading
      <4>3. p \in s .. p
        BY <2>2
      <4>4. (\A o \in before(StartOf[p]) : ScanTo(hi, file[o].key))
               <=> \A q \in s .. p : hi = Absent \/ written[q].key <= hi
        <5> HIDE DEF before
        <5>1. before(StartOf[p]) = {StartOf[q] : q \in s .. p}
          BY <2>8
        <5>2. \A q \in s .. p : file[StartOf[q]] = written[q]
          BY <2>7, <4>1
        <5> QED  BY <5>1, <5>2 DEF ScanTo
      <4> QED  BY <2>1, <2>2, <4>1, <4>2, <4>3, <4>4
    <3> QED  BY <3>1, <3>2, <3>3
  <2>10. {file[o] : o \in {o \in walk : Yielded(o)}} = {e \in {written[i] : i \in DOMAIN written} : InRange(e)}
    <3> HIDE DEF Yielded, walk
    <3>1. ASSUME NEW o \in walk, Yielded(o)
          PROVE  \E i \in 1 .. L : file[o] = written[i] /\ InRange(written[i])
      <4>1. PICK p \in s .. L : o = StartOf[p]
        BY <2>6, <3>1
      <4> QED  BY <2>7, <2>9, <3>1, <4>1
    <3>2. ASSUME NEW i \in 1 .. L, InRange(written[i])
          PROVE  \E o \in walk : Yielded(o) /\ file[o] = written[i]
      <4>1. ~ (i \in 1 .. s - 1)
        BY <2>1, <2>2, <2>5, <3>2
      <4>2. i \in s .. L
        BY <2>2, <4>1
      <4> QED  BY <2>6, <2>7, <2>9, <3>2, <4>2
    <3>3. ASSUME NEW e, e \in {file[o] : o \in {o \in walk : Yielded(o)}}
          PROVE  e \in {f \in {written[i] : i \in DOMAIN written} : InRange(f)}
      <4> HIDE DEF InRange
      <4>1. PICK o \in walk : Yielded(o) /\ e = file[o]
        BY <3>3
      <4>2. PICK i \in 1 .. L : e = written[i] /\ InRange(written[i])
        BY <3>1, <4>1
      <4> QED  BY <2>2, <4>2
    <3>4. ASSUME NEW e, e \in {f \in {written[i] : i \in DOMAIN written} : InRange(f)}
          PROVE  e \in {file[o] : o \in {o \in walk : Yielded(o)}}
      <4> HIDE DEF InRange
      <4>1. PICK i \in 1 .. L : e = written[i] /\ InRange(written[i])
        BY <2>2, <3>4
      <4>2. PICK o \in walk : Yielded(o) /\ file[o] = written[i]
        BY <3>2, <4>1
      <4> QED  BY <4>1, <4>2
    <3> HIDE DEF InRange
    <3> QED  BY <3>3, <3>4
  <2>11. CASE (lo # Absent /\ lo > Meta.max) \/ (hi # Absent /\ hi < Meta.min)
    <3>1. Scan(lo, hi) = {}
      BY <2>11 DEF Scan
    <3>2. \A i \in 1 .. L : ~ InRange(written[i])
      BY <2>1, <2>2, <2>3, <2>4, <2>11
    <3> QED  BY <2>2, <3>1, <3>2
  <2>12. CASE ~ ((lo # Absent /\ lo > Meta.max) \/ (hi # Absent /\ hi < Meta.min))
    <3>1. Scan(lo, hi) = {file[o] : o \in {o \in walk : Yielded(o)}}
      BY <2>12 DEF Scan
    <3> QED  BY <2>10, <3>1
  <2> QED  BY <2>11, <2>12
<1> QED  BY <1>1, Layout, PTL

=============================================================================
