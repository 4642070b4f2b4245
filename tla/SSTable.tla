------------------------------ MODULE SSTable -------------------------------
(***************************************************************************)
(* One SSTable file (zenith/storage/sstable.py) with its Bloom filter      *)
(* (zenith/storage/bloom.py): the writer appends entries in key order,     *)
(* notes every so many of them in a sparse index and all of them in the    *)
(* filter, and puts index, filter, footer and trailer behind them.  The    *)
(* reader finds these from the end of the file, prunes by range and        *)
(* filter, and walks from an index entry.                                  *)
(*                                                                         *)
(* The file maps an offset to the record that starts there; what a record  *)
(* takes is counted in bytes, and a read at any other offset is garbage.   *)
(* Keys are numbers, ordered as the byte strings are, 0 the empty one.     *)
(* The two halves of a key's digest are any numbers below the filter's     *)
(* size, which is all that (h1 + i * h2) % m depends on.                   *)
(***************************************************************************)
EXTENDS Integers, Sequences, FiniteSetsExt

CONSTANTS
    KeyBytes, \* the keys, each with its length
    Written,  \* the keys that may be written
    ValBytes, \* values, the tombstone among them, each with its length
    Absent,   \* no such key; no bound of a scan
    Interval, \* index_interval, 16 in the code
    BitCount, \* bits the filter is asked for
    Octet,    \* bits of a byte of the filter, 8 in the code
    K         \* hashes per key

Keys == DOMAIN KeyBytes
Vals == DOMAIN ValBytes

ASSUME SSTableAssumption ==
    /\ Keys \subseteq Nat /\ 0 \in Keys
    /\ KeyBytes \in [Keys -> Nat] /\ KeyBytes[0] = 0
    /\ Written \subseteq Keys
    /\ ValBytes \in [Vals -> Nat] /\ Absent \notin Vals
    /\ {Interval, BitCount, Octet, K} \subseteq Nat \ {0}

VARIABLES
    digest,  \* key -> the two halves of its hash
    file,    \* offset -> the record that starts there
    end,     \* the size of the file so far
    written, \* the entries written, in order: _entry_count, _min_key, _max_key
    index,   \* _index_entries: a sequence of keys and offsets
    bits,    \* the bits set in the filter
    finished \* whether the file has been finished and renamed

vars == <<digest, file, end, written, index, bits, finished>>

HeaderSize == 5

\* Bytes for so many bits, and the bits in them.
Bytes(m) == (m + Octet - 1) \div Octet
Aligned(m) == Bytes(m) * Octet
M == Aligned(BitCount)

Init ==
    /\ digest \in [Keys -> (0 .. M - 1) \X (0 .. M - 1)]
    /\ file = [o \in {0} |-> [header |-> "ZSST"]] /\ end = HeaderSize
    /\ written = <<>> /\ index = <<>> /\ bits = {}
    /\ finished = FALSE

\* BloomFilter._hashes of a filter of m bits that hashes n times.
Hashes(k, m, n) == {(digest[k][1] + i * digest[k][2]) % m : i \in 0 .. n - 1}

-----------------------------------------------------------------------------
(* The writer *)

EntrySize(e) == 6 + KeyBytes[e.key] + ValBytes[e.val]

\* Mutant of Indexed: the offset is that of the entry before.
IndexedEarly(e) ==
    IF Len(written) % Interval = 0 THEN Append(index, [key |-> e.key, offset |-> end - EntrySize(e)]) ELSE index

\* The index with entry e noted if its turn has come.
Indexed(e) ==
    IF Len(written) % Interval = 0 THEN Append(index, [key |-> e.key, offset |-> end]) ELSE index

\* write_entry(): the callers write keys in ascending order.
WriteEntry(e) ==
    /\ ~ finished
    /\ \A i \in DOMAIN written : written[i].key < e.key
    /\ index' = Indexed(e)
    /\ bits' = bits \cup Hashes(e.key, M, K)
    /\ file' = [o \in DOMAIN file \cup {end} |-> IF o = end THEN e ELSE file[o]]
    /\ end' = end + EntrySize(e)
    /\ written' = Append(written, e)
    /\ UNCHANGED <<digest, finished>>

\* The size of the index block with the first n of its entries.
IndexSize[n \in 0 .. Len(index)] ==
    IF n = 0 THEN 4 ELSE IndexSize[n - 1] + 10 + KeyBytes[index[n].key]

FilterSize == 18 + M \div Octet
TrailerSize == 16
FooterSize(f) == 38 + KeyBytes[f.min] + 2 + KeyBytes[f.max]

Footer ==
    [index |-> end, filter |-> end + IndexSize[Len(index)], filterSize |-> FilterSize,
     count |-> Len(written), min |-> written[1].key, max |-> written[Len(written)].key]

\* finish(): a table without entries leaves no file.
Finish ==
    /\ ~ finished /\ written # <<>>
    /\ finished' = TRUE
    /\ LET at == Footer.filter + FilterSize
           trailer == at + FooterSize(Footer)
       IN  /\ file' = [o \in DOMAIN file \cup {Footer.index, Footer.filter, at, trailer} |->
                          CASE o = Footer.index  -> [index |-> index]
                            [] o = Footer.filter -> [m |-> M, k |-> K, bits |-> bits]
                            [] o = at            -> Footer
                            [] o = trailer       -> [footer |-> at]
                            [] OTHER             -> file[o]]
           /\ end' = trailer + TrailerSize
    /\ UNCHANGED <<digest, written, index, bits>>

Next ==
    \/ \E k \in Written, v \in Vals : WriteEntry([key |-> k, val |-> v])
    \/ Finish

Spec == Init /\ [][Next]_vars

-----------------------------------------------------------------------------
(* The reader *)

\* _load_metadata(): from the trailer to the footer, and from there to the rest.
Meta == file[file[end - TrailerSize].footer]
Loaded == file[Meta.index].index

\* BloomFilter.from_bytes: the size it is given is aligned again, and the bits
\* are those of the bytes that were read.
Filter ==
    LET f == file[Meta.filter]
    IN  [m |-> Aligned(f.m), k |-> f.k, bits |-> f.bits \cap 0 .. (Meta.filterSize - 18) * Octet - 1]

\* Mutant of MayContain: one hash more than add() sets.
MayContainMore(k) == Hashes(k, Filter.m, Filter.k + 1) \subseteq Filter.bits

\* BloomFilter.contains.
MayContain(k) == Hashes(k, Filter.m, Filter.k) \subseteq Filter.bits

\* The offset the sparse index gives to start from for k: bisect_right, less one.
WalkFrom(k) ==
    LET I == {i \in DOMAIN Loaded : Loaded[i].key <= k}
    IN  Loaded[IF I = {} THEN 1 ELSE Max(I)].offset

\* The offsets of the entries a walk meets, up to the index block.
From(start) == {o \in DOMAIN file : start <= o /\ o < Meta.index}

\* The first entry of the walk whose key is not below k.
Walk(k) ==
    LET O == {o \in From(WalkFrom(k)) : file[o].key >= k} IN IF O = {} THEN {} ELSE {Min(O)}

\* SSTableReader.get: "not self.min_key" holds of the empty key too.
Get(k) ==
    IF \/ Meta.min = 0 \/ k < Meta.min \/ k > Meta.max
       \/ ~ MayContain(k)
       \/ {o \in Walk(k) : file[o].key = k} = {}
    THEN Absent
    ELSE file[CHOOSE o \in Walk(k) : TRUE].val

\* Mutant of ScanTo: the end of the range is left out.
ScanToBefore(hi, k) == hi = Absent \/ k < hi

ScanTo(hi, k) == hi = Absent \/ k <= hi

\* SSTableReader.scan: from the index entry for lo, to the first key beyond hi,
\* and never more entries than the footer counts.
Scan(lo, hi) ==
    IF (lo # Absent /\ lo > Meta.max) \/ (hi # Absent /\ hi < Meta.min) THEN {}
    ELSE LET walk == From(IF lo = Absent THEN HeaderSize ELSE WalkFrom(lo))
             before(o) == {p \in walk : p <= o}
         IN  {file[o] : o \in {o \in walk :
                 /\ Cardinality(before(o)) <= Meta.count
                 /\ lo = Absent \/ file[o].key >= lo
                 /\ \A p \in before(o) : ScanTo(hi, file[p].key)}}

-----------------------------------------------------------------------------
(* Properties *)

\* Where the n-th entry starts, or what follows the entries.
StartOf[n \in 1 .. Len(written) + 1] ==
    IF n = 1 THEN HeaderSize ELSE StartOf[n - 1] + EntrySize(written[n - 1])

\* Records follow each other without gaps, the index names entries by their keys,
\* the first one first, and never skips more than Interval - 1 (sstable.py
\* write_entry, finish).
TypeOK ==
    /\ bits \subseteq 0 .. M - 1
    /\ ~ finished => end = StartOf[Len(written) + 1]
    /\ written # <<>> => index # <<>> /\ index[1].offset = HeaderSize
    /\ \A i \in DOMAIN index :
         /\ index[i].offset \in DOMAIN file
         /\ file[index[i].offset] = written[(i - 1) * Interval + 1]

\* What was written to a table.
Content(k) ==
    LET I == {i \in DOMAIN written : written[i].key = k}
    IN  IF I = {} THEN Absent ELSE written[CHOOSE i \in I : TRUE].val

\* get() finds every key of a finished table with its value and no other key,
\* whatever the range, the filter and the sparse index let it skip
\* (sstable.py get: "Retrieves value for key, or None if key is absent").
GetFinds == finished => \A k \in Keys : Get(k) = Content(k)

\* scan() yields the entries of its range, all of them and no others
\* (sstable.py scan: "Scans entries in range [start_key, end_key]").
ScanFinds ==
    finished =>
        \A lo, hi \in Keys \cup {Absent} :
            Scan(lo, hi) = {e \in {written[i] : i \in DOMAIN written} :
                               /\ lo = Absent \/ lo <= e.key
                               /\ hi = Absent \/ e.key <= hi}

=============================================================================
