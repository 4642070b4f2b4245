------------------------------ MODULE DocStore ------------------------------
(***************************************************************************)
(* The document store (zenith/engine/doc.py): documents and the entries of *)
(* secondary indexes, cells of the LSM tree written one call at a time.    *)
(*                                                                         *)
(* Which fields are indexed is known to the process alone: a restart       *)
(* forgets it, and the application has to call create_index() again.  A    *)
(* call of the tree is a step; threads of the process interleave between   *)
(* any two, and a crash may come there.                                    *)
(*                                                                         *)
(* This is one collection, and names have no colons: the keys of two       *)
(* collections or fields with colons in their names may be the same.       *)
(***************************************************************************)
EXTENDS Integers, FiniteSets, TLC

LOCAL INSTANCE SequencesExt

CONSTANTS
    Threads, \* the threads of the application
    Ids,     \* document ids of one collection
    Fields,  \* field paths
    Vals,    \* values of fields
    Absent,  \* no document; a document without the field
    Careful, \* does the application index every field before it writes
    Exclusive \* does it keep calls for one document, and create_index(), apart

VARIABLES
    docs,    \* __DOC__ cells: id -> document, or Absent
    index,   \* __DIDX__ cells: the set of <<field, value, id>>
    indexed, \* _indexes: the indexed fields this process knows
    call     \* thread -> the step its call is at, and what it works on

vars == <<docs, index, indexed, call>>

\* get_nested_field() of each path; None where a document has nothing there.
Docs == [Fields -> Vals \cup {Absent}]

\* An entry is its key: JSON ends where it ends, so keys tell entries apart.
Entries == Fields \X Vals \X Ids

Resting == [at |-> "idle", id |-> Absent, doc |-> Absent, todo |-> {}]
Free(t) == call[t].at = "idle"
Idle == \A t \in Threads : Free(t)

\* The entries that documents d, a function from some of the ids, should have
\* for the fields F.
EntriesOf(F, d) ==
    {e \in F \X Vals \X DOMAIN d : d[e[3]] # Absent /\ d[e[3]][e[1]] = e[2]}

\* Document id alone, doc.
Only(id, doc) == [i \in {id} |-> doc]

\* A document with the fields of a patch over its own.
Patched(doc, patch) == [f \in Fields |-> IF f \in DOMAIN patch THEN patch[f] ELSE doc[f]]

Init ==
    /\ docs = [id \in Ids |-> Absent]
    /\ index = {} /\ indexed = {}
    /\ call = [t \in Threads |-> Resting]

Goto(t, step) == call' = [call EXCEPT ![t] = step]

\* A call for document id may begin.
May(t, id) ==
    /\ Free(t)
    /\ Careful => indexed = Fields
    /\ Exclusive => \A u \in Threads : Free(u) \/ call[u].id \notin {id, Absent}

\* insert(), before it has read anything.
Insert(t, id, doc) ==
    /\ May(t, id)
    /\ Goto(t, [at |-> "read", id |-> id, doc |-> doc, todo |-> {}])
    /\ UNCHANGED <<docs, index, indexed>>

\* update() reads the document, patches it and calls insert().
Update(t, id, patch) ==
    /\ docs[id] # Absent
    /\ Insert(t, id, Patched(docs[id], patch))

\* delete() of a document that exists.
Delete(t, id) ==
    /\ May(t, id)
    /\ docs[id] # Absent
    /\ Goto(t, [at |-> "unindex", id |-> id, doc |-> Absent,
                todo |-> EntriesOf(indexed, Only(id, docs[id]))])
    /\ UNCHANGED <<docs, index, indexed>>

\* Mutant of ReadOld: the old document is not looked for.
ReadOldSkipped(t) ==
    /\ call[t].at = "read"
    /\ Goto(t, [call[t] EXCEPT !.at = "unindex"])
    /\ UNCHANGED <<docs, index, indexed>>

\* insert() reads the old document, whose entries are to go.
ReadOld(t) ==
    /\ call[t].at = "read"
    /\ LET id == call[t].id IN
         Goto(t, [call[t] EXCEPT !.at = "unindex", !.todo = EntriesOf(indexed, Only(id, docs[id]))])
    /\ UNCHANGED <<docs, index, indexed>>

\* _unindex_doc() deletes one entry.
Unindex(t) ==
    /\ call[t].at = "unindex"
    /\ \E e \in call[t].todo :
         /\ index' = index \ {e}
         /\ Goto(t, [call[t] EXCEPT !.todo = @ \ {e}])
    /\ UNCHANGED <<docs, indexed>>

\* The call of t has the entries E still to write, or returns.
Writing(t, E) ==
    Goto(t, IF E = {} THEN Resting ELSE [call[t] EXCEPT !.at = "index", !.todo = E])

\* The document is put or deleted.
Put(t) ==
    /\ call[t].at = "unindex" /\ call[t].todo = {}
    /\ LET id == call[t].id IN
         /\ docs' = [docs EXCEPT ![id] = call[t].doc]
         /\ Writing(t, EntriesOf(indexed, Only(id, call[t].doc)))
    /\ UNCHANGED <<index, indexed>>

\* _index_doc() or create_index() puts one entry.
Index(t) ==
    /\ call[t].at = "index"
    /\ \E e \in call[t].todo :
         /\ index' = index \cup {e}
         /\ Writing(t, call[t].todo \ {e})
    /\ UNCHANGED <<docs, indexed>>

\* create_index() may begin.
MayIndex(t) == Free(t) /\ (Exclusive => Idle)

\* Mutant of CreateIndex: the documents there are stay without entries.
CreateIndexLate(t, f) ==
    /\ MayIndex(t)
    /\ indexed' = indexed \cup {f}
    /\ UNCHANGED <<docs, index, call>>

\* create_index() notes the field and scans the documents.
CreateIndex(t, f) ==
    /\ MayIndex(t)
    /\ indexed' = indexed \cup {f}
    /\ Writing(t, EntriesOf({f}, docs))
    /\ UNCHANGED <<docs, index>>

\* The process stops, and comes up without its indexes.
Stop ==
    /\ indexed' = {}
    /\ call' = [t \in Threads |-> Resting]
    /\ UNCHANGED <<docs, index>>

\* A call of thread t begins, and goes on.
Begin(t) ==
    \/ \E id \in Ids :
         \/ \E doc \in Docs : Insert(t, id, doc)
         \/ \E F \in SUBSET Fields : \E patch \in [F -> Vals \cup {Absent}] : Update(t, id, patch)
         \/ Delete(t, id)
    \/ \E f \in Fields : CreateIndex(t, f)
Continue(t) == ReadOld(t) \/ Unindex(t) \/ Put(t) \/ Index(t)

Next == (\E t \in Threads : Begin(t) \/ Continue(t)) \/ Stop

Spec == Init /\ [][Next]_vars

-----------------------------------------------------------------------------
(* Queries *)

\* _matches_filter() of the value at a path; rank is the order of the values.
\* Values are atoms here, which $contains and $regex never match.
Holds(val, op, x, rank) ==
    CASE op = "$eq" -> val = x
      [] op = "$ne" -> val # x
      [] op = "$gt" -> val # Absent /\ rank[val] > rank[x]
      [] op = "$gte" -> val # Absent /\ rank[val] >= rank[x]
      [] op = "$lt" -> val # Absent /\ rank[val] < rank[x]
      [] op = "$lte" -> val # Absent /\ rank[val] <= rank[x]
      [] op = "$in" -> val \in x
      [] op = "$nin" -> val \notin x

\* A filter is a set of conditions <<field, operator, target>>.
Matches(doc, filter, rank) == \A c \in filter : Holds(doc[c[1]], c[2], c[3], rank)

\* Sorting puts documents without the field last, and first in reverse; equal
\* ones stay in the order of the scan.
Sorted(ids, field, reverse, rank, scan) ==
    LET val(i) == docs[i][field]
        less(i, j) == val(i) # Absent /\ (val(j) = Absent \/ rank[val(i)] < rank[val(j)])
    IN  SetToSortSeq(ids, LAMBDA i, j :
            IF less(i, j) \/ less(j, i) THEN IF reverse THEN less(j, i) ELSE less(i, j)
            ELSE scan[i] < scan[j])

\* query(): what matches, sorted, from offset on and as many as limit.
Query(filter, field, reverse, limit, offset, rank, scan) ==
    LET all == Sorted({id \in Ids : docs[id] # Absent /\ Matches(docs[id], filter, rank)},
                      field, reverse, rank, scan)
    IN  SubSeq(all, offset + 1, IF offset + limit < Len(all) THEN offset + limit ELSE Len(all))

\* count().
Count == Cardinality({id \in Ids : docs[id] # Absent})

\* The orders that S may have.
Ranks(S) == {r \in [S -> 1 .. Cardinality(S)] : \A x, y \in S : x # y => r[x] # r[y]}

-----------------------------------------------------------------------------
(* Properties *)

TypeOK ==
    /\ docs \in [Ids -> Docs \cup {Absent}]
    /\ index \subseteq Entries /\ indexed \subseteq Fields
    /\ \A t \in Threads : call[t].at \in {"idle", "read", "unindex", "index"}
                          /\ call[t].todo \subseteq Entries

\* What a walk over the entries of field f finds: documents by value, and those
\* of the collection that have no entry after them.
Walk(f, rank, scan) ==
    LET E == {e \in index : e[1] = f}
        rest == {id \in Ids : docs[id] # Absent} \ {e[3] : e \in E}
        found == SetToSortSeq(E, LAMBDA d, e :
                    rank[d[2]] < rank[e[2]] \/ (d[2] = e[2] /\ scan[d[3]] < scan[e[3]]))
    IN  [i \in DOMAIN found |-> found[i][3]] \o SetToSortSeq(rest, LAMBDA i, j : scan[i] < scan[j])

\* Between calls an index the process has answers what query() answers from the
\* documents, whatever crashes came before it was built: comparisons, also with
\* a field that is missing, and pages of the sorted collection (doc.py
\* create_index, _index_doc, _matches_filter, query).
IndexAnswers ==
    Idle => \A f \in indexed, rank \in Ranks(Vals), scan \in Ranks(Ids) :
        /\ Query({}, f, FALSE, Count, 0, rank, scan) = Walk(f, rank, scan)
        /\ Query({}, f, FALSE, 1, 1, rank, scan) =
               LET all == Walk(f, rank, scan) IN IF Len(all) < 2 THEN <<>> ELSE <<all[2]>>
        /\ \A c \in {<<f, op, x>> : op \in {"$eq", "$gt", "$gte", "$lt", "$lte"}, x \in Vals}
                    \cup {<<f, "$in", X>> : X \in SUBSET Vals} :
              LET ids == Query({c}, f, TRUE, Count, 0, rank, scan) IN
              {ids[i] : i \in DOMAIN ids} =
                  {e[3] : e \in {e \in index : e[1] = f /\ Holds(e[2], c[2], c[3], rank)}}
        /\ \A x \in Vals :
              LET ne == Query({<<f, "$ne", x>>}, f, TRUE, Count, 0, rank, scan)
                  nin == Query({<<f, "$nin", {x}>>}, f, TRUE, Count, 0, rank, scan)
              IN  nin = ne /\ {ne[i] : i \in DOMAIN ne} =
                    {id \in Ids : docs[id] # Absent /\ <<f, x, id>> \notin index}

\* No entry leads to a document that does not have the value, at no step of a
\* call and so after no crash, as long as the application indexes its fields
\* before it writes (doc.py insert, delete, _unindex_doc).
IndexSound == index \subseteq EntriesOf(Fields, docs)

=============================================================================
