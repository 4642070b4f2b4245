------------------------------ MODULE FullText ------------------------------
(***************************************************************************)
(* The full-text index (zenith/engine/text.py): documents, postings and    *)
(* the counts the ranking needs, cells of the LSM tree written one call at *)
(* a time.  A text is what tokenize() makes of it: how often it has each   *)
(* term.                                                                   *)
(***************************************************************************)
EXTENDS Integers, FiniteSetsExt

CONSTANTS
    Threads, \* the threads of the application
    Ids,     \* document ids of one namespace
    Terms,   \* stems
    Absent,  \* no document
    MaxTf,   \* bound: how often a text has a term
    Exclusive \* does the application make one change of the index at a time

VARIABLES
    texts,    \* __FT_DOC__ cells: id -> text, or Absent
    postings, \* __FT_POST__ cells: id -> term -> its count there, 0 for none
    stats,    \* the __FT_STATS__ cell
    job       \* thread -> the step its call is at, and what it works on

vars == <<texts, postings, stats, job>>

\* tokenize() and how often each stem is in its list.
Texts == [Terms -> 0 .. MaxTf]
Blank == [w \in Terms |-> 0]
TermsOf(x) == {w \in Terms : x[w] > 0}
Length(x) == SumFunction(x)

Resting == [at |-> "idle", id |-> Absent, text |-> Blank, old |-> Blank, todo |-> {},
            save |-> [docs |-> 0, terms |-> 0]]
Free(t) == job[t].at = "idle"
Idle == \A t \in Threads : Free(t)

Init ==
    /\ texts = [id \in Ids |-> Absent]
    /\ postings = [id \in Ids |-> Blank]
    /\ stats = [docs |-> 0, terms |-> 0]
    /\ job = [t \in Threads |-> Resting]

\* A call may begin.
May(t) == Free(t) /\ (Exclusive => Idle)

Goto(t, step) == job' = [job EXCEPT ![t] = step]

\* delete_document() has found the document: its postings are to go.
Unposting(t, id, text) ==
    Goto(t, [Resting EXCEPT !.at = "unpost", !.id = id, !.text = text,
                            !.old = texts[id], !.todo = TermsOf(texts[id])])

\* index_document() goes on with text x once no old document is left.
Storing(t, id, x) ==
    Goto(t, IF x = Blank THEN Resting ELSE [Resting EXCEPT !.at = "store", !.id = id, !.text = x])

\* Mutant of IndexDocument: an old document is overwritten.
IndexDocumentOver(t, id, x) ==
    /\ May(t)
    /\ Storing(t, id, x)
    /\ UNCHANGED <<texts, postings, stats>>

\* index_document() deletes the old document first, if there is one.
IndexDocument(t, id, x) ==
    /\ May(t)
    /\ IF texts[id] = Absent THEN Storing(t, id, x) ELSE Unposting(t, id, x)
    /\ UNCHANGED <<texts, postings, stats>>

\* delete_document() of a document that exists.
DeleteDocument(t, id) ==
    /\ May(t)
    /\ texts[id] # Absent
    /\ Unposting(t, id, Blank)
    /\ UNCHANGED <<texts, postings, stats>>

\* Mutant of Unpost: the key of the posting ends after the term.
UnpostAll(t) ==
    /\ job[t].at = "unpost"
    /\ \E w \in job[t].todo :
         /\ postings' = [id \in Ids |-> [postings[id] EXCEPT ![w] = 0]]
         /\ Goto(t, [job[t] EXCEPT !.todo = @ \ {w}])
    /\ UNCHANGED <<texts, stats>>

\* One posting is deleted.
Unpost(t) ==
    /\ job[t].at = "unpost"
    /\ \E w \in job[t].todo :
         /\ postings' = [postings EXCEPT ![job[t].id][w] = 0]
         /\ Goto(t, [job[t] EXCEPT !.todo = @ \ {w}])
    /\ UNCHANGED <<texts, stats>>

\* The document itself is deleted.
Drop(t) ==
    /\ job[t].at = "unpost" /\ job[t].todo = {}
    /\ texts' = [texts EXCEPT ![job[t].id] = Absent]
    /\ Goto(t, [job[t] EXCEPT !.at = "uncount"])
    /\ UNCHANGED <<postings, stats>>

\* Mutant of Less: no floor.
LessBelow(a, b) == a - b

\* Counts never go below zero.
Less(a, b) == IF a > b THEN a - b ELSE 0

\* Mutant of Uncount: a document that is replaced stays counted.
UncountNone(t) ==
    /\ job[t].at = "uncount"
    /\ Goto(t, [job[t] EXCEPT !.at = "save", !.save = stats])
    /\ UNCHANGED <<texts, postings, stats>>

\* delete_document() reads the counts it is to lower.
Uncount(t) ==
    /\ job[t].at = "uncount"
    /\ Goto(t, [job[t] EXCEPT !.at = "save",
         !.save = [docs |-> Less(stats.docs, 1), terms |-> Less(stats.terms, Length(job[t].old))]])
    /\ UNCHANGED <<texts, postings, stats>>

\* delete_document() saves them; index_document() goes on from there.
SaveLess(t) ==
    /\ job[t].at = "save"
    /\ stats' = job[t].save
    /\ Storing(t, job[t].id, job[t].text)
    /\ UNCHANGED <<texts, postings>>

\* The new document is put.
Store(t) ==
    /\ job[t].at = "store"
    /\ texts' = [texts EXCEPT ![job[t].id] = job[t].text]
    /\ Goto(t, [job[t] EXCEPT !.at = "post", !.todo = TermsOf(job[t].text)])
    /\ UNCHANGED <<postings, stats>>

\* One posting is put.
Post(t) ==
    /\ job[t].at = "post"
    /\ \E w \in job[t].todo :
         /\ postings' = [postings EXCEPT ![job[t].id][w] = job[t].text[w]]
         /\ Goto(t, [job[t] EXCEPT !.todo = @ \ {w}])
    /\ UNCHANGED <<texts, stats>>

\* index_document() reads the counts it is to raise.
Count(t) ==
    /\ job[t].at = "post" /\ job[t].todo = {}
    /\ Goto(t, [job[t] EXCEPT !.at = "saveMore",
         !.save = [docs |-> stats.docs + 1, terms |-> stats.terms + Length(job[t].text)]])
    /\ UNCHANGED <<texts, postings, stats>>

\* index_document() saves them and returns.
SaveMore(t) ==
    /\ job[t].at = "saveMore"
    /\ stats' = job[t].save
    /\ Goto(t, Resting)
    /\ UNCHANGED <<texts, postings>>

\* The process stops.
Stop ==
    /\ job' = [t \in Threads |-> Resting]
    /\ UNCHANGED <<texts, postings, stats>>

\* A call of thread t begins, and goes on.
Begin(t) ==
    \E id \in Ids : DeleteDocument(t, id) \/ \E x \in Texts : IndexDocument(t, id, x)
Continue(t) ==
    \/ Unpost(t) \/ Drop(t) \/ Uncount(t) \/ SaveLess(t)
    \/ Store(t) \/ Post(t) \/ Count(t) \/ SaveMore(t)

Next == (\E t \in Threads : Begin(t) \/ Continue(t)) \/ Stop

Spec == Init /\ [][Next]_vars

-----------------------------------------------------------------------------
(* Properties *)

TypeOK ==
    /\ texts \in [Ids -> (Texts \ {Blank}) \cup {Absent}]
    /\ postings \in [Ids -> Texts]
    /\ stats \in [docs : Nat, terms : Nat]
    /\ \A t \in Threads : job[t].todo \subseteq Terms

\* What search() answers to the terms Q: nothing while it counts no documents,
\* and with no terms counted the average length is zero and it raises.
Hits(Q) ==
    LET found == {id \in Ids : texts[id] # Absent /\ TermsOf(postings[id]) \cap Q # {}} IN
    IF stats.docs = 0 THEN {} ELSE IF found # {} /\ stats.terms = 0 THEN {Absent} ELSE found

\* A posting names a document that has the term so many times, at every step
\* of a call and so after every crash: search(), which reads the document
\* of a posting without a check, finds it (text.py search, its second get).
PostingsReal ==
    \A id \in Ids : \A w \in TermsOf(postings[id]) :
        texts[id] # Absent /\ texts[id][w] = postings[id][w]

\* How many terms document id counts for.
Weight(id) == IF texts[id] = Absent THEN 0 ELSE Length(texts[id])

\* The documents that are there.
There == {id \in Ids : texts[id] # Absent}

\* The counts are those of the documents.
Counted ==
    /\ stats.docs = Cardinality(There)
    /\ stats.terms = SumFunction([id \in Ids |-> Weight(id)])

\* search() finds every document that has one of the terms.
Found ==
    \A Q \in SUBSET Terms :
        Hits(Q) = {id \in Ids : texts[id] # Absent /\ TermsOf(texts[id]) \cap Q # {}}

\* How far the count of documents is from their number.
Drift ==
    LET n == Cardinality(There)
    IN  IF stats.docs > n THEN stats.docs - n ELSE n - stats.docs

=============================================================================
