------------------------------ MODULE Engines -------------------------------
(***************************************************************************)
(* The document store, the full-text index and the vector index in one     *)
(* process over one LSM tree, as an application embeds them: a thread      *)
(* calls one engine after the other, and a crash ends the calls of all and *)
(* what they have in memory.  The servers insert and delete documents,     *)
(* insert vectors and search; creating an index, indexing a text and       *)
(* training come only from an application.                                 *)
(***************************************************************************)
EXTENDS Naturals, FiniteSets

CONSTANTS
    Threads, Ids, Fields, Vals, Terms, Absent, MaxTf, Careful, Exclusive,
    VecIds, Objects, Dims, Metas, NClusters, NProbe,
    MaxCrashes, \* bound: crashes
    Processes   \* bound: the sets of engines a process may embed

ASSUME DocAssumption == Absent \notin Vals \cup Ids
ASSUME TextAssumption == MaxTf \in Nat \ {0} /\ Absent \notin [Terms -> 0 .. MaxTf]
ASSUME FiniteAssumption == IsFiniteSet(Ids) /\ IsFiniteSet(Terms)
ASSUME CallerAssumption == Careful \in BOOLEAN /\ Exclusive \in BOOLEAN
ASSUME VectorAssumption == NClusters \in Nat \ {0} /\ NProbe \in Nat /\ Absent \notin VecIds \cup Dims \cup Metas
ASSUME CrashAssumption == MaxCrashes \in Nat
ASSUME ProcessAssumption == Processes \subseteq SUBSET {"doc", "text", "vector"}

VARIABLES docs, index, indexed, call, texts, postings, stats, job,
          vectors, metas, dimension, clusters, fresh, task,
          embeds, \* the engines this process embeds
          crashes \* the number of crashes

Docs == INSTANCE DocStore
Text == INSTANCE FullText
Vec == INSTANCE VectorIndex WITH Ids <- VecIds

docVars == <<docs, index, indexed, call>>
textVars == <<texts, postings, stats, job>>
vecVars == <<vectors, metas, dimension, clusters, fresh, task>>
vars == <<docVars, textVars, vecVars, embeds, crashes>>

Init == Docs!Init /\ Text!Init /\ Vec!Init /\ embeds \in Processes /\ crashes = 0

\* Thread t is in one of the engines.
UseDocs(t) ==
    /\ "doc" \in embeds
    /\ Text!Free(t) /\ Vec!Free(t) /\ (Docs!Begin(t) \/ Docs!Continue(t))
    /\ UNCHANGED <<textVars, vecVars, embeds, crashes>>

UseText(t) ==
    /\ "text" \in embeds
    /\ Docs!Free(t) /\ Vec!Free(t) /\ (Text!Begin(t) \/ Text!Continue(t))
    /\ UNCHANGED <<docVars, vecVars, embeds, crashes>>

UseVectors(t) ==
    /\ "vector" \in embeds
    /\ Docs!Free(t) /\ Text!Free(t) /\ (Vec!Begin(t) \/ Vec!Continue(t))
    /\ UNCHANGED <<docVars, textVars, embeds, crashes>>

\* The process dies and starts again.
Crash ==
    /\ crashes < MaxCrashes
    /\ crashes' = crashes + 1
    /\ Docs!Stop /\ Text!Stop /\ Vec!Stop
    /\ UNCHANGED embeds

Next == (\E t \in Threads : UseDocs(t) \/ UseText(t) \/ UseVectors(t)) \/ Crash

Spec == Init /\ [][Next]_vars

-----------------------------------------------------------------------------
(* Properties *)

TypeOK == Docs!TypeOK /\ Text!TypeOK /\ Vec!TypeOK /\ embeds \in Processes /\ crashes \in 0 .. MaxCrashes

\* Between calls an index entry and a scan of the documents tell the same
\* (doc.py create_index, query).
IndexAnswers == Text!Idle => Docs!IndexAnswers

\* No index entry is stale, at no step and after no crash (doc.py insert, delete).
IndexSound == Docs!IndexSound

\* No posting is without its document, at no step and after no crash (text.py
\* index_document, delete_document, search).
PostingsReal == Text!PostingsReal

\* As long as no crash has cut a call short the counts are right and search()
\* finds what is there (text.py index_document, delete_document, search).
SearchFinds == crashes = 0 /\ Text!Idle => Text!Counted /\ Text!Found

\* search() never divides by an average length of zero.  A crash is enough to
\* break this, see the README (text.py search, D_len / avgdl).
Rankable == Text!Idle => \A Q \in SUBSET Terms : Absent \notin Text!Hits(Q)

\* A crash puts the count of documents off by one at most, whatever is
\* indexed and deleted after it (text.py, "max(0, ...)").
DriftBounded == Text!Idle => Text!Drift <= crashes

\* A trained index finds every vector it was trained with, and misses none but
\* those put since (vector.py train_ivf, search).
MissesOnlyFresh == Vec!MissesOnlyFresh

\* Until a restart forgets the dimension all vectors have the same (vector.py
\* insert, "Vector dimension mismatch").
OneDimension == crashes = 0 => Vec!OneDimension

=============================================================================
