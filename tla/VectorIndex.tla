---------------------------- MODULE VectorIndex -----------------------------
(***************************************************************************)
(* The vector index (zenith/engine/vector.py): vectors and their metadata  *)
(* are cells of the LSM tree, written one call at a time.  The dimension   *)
(* and the clusters of a trained index are in the memory of an index       *)
(* object, and each server makes one of its own for a namespace.           *)
(*                                                                         *)
(* A vector is its dimension: which centroid is nearest to it depends on   *)
(* random seeds and on floats, so training may put it in any cluster.      *)
(***************************************************************************)
EXTENDS Integers, FiniteSetsExt

CONSTANTS
    Threads,   \* the threads of the process
    Ids,       \* vector ids of one namespace
    Objects,   \* the index objects of the process
    Dims,      \* dimensions clients use
    Metas,     \* metadata
    Absent,    \* no vector, no metadata, no dimension
    NClusters, \* clusters that training makes
    NProbe,    \* clusters that search() looks into
    Exclusive  \* does the application make one change of the index at a time

VARIABLES
    vectors,   \* __VEC__ cells: id -> vector, or Absent
    metas,     \* __VMETA__ cells: id -> metadata, or Absent
    dimension, \* object -> the dimension it expects, or Absent
    clusters,  \* _centroid_clusters: object -> cluster -> ids; <<>> before training
    fresh,     \* ghost: object -> ids put since its last training read the vectors
    task       \* thread -> the step its call is at, and what it works on

vars == <<vectors, metas, dimension, clusters, fresh, task>>

Clusters == 1 .. NClusters
Untrained == <<>>

Resting == [at |-> "idle", of |-> Absent, id |-> Absent, vec |-> Absent, meta |-> Absent, todo |-> {}]
Free(t) == task[t].at = "idle"
Idle == \A t \in Threads : Free(t)
Stored == {id \in Ids : vectors[id] # Absent}

Goto(t, step) == task' = [task EXCEPT ![t] = step]

Init ==
    /\ vectors = [id \in Ids |-> Absent] /\ metas = [id \in Ids |-> Absent]
    /\ dimension = [o \in Objects |-> Absent]
    /\ clusters = [o \in Objects |-> Untrained]
    /\ fresh = [o \in Objects |-> {}]
    /\ task = [t \in Threads |-> Resting]

\* A call may begin.
May(t) == Free(t) /\ (Exclusive => Idle)

\* insert() checks the vector against the dimension; the first one sets it.
Insert(t, o, id, v, m) ==
    /\ May(t)
    /\ dimension[o] \in {Absent, v}
    /\ Goto(t, [at |-> IF dimension[o] = Absent THEN "learn" ELSE "put",
                of |-> o, id |-> id, vec |-> v, meta |-> m, todo |-> {}])
    /\ UNCHANGED <<vectors, metas, dimension, clusters, fresh>>

\* Mutant of Learn: the dimension of the first vector is not kept.
LearnNot(t) ==
    /\ task[t].at = "learn"
    /\ Goto(t, [task[t] EXCEPT !.at = "put"])
    /\ UNCHANGED <<vectors, metas, dimension, clusters, fresh>>

Learn(t) ==
    /\ task[t].at = "learn"
    /\ dimension' = [dimension EXCEPT ![task[t].of] = task[t].vec]
    /\ Goto(t, [task[t] EXCEPT !.at = "put"])
    /\ UNCHANGED <<vectors, metas, clusters, fresh>>

PutVector(t) ==
    /\ task[t].at = "put"
    /\ vectors' = [vectors EXCEPT ![task[t].id] = task[t].vec]
    /\ fresh' = [o \in Objects |-> fresh[o] \cup {task[t].id}]
    /\ Goto(t, IF task[t].meta = Absent THEN Resting ELSE [task[t] EXCEPT !.at = "putMeta"])
    /\ UNCHANGED <<metas, dimension, clusters>>

\* Metadata that is given is put; older metadata stays where none is given.
PutMeta(t) ==
    /\ task[t].at = "putMeta"
    /\ metas' = [metas EXCEPT ![task[t].id] = task[t].meta]
    /\ Goto(t, Resting)
    /\ UNCHANGED <<vectors, dimension, clusters, fresh>>

\* delete() of a vector that exists.
Delete(t, id) ==
    /\ May(t)
    /\ id \in Stored
    /\ Goto(t, [Resting EXCEPT !.at = "drop", !.id = id])
    /\ UNCHANGED <<vectors, metas, dimension, clusters, fresh>>

Drop(t) ==
    /\ task[t].at = "drop"
    /\ vectors' = [vectors EXCEPT ![task[t].id] = Absent]
    /\ Goto(t, [task[t] EXCEPT !.at = "dropMeta"])
    /\ UNCHANGED <<metas, dimension, clusters, fresh>>

DropMeta(t) ==
    /\ task[t].at = "dropMeta"
    /\ metas' = [metas EXCEPT ![task[t].id] = Absent]
    /\ Goto(t, Resting)
    /\ UNCHANGED <<vectors, dimension, clusters, fresh>>

\* train_ivf() reads all vectors, unless there are too few, and moves its
\* centroids among them.
Train(t, o) ==
    /\ May(t)
    /\ Cardinality(Stored) >= NClusters
    /\ Goto(t, [Resting EXCEPT !.at = "train", !.of = o, !.todo = Stored])
    /\ fresh' = [fresh EXCEPT ![o] = {}]
    /\ UNCHANGED <<vectors, metas, dimension, clusters>>

\* It replaces the clusters by empty ones,
Reset(t) ==
    /\ task[t].at = "train"
    /\ clusters' = [clusters EXCEPT ![task[t].of] = [c \in Clusters |-> {}]]
    /\ Goto(t, [task[t] EXCEPT !.at = "assign"])
    /\ UNCHANGED <<vectors, metas, dimension, fresh>>

\* Mutant of Assign: a cluster has its last vector only.
AssignLast(t) ==
    /\ task[t].at = "assign"
    /\ \E id \in task[t].todo, c \in Clusters :
         /\ clusters' = [clusters EXCEPT ![task[t].of][c] = {id}]
         /\ Goto(t, IF task[t].todo = {id} THEN Resting ELSE [task[t] EXCEPT !.todo = @ \ {id}])
    /\ UNCHANGED <<vectors, metas, dimension, fresh>>

\* and puts the vectors it has read in them, one by one.
Assign(t) ==
    /\ task[t].at = "assign"
    /\ \E id \in task[t].todo, c \in Clusters :
         /\ clusters' = [clusters EXCEPT ![task[t].of][c] = @ \cup {id}]
         /\ Goto(t, IF task[t].todo = {id} THEN Resting ELSE [task[t] EXCEPT !.todo = @ \ {id}])
    /\ UNCHANGED <<vectors, metas, dimension, fresh>>

\* The process stops, and comes up without what its objects knew.
Stop ==
    /\ dimension' = [o \in Objects |-> Absent]
    /\ clusters' = [o \in Objects |-> Untrained]
    /\ task' = [t \in Threads |-> Resting]
    /\ UNCHANGED <<vectors, metas, fresh>>

\* What search() ranks in a trained index with the clusters P nearest, and
\* before training or with too few clusters: the ids it looks up that are there
\* and have the metadata of its filter, if it has one.
Candidates(o, P, filter) ==
    {id \in Stored :
        /\ clusters[o] = Untrained \/ NClusters < NProbe \/ \E c \in P : id \in clusters[o][c]
        /\ filter \in {Absent, metas[id]}}

\* A call of thread t begins, and goes on.
Begin(t) ==
    \/ \E o \in Objects, id \in Ids, v \in Dims, m \in Metas \cup {Absent} : Insert(t, o, id, v, m)
    \/ \E id \in Ids : Delete(t, id)
    \/ \E o \in Objects : Train(t, o)
Continue(t) ==
    \/ Learn(t) \/ PutVector(t) \/ PutMeta(t) \/ Drop(t) \/ DropMeta(t) \/ Reset(t) \/ Assign(t)

Next == (\E t \in Threads : Begin(t) \/ Continue(t)) \/ Stop

Spec == Init /\ [][Next]_vars

-----------------------------------------------------------------------------
(* Properties *)

TypeOK ==
    /\ vectors \in [Ids -> Dims \cup {Absent}]
    /\ metas \in [Ids -> Metas \cup {Absent}]
    /\ dimension \in [Objects -> Dims \cup {Absent}]
    /\ \A o \in Objects : clusters[o] = Untrained \/ clusters[o] \in [Clusters -> SUBSET Ids]
    /\ \A t \in Threads : task[t].at \in {"idle", "learn", "put", "putMeta", "drop", "dropMeta", "train", "assign"}

\* Is an object being trained.
Training(o) == \E t \in Threads : task[t].at \in {"train", "assign"} /\ task[t].of = o

\* What a search that probes all clusters misses was put after the last
\* training had read the vectors: no vector is lost between clusters, and none
\* by deleting and inserting others (vector.py train_ivf, search).
MissesOnlyFresh ==
    \A o \in Objects : ~ Training(o) => Stored \ Candidates(o, Clusters, Absent) \subseteq fresh[o]

\* All vectors have one dimension (vector.py insert, "Vector dimension mismatch").
OneDimension == \A i, j \in Stored : vectors[i] = vectors[j]

=============================================================================
