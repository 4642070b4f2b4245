--------------------------- MODULE EnginesProofs ----------------------------
(***************************************************************************)
(* Proofs about the engines, for any threads, documents, texts, vectors    *)
(* and crashes.  Each engine has an invariant of its own: a step of        *)
(* Engines is a step of one of them and leaves the variables of the others *)
(* alone, or it stops all three.                                           *)
(***************************************************************************)
EXTENDS Engines, TLAPS, FiniteSetTheorems, WellFoundedInduction

-----------------------------------------------------------------------------
(* The document store *)

\* Calls keep to their documents: two at once are for two, and create_index()
\* is alone.
Apart ==
    \A t, u \in Threads : t # u /\ ~ Docs!Free(t) /\ ~ Docs!Free(u) =>
        call[t].id \in Ids /\ call[u].id \in Ids /\ call[t].id # call[u].id

DocSteps == {"idle", "read", "unindex", "index"}

DocTypes ==
    /\ docs \in [Ids -> Docs!Docs \cup {Absent}]
    /\ index \subseteq Docs!Entries /\ indexed \subseteq Fields
    /\ call \in [Threads -> [at : DocSteps, id : Ids \cup {Absent},
                             doc : Docs!Docs \cup {Absent}, todo : SUBSET Docs!Entries]]

\* What the calls under way have to do keeps the index sound.
DocCalls ==
    \A t \in Threads :
        /\ call[t].at = "idle" => call[t].id = Absent
        /\ call[t].at \in {"read", "unindex"} => call[t].id \in Ids /\ indexed = Fields
        /\ call[t].at = "unindex" => {e \in index : e[3] = call[t].id} \subseteq call[t].todo
        /\ call[t].at = "index" =>
             /\ call[t].todo \subseteq Docs!EntriesOf(Fields, docs)
             /\ call[t].id \in Ids => \A e \in call[t].todo : e[3] = call[t].id

DocInv == DocTypes /\ DocCalls /\ Apart /\ IndexSound

LEMMA DocInit == Init => DocInv
<1> SUFFICES ASSUME Init PROVE DocInv
  OBVIOUS
<1> USE DEF Init, Docs!Init
<1>1. call = [t \in Threads |-> Docs!Resting]
  OBVIOUS
<1>2. DocTypes
  BY <1>1 DEF DocTypes, DocSteps, Docs!Resting
<1>3. DocCalls /\ Apart
  BY <1>1 DEF DocCalls, Apart, Docs!Resting, Docs!Free
<1>4. IndexSound
  BY DEF IndexSound, Docs!IndexSound
<1> QED  BY <1>2, <1>3, <1>4 DEF DocInv

\* An entry of one document is not one of another.
LEMMA EntriesOfOne ==
    ASSUME NEW F \in SUBSET Fields, NEW id \in Ids, NEW d
    PROVE  \A e : e \in Docs!EntriesOf(F, Docs!Only(id, d)) <=>
                e \in F \X Vals \X {id} /\ d # Absent /\ d[e[1]] = e[2]
BY DEF Docs!EntriesOf, Docs!Only

\* The same of the documents of the store.
LEMMA EntriesOfAll ==
    ASSUME NEW F \in SUBSET Fields, DocTypes
    PROVE  \A e : e \in Docs!EntriesOf(F, docs) <=>
                e \in F \X Vals \X Ids /\ docs[e[3]] # Absent /\ docs[e[3]][e[1]] = e[2]
BY DEF Docs!EntriesOf, DocTypes

LEMMA DocStep ==
    ASSUME Careful, Exclusive, DocInv, [Docs!Next]_docVars
    PROVE  DocInv'
<1> USE DocAssumption
<1> DEFINE Calls == [at : DocSteps, id : Ids \cup {Absent},
                     doc : Docs!Docs \cup {Absent}, todo : SUBSET Docs!Entries]
<1>types. DocTypes /\ DocCalls /\ Apart /\ IndexSound
  BY DEF DocInv
<1>sound. index \subseteq Docs!EntriesOf(Fields, docs)
  BY <1>types DEF IndexSound, Docs!IndexSound
<1>all. \A e : e \in Docs!EntriesOf(Fields, docs) <=>
          e \in Docs!Entries /\ docs[e[3]] # Absent /\ docs[e[3]][e[1]] = e[2]
  BY <1>types, EntriesOfAll DEF Docs!Entries
<1>1. ASSUME NEW t \in Threads, NEW id \in Ids, NEW doc \in Docs!Docs, Docs!Insert(t, id, doc)
      PROVE  DocInv'
  <2>1. /\ call' = [call EXCEPT ![t] = [at |-> "read", id |-> id, doc |-> doc, todo |-> {}]]
        /\ UNCHANGED <<docs, index, indexed>> /\ indexed = Fields /\ Docs!Free(t)
        /\ \A u \in Threads : Docs!Free(u) \/ call[u].id \notin {id, Absent}
    BY <1>1 DEF Docs!Insert, Docs!May, Docs!Goto
  <2>2. DocTypes'
    BY <2>1, <1>types DEF DocTypes, DocSteps
  <2>3. DocCalls' /\ Apart' /\ IndexSound'
    BY <2>1, <1>types DEF DocTypes, DocCalls, Apart, IndexSound, Docs!IndexSound, Docs!EntriesOf, Docs!Free
  <2> QED  BY <2>2, <2>3 DEF DocInv
<1>2. ASSUME NEW t \in Threads, NEW id \in Ids, NEW patch, DOMAIN patch \subseteq Fields,
             \A f \in DOMAIN patch : patch[f] \in Vals \cup {Absent}, Docs!Update(t, id, patch)
      PROVE  DocInv'
  <2>1. Docs!Patched(docs[id], patch) \in Docs!Docs
    BY <1>2, <1>types DEF Docs!Patched, Docs!Docs, DocTypes, Docs!Update
  <2> QED  BY <1>1, <1>2, <2>1 DEF Docs!Update
<1>3. ASSUME NEW t \in Threads, NEW id \in Ids, Docs!Delete(t, id)
      PROVE  DocInv'
  <2> DEFINE E == Docs!EntriesOf(indexed, Docs!Only(id, docs[id]))
  <2>1. /\ call' = [call EXCEPT ![t] = [at |-> "unindex", id |-> id, doc |-> Absent, todo |-> E]]
        /\ UNCHANGED <<docs, index, indexed>> /\ indexed = Fields /\ Docs!Free(t)
        /\ \A u \in Threads : Docs!Free(u) \/ call[u].id \notin {id, Absent}
    BY <1>3 DEF Docs!Delete, Docs!May, Docs!Goto
  <2>2. E \subseteq Docs!Entries /\ {e \in index : e[3] = id} \subseteq E
    BY <1>types, <1>sound, <1>all, <2>1, EntriesOfOne DEF Docs!Entries, DocTypes
  <2> HIDE DEF E
  <2>3. DocTypes'
    BY <2>1, <2>2, <1>types DEF DocTypes, DocSteps
  <2>4. DocCalls' /\ Apart' /\ IndexSound'
    BY <2>1, <2>2, <1>types DEF DocTypes, DocCalls, Apart, IndexSound, Docs!IndexSound, Docs!EntriesOf, Docs!Free
  <2> QED  BY <2>3, <2>4 DEF DocInv
<1>4. ASSUME NEW t \in Threads, NEW f \in Fields, Docs!CreateIndex(t, f)
      PROVE  DocInv'
  <2> DEFINE E == Docs!EntriesOf({f}, docs)
  <2>1. /\ call' = [call EXCEPT ![t] = IF E = {} THEN Docs!Resting ELSE [@ EXCEPT !.at = "index", !.todo = E]]
        /\ UNCHANGED <<docs, index>> /\ indexed' = indexed \cup {f}
        /\ \A u \in Threads : Docs!Free(u)
    BY <1>4 DEF Docs!CreateIndex, Docs!MayIndex, Docs!Writing, Docs!Goto, Docs!Idle
  <2>2. E \subseteq Docs!EntriesOf(Fields, docs) /\ E \subseteq Docs!Entries
    BY <1>all, <1>types, EntriesOfAll DEF Docs!Entries
  <2> HIDE DEF E
  <2>3. DocTypes'
    BY <2>1, <2>2, <1>types, ZenonT(90) DEF DocTypes, DocSteps, Docs!Resting
  <2>4. call[t].id = Absent /\ Absent \notin Ids
    BY <2>1, <1>types DEF DocCalls, Docs!Free
  <2>5. DocCalls' /\ Apart' /\ IndexSound'
    BY <2>1, <2>2, <2>4, <1>types
    DEF DocTypes, DocCalls, Apart, IndexSound, Docs!IndexSound, Docs!EntriesOf, Docs!Free, Docs!Resting
  <2> QED  BY <2>3, <2>5 DEF DocInv
<1>5. ASSUME NEW t \in Threads, Docs!ReadOld(t)
      PROVE  DocInv'
  <2> DEFINE id == call[t].id
             E == Docs!EntriesOf(indexed, Docs!Only(id, docs[id]))
  <2>1. /\ call' = [call EXCEPT ![t] = [call[t] EXCEPT !.at = "unindex", !.todo = E]]
        /\ UNCHANGED <<docs, index, indexed>> /\ call[t].at = "read"
    BY <1>5 DEF Docs!ReadOld, Docs!Goto
  <2>2. id \in Ids /\ indexed = Fields
    BY <2>1, <1>types DEF DocCalls
  <2>3. E \subseteq Docs!Entries /\ {e \in index : e[3] = id} \subseteq E
    BY <1>types, <1>sound, <1>all, <2>2, EntriesOfOne DEF Docs!Entries, DocTypes
  <2> HIDE DEF E
  <2>4. DocTypes'
    BY <2>1, <2>3, <1>types, ZenonT(90) DEF DocTypes, DocSteps
  <2>5. DocCalls' /\ Apart' /\ IndexSound'
    BY <2>1, <2>2, <2>3, <1>types DEF DocTypes, DocCalls, Apart, IndexSound, Docs!IndexSound, Docs!EntriesOf, Docs!Free
  <2> QED  BY <2>4, <2>5 DEF DocInv
<1>6. ASSUME NEW t \in Threads, Docs!Unindex(t)
      PROVE  DocInv'
  <2>1. PICK e \in call[t].todo :
          /\ index' = index \ {e} /\ UNCHANGED <<docs, indexed>>
          /\ call' = [call EXCEPT ![t] = [call[t] EXCEPT !.todo = @ \ {e}]]
          /\ call[t].at = "unindex"
    BY <1>6 DEF Docs!Unindex, Docs!Goto
  <2>2. DocTypes'
    BY <2>1, <1>types DEF DocTypes, DocSteps
  <2>3. DocCalls' /\ Apart' /\ IndexSound'
    BY <2>1, <1>types DEF DocTypes, DocCalls, Apart, IndexSound, Docs!IndexSound, Docs!EntriesOf, Docs!Free
  <2> QED  BY <2>2, <2>3 DEF DocInv
<1>7. ASSUME NEW t \in Threads, Docs!Put(t)
      PROVE  DocInv'
  <2> DEFINE id == call[t].id
             doc == call[t].doc
             E == Docs!EntriesOf(indexed, Docs!Only(id, doc))
  <2>1. /\ call' = [call EXCEPT ![t] = IF E = {} THEN Docs!Resting ELSE [call[t] EXCEPT !.at = "index", !.todo = E]]
        /\ docs' = [docs EXCEPT ![id] = doc]
        /\ UNCHANGED <<index, indexed>> /\ call[t].at = "unindex" /\ call[t].todo = {}
    BY <1>7 DEF Docs!Put, Docs!Writing, Docs!Goto
  <2>2. id \in Ids /\ indexed = Fields /\ \A e \in index : e[3] # id
    BY <2>1, <1>types DEF DocCalls
  <2>3. \A e : e \in E <=> e \in Fields \X Vals \X {id} /\ doc # Absent /\ doc[e[1]] = e[2]
    BY <2>2, EntriesOfOne
  <2> HIDE DEF E
  <2>4. DocTypes'
    <3>1. E \subseteq Docs!Entries
      BY <2>2, <2>3 DEF Docs!Entries
    <3>2. doc \in Docs!Docs \cup {Absent}
      BY <1>types DEF DocTypes
    <3> HIDE DEF id, doc
    <3>3. docs' \in [Ids -> Docs!Docs \cup {Absent}]
      BY <2>1, <3>2, <1>types DEF DocTypes
    <3>4. call' \in [Threads -> Calls]
      BY <2>1, <3>1, <1>types, ZenonT(90) DEF DocTypes, DocSteps, Docs!Resting
    <3> QED  BY <2>1, <3>3, <3>4, <1>types DEF DocTypes
  <2>5. \A e : e \in Docs!EntriesOf(Fields, docs)' <=>
           e \in Docs!Entries /\ docs'[e[3]] # Absent /\ docs'[e[3]][e[1]] = e[2]
    BY <2>4 DEF Docs!EntriesOf, Docs!Entries, DocTypes
  <2>6. \A e \in Docs!Entries : e[3] # id /\ e \in Docs!EntriesOf(Fields, docs) => e \in Docs!EntriesOf(Fields, docs)'
    BY <2>1, <2>2, <2>5, <1>all, <1>types DEF DocTypes, Docs!Entries
  <2>7. IndexSound'
    BY <2>1, <2>2, <2>6, <1>sound, <1>types DEF DocTypes, IndexSound, Docs!IndexSound
  <2>8. E \subseteq Docs!EntriesOf(Fields, docs)'
    BY <2>1, <2>2, <2>3, <2>5, <1>types DEF DocTypes, Docs!Entries
  <2>9. Apart'
    BY <2>1, <2>2, <1>types DEF DocTypes, Apart, Docs!Free, Docs!Resting
  <2>10. ASSUME NEW u \in Threads, u # t, call[u].at = "index"
         PROVE  call[u].todo \subseteq Docs!EntriesOf(Fields, docs)'
    <3>1. call[u].id \in Ids /\ call[u].id # id
      BY <2>1, <2>10, <1>types DEF Apart, Docs!Free
    <3>2. \A e \in call[u].todo : e[3] # id /\ e \in Docs!Entries /\ e \in Docs!EntriesOf(Fields, docs)
      BY <3>1, <2>10, <1>types DEF DocCalls, DocTypes
    <3> QED  BY <3>2, <2>6
  <2>11. ASSUME NEW u \in Threads, u # t
         PROVE  call'[u] = call[u]
    BY <2>1, <2>11, <1>types DEF DocTypes
  <2>12. DocCalls'
    <3>1. SUFFICES ASSUME NEW u \in Threads
          PROVE  /\ call'[u].at = "idle" => call'[u].id = Absent
                 /\ call'[u].at \in {"read", "unindex"} => call'[u].id \in Ids /\ indexed' = Fields
                 /\ call'[u].at = "unindex" => {e \in index' : e[3] = call'[u].id} \subseteq call'[u].todo
                 /\ call'[u].at = "index" =>
                      /\ call'[u].todo \subseteq Docs!EntriesOf(Fields, docs)'
                      /\ call'[u].id \in Ids => \A e \in call'[u].todo : e[3] = call'[u].id
      BY DEF DocCalls
    <3>2. CASE u = t
      <4>1. call'[t] = IF E = {} THEN Docs!Resting ELSE [call[t] EXCEPT !.at = "index", !.todo = E]
        BY <2>1, <1>types DEF DocTypes
      <4>2. /\ E = {} => call'[t].at = "idle" /\ call'[t].id = Absent
            /\ E # {} => call'[t].at = "index" /\ call'[t].id = id /\ call'[t].todo = E
        BY <4>1, <1>types DEF DocTypes, Docs!Resting
      <4>3. \A e \in E : e[3] = id
        BY <2>3
      <4> QED  BY <3>2, <4>2, <4>3, <2>8
    <3>3. CASE u # t
      BY <3>3, <2>1, <2>10, <2>11, <1>types, ZenonT(90) DEF DocCalls
    <3> QED  BY <3>2, <3>3
  <2> QED  BY <2>4, <2>7, <2>9, <2>12 DEF DocInv
<1>8. ASSUME NEW t \in Threads, Docs!Index(t)
      PROVE  DocInv'
  <2>1. PICK e \in call[t].todo :
          /\ index' = index \cup {e} /\ UNCHANGED <<docs, indexed>>
          /\ call[t].at = "index"
          /\ call' = [call EXCEPT ![t] =
                IF call[t].todo \ {e} = {} THEN Docs!Resting
                ELSE [call[t] EXCEPT !.at = "index", !.todo = call[t].todo \ {e}]]
    BY <1>8 DEF Docs!Index, Docs!Writing, Docs!Goto
  <2>2. e \in Docs!EntriesOf(Fields, docs) /\ e \in Docs!Entries
    BY <2>1, <1>types DEF DocCalls, DocTypes
  <2>3. DocTypes'
    BY <2>1, <2>2, <1>types, ZenonT(90) DEF DocTypes, DocSteps, Docs!Resting
  <2>4. IndexSound' /\ Apart'
    BY <2>1, <2>2, <1>types DEF DocTypes, Apart, IndexSound, Docs!IndexSound, Docs!EntriesOf, Docs!Free, Docs!Resting
  <2>5. ASSUME NEW u \in Threads, call[u].at = "unindex"
        PROVE  u # t /\ call[u].id \in Ids /\ e[3] # call[u].id
    BY <2>1, <2>5, <1>types DEF DocCalls, Apart, Docs!Free
  <2>6. DocCalls'
    BY <2>1, <2>2, <2>5, <1>types DEF DocTypes, DocCalls, Docs!EntriesOf, Docs!Resting
  <2> QED  BY <2>3, <2>4, <2>6 DEF DocInv
<1>9. ASSUME Docs!Stop
      PROVE  DocInv'
  <2>1. call' = [t \in Threads |-> Docs!Resting] /\ indexed' = {} /\ UNCHANGED <<docs, index>>
    BY <1>9 DEF Docs!Stop
  <2>2. DocTypes'
    BY <2>1, <1>types DEF DocTypes, DocSteps, Docs!Resting
  <2>3. DocCalls' /\ Apart' /\ IndexSound'
    BY <2>1, <1>types DEF DocCalls, Apart, IndexSound, Docs!IndexSound, Docs!EntriesOf, Docs!Free, Docs!Resting
  <2> QED  BY <2>2, <2>3 DEF DocInv
<1>10. CASE UNCHANGED docVars
  BY <1>10, <1>types DEF docVars, DocInv, DocTypes, DocCalls, Apart, IndexSound, Docs!IndexSound, Docs!EntriesOf, Docs!Free
<1> QED
  BY <1>1, <1>2, <1>3, <1>4, <1>5, <1>6, <1>7, <1>8, <1>9, <1>10
  DEF Docs!Next, Docs!Begin, Docs!Continue

\* An index entry leads to a document that has the value, at every step and
\* after every crash, when the application indexes its fields before it writes
\* and keeps calls for one document apart (doc.py insert, delete).
THEOREM IndexStaysSound ==
    ASSUME Careful, Exclusive
    PROVE  Spec => []IndexSound
<1>1. Init => DocInv
  BY DocInit
<1>2. DocInv /\ [Next]_vars => DocInv'
  <2>1. [Next]_vars => [Docs!Next]_docVars
    BY DEF Next, vars, docVars, textVars, vecVars, UseDocs, UseText, UseVectors, Crash, Docs!Next
  <2> QED  BY <2>1, DocStep
<1>3. DocInv => IndexSound
  BY DEF DocInv
<1> QED  BY <1>1, <1>2, <1>3, PTL DEF Spec

-----------------------------------------------------------------------------
(* The full-text index *)

TextSteps == {"idle", "unpost", "uncount", "save", "store", "post", "saveMore"}

\* What is saved of the counts is of no matter here.
TextTypes ==
    /\ texts \in [Ids -> Text!Texts \cup {Absent}]
    /\ postings \in [Ids -> Text!Texts]
    /\ job = [t \in Threads |-> job[t]]
    /\ \A t \in Threads :
         /\ DOMAIN job[t] = {"at", "id", "text", "old", "todo", "save"}
         /\ job[t].at \in TextSteps /\ job[t].text \in Text!Texts /\ job[t].todo \subseteq Terms
         /\ job[t].at # "idle" => job[t].id \in Ids

\* One change of the index at a time.
TextAlone == \A t, u \in Threads : t # u => Text!Free(t) \/ Text!Free(u)

\* How far a call has come shows in the postings of its document.
TextCalls ==
    \A t \in Threads :
        LET id == job[t].id IN
        /\ job[t].at = "unpost" =>
             texts[id] # Absent /\ Text!TermsOf(postings[id]) \subseteq job[t].todo
        /\ job[t].at \in {"uncount", "save", "store"} => Text!TermsOf(postings[id]) = {}
        /\ job[t].at = "post" => texts[id] = job[t].text

TextInv == TextTypes /\ TextAlone /\ TextCalls /\ PostingsReal

LEMMA TextInit == Init => TextInv
<1> SUFFICES ASSUME Init PROVE TextInv
  OBVIOUS
<1> USE DEF Init, Text!Init
<1>1. Text!Blank \in Text!Texts /\ Text!TermsOf(Text!Blank) = {}
  BY TextAssumption DEF Text!Blank, Text!Texts, Text!TermsOf
<1>2. TextTypes
  BY <1>1 DEF TextTypes, TextSteps, Text!Resting
<1>3. TextAlone /\ TextCalls
  BY DEF TextAlone, TextCalls, Text!Resting, Text!Free
<1>4. PostingsReal
  BY <1>1 DEF PostingsReal, Text!PostingsReal
<1> QED  BY <1>2, <1>3, <1>4 DEF TextInv

\* A call goes on or ends and leaves the others alone.
LEMMA TextGoto ==
    ASSUME TextTypes, TextAlone, NEW t \in Threads, NEW s, Text!Goto(t, s),
           \A u \in Threads : u # t => Text!Free(u),
           DOMAIN s = {"at", "id", "text", "old", "todo", "save"},
           s.at \in TextSteps, s.text \in Text!Texts, s.todo \subseteq Terms,
           s.at # "idle" => s.id \in Ids,
           texts' \in [Ids -> Text!Texts \cup {Absent}],
           postings' \in [Ids -> Text!Texts],
           s.at = "unpost" => texts'[s.id] # Absent /\ Text!TermsOf(postings'[s.id]) \subseteq s.todo,
           s.at \in {"uncount", "save", "store"} => Text!TermsOf(postings'[s.id]) = {},
           s.at = "post" => texts'[s.id] = s.text
    PROVE  TextTypes' /\ TextAlone' /\ TextCalls'
<1>1. job' = [job EXCEPT ![t] = s]
  BY DEF Text!Goto
<1>2. job' = [u \in Threads |-> job'[u]] /\ job'[t] = s /\ \A u \in Threads : u # t => job'[u] = job[u]
  BY <1>1 DEF TextTypes
<1> HIDE DEF Text!Goto
<1>3. TextTypes'
  BY <1>2 DEF TextTypes
<1>4. TextAlone'
  BY <1>2 DEF TextAlone, Text!Free
<1>5. TextCalls'
  BY <1>2 DEF TextCalls, Text!Free
<1> QED  BY <1>3, <1>4, <1>5

\* index_document() goes on with a document without postings.
LEMMA TextStoring ==
    ASSUME TextTypes, TextAlone, NEW t \in Threads, NEW id \in Ids, NEW x \in Text!Texts,
           Text!Storing(t, id, x), \A u \in Threads : u # t => Text!Free(u),
           texts' = texts, postings' = postings, Text!TermsOf(postings[id]) = {}
    PROVE  TextTypes' /\ TextAlone' /\ TextCalls'
<1>1. Text!Blank \in Text!Texts
  BY TextAssumption DEF Text!Blank, Text!Texts
<1> DEFINE s == IF x = Text!Blank THEN Text!Resting
                ELSE [Text!Resting EXCEPT !.at = "store", !.id = id, !.text = x]
<1>2. Text!Goto(t, s)
  BY DEF Text!Storing
<1>3. s = Text!Resting \/ s = [Text!Resting EXCEPT !.at = "store", !.id = id, !.text = x]
  OBVIOUS
<1>4. /\ DOMAIN s = {"at", "id", "text", "old", "todo", "save"}
      /\ s.at \in {"idle", "store"} /\ s.text \in Text!Texts /\ s.todo \subseteq Terms
      /\ s.at # "idle" => s.id = id
  BY <1>1, <1>3 DEF Text!Resting
<1> HIDE DEF s
<1> QED  BY <1>2, <1>4, TextGoto DEF TextSteps, TextTypes

\* delete_document() has all postings of the document before it.
LEMMA TextUnposting ==
    ASSUME TextInv, NEW t \in Threads, NEW id \in Ids, NEW x \in Text!Texts, texts[id] # Absent,
           Text!Unposting(t, id, x), \A u \in Threads : u # t => Text!Free(u),
           texts' = texts, postings' = postings
    PROVE  TextTypes' /\ TextAlone' /\ TextCalls'
<1> DEFINE s == [Text!Resting EXCEPT !.at = "unpost", !.id = id, !.text = x,
                     !.old = texts[id], !.todo = Text!TermsOf(texts[id])]
<1>1. Text!Goto(t, s)
  BY DEF Text!Unposting
<1>2. /\ DOMAIN s = {"at", "id", "text", "old", "todo", "save"}
      /\ s.at = "unpost" /\ s.text = x /\ s.id = id /\ s.todo = Text!TermsOf(texts[id])
  BY DEF Text!Resting
<1> HIDE DEF s
<1>3. Text!TermsOf(texts[id]) \subseteq Terms /\ Text!TermsOf(postings[id]) \subseteq Text!TermsOf(texts[id])
  BY DEF TextInv, PostingsReal, Text!PostingsReal, Text!TermsOf
<1> QED  BY <1>1, <1>2, <1>3, TextGoto DEF TextInv, TextSteps, TextTypes

LEMMA TextStep ==
    ASSUME Exclusive, TextInv, [Text!Next]_textVars
    PROVE  TextInv'
<1> USE TextAssumption
<1>types. TextTypes /\ TextAlone /\ TextCalls /\ PostingsReal
  BY DEF TextInv
<1>real. ASSUME texts' = texts, postings' = postings PROVE PostingsReal'
  BY <1>types, <1>real DEF PostingsReal, Text!PostingsReal, Text!TermsOf
<1>may. ASSUME NEW t \in Threads, Text!May(t) PROVE \A u \in Threads : Text!Free(u)
  BY <1>may DEF Text!May, Text!Idle
<1>on. ASSUME NEW t \in Threads, job[t].at # "idle" PROVE \A u \in Threads : u # t => Text!Free(u)
  BY <1>on, <1>types DEF TextAlone, Text!Free
<1>blank. Text!Blank \in Text!Texts
  BY DEF Text!Blank, Text!Texts
<1>1. ASSUME NEW t \in Threads, NEW id \in Ids, NEW x \in Text!Texts, Text!IndexDocument(t, id, x)
      PROVE  TextInv'
  <2>1. UNCHANGED <<texts, postings>> /\ \A u \in Threads : Text!Free(u)
    BY <1>1, <1>may DEF Text!IndexDocument
  <2>2. CASE texts[id] = Absent
    <3>1. Text!TermsOf(postings[id]) = {}
      BY <2>2, <1>types DEF PostingsReal, Text!PostingsReal
    <3>2. Text!Storing(t, id, x)
      BY <1>1, <2>2 DEF Text!IndexDocument
    <3> QED  BY <3>1, <3>2, <2>1, <1>types, <1>real, TextStoring DEF TextInv
  <2>3. CASE texts[id] # Absent
    <3>1. Text!Unposting(t, id, x)
      BY <1>1, <2>3 DEF Text!IndexDocument
    <3> QED  BY <3>1, <2>1, <2>3, <1>real, TextUnposting DEF TextInv
  <2> QED  BY <2>2, <2>3
<1>2. ASSUME NEW t \in Threads, NEW id \in Ids, Text!DeleteDocument(t, id)
      PROVE  TextInv'
  <2>1. UNCHANGED <<texts, postings>> /\ texts[id] # Absent /\ Text!Unposting(t, id, Text!Blank)
        /\ \A u \in Threads : Text!Free(u)
    BY <1>2, <1>may DEF Text!DeleteDocument
  <2> QED  BY <2>1, <1>real, <1>blank, TextUnposting DEF TextInv
<1>3. ASSUME NEW t \in Threads, Text!Unpost(t)
      PROVE  TextInv'
  <2>1. PICK w \in job[t].todo :
          /\ postings' = [postings EXCEPT ![job[t].id][w] = 0]
          /\ Text!Goto(t, [job[t] EXCEPT !.todo = job[t].todo \ {w}])
          /\ job[t].at = "unpost" /\ texts' = texts
    BY <1>3 DEF Text!Unpost
  <2> DEFINE s == [job[t] EXCEPT !.todo = job[t].todo \ {w}]
             id == job[t].id
  <2>2. /\ DOMAIN s = {"at", "id", "text", "old", "todo", "save"}
        /\ s.at = "unpost" /\ s.text = job[t].text /\ s.id = id /\ s.todo = job[t].todo \ {w}
        /\ id \in Ids /\ w \in Terms
    BY <2>1, <1>types DEF TextTypes
  <2> HIDE DEF s
  <2>3. /\ postings' \in [Ids -> Text!Texts]
        /\ \A i \in Ids, v \in Terms : postings'[i][v] = IF i = id /\ v = w THEN 0 ELSE postings[i][v]
    BY <2>1, <2>2, <1>types DEF TextTypes, Text!Texts
  <2>4. texts[id] # Absent /\ Text!TermsOf(postings'[id]) \subseteq s.todo
    BY <2>1, <2>2, <2>3, <1>types DEF TextCalls, Text!TermsOf
  <2>5. PostingsReal'
    BY <2>1, <2>3, <1>types DEF PostingsReal, Text!PostingsReal, Text!TermsOf
  <2>6. TextTypes' /\ TextAlone' /\ TextCalls'
    BY <2>1, <2>2, <2>3, <2>4, <1>types, <1>on, TextGoto DEF TextTypes, TextSteps, s
  <2> QED  BY <2>5, <2>6 DEF TextInv
<1>4. ASSUME NEW t \in Threads, Text!Drop(t)
      PROVE  TextInv'
  <2> DEFINE s == [job[t] EXCEPT !.at = "uncount"]
             id == job[t].id
  <2>1. /\ texts' = [texts EXCEPT ![id] = Absent] /\ postings' = postings
        /\ Text!Goto(t, s) /\ job[t].at = "unpost" /\ job[t].todo = {}
    BY <1>4 DEF Text!Drop
  <2>2. /\ DOMAIN s = {"at", "id", "text", "old", "todo", "save"}
        /\ s.at = "uncount" /\ s.text = job[t].text /\ s.id = id /\ s.todo = {} /\ id \in Ids
    BY <2>1, <1>types DEF TextTypes
  <2> HIDE DEF s
  <2>3. Text!TermsOf(postings[id]) = {}
    BY <2>1, <1>types DEF TextCalls
  <2>4. PostingsReal'
    BY <2>1, <2>2, <2>3, <1>types DEF TextTypes, PostingsReal, Text!PostingsReal, Text!TermsOf
  <2>5. texts' \in [Ids -> Text!Texts \cup {Absent}]
    BY <2>1, <1>types DEF TextTypes
  <2>6. TextTypes' /\ TextAlone' /\ TextCalls'
    BY <2>1, <2>2, <2>3, <2>5, <1>types, <1>on, TextGoto DEF TextTypes, TextSteps
  <2> QED  BY <2>4, <2>6 DEF TextInv
<1>5. ASSUME NEW t \in Threads, Text!Uncount(t)
      PROVE  TextInv'
  <2>1. PICK c : Text!Goto(t, [job[t] EXCEPT !.at = "save", !.save = c])
    BY <1>5 DEF Text!Uncount
  <2> DEFINE s == [job[t] EXCEPT !.at = "save", !.save = c]
  <2>2. job[t].at = "uncount" /\ UNCHANGED <<texts, postings>>
    BY <1>5 DEF Text!Uncount
  <2>3. /\ DOMAIN s = {"at", "id", "text", "old", "todo", "save"}
        /\ s.at = "save" /\ s.text = job[t].text /\ s.id = job[t].id /\ s.todo = job[t].todo
    BY <1>types DEF TextTypes
  <2>4. Text!Goto(t, s)
    BY <2>1
  <2> HIDE DEF s
  <2>5. TextTypes' /\ TextAlone' /\ TextCalls'
    BY <2>2, <2>3, <2>4, <1>types, <1>on, TextGoto, ZenonT(90) DEF TextTypes, TextCalls, TextSteps
  <2> QED  BY <2>2, <2>5, <1>real DEF TextInv
<1>6. ASSUME NEW t \in Threads, Text!SaveLess(t)
      PROVE  TextInv'
  <2>1. job[t].at = "save" /\ UNCHANGED <<texts, postings>> /\ Text!Storing(t, job[t].id, job[t].text)
    BY <1>6 DEF Text!SaveLess
  <2>2. job[t].id \in Ids /\ job[t].text \in Text!Texts /\ Text!TermsOf(postings[job[t].id]) = {}
    BY <2>1, <1>types DEF TextTypes, TextCalls
  <2>3. TextTypes' /\ TextAlone' /\ TextCalls'
    BY <2>1, <2>2, <1>types, <1>on, TextStoring
  <2> QED  BY <2>1, <2>3, <1>real DEF TextInv
<1>7. ASSUME NEW t \in Threads, Text!Store(t)
      PROVE  TextInv'
  <2> DEFINE id == job[t].id
             s == [job[t] EXCEPT !.at = "post", !.todo = Text!TermsOf(job[t].text)]
  <2>1. /\ texts' = [texts EXCEPT ![id] = job[t].text] /\ postings' = postings
        /\ Text!Goto(t, s) /\ job[t].at = "store"
    BY <1>7 DEF Text!Store
  <2>2. /\ DOMAIN s = {"at", "id", "text", "old", "todo", "save"}
        /\ s.at = "post" /\ s.text = job[t].text /\ s.id = id /\ s.todo \subseteq Terms /\ id \in Ids
    BY <2>1, <1>types DEF TextTypes, Text!TermsOf
  <2> HIDE DEF s
  <2>3. Text!TermsOf(postings[id]) = {}
    BY <2>1, <1>types DEF TextCalls
  <2>4. PostingsReal'
    BY <2>1, <2>2, <2>3, <1>types DEF TextTypes, PostingsReal, Text!PostingsReal, Text!TermsOf
  <2>5. texts' \in [Ids -> Text!Texts \cup {Absent}] /\ texts'[id] = job[t].text
    BY <2>1, <2>2, <1>types DEF TextTypes
  <2>6. TextTypes' /\ TextAlone' /\ TextCalls'
    BY <2>1, <2>2, <2>5, <1>types, <1>on, TextGoto DEF TextTypes, TextSteps
  <2> QED  BY <2>4, <2>6 DEF TextInv
<1>8. ASSUME NEW t \in Threads, Text!Post(t)
      PROVE  TextInv'
  <2>1. PICK w \in job[t].todo :
          /\ postings' = [postings EXCEPT ![job[t].id][w] = job[t].text[w]]
          /\ Text!Goto(t, [job[t] EXCEPT !.todo = job[t].todo \ {w}])
          /\ job[t].at = "post" /\ texts' = texts
    BY <1>8 DEF Text!Post
  <2> DEFINE s == [job[t] EXCEPT !.todo = job[t].todo \ {w}]
             id == job[t].id
  <2>2. /\ DOMAIN s = {"at", "id", "text", "old", "todo", "save"}
        /\ s.at = "post" /\ s.text = job[t].text /\ s.id = id /\ s.todo = job[t].todo \ {w}
        /\ id \in Ids /\ w \in Terms
    BY <2>1, <1>types DEF TextTypes
  <2> HIDE DEF s
  <2>3. texts[id] = job[t].text /\ texts[id] \in Text!Texts /\ texts[id] # Absent
    BY <2>1, <1>types DEF TextTypes, TextCalls, Text!Texts
  <2>4. /\ postings' \in [Ids -> Text!Texts]
        /\ \A i \in Ids, v \in Terms :
             postings'[i][v] = IF i = id /\ v = w THEN texts[id][w] ELSE postings[i][v]
    BY <2>1, <2>2, <2>3, <1>types DEF TextTypes, Text!Texts
  <2>5. PostingsReal'
    BY <2>1, <2>3, <2>4, <1>types DEF PostingsReal, Text!PostingsReal, Text!TermsOf
  <2>6. TextTypes' /\ TextAlone' /\ TextCalls'
    BY <2>1, <2>2, <2>3, <2>4, <1>types, <1>on, TextGoto DEF TextTypes, TextSteps, s
  <2> QED  BY <2>5, <2>6 DEF TextInv
<1>9. ASSUME NEW t \in Threads, Text!Count(t)
      PROVE  TextInv'
  <2>1. PICK c : Text!Goto(t, [job[t] EXCEPT !.at = "saveMore", !.save = c])
    BY <1>9 DEF Text!Count
  <2> DEFINE s == [job[t] EXCEPT !.at = "saveMore", !.save = c]
  <2>2. job[t].at = "post" /\ UNCHANGED <<texts, postings>>
    BY <1>9 DEF Text!Count
  <2>3. /\ DOMAIN s = {"at", "id", "text", "old", "todo", "save"}
        /\ s.at = "saveMore" /\ s.text = job[t].text /\ s.id = job[t].id /\ s.todo = job[t].todo
    BY <1>types DEF TextTypes
  <2>4. Text!Goto(t, s)
    BY <2>1
  <2> HIDE DEF s
  <2>5. TextTypes' /\ TextAlone' /\ TextCalls'
    BY <2>2, <2>3, <2>4, <1>types, <1>on, TextGoto DEF TextTypes, TextSteps
  <2> QED  BY <2>2, <2>5, <1>real DEF TextInv
<1>10. ASSUME NEW t \in Threads, Text!SaveMore(t)
      PROVE  TextInv'
  <2>1. job[t].at = "saveMore" /\ UNCHANGED <<texts, postings>> /\ Text!Goto(t, Text!Resting)
    BY <1>10 DEF Text!SaveMore
  <2>2. /\ DOMAIN Text!Resting = {"at", "id", "text", "old", "todo", "save"}
        /\ Text!Resting.at = "idle" /\ Text!Resting.text = Text!Blank /\ Text!Resting.todo = {}
    BY DEF Text!Resting
  <2>3. TextTypes' /\ TextAlone' /\ TextCalls'
    BY <2>1, <2>2, <1>types, <1>on, <1>blank, TextGoto DEF TextTypes, TextSteps
  <2> QED  BY <2>1, <2>3, <1>real DEF TextInv
<1>11. ASSUME Text!Stop
      PROVE  TextInv'
  <2>1. job' = [t \in Threads |-> Text!Resting] /\ UNCHANGED <<texts, postings>>
    BY <1>11 DEF Text!Stop
  <2>2. TextTypes' /\ TextAlone' /\ TextCalls'
    BY <2>1, <1>types, <1>blank DEF TextTypes, TextAlone, TextCalls, TextSteps, Text!Resting, Text!Free
  <2> QED  BY <2>1, <2>2, <1>real DEF TextInv
<1>12. CASE UNCHANGED textVars
  BY <1>12, <1>types
  DEF textVars, TextInv, TextTypes, TextAlone, TextCalls, PostingsReal, Text!PostingsReal, Text!Free, Text!TermsOf
<1> QED
  BY <1>1, <1>2, <1>3, <1>4, <1>5, <1>6, <1>7, <1>8, <1>9, <1>10, <1>11, <1>12
  DEF Text!Next, Text!Begin, Text!Continue

\* The document of a posting is there and has the term so many times, at every
\* step and after every crash, when the application makes one change of the
\* index at a time (text.py index_document, delete_document, search).
THEOREM PostingsStayReal ==
    ASSUME Exclusive
    PROVE  Spec => []PostingsReal
<1>1. Init => TextInv
  BY TextInit
<1>2. TextInv /\ [Next]_vars => TextInv'
  <2>1. [Next]_vars => [Text!Next]_textVars
    BY DEF Next, vars, docVars, textVars, vecVars, UseDocs, UseText, UseVectors, Crash, Text!Next
  <2> QED  BY <2>1, TextStep
<1>3. TextInv => PostingsReal
  BY DEF TextInv
<1> QED  BY <1>1, <1>2, <1>3, PTL DEF Spec

-----------------------------------------------------------------------------
(* Sums over finite sets *)

\* SumFunction() takes the elements of a set away one by one: f is such a sum
\* of the numbers g for every subset of S.
Any(s) == CHOOSE x \in s : TRUE
SumsUp(f, g, S) == \A s \in SUBSET S : f[s] = IF s = {} THEN 0 ELSE g[Any(s)] + f[s \ {Any(s)}]
Partial(g, S) == CHOOSE f : f = [s \in SUBSET S |-> IF s = {} THEN 0 ELSE g[Any(s)] + f[s \ {Any(s)}]]

LEMMA SumIsPartial ==
    ASSUME NEW g
    PROVE  Text!SumFunction(g) = Partial(g, DOMAIN g)[DOMAIN g]
BY DEF Text!SumFunction, Text!SumFunctionOnSet, Text!FoldFunctionOnSet, Text!MapThenFoldSet, Partial, Any

\* Among subsets of a finite set one has no other below it.
LEMMA LeastSet ==
    ASSUME NEW S, IsFiniteSet(S), NEW B \in SUBSET (SUBSET S), B # {}
    PROVE  \E s \in B : \A r \in B : r \subseteq s => r = s
<1>1. IsWellFoundedOn(StrictSubsetOrdering(S), SUBSET S)
  BY FS_StrictSubsetOrderingWellFounded, FS_FiniteSubsetsOfFinite
<1>2. PICK s \in B : \A r \in B : ~ (<<r, s>> \in StrictSubsetOrdering(S))
  BY <1>1, WFMin
<1> QED  BY <1>2 DEF StrictSubsetOrdering

\* The sum over the subsets exists.
LEMMA SumExists ==
    ASSUME NEW S, IsFiniteSet(S), NEW g \in [S -> Nat]
    PROVE  \E f \in [SUBSET S -> Nat] : SumsUp(f, g, S)
<1> DEFINE Bad == {s \in SUBSET S : ~ \E f \in [SUBSET s -> Nat] : SumsUp(f, g, s)}
           Small(n) == {s \in SUBSET S : Cardinality(s) <= n}
           Add(f, s) == IF s = {} THEN 0 ELSE g[Any(s)] + f[s \ {Any(s)}]
           Good(n) == \E f \in [Small(n) -> Nat] : \A s \in Small(n) : f[s] = Add(f, s)
           N == {n \in Nat : ~ Good(n)}
<1>1. \A s \in SUBSET S : IsFiniteSet(s) /\ Cardinality(s) \in Nat /\ Cardinality(s) <= Cardinality(S)
  BY FS_Subset, FS_CardinalityType
<1>2. \A s \in SUBSET S : s # {} =>
        /\ Any(s) \in s /\ s \ {Any(s)} \in SUBSET S
        /\ Cardinality(s \ {Any(s)}) = Cardinality(s) - 1
  BY <1>1, FS_RemoveElement DEF Any
<1>3. N = {}
  <2> SUFFICES ASSUME N # {} PROVE FALSE
    OBVIOUS
  <2>1. PICK n \in N : \A m \in N : ~ (<<m, n>> \in OpToRel(<, Nat))
    BY NatLessThanWellFounded, WFMin, N \subseteq Nat
  <2>2. n \in Nat /\ ~ Good(n)
    OBVIOUS
  <2>3. n # 0
    <3> DEFINE f == [s \in Small(0) |-> 0]
    <3>1. \A s \in Small(0) : s = {}
      BY <1>1, FS_EmptySet
    <3>2. f \in [Small(0) -> Nat] /\ \A s \in Small(0) : f[s] = Add(f, s)
      BY <3>1
    <3> HIDE DEF f
    <3>3. Good(0)
      BY <3>2
    <3> HIDE DEF Good
    <3> QED  BY <3>3, <2>2
  <2>4. n - 1 \in Nat /\ <<n - 1, n>> \in OpToRel(<, Nat)
    BY <2>2, <2>3 DEF OpToRel
  <2>5. Good(n - 1)
    BY <2>1, <2>4
  <2>6. PICK f \in [Small(n - 1) -> Nat] : \A s \in Small(n - 1) : f[s] = Add(f, s)
    BY <2>5
  <2> DEFINE h == [s \in Small(n) |-> Add(f, s)]
  <2>7. \A s \in Small(n) : s # {} => Any(s) \in S /\ s \ {Any(s)} \in Small(n - 1) /\ s \ {Any(s)} \in Small(n)
    BY <1>1, <1>2, <2>2
  <2>8. h \in [Small(n) -> Nat]
    BY <2>6, <2>7
  <2>9. \A s \in Small(n - 1) : s \in Small(n) /\ h[s] = f[s]
    BY <1>1, <2>2, <2>6
  <2>10. \A s \in Small(n) : h[s] = Add(h, s)
    BY <2>7, <2>9
  <2> QED  BY <2>2, <2>8, <2>10
<1>4. Cardinality(S) \in Nat /\ Small(Cardinality(S)) = SUBSET S
  BY <1>1
<1> HIDE DEF Small
<1>5. Good(Cardinality(S))
  BY <1>3, <1>4
<1> QED  BY <1>4, <1>5 DEF SumsUp

\* There is one such sum, and it depends only on the numbers in the set.
LEMMA SumUnique ==
    ASSUME NEW S, IsFiniteSet(S), NEW f, NEW g, NEW h, NEW k, SumsUp(f, g, S), SumsUp(h, k, S),
           \A x \in S : g[x] = k[x]
    PROVE  \A s \in SUBSET S : f[s] = h[s]
<1> DEFINE B == {s \in SUBSET S : f[s] # h[s]}
<1> SUFFICES ASSUME B # {} PROVE FALSE
  OBVIOUS
<1>1. PICK s \in B : \A r \in B : r \subseteq s => r = s
  <2>1. B \in SUBSET (SUBSET S)
    OBVIOUS
  <2> HIDE DEF B
  <2> QED  BY <2>1, LeastSet
<1>2. s # {}
  BY DEF SumsUp
<1>3. Any(s) \in s
  BY <1>2 DEF Any
<1>4. s \ {Any(s)} \notin B /\ s \ {Any(s)} \in SUBSET S
  BY <1>1, <1>3
<1>5. f[s \ {Any(s)}] = h[s \ {Any(s)}]
  BY <1>4
<1> QED  BY <1>1, <1>2, <1>3, <1>5 DEF SumsUp

\* The order in which the elements are taken is of no matter.
LEMMA SumSplits ==
    ASSUME NEW S, IsFiniteSet(S), NEW g \in [S -> Nat], NEW f \in [SUBSET S -> Nat], SumsUp(f, g, S),
           NEW x \in S
    PROVE  f[S] = g[x] + f[S \ {x}]
<1> DEFINE B == {s \in SUBSET S : \E y \in s : f[s] # g[y] + f[s \ {y}]}
<1> SUFFICES ASSUME B # {} PROVE FALSE
  OBVIOUS
<1>1. PICK s \in B : \A r \in B : r \subseteq s => r = s
  <2>1. B \in SUBSET (SUBSET S)
    OBVIOUS
  <2> HIDE DEF B
  <2> QED  BY <2>1, LeastSet
<1>2. PICK y \in s : f[s] # g[y] + f[s \ {y}]
  OBVIOUS
<1>3. PICK a \in s : a = Any(s)
  BY DEF Any
<1>4. s \in SUBSET S /\ y \in S /\ a \in S /\ f[s] = g[a] + f[s \ {a}] /\ a # y
  BY <1>2, <1>3 DEF SumsUp
<1>5. \A z \in s : \A v \in s \ {z} : f[s \ {z}] = g[v] + f[(s \ {z}) \ {v}]
  <2> SUFFICES ASSUME NEW z \in s
               PROVE  s \ {z} \notin B
    BY <1>4
  <2> QED  BY <1>1
<1>6. f[s \ {a}] = g[y] + f[(s \ {a}) \ {y}] /\ f[s \ {y}] = g[a] + f[(s \ {y}) \ {a}]
  BY <1>4, <1>5
<1>7. (s \ {a}) \ {y} = (s \ {y}) \ {a} /\ (s \ {a}) \ {y} \in SUBSET S
  BY <1>4
<1>8. g[y] \in Nat /\ g[a] \in Nat /\ f[(s \ {a}) \ {y}] \in Nat
  BY <1>4, <1>7
<1>9. PICK c \in Nat : c = f[(s \ {a}) \ {y}] /\ c = f[(s \ {y}) \ {a}]
  BY <1>7, <1>8
<1>10. f[s \ {a}] = g[y] + c /\ f[s \ {y}] = g[a] + c
  BY <1>6, <1>9
<1>11. f[s] = g[a] + (g[y] + c) /\ g[y] + f[s \ {y}] = g[y] + (g[a] + c)
  BY <1>4, <1>10
<1> HIDE DEF B
<1> QED  BY <1>2, <1>8, <1>11

\* What SumFunction() makes of numbers on a finite set: such a sum.
LEMMA SumIs ==
    ASSUME NEW S, IsFiniteSet(S), NEW g \in [S -> Nat]
    PROVE  \E f \in [SUBSET S -> Nat] : SumsUp(f, g, S) /\ Text!SumFunction(g) = f[S]
<1> DEFINE F(f) == [s \in SUBSET S |-> IF s = {} THEN 0 ELSE g[Any(s)] + f[s \ {Any(s)}]]
<1>1. PICK f \in [SUBSET S -> Nat] : SumsUp(f, g, S)
  BY SumExists
<1>2. f = F(f)
  BY <1>1 DEF SumsUp
<1>3. Partial(g, S) = F(Partial(g, S))
  BY <1>2 DEF Partial
<1>4. SumsUp(Partial(g, S), g, S)
  BY <1>3 DEF SumsUp
<1>5. Partial(g, S)[S] = f[S]
  BY <1>1, <1>4, SumUnique
<1> QED  BY <1>1, <1>5, SumIsPartial

\* It is a number.
LEMMA SumType ==
    ASSUME NEW S, IsFiniteSet(S), NEW g \in [S -> Nat]
    PROVE  Text!SumFunction(g) \in Nat
<1>1. PICK f \in [SUBSET S -> Nat] : SumsUp(f, g, S) /\ Text!SumFunction(g) = f[S]
  BY SumIs
<1>2. S \in SUBSET S
  OBVIOUS
<1> QED  BY <1>1, <1>2

\* One of the numbers changes the sum by as much.
LEMMA SumChanges ==
    ASSUME NEW S, IsFiniteSet(S), NEW g \in [S -> Nat], NEW h \in [S -> Nat], NEW x \in S,
           \A y \in S \ {x} : g[y] = h[y]
    PROVE  /\ g[x] <= Text!SumFunction(g)
           /\ Text!SumFunction(h) = Text!SumFunction(g) - g[x] + h[x]
<1>1. PICK f \in [SUBSET S -> Nat] : SumsUp(f, g, S) /\ Text!SumFunction(g) = f[S]
  BY SumIs
<1>2. PICK k \in [SUBSET S -> Nat] : SumsUp(k, h, S) /\ Text!SumFunction(h) = k[S]
  BY SumIs
<1>3. f[S] = g[x] + f[S \ {x}] /\ k[S] = h[x] + k[S \ {x}]
  BY <1>1, <1>2, SumSplits
<1>4. f[S \ {x}] = k[S \ {x}]
  <2> DEFINE T == S \ {x}
  <2>1. IsFiniteSet(T) /\ T \in SUBSET S
    BY FS_Subset
  <2>2. SumsUp(f, g, T) /\ SumsUp(k, h, T)
    BY <1>1, <1>2 DEF SumsUp
  <2> QED  BY <2>1, <2>2, SumUnique
<1>5. f[S \ {x}] \in Nat /\ g[x] \in Nat /\ h[x] \in Nat
  BY <1>1
<1> QED  BY <1>1, <1>2, <1>3, <1>4, <1>5

\* A sum of nothing but zeros is zero.
LEMMA SumZero ==
    ASSUME NEW S, IsFiniteSet(S), NEW g \in [S -> Nat], \A x \in S : g[x] = 0
    PROVE  Text!SumFunction(g) = 0
<1>1. PICK f \in [SUBSET S -> Nat] : SumsUp(f, g, S) /\ Text!SumFunction(g) = f[S]
  BY SumIs
<1> DEFINE z == [s \in SUBSET S |-> 0]
<1>2. SumsUp(z, g, S)
  BY DEF SumsUp, Any
<1>3. z[S] = 0
  OBVIOUS
<1> HIDE DEF z
<1> QED  BY <1>1, <1>2, <1>3, SumUnique

-----------------------------------------------------------------------------
(* The counts of the full-text index *)

Counts == [docs : Nat, terms : Nat]
Jobs == [at : TextSteps, id : Ids \cup {Absent}, text : Text!Texts, old : Text!Texts,
         todo : SUBSET Terms, save : Counts]

\* The types with what is saved of the counts; no blank text is stored.
TextTyped ==
    /\ texts \in [Ids -> (Text!Texts \ {Text!Blank}) \cup {Absent}]
    /\ postings \in [Ids -> Text!Texts]
    /\ stats \in Counts
    /\ job \in [Threads -> Jobs]
    /\ \A t \in Threads :
         /\ job[t].at # "idle" => job[t].id \in Ids
         /\ job[t].at = "store" => job[t].text # Text!Blank

\* A text has as many terms as a number says, and some if it is not blank.
LEMMA Lengths ==
    ASSUME NEW x \in Text!Texts
    PROVE  Text!Length(x) \in Nat /\ \A w \in Terms : x[w] <= Text!Length(x)
<1>1. x \in [Terms -> Nat]
  BY TextAssumption DEF Text!Texts
<1>2. Text!Length(x) \in Nat
  BY <1>1, FiniteAssumption, SumType DEF Text!Length
<1>3. \A w \in Terms : x[w] <= Text!Length(x)
  BY <1>1, FiniteAssumption, SumChanges DEF Text!Length
<1> QED  BY <1>2, <1>3

LEMMA TypedInit == Init => TextTyped
<1>1. Text!Blank \in Text!Texts
  BY TextAssumption DEF Text!Blank, Text!Texts
<1>2. Text!Resting \in Jobs /\ Text!Resting.at = "idle"
  BY <1>1 DEF Text!Resting, Jobs, TextSteps, Counts
<1> QED  BY <1>1, <1>2 DEF Init, Text!Init, TextTyped, Counts

\* A call goes on or ends.
LEMMA TypedGoto ==
    ASSUME TextTyped, NEW t \in Threads, NEW s \in Jobs, Text!Goto(t, s),
           s.at # "idle" => s.id \in Ids, s.at = "store" => s.text # Text!Blank,
           texts' \in [Ids -> (Text!Texts \ {Text!Blank}) \cup {Absent}],
           postings' \in [Ids -> Text!Texts],
           stats' \in Counts
    PROVE  TextTyped'
<1>1. job' \in [Threads -> Jobs] /\ job'[t] = s /\ \A u \in Threads : u # t => job'[u] = job[u]
  BY DEF TextTyped, Text!Goto
<1> QED  BY <1>1 DEF TextTyped

\* index_document() goes on with a text or returns.
LEMMA TypedStoring ==
    ASSUME TextTyped, NEW t \in Threads, NEW id \in Ids, NEW x \in Text!Texts, Text!Storing(t, id, x),
           UNCHANGED <<texts, postings>>, stats' \in Counts
    PROVE  TextTyped'
<1>1. Text!Blank \in Text!Texts
  BY TextAssumption DEF Text!Blank, Text!Texts
<1>2. CASE x = Text!Blank
  <2>1. Text!Goto(t, Text!Resting) /\ Text!Resting \in Jobs /\ Text!Resting.at = "idle"
    BY <1>1, <1>2 DEF Text!Storing, Text!Resting, Jobs, TextSteps, Counts
  <2> QED  BY <2>1, TypedGoto DEF TextTyped
<1>3. CASE x # Text!Blank
  <2> DEFINE s == [Text!Resting EXCEPT !.at = "store", !.id = id, !.text = x]
  <2>1. Text!Goto(t, s) /\ s \in Jobs /\ s.at = "store" /\ s.id = id /\ s.text = x
    BY <1>1, <1>3 DEF Text!Storing, Text!Resting, Jobs, TextSteps, Counts
  <2> HIDE DEF s
  <2> QED  BY <1>3, <2>1, TypedGoto DEF TextTyped
<1> QED  BY <1>2, <1>3

\* delete_document() begins.
LEMMA TypedUnposting ==
    ASSUME TextTyped, NEW t \in Threads, NEW id \in Ids, NEW x \in Text!Texts, Text!Unposting(t, id, x),
           texts[id] # Absent, UNCHANGED <<texts, postings, stats>>
    PROVE  TextTyped'
<1>1. Text!Blank \in Text!Texts
  BY TextAssumption DEF Text!Blank, Text!Texts
<1>2. texts[id] \in Text!Texts /\ Text!TermsOf(texts[id]) \in SUBSET Terms
  BY DEF TextTyped, Text!TermsOf
<1> DEFINE s == [Text!Resting EXCEPT !.at = "unpost", !.id = id, !.text = x,
                     !.old = texts[id], !.todo = Text!TermsOf(texts[id])]
<1>3. Text!Goto(t, s) /\ s \in Jobs /\ s.at = "unpost" /\ s.id = id
  BY <1>1, <1>2 DEF Text!Unposting, Text!Resting, Jobs, TextSteps, Counts
<1> HIDE DEF s
<1> QED  BY <1>3, TypedGoto DEF TextTyped

LEMMA TypedStep ==
    ASSUME TextTyped, [Text!Next]_textVars
    PROVE  TextTyped'
<1>blank. Text!Blank \in Text!Texts
  BY TextAssumption DEF Text!Blank, Text!Texts
<1>rest. Text!Resting \in Jobs /\ Text!Resting.at = "idle"
  BY <1>blank DEF Text!Resting, Jobs, TextSteps, Counts
<1>1. ASSUME NEW t \in Threads, NEW id \in Ids, NEW x \in Text!Texts, Text!IndexDocument(t, id, x)
      PROVE  TextTyped'
  <2>1. UNCHANGED <<texts, postings, stats>>
    BY <1>1 DEF Text!IndexDocument
  <2>2. CASE texts[id] = Absent
    BY <1>1, <2>1, <2>2, TypedStoring DEF Text!IndexDocument, TextTyped
  <2>3. CASE texts[id] # Absent
    BY <1>1, <2>1, <2>3, TypedUnposting DEF Text!IndexDocument
  <2> QED  BY <2>2, <2>3
<1>2. ASSUME NEW t \in Threads, NEW id \in Ids, Text!DeleteDocument(t, id)
      PROVE  TextTyped'
  BY <1>2, <1>blank, TypedUnposting DEF Text!DeleteDocument
<1>3. ASSUME NEW t \in Threads, Text!Unpost(t)
      PROVE  TextTyped'
  <2>1. PICK w \in job[t].todo :
          /\ postings' = [postings EXCEPT ![job[t].id][w] = 0]
          /\ Text!Goto(t, [job[t] EXCEPT !.todo = job[t].todo \ {w}])
    BY <1>3 DEF Text!Unpost
  <2> DEFINE s == [job[t] EXCEPT !.todo = job[t].todo \ {w}]
  <2>2. job[t].at = "unpost" /\ UNCHANGED <<texts, stats>> /\ w \in Terms
    BY <1>3, <2>1 DEF Text!Unpost, TextTyped, Jobs
  <2>3. s \in Jobs /\ s.at = "unpost" /\ s.id = job[t].id /\ s.id \in Ids
    BY <2>2 DEF TextTyped, Jobs
  <2>4. postings' \in [Ids -> Text!Texts]
    BY <2>1, <2>2, TextAssumption DEF TextTyped, Text!Texts
  <2> HIDE DEF s
  <2> QED  BY <2>1, <2>2, <2>3, <2>4, TypedGoto DEF TextTyped, s
<1>4. ASSUME NEW t \in Threads, Text!Drop(t)
      PROVE  TextTyped'
  <2> DEFINE s == [job[t] EXCEPT !.at = "uncount"]
  <2>1. /\ texts' = [texts EXCEPT ![job[t].id] = Absent] /\ UNCHANGED <<postings, stats>>
        /\ Text!Goto(t, s) /\ job[t].at = "unpost"
    BY <1>4 DEF Text!Drop
  <2>2. s \in Jobs /\ s.at = "uncount" /\ s.id = job[t].id /\ s.id \in Ids
    BY <2>1 DEF TextTyped, Jobs, TextSteps
  <2> HIDE DEF s
  <2>3. texts' \in [Ids -> (Text!Texts \ {Text!Blank}) \cup {Absent}]
    BY <2>1 DEF TextTyped
  <2> QED  BY <2>1, <2>2, <2>3, TypedGoto DEF TextTyped
<1>5. ASSUME NEW t \in Threads, Text!Uncount(t)
      PROVE  TextTyped'
  <2> DEFINE c == [docs |-> Text!Less(stats.docs, 1), terms |-> Text!Less(stats.terms, Text!Length(job[t].old))]
             s == [job[t] EXCEPT !.at = "save", !.save = c]
  <2>1. job[t].at = "uncount" /\ UNCHANGED <<texts, postings, stats>> /\ Text!Goto(t, s)
    BY <1>5 DEF Text!Uncount
  <2>2. job[t].old \in Text!Texts /\ stats.docs \in Nat /\ stats.terms \in Nat
    BY DEF TextTyped, Jobs, Counts
  <2>3. Text!Length(job[t].old) \in Nat
    BY <2>2, Lengths
  <2>4. Text!Less(stats.docs, 1) \in Nat /\ Text!Less(stats.terms, Text!Length(job[t].old)) \in Nat
    BY <2>2, <2>3 DEF Text!Less
  <2>5. c \in Counts
    BY <2>4 DEF Counts
  <2> HIDE DEF c
  <2>6. s \in Jobs /\ s.at = "save" /\ s.id = job[t].id /\ s.id \in Ids
    BY <2>1, <2>5 DEF TextTyped, Jobs, TextSteps
  <2> HIDE DEF s
  <2> QED  BY <2>1, <2>6, TypedGoto DEF TextTyped
<1>6. ASSUME NEW t \in Threads, Text!SaveLess(t)
      PROVE  TextTyped'
  <2>1. /\ job[t].at = "save" /\ UNCHANGED <<texts, postings>> /\ stats' = job[t].save
        /\ Text!Storing(t, job[t].id, job[t].text)
    BY <1>6 DEF Text!SaveLess
  <2>2. job[t].id \in Ids /\ job[t].text \in Text!Texts /\ job[t].save \in Counts
    BY <2>1 DEF TextTyped, Jobs
  <2> QED  BY <2>1, <2>2, TypedStoring
<1>7. ASSUME NEW t \in Threads, Text!Store(t)
      PROVE  TextTyped'
  <2> DEFINE s == [job[t] EXCEPT !.at = "post", !.todo = Text!TermsOf(job[t].text)]
  <2>1. /\ texts' = [texts EXCEPT ![job[t].id] = job[t].text] /\ UNCHANGED <<postings, stats>>
        /\ Text!Goto(t, s) /\ job[t].at = "store"
    BY <1>7 DEF Text!Store
  <2>2. Text!TermsOf(job[t].text) \in SUBSET Terms
    BY DEF Text!TermsOf
  <2>3. s \in Jobs /\ s.at = "post" /\ s.id = job[t].id /\ s.id \in Ids
    BY <2>1, <2>2 DEF TextTyped, Jobs, TextSteps
  <2> HIDE DEF s
  <2>4. texts' \in [Ids -> (Text!Texts \ {Text!Blank}) \cup {Absent}]
    BY <2>1 DEF TextTyped, Jobs
  <2> QED  BY <2>1, <2>3, <2>4, TypedGoto DEF TextTyped
<1>8. ASSUME NEW t \in Threads, Text!Post(t)
      PROVE  TextTyped'
  <2>1. PICK w \in job[t].todo :
          /\ postings' = [postings EXCEPT ![job[t].id][w] = job[t].text[w]]
          /\ Text!Goto(t, [job[t] EXCEPT !.todo = job[t].todo \ {w}])
    BY <1>8 DEF Text!Post
  <2> DEFINE s == [job[t] EXCEPT !.todo = job[t].todo \ {w}]
  <2>2. job[t].at = "post" /\ UNCHANGED <<texts, stats>> /\ w \in Terms
    BY <1>8, <2>1 DEF Text!Post, TextTyped, Jobs
  <2>3. s \in Jobs /\ s.at = "post" /\ s.id = job[t].id /\ s.id \in Ids
    BY <2>2 DEF TextTyped, Jobs
  <2>4. postings' \in [Ids -> Text!Texts]
    BY <2>1, <2>2 DEF TextTyped, Text!Texts, Jobs
  <2> HIDE DEF s
  <2> QED  BY <2>1, <2>2, <2>3, <2>4, TypedGoto DEF TextTyped, s
<1>9. ASSUME NEW t \in Threads, Text!Count(t)
      PROVE  TextTyped'
  <2> DEFINE c == [docs |-> stats.docs + 1, terms |-> stats.terms + Text!Length(job[t].text)]
             s == [job[t] EXCEPT !.at = "saveMore", !.save = c]
  <2>1. job[t].at = "post" /\ UNCHANGED <<texts, postings, stats>> /\ Text!Goto(t, s)
    BY <1>9 DEF Text!Count
  <2>2. job[t].text \in Text!Texts /\ stats.docs \in Nat /\ stats.terms \in Nat
    BY DEF TextTyped, Jobs, Counts
  <2>3. Text!Length(job[t].text) \in Nat
    BY <2>2, Lengths
  <2>4. c \in Counts
    BY <2>2, <2>3 DEF Counts
  <2> HIDE DEF c
  <2>5. s \in Jobs /\ s.at = "saveMore" /\ s.id = job[t].id /\ s.id \in Ids
    BY <2>1, <2>4 DEF TextTyped, Jobs, TextSteps
  <2> HIDE DEF s
  <2> QED  BY <2>1, <2>5, TypedGoto DEF TextTyped
<1>10. ASSUME NEW t \in Threads, Text!SaveMore(t)
      PROVE  TextTyped'
  <2>1. UNCHANGED <<texts, postings>> /\ stats' = job[t].save /\ Text!Goto(t, Text!Resting)
    BY <1>10 DEF Text!SaveMore
  <2>2. job[t].save \in Counts
    BY DEF TextTyped, Jobs
  <2> QED  BY <2>1, <2>2, <1>rest, TypedGoto DEF TextTyped
<1>11. ASSUME Text!Stop
      PROVE  TextTyped'
  BY <1>11, <1>rest DEF Text!Stop, TextTyped
<1>12. CASE UNCHANGED textVars
  BY <1>12 DEF textVars, TextTyped
<1> QED
  BY <1>1, <1>2, <1>3, <1>4, <1>5, <1>6, <1>7, <1>8, <1>9, <1>10, <1>11, <1>12
  DEF Text!Next, Text!Begin, Text!Continue

\* How far a is from b.
Gap(a, b) == IF a > b THEN a - b ELSE b - a

\* How many documents there are, and how many terms they have.
Number == Cardinality(Text!There)
Total == Text!SumFunction([id \in Ids |-> Text!Weight(id)])

\* Every term of document id has its posting.
Covered(id) == texts[id] # Absent => Text!TermsOf(texts[id]) \subseteq Text!TermsOf(postings[id])

\* What the counts and postings are when the one call under way is at step s:
\* the counts follow the documents, and each crash puts them off by one more.
DocsRight(s) ==
    /\ s.at \in {"idle", "unpost", "store"} => Gap(stats.docs, Number) <= crashes
    /\ s.at \in {"uncount", "save"} => Gap(stats.docs, Number + 1) <= crashes
    /\ s.at \in {"post", "saveMore"} => Gap(stats.docs + 1, Number) <= crashes
    /\ s.at \in {"save", "saveMore"} => Gap(s.save.docs, Number) <= crashes

TermsRight(s) ==
    /\ s.at \in {"idle", "unpost", "store"} => stats.terms = Total
    /\ s.at = "uncount" => stats.terms = Total + Text!Length(s.old)
    /\ s.at = "post" => stats.terms + Text!Length(s.text) = Total
    /\ s.at \in {"save", "saveMore"} => s.save.terms = Total

PostingsRight(s) ==
    /\ \A id \in Ids : id # s.id \/ s.at = "saveMore" => Covered(id)
    /\ s.at = "post" => Text!TermsOf(s.text) \ s.todo \subseteq Text!TermsOf(postings[s.id])

Right(s) ==
    /\ s.at \in {"uncount", "save", "store"} => texts[s.id] = Absent
    /\ s.at = "unpost" => texts[s.id] = s.old
    /\ DocsRight(s)
    /\ crashes = 0 => TermsRight(s) /\ PostingsRight(s)

CountInv ==
    /\ TextInv /\ TextTyped /\ crashes \in Nat
    /\ Text!Idle => Right(Text!Resting)
    /\ \A t \in Threads : ~ Text!Free(t) => Right(job[t])

\* Taking a document away or putting one changes the counts by what it counts for.
LEMMA CountChanges ==
    ASSUME TextTyped, NEW id \in Ids, NEW x \in (Text!Texts \ {Text!Blank}) \cup {Absent},
           texts' = [texts EXCEPT ![id] = x]
    PROVE  /\ Number \in Nat /\ Number' \in Nat /\ Total \in Nat /\ Total' \in Nat
           /\ texts[id] # Absent /\ x = Absent =>
                Number = Number' + 1 /\ Total = Total' + Text!Length(texts[id])
           /\ texts[id] = Absent /\ x # Absent =>
                Number' = Number + 1 /\ Total' = Total + Text!Length(x)
<1> DEFINE g == [i \in Ids |-> Text!Weight(i)]
           h == [i \in Ids |-> Text!Weight(i)']
<1>1. \A y \in Text!Texts : Text!Length(y) \in Nat
  BY Lengths
<1>2. /\ texts \in [Ids -> (Text!Texts \ {Text!Blank}) \cup {Absent}]
      /\ texts' \in [Ids -> (Text!Texts \ {Text!Blank}) \cup {Absent}]
      /\ texts'[id] = x /\ \A i \in Ids : i # id => texts'[i] = texts[i]
  BY DEF TextTyped
<1>3. g \in [Ids -> Nat] /\ h \in [Ids -> Nat] /\ \A i \in Ids \ {id} : g[i] = h[i]
  BY <1>1, <1>2 DEF Text!Weight
<1>4. g[id] = Text!Weight(id) /\ h[id] = Text!Weight(id)'
  OBVIOUS
<1>5. Total = Text!SumFunction(g) /\ Total' = Text!SumFunction(h)
  BY DEF Total
<1> HIDE DEF g, h
<1>6. /\ Total \in Nat /\ Total' \in Nat
      /\ g[id] <= Total /\ Total' = Total - g[id] + h[id] /\ g[id] \in Nat /\ h[id] \in Nat
  BY <1>3, <1>5, FiniteAssumption, SumType, SumChanges
<1>7. IsFiniteSet(Text!There) /\ IsFiniteSet(Text!There')
  BY FiniteAssumption, FS_Subset DEF Text!There
<1>8. Number \in Nat /\ Number' \in Nat
  BY <1>7, FS_CardinalityType DEF Number
<1>9. ASSUME texts[id] # Absent, x = Absent
      PROVE  Number = Number' + 1 /\ Total = Total' + Text!Length(texts[id])
  <2>1. Text!There' = Text!There \ {id} /\ id \in Text!There
    BY <1>2, <1>9 DEF Text!There
  <2>2. Number' = Number - 1
    BY <1>7, <2>1, FS_RemoveElement DEF Number
  <2>3. g[id] = Text!Length(texts[id]) /\ h[id] = 0
    BY <1>2, <1>4, <1>9 DEF Text!Weight
  <2> QED  BY <1>6, <1>8, <2>2, <2>3
<1>10. ASSUME texts[id] = Absent, x # Absent
       PROVE  Number' = Number + 1 /\ Total' = Total + Text!Length(x)
  <2>1. Text!There' = Text!There \cup {id} /\ id \notin Text!There
    BY <1>2, <1>10 DEF Text!There
  <2>2. Number' = Number + 1
    BY <1>7, <2>1, FS_AddElement DEF Number
  <2>3. g[id] = 0 /\ h[id] = Text!Length(x)
    BY <1>2, <1>4, <1>10 DEF Text!Weight
  <2> QED  BY <1>6, <1>8, <2>2, <2>3
<1> QED  BY <1>6, <1>8, <1>9, <1>10

\* They are numbers, and the same for the same documents.
LEMMA CountTypes ==
    ASSUME TextTyped
    PROVE  Number \in Nat /\ Total \in Nat
<1>1. [id \in Ids |-> Text!Weight(id)] \in [Ids -> Nat]
  BY Lengths DEF Text!Weight, TextTyped
<1>2. IsFiniteSet(Text!There)
  BY FiniteAssumption, FS_Subset DEF Text!There
<1> QED  BY <1>1, <1>2, FiniteAssumption, SumType, FS_CardinalityType DEF Number, Total

\* Text counts with the library's operator as this module does.
LEMMA SameCardinality == \A S : Text!Cardinality(S) = Cardinality(S)
BY DEF Text!Cardinality, Cardinality

LEMMA CountSame ==
    ASSUME texts' = texts
    PROVE  Number' = Number /\ Total' = Total
BY DEF Number, Total, Text!There, Text!Weight

\* The one call goes on or ends.
LEMMA CountGoto ==
    ASSUME TextInv', TextTyped, TextTyped', crashes \in Nat, crashes' = crashes,
           NEW t \in Threads, NEW s, Text!Goto(t, s), \A u \in Threads : u # t => Text!Free(u),
           s.at = "idle" => s = Text!Resting, Right(s)'
    PROVE  CountInv'
<1>1. job'[t] = s /\ \A u \in Threads : u # t => job'[u] = job[u]
  BY DEF TextTyped, Text!Goto
<1>2. Text!Idle' => s.at = "idle"
  BY <1>1 DEF Text!Idle, Text!Free
<1>3. \A u \in Threads : ~ Text!Free(u)' => u = t
  BY <1>1 DEF Text!Free
<1> QED  BY <1>1, <1>2, <1>3 DEF CountInv

\* What is right stays so while nothing it is about changes.
LEMMA RightStays ==
    ASSUME UNCHANGED <<texts, postings, stats, crashes>>, NEW s
    PROVE  Right(s)' <=> Right(s)
<1>1. Number' = Number /\ Total' = Total
  BY CountSame
<1>2. \A id \in Ids : Covered(id)' <=> Covered(id)
  BY DEF Covered, Text!TermsOf
<1>3. DocsRight(s)' <=> DocsRight(s)
  BY <1>1 DEF DocsRight, Gap
<1>4. TermsRight(s)' <=> TermsRight(s)
  BY <1>1 DEF TermsRight
<1>5. PostingsRight(s)' <=> PostingsRight(s)
  BY <1>2 DEF PostingsRight, Text!TermsOf
<1> QED  BY <1>3, <1>4, <1>5 DEF Right

\* index_document() goes on with a text or returns, when the counts are right
\* for neither.
LEMMA CountStoring ==
    ASSUME TextInv', TextTyped, TextTyped', crashes \in Nat, crashes' = crashes,
           NEW t \in Threads, NEW id \in Ids, NEW x \in Text!Texts, Text!Storing(t, id, x),
           \A u \in Threads : u # t => Text!Free(u),
           texts'[id] = Absent, Right(Text!Resting)'
    PROVE  CountInv'
<1>a. Absent \notin Ids
  BY DocAssumption
<1>1. CASE x = Text!Blank
  <2>1. Text!Goto(t, Text!Resting)
    BY <1>1 DEF Text!Storing
  <2> QED  BY <2>1, CountGoto
<1>2. CASE x # Text!Blank
  <2>1. PICK s : s = [Text!Resting EXCEPT !.at = "store", !.id = id, !.text = x]
    OBVIOUS
  <2>2. Text!Goto(t, s)
    BY <1>2, <2>1 DEF Text!Storing
  <2>3. s.at = "store" /\ s.id = id
    BY <2>1 DEF Text!Resting
  <2>4. Text!Resting.at = "idle" /\ Text!Resting.id = Absent
    BY DEF Text!Resting
  <2>5. PICK r : r = Text!Resting
    OBVIOUS
  <2>6. Right(r)' /\ r.at = "idle" /\ r.id = Absent
    BY <2>4, <2>5 DEF Right, DocsRight, TermsRight, PostingsRight, Text!Resting, Text!Blank
  <2>7. DocsRight(s)' /\ (crashes' = 0 => TermsRight(s)' /\ PostingsRight(s)')
    BY <1>a, <2>3, <2>6 DEF Right, DocsRight, TermsRight, PostingsRight
  <2>8. Right(s)'
    BY <2>3, <2>7 DEF Right
  <2> QED  BY <2>2, <2>3, <2>8, CountGoto
<1> QED  BY <1>1, <1>2

\* delete_document() begins.
LEMMA CountUnposting ==
    ASSUME CountInv, TextInv', TextTyped', crashes' = crashes, Text!Idle,
           NEW t \in Threads, NEW id \in Ids, NEW x \in Text!Texts, Text!Unposting(t, id, x),
           UNCHANGED <<texts, postings, stats>>
    PROVE  CountInv'
<1>a. Absent \notin Ids
  BY DocAssumption
<1>1. PICK s : s = [Text!Resting EXCEPT !.at = "unpost", !.id = id, !.text = x,
                        !.old = texts[id], !.todo = Text!TermsOf(texts[id])]
  OBVIOUS
<1>2. Text!Goto(t, s) /\ s.at = "unpost" /\ s.id = id /\ s.old = texts[id]
  BY <1>1 DEF Text!Unposting, Text!Resting
<1>3. Right(Text!Resting) /\ Text!Resting.at = "idle" /\ Text!Resting.id = Absent
  BY DEF CountInv, Text!Resting
<1>4. Right(s)
  BY <1>a, <1>2, <1>3 DEF Right, DocsRight, TermsRight, PostingsRight
<1>5. Right(s)'
  BY <1>4, RightStays
<1> QED  BY <1>2, <1>5, CountGoto DEF CountInv, Text!Idle

LEMMA CountStep ==
    ASSUME Exclusive, CountInv, crashes' = crashes,
           (\E t \in Threads : Text!Begin(t) \/ Text!Continue(t)) \/ UNCHANGED textVars
    PROVE  CountInv'
<1>inv. TextInv /\ TextTyped /\ TextInv' /\ TextTyped' /\ crashes \in Nat
  BY TextStep, TypedStep DEF CountInv, Text!Next
<1>types. TextTypes /\ TextAlone /\ TextCalls /\ PostingsReal
  BY <1>inv DEF TextInv
<1>may. ASSUME NEW t \in Threads, Text!May(t)
        PROVE  Text!Idle /\ (\A u \in Threads : Text!Free(u)) /\ Right(Text!Resting)
  BY <1>may DEF Text!May, Text!Idle, CountInv
<1>on. ASSUME NEW t \in Threads, job[t].at # "idle"
       PROVE  /\ \A u \in Threads : u # t => Text!Free(u)
              /\ Right(job[t]) /\ job[t] \in Jobs /\ job[t].id \in Ids
  BY <1>on, <1>inv, <1>types DEF TextAlone, Text!Free, CountInv, TextTyped
<1>rest. Text!Resting.at = "idle" /\ Text!Resting.id = Absent /\ Absent \notin Ids
  BY DocAssumption DEF Text!Resting
<1>num. Number \in Nat /\ Total \in Nat
  BY <1>inv, CountTypes
<1>stats. stats.docs \in Nat /\ stats.terms \in Nat
  BY <1>inv DEF TextTyped, Counts
<1>1. ASSUME NEW t \in Threads, NEW id \in Ids, NEW x \in Text!Texts, Text!IndexDocument(t, id, x)
      PROVE  CountInv'
  <2>1. UNCHANGED <<texts, postings, stats>> /\ Text!Idle /\ Right(Text!Resting)
        /\ \A u \in Threads : Text!Free(u)
    BY <1>1, <1>may DEF Text!IndexDocument
  <2>2. CASE texts[id] = Absent
    <3>1. Right(Text!Resting)'
      BY <2>1, RightStays DEF Right, DocsRight, TermsRight, PostingsRight, Text!Resting, Text!Blank
    <3>2. Text!Storing(t, id, x)
      BY <1>1, <2>2 DEF Text!IndexDocument
    <3> QED  BY <2>1, <2>2, <3>1, <3>2, <1>inv, CountStoring
  <2>3. CASE texts[id] # Absent
    BY <1>1, <2>1, <2>3, <1>inv, CountUnposting DEF Text!IndexDocument
  <2> QED  BY <2>2, <2>3
<1>2. ASSUME NEW t \in Threads, NEW id \in Ids, Text!DeleteDocument(t, id)
      PROVE  CountInv'
  <2>1. Text!Blank \in Text!Texts
    BY TextAssumption DEF Text!Blank, Text!Texts
  <2> QED  BY <1>2, <2>1, <1>may, <1>inv, CountUnposting DEF Text!DeleteDocument
<1>3. ASSUME NEW t \in Threads, Text!Unpost(t)
      PROVE  CountInv'
  <2>1. PICK w \in job[t].todo :
          /\ postings' = [postings EXCEPT ![job[t].id][w] = 0]
          /\ Text!Goto(t, [job[t] EXCEPT !.todo = job[t].todo \ {w}])
    BY <1>3 DEF Text!Unpost
  <2>2. job[t].at = "unpost" /\ UNCHANGED <<texts, stats>>
    BY <1>3 DEF Text!Unpost
  <2>3. PICK s : s = [job[t] EXCEPT !.todo = job[t].todo \ {w}]
    OBVIOUS
  <2>4. s.at = "unpost" /\ s.id = job[t].id /\ s.old = job[t].old /\ Right(job[t]) /\ s.id \in Ids
    BY <2>2, <2>3, <1>on DEF Jobs
  <2>5. \A i \in Ids : i # s.id => postings'[i] = postings[i]
    BY <2>1, <2>4, <1>inv DEF TextTyped
  <2>6. Number' = Number /\ Total' = Total
    BY <2>2, CountSame
  <2>7. DocsRight(s)' /\ (crashes = 0 => TermsRight(s)')
    BY <2>2, <2>4, <2>6 DEF Right, DocsRight, TermsRight, Gap
  <2>8. crashes = 0 => PostingsRight(s)'
    BY <2>2, <2>4, <2>5 DEF Right, PostingsRight, Covered, Text!TermsOf
  <2>9. Right(s)'
    BY <2>2, <2>4, <2>7, <2>8 DEF Right
  <2> QED  BY <2>1, <2>2, <2>3, <2>4, <2>9, <1>on, <1>inv, CountGoto
<1>4. ASSUME NEW t \in Threads, Text!Drop(t)
      PROVE  CountInv'
  <2>1. PICK s, id : s = [job[t] EXCEPT !.at = "uncount"] /\ id = job[t].id
    OBVIOUS
  <2>2. /\ texts' = [texts EXCEPT ![id] = Absent] /\ UNCHANGED <<postings, stats>>
        /\ Text!Goto(t, s) /\ job[t].at = "unpost"
    BY <1>4, <2>1 DEF Text!Drop
  <2>3. s.at = "uncount" /\ s.id = id /\ s.old = job[t].old /\ Right(job[t]) /\ id \in Ids
    BY <2>1, <2>2, <1>on DEF Jobs
  <2>4. texts[id] # Absent /\ texts[id] = s.old
    BY <2>1, <2>2, <2>3, <1>types DEF TextCalls, Right
  <2>5. Number = Number' + 1 /\ Total = Total' + Text!Length(s.old)
    BY <2>2, <2>3, <2>4, <1>inv, CountChanges
  <2>6. /\ texts'[id] = Absent /\ \A i \in Ids : i # id => texts'[i] = texts[i]
    BY <2>2, <2>3, <1>inv DEF TextTyped
  <2>7. DocsRight(s)' /\ (crashes = 0 => TermsRight(s)')
    BY <2>1, <2>2, <2>3, <2>5 DEF Right, DocsRight, TermsRight
  <2>8. crashes = 0 => PostingsRight(s)'
    BY <2>1, <2>2, <2>3, <2>6 DEF Right, PostingsRight, Covered, Text!TermsOf
  <2>9. Right(s)'
    BY <2>3, <2>6, <2>7, <2>8 DEF Right
  <2> QED  BY <2>2, <2>3, <2>9, <1>on, <1>inv, CountGoto
<1>5. ASSUME NEW t \in Threads, Text!Uncount(t)
      PROVE  CountInv'
  <2>1. PICK c : c = [docs |-> Text!Less(stats.docs, 1), terms |-> Text!Less(stats.terms, Text!Length(job[t].old))]
    OBVIOUS
  <2>2. PICK s : s = [job[t] EXCEPT !.at = "save", !.save = c]
    OBVIOUS
  <2>3. job[t].at = "uncount" /\ UNCHANGED <<texts, postings, stats>> /\ Text!Goto(t, s)
    BY <1>5, <2>1, <2>2 DEF Text!Uncount
  <2>4. /\ s.at = "save" /\ s.id = job[t].id /\ s.save = c /\ job[t].old \in Text!Texts
        /\ Right(job[t]) /\ s.id \in Ids
    BY <2>2, <2>3, <1>on DEF Jobs
  <2>5. PICK l \in Nat : l = Text!Length(job[t].old)
    BY <2>4, Lengths
  <2>6. /\ c.docs = IF stats.docs > 1 THEN stats.docs - 1 ELSE 0
        /\ c.terms = IF stats.terms > l THEN stats.terms - l ELSE 0
    BY <2>1, <2>5 DEF Text!Less
  <2>7. Gap(stats.docs, Number + 1) <= crashes /\ (crashes = 0 => stats.terms = Total + l)
    BY <2>3, <2>4, <2>5 DEF Right, DocsRight, TermsRight
  <2>8. Gap(c.docs, Number) <= crashes
    BY <2>6, <2>7, <1>num, <1>stats, <1>inv DEF Gap
  <2>9. crashes = 0 => c.terms = Total
    BY <2>6, <2>7, <1>num, <1>stats
  <2>10. Right(s)
    BY <2>3, <2>4, <2>7, <2>8, <2>9 DEF Right, DocsRight, TermsRight, PostingsRight
  <2>11. Right(s)'
    BY <2>3, <2>10, RightStays
  <2> QED  BY <2>3, <2>4, <2>11, <1>on, <1>inv, CountGoto
<1>6. ASSUME NEW t \in Threads, Text!SaveLess(t)
      PROVE  CountInv'
  <2>1. /\ job[t].at = "save" /\ UNCHANGED <<texts, postings>> /\ stats' = job[t].save
        /\ Text!Storing(t, job[t].id, job[t].text)
    BY <1>6 DEF Text!SaveLess
  <2>2. PICK id \in Ids, x \in Text!Texts : id = job[t].id /\ x = job[t].text
    BY <2>1, <1>on DEF Jobs
  <2>3. Right(job[t])
    BY <2>1, <1>on
  <2>4. texts'[id] = Absent /\ Number' = Number /\ Total' = Total
    BY <2>1, <2>2, <2>3, CountSame DEF Right
  <2>5. PICK r : r = Text!Resting
    OBVIOUS
  <2>6. r.at = "idle" /\ r.id \notin Ids
    BY <2>5, <1>rest
  <2>7. DocsRight(r)' /\ (crashes = 0 => TermsRight(r)')
    BY <2>1, <2>3, <2>4, <2>6 DEF Right, DocsRight, TermsRight, Gap
  <2>8. crashes = 0 => PostingsRight(r)'
    BY <2>1, <2>2, <2>3, <2>4, <2>6 DEF Right, PostingsRight, Covered, Text!TermsOf
  <2>9. Right(r)'
    BY <2>6, <2>7, <2>8 DEF Right
  <2>10. Right(Text!Resting)'
    BY <2>5, <2>9 DEF Right, DocsRight, TermsRight, PostingsRight, Text!Resting, Text!Blank
  <2> QED  BY <2>1, <2>2, <2>4, <2>10, <1>on, <1>inv, CountStoring
<1>7. ASSUME NEW t \in Threads, Text!Store(t)
      PROVE  CountInv'
  <2>1. PICK s, id, x : s = [job[t] EXCEPT !.at = "post", !.todo = Text!TermsOf(job[t].text)]
                        /\ id = job[t].id /\ x = job[t].text
    OBVIOUS
  <2>2. /\ texts' = [texts EXCEPT ![id] = x] /\ UNCHANGED <<postings, stats>>
        /\ Text!Goto(t, s) /\ job[t].at = "store"
    BY <1>7, <2>1 DEF Text!Store
  <2>3. /\ s.at = "post" /\ s.id = id /\ s.text = x /\ s.todo = Text!TermsOf(x) /\ Right(job[t])
        /\ id \in Ids /\ x \in Text!Texts \ {Text!Blank} /\ x # Absent
    BY <2>1, <2>2, <1>on, <1>inv, TextAssumption DEF Jobs, TextTyped, Text!Texts
  <2>4. texts[id] = Absent
    BY <2>1, <2>2, <2>3 DEF Right
  <2>5. Number' = Number + 1 /\ Total' = Total + Text!Length(x)
    BY <2>2, <2>3, <2>4, <1>inv, CountChanges
  <2>6. \A i \in Ids : i # id => texts'[i] = texts[i]
    BY <2>2, <2>3, <1>inv DEF TextTyped
  <2>7. Gap(stats.docs, Number) <= crashes /\ (crashes = 0 => stats.terms = Total)
    BY <2>2, <2>3 DEF Right, DocsRight, TermsRight
  <2>8. Gap(stats.docs + 1, Number + 1) <= crashes
    BY <2>7, <1>num, <1>stats, <1>inv DEF Gap
  <2>9. DocsRight(s)' /\ (crashes = 0 => TermsRight(s)')
    BY <2>2, <2>3, <2>5, <2>7, <2>8 DEF DocsRight, TermsRight, Gap
  <2>10. crashes = 0 => PostingsRight(s)'
    BY <2>1, <2>2, <2>3, <2>6 DEF Right, PostingsRight, Covered, Text!TermsOf
  <2>11. Right(s)'
    BY <2>3, <2>9, <2>10 DEF Right
  <2> QED  BY <2>2, <2>3, <2>11, <1>on, <1>inv, CountGoto
<1>8. ASSUME NEW t \in Threads, Text!Post(t)
      PROVE  CountInv'
  <2>1. PICK w \in job[t].todo :
          /\ postings' = [postings EXCEPT ![job[t].id][w] = job[t].text[w]]
          /\ Text!Goto(t, [job[t] EXCEPT !.todo = job[t].todo \ {w}])
    BY <1>8 DEF Text!Post
  <2>2. job[t].at = "post" /\ UNCHANGED <<texts, stats>>
    BY <1>8 DEF Text!Post
  <2>3. PICK s : s = [job[t] EXCEPT !.todo = job[t].todo \ {w}]
    OBVIOUS
  <2>4. /\ s.at = "post" /\ s.id = job[t].id /\ s.text = job[t].text /\ s.todo = job[t].todo \ {w}
        /\ Right(job[t]) /\ s.id \in Ids /\ s.text \in Text!Texts /\ w \in Terms
    BY <2>2, <2>3, <1>on DEF Jobs
  <2>5. /\ \A i \in Ids : i # s.id => postings'[i] = postings[i]
        /\ \A v \in Terms : postings'[s.id][v] = IF v = w THEN s.text[w] ELSE postings[s.id][v]
    BY <2>1, <2>4, <1>inv DEF TextTyped, Text!Texts
  <2>6. Number' = Number /\ Total' = Total
    BY <2>2, CountSame
  <2>7. DocsRight(s)' /\ (crashes = 0 => TermsRight(s)')
    BY <2>2, <2>4, <2>6 DEF Right, DocsRight, TermsRight, Gap
  <2>8. crashes = 0 => PostingsRight(s)'
    BY <2>2, <2>4, <2>5 DEF Right, PostingsRight, Covered, Text!TermsOf
  <2>9. Right(s)'
    BY <2>4, <2>7, <2>8 DEF Right
  <2> QED  BY <2>1, <2>2, <2>3, <2>4, <2>9, <1>on, <1>inv, CountGoto
<1>9. ASSUME NEW t \in Threads, Text!Count(t)
      PROVE  CountInv'
  <2>1. PICK c : c = [docs |-> stats.docs + 1, terms |-> stats.terms + Text!Length(job[t].text)]
    OBVIOUS
  <2>2. PICK s : s = [job[t] EXCEPT !.at = "saveMore", !.save = c]
    OBVIOUS
  <2>3. job[t].at = "post" /\ job[t].todo = {} /\ UNCHANGED <<texts, postings, stats>> /\ Text!Goto(t, s)
    BY <1>9, <2>1, <2>2 DEF Text!Count
  <2>4. /\ s.at = "saveMore" /\ s.id = job[t].id /\ s.save = c
        /\ Right(job[t]) /\ s.id \in Ids
    BY <2>2, <2>3, <1>on DEF Jobs
  <2>5. texts[s.id] = job[t].text
    BY <2>3, <2>4, <1>types DEF TextCalls
  <2>6. Gap(c.docs, Number) <= crashes /\ (crashes = 0 => c.terms = Total)
    BY <2>1, <2>3, <2>4 DEF Right, DocsRight, TermsRight
  <2>7. crashes = 0 => PostingsRight(s)
    BY <2>3, <2>4, <2>5 DEF Right, PostingsRight, Covered
  <2>8. Right(s)
    BY <2>1, <2>3, <2>4, <2>6, <2>7 DEF Right, DocsRight, TermsRight
  <2>9. Right(s)'
    BY <2>3, <2>8, RightStays
  <2> QED  BY <2>3, <2>4, <2>9, <1>on, <1>inv, CountGoto
<1>10. ASSUME NEW t \in Threads, Text!SaveMore(t)
       PROVE  CountInv'
  <2>1. job[t].at = "saveMore" /\ UNCHANGED <<texts, postings>> /\ stats' = job[t].save
        /\ Text!Goto(t, Text!Resting)
    BY <1>10 DEF Text!SaveMore
  <2>2. Right(job[t]) /\ Number' = Number /\ Total' = Total
    BY <2>1, <1>on, CountSame
  <2>3. PICK r : r = Text!Resting
    OBVIOUS
  <2>4. r.at = "idle" /\ r.id \notin Ids
    BY <2>3, <1>rest
  <2>5. DocsRight(r)' /\ (crashes = 0 => TermsRight(r)')
    BY <2>1, <2>2, <2>4 DEF Right, DocsRight, TermsRight, Gap
  <2>6. crashes = 0 => PostingsRight(r)'
    BY <2>1, <2>2, <2>4 DEF Right, PostingsRight, Covered, Text!TermsOf
  <2>7. Right(r)'
    BY <2>4, <2>5, <2>6 DEF Right
  <2>8. Text!Goto(t, r)
    BY <2>1, <2>3
  <2> QED  BY <2>1, <2>3, <2>7, <2>8, <1>on, <1>inv, CountGoto
<1>11. CASE UNCHANGED textVars
  <2>1. UNCHANGED <<texts, postings, stats, job>>
    BY <1>11 DEF textVars
  <2>2. (Text!Idle' <=> Text!Idle) /\ \A t \in Threads : Text!Free(t)' <=> Text!Free(t)
    BY <2>1 DEF Text!Idle, Text!Free
  <2>3. ASSUME NEW t \in Threads, ~ Text!Free(t)'
        PROVE  Right(job[t])'
    <3>1. PICK s : s = job[t]
      OBVIOUS
    <3>2. Right(s)'
      BY <2>1, <2>2, <2>3, <3>1, RightStays DEF CountInv
    <3>3. job'[t] = s
      BY <2>1, <3>1
    <3> QED  BY <3>2, <3>3 DEF Right, DocsRight, TermsRight, PostingsRight
  <2>4. ASSUME Text!Idle
        PROVE  Right(Text!Resting)'
    BY <2>1, <2>4, RightStays DEF CountInv, Right, DocsRight, TermsRight, PostingsRight, Text!Resting, Text!Blank
  <2> QED  BY <2>2, <2>3, <2>4, <1>inv DEF CountInv
<1> QED
  BY <1>1, <1>2, <1>3, <1>4, <1>5, <1>6, <1>7, <1>8, <1>9, <1>10, <1>11
  DEF Text!Begin, Text!Continue

\* A crash cuts one call short, and puts the count of documents off by one more.
LEMMA CountCrash ==
    ASSUME Exclusive, CountInv, Text!Stop, crashes' = crashes + 1
    PROVE  CountInv'
<1>inv. TextInv /\ TextTyped /\ TextInv' /\ TextTyped' /\ crashes \in Nat
  BY TextStep, TypedStep DEF CountInv, Text!Next
<1>num. Number \in Nat /\ stats.docs \in Nat
  BY <1>inv, CountTypes DEF TextTyped, Counts
<1>1. job' = [t \in Threads |-> Text!Resting] /\ UNCHANGED <<texts, postings, stats>>
  BY DEF Text!Stop
<1>2. Text!Resting.at = "idle"
  BY DEF Text!Resting
<1>3. Gap(stats.docs, Number) <= crashes + 1
  <2>1. CASE Text!Idle
    <3>1. Gap(stats.docs, Number) <= crashes
      BY <1>2, <2>1 DEF CountInv, Right, DocsRight
    <3> QED  BY <3>1, <1>inv, <1>num DEF Gap
  <2>2. CASE ~ Text!Idle
    <3>1. PICK t \in Threads : job[t].at # "idle" /\ Right(job[t])
      BY <2>2 DEF Text!Idle, Text!Free, CountInv
    <3>2. job[t].at \in TextSteps
      BY <1>inv DEF TextTyped, Jobs
    <3>3. \/ Gap(stats.docs, Number) <= crashes \/ Gap(stats.docs, Number + 1) <= crashes
          \/ Gap(stats.docs + 1, Number) <= crashes
      BY <3>1, <3>2 DEF Right, DocsRight, TextSteps
    <3> QED  BY <3>3, <1>inv, <1>num DEF Gap
  <2> QED  BY <2>1, <2>2
<1>4. Number' = Number
  BY <1>1, CountSame
<1>5. Right(Text!Resting)'
  BY <1>1, <1>2, <1>3, <1>4, <1>inv DEF Right, DocsRight, TermsRight, PostingsRight, Text!Resting
<1>6. \A t \in Threads : Text!Free(t)'
  BY <1>1, <1>2 DEF Text!Free
<1> QED  BY <1>5, <1>6, <1>inv DEF CountInv

LEMMA CountInit == Init => CountInv
<1> SUFFICES ASSUME Init PROVE CountInv
  OBVIOUS
<1>1. TextInv /\ TextTyped /\ crashes = 0
  BY TextInit, TypedInit DEF Init
<1>2. texts = [id \in Ids |-> Absent] /\ stats = [docs |-> 0, terms |-> 0] /\ job = [t \in Threads |-> Text!Resting]
  BY DEF Init, Text!Init
<1>3. Text!Resting.at = "idle"
  BY DEF Text!Resting
<1>4. Number = 0
  BY <1>2, FS_EmptySet DEF Number, Text!There
<1>5. Total = 0
  <2> DEFINE g == [id \in Ids |-> Text!Weight(id)]
  <2>1. g \in [Ids -> Nat] /\ \A id \in Ids : g[id] = 0
    BY <1>2 DEF Text!Weight
  <2>2. Total = Text!SumFunction(g)
    BY DEF Total
  <2> HIDE DEF g
  <2> QED  BY <2>1, <2>2, FiniteAssumption, SumZero
<1>6. Right(Text!Resting)
  BY <1>1, <1>2, <1>3, <1>4, <1>5 DEF Right, DocsRight, TermsRight, PostingsRight, Covered, Gap
<1>7. \A t \in Threads : Text!Free(t)
  BY <1>2, <1>3 DEF Text!Free
<1> QED  BY <1>1, <1>6, <1>7 DEF CountInv

LEMMA CountNext ==
    ASSUME Exclusive, CountInv, [Next]_vars
    PROVE  CountInv'
<1>1. CASE UNCHANGED vars
  BY <1>1, CountStep DEF vars
<1>2. CASE \E t \in Threads : UseText(t)
  BY <1>2, CountStep DEF UseText
<1>3. CASE \E t \in Threads : UseDocs(t) \/ UseVectors(t)
  BY <1>3, CountStep DEF UseDocs, UseVectors
<1>4. CASE Crash
  BY <1>4, CountCrash DEF Crash
<1> QED  BY <1>1, <1>2, <1>3, <1>4 DEF Next

\* The count of documents is off by one for each crash at most, whatever is
\* indexed, replaced and deleted between and after them, when the application
\* makes one change of the index at a time (text.py index_document,
\* delete_document, "max(0, ...)").
THEOREM DriftStaysBounded ==
    ASSUME Exclusive
    PROVE  Spec => []DriftBounded
<1>1. CountInv => DriftBounded
  <2> SUFFICES ASSUME CountInv, Text!Idle PROVE Text!Drift <= crashes
    BY DEF DriftBounded
  <2>1. Gap(stats.docs, Number) <= crashes
    BY DEF CountInv, Right, DocsRight, Text!Resting
  <2> QED  BY <2>1, SameCardinality DEF Gap, Number, Text!Drift
<1> QED  BY <1>1, CountInit, CountNext, PTL DEF Spec

\* Until a crash the counts are those of the documents and search() finds each
\* document that has one of the terms, never dividing by zero, when the
\* application makes one change of the index at a time (text.py index_document,
\* delete_document, search).
THEOREM SearchStaysRight ==
    ASSUME Exclusive
    PROVE  Spec => []SearchFinds
<1>1. CountInv => SearchFinds
  <2> SUFFICES ASSUME CountInv, crashes = 0, Text!Idle PROVE Text!Counted /\ Text!Found
    BY DEF SearchFinds
  <2>1. TextTyped /\ PostingsReal /\ Number \in Nat /\ Total \in Nat
    BY CountTypes DEF CountInv, TextInv
  <2>2. stats.docs \in Nat /\ stats.terms \in Nat
    BY <2>1 DEF TextTyped, Counts
  <2>3. /\ Gap(stats.docs, Number) <= 0 /\ stats.terms = Total
        /\ \A id \in Ids : Covered(id)
    BY DocAssumption DEF CountInv, Right, DocsRight, TermsRight, PostingsRight, Text!Resting
  <2>4. stats.docs = Number
    BY <2>1, <2>2, <2>3 DEF Gap
  <2>5. Text!Counted
    BY <2>3, <2>4, SameCardinality DEF Text!Counted, Number, Total
  <2>6. \A id \in Ids : texts[id] # Absent => Text!TermsOf(postings[id]) = Text!TermsOf(texts[id])
    BY <2>1, <2>3 DEF Covered, PostingsReal, Text!PostingsReal, Text!TermsOf
  <2>7. ASSUME stats.docs = 0
        PROVE  \A id \in Ids : texts[id] = Absent
    <3>1. IsFiniteSet(Text!There)
      BY FiniteAssumption, FS_Subset DEF Text!There
    <3>2. Text!There = {}
      BY <2>4, <2>7, <3>1, FS_EmptySet DEF Number
    <3> QED  BY <3>2 DEF Text!There
  <2>8. ASSUME NEW id \in Ids, texts[id] # Absent, NEW w \in Text!TermsOf(texts[id])
        PROVE  stats.terms # 0
    <3> DEFINE g == [i \in Ids |-> Text!Weight(i)]
    <3>1. texts[id] \in Text!Texts /\ texts[id][w] > 0 /\ w \in Terms /\ texts[id][w] \in Nat
      BY <2>1, <2>8, TextAssumption DEF TextTyped, Text!TermsOf, Text!Texts
    <3>2. Text!Length(texts[id]) \in Nat /\ texts[id][w] <= Text!Length(texts[id])
      BY <3>1, Lengths
    <3>3. g \in [Ids -> Nat] /\ g[id] = Text!Length(texts[id])
      BY <2>1, <2>8, Lengths DEF TextTyped, Text!Weight
    <3>4. Total = Text!SumFunction(g)
      BY DEF Total
    <3> HIDE DEF g
    <3>5. g[id] <= Total
      BY <3>3, <3>4, FiniteAssumption, SumChanges
    <3> QED  BY <2>1, <2>3, <3>1, <3>2, <3>3, <3>5
  <2>9. ASSUME NEW Q \in SUBSET Terms
        PROVE  Text!Hits(Q) = {id \in Ids : texts[id] # Absent /\ Text!TermsOf(texts[id]) \cap Q # {}}
    <3> DEFINE found == {id \in Ids : texts[id] # Absent /\ Text!TermsOf(postings[id]) \cap Q # {}}
    <3>1. found = {id \in Ids : texts[id] # Absent /\ Text!TermsOf(texts[id]) \cap Q # {}}
      BY <2>6
    <3>2. Text!Hits(Q) = IF stats.docs = 0 THEN {} ELSE IF found # {} /\ stats.terms = 0 THEN {Absent} ELSE found
      BY DEF Text!Hits
    <3>3. stats.docs = 0 => found = {}
      BY <2>7
    <3>4. found # {} => stats.terms # 0
      BY <2>6, <2>8
    <3> HIDE DEF found
    <3> QED  BY <3>1, <3>2, <3>3, <3>4
  <2> QED  BY <2>5, <2>9 DEF Text!Found
<1> QED  BY <1>1, CountInit, CountNext, PTL DEF Spec

-----------------------------------------------------------------------------
(* The vector index *)

VecSteps == {"idle", "learn", "put", "putMeta", "drop", "dropMeta", "train", "assign"}

VecTasks == [at : VecSteps, of : Objects \cup {Absent}, id : VecIds \cup {Absent},
             vec : Dims \cup {Absent}, meta : Metas \cup {Absent}, todo : SUBSET VecIds]

VecTypes ==
    /\ vectors \in [VecIds -> Dims \cup {Absent}]
    /\ dimension \in [Objects -> Dims \cup {Absent}]
    /\ fresh \in [Objects -> SUBSET VecIds]
    /\ clusters \in [Objects -> [Vec!Clusters -> SUBSET VecIds] \cup {Vec!Untrained}]
    /\ task \in [Threads -> VecTasks]
    /\ \A t \in Threads :
         /\ task[t].at \in {"learn", "put"} =>
              task[t].of \in Objects /\ task[t].id \in VecIds /\ task[t].vec \in Dims
         /\ task[t].at = "drop" => task[t].id \in VecIds

\* One change of the index at a time.
VecAlone == \A t, u \in Threads : t # u => Vec!Free(t) \/ Vec!Free(u)

\* Training has read every vector but the fresh ones, and each is still to be
\* put in a cluster or is in one.
VecCalls ==
    \A t \in Threads :
        LET o == task[t].of IN
        /\ task[t].at = "train" => o \in Objects /\ Vec!Stored \subseteq task[t].todo \cup fresh[o]
        /\ task[t].at = "assign" =>
             /\ o \in Objects /\ clusters[o] \in [Vec!Clusters -> SUBSET VecIds]
             /\ \A id \in Vec!Stored :
                  id \in task[t].todo \cup fresh[o] \/ \E c \in Vec!Clusters : id \in clusters[o][c]

\* Does a search that probes all clusters look vector id up.
Looked(o, id) ==
    \/ clusters[o] = Vec!Untrained \/ NClusters < NProbe
    \/ \E c \in Vec!Clusters : id \in clusters[o][c]

VecFinds == \A o \in Objects : ~ Vec!Training(o) =>
                \A id \in Vec!Stored : id \in fresh[o] \/ Looked(o, id)

VecInv == VecTypes /\ VecAlone /\ VecCalls /\ VecFinds

LEMMA VecInit == Init => VecInv
<1> SUFFICES ASSUME Init PROVE VecInv
  OBVIOUS
<1> USE DEF Init, Vec!Init
<1>1. task = [t \in Threads |-> Vec!Resting]
  OBVIOUS
<1>2. VecTypes
  BY <1>1 DEF VecTypes, VecTasks, VecSteps, Vec!Resting
<1>3. VecAlone /\ VecCalls /\ VecFinds
  BY <1>1 DEF VecAlone, VecCalls, VecFinds, Vec!Resting, Vec!Free, Vec!Stored
<1> QED  BY <1>2, <1>3 DEF VecInv

\* The only call goes on or ends and trains nothing.
LEMMA VecGoto ==
    ASSUME VecInv, NEW t \in Threads, NEW s \in VecTasks, Vec!Goto(t, s),
           \A u \in Threads : u # t => Vec!Free(u),
           ~ \E o \in Objects : Vec!Training(o), s.at \notin {"train", "assign"},
           s.at \in {"learn", "put"} => s.of \in Objects /\ s.id \in VecIds /\ s.vec \in Dims,
           s.at = "drop" => s.id \in VecIds,
           clusters' = clusters,
           vectors' \in [VecIds -> Dims \cup {Absent}],
           dimension' \in [Objects -> Dims \cup {Absent}],
           fresh' \in [Objects -> SUBSET VecIds],
           \A o \in Objects : fresh[o] \subseteq fresh'[o],
           \A id \in VecIds : vectors'[id] # Absent =>
               vectors[id] # Absent \/ \A o \in Objects : id \in fresh'[o]
    PROVE  VecInv'
<1>1. task' = [task EXCEPT ![t] = s]
  BY DEF Vec!Goto
<1>types. VecTypes /\ VecAlone /\ VecCalls /\ VecFinds
  BY DEF VecInv
<1>2. task' \in [Threads -> VecTasks] /\ task'[t] = s /\ \A u \in Threads : u # t => task'[u] = task[u]
  BY <1>1, <1>types DEF VecTypes
<1> HIDE DEF Vec!Goto
<1>3. \A u \in Threads : u # t => task[u].at = "idle"
  BY DEF Vec!Free
<1>4. VecTypes'
  BY <1>2, <1>3, <1>types DEF VecTypes, Vec!Clusters, Vec!Untrained
<1>5. VecAlone'
  BY <1>2, <1>3 DEF VecAlone, Vec!Free
<1>6. VecCalls'
  BY <1>2, <1>3 DEF VecCalls
<1>7. VecFinds'
  BY <1>types DEF VecFinds, Looked, Vec!Stored, Vec!Clusters, Vec!Untrained, VecTypes
<1> QED  BY <1>4, <1>5, <1>6, <1>7 DEF VecInv

LEMMA VecStep ==
    ASSUME Exclusive, VecInv, [Vec!Next]_vecVars
    PROVE  VecInv'
<1> USE VectorAssumption
<1>types. VecTypes /\ VecAlone /\ VecCalls /\ VecFinds
  BY DEF VecInv
<1>may. ASSUME NEW t \in Threads, Vec!May(t)
        PROVE  (\A u \in Threads : Vec!Free(u)) /\ ~ \E o \in Objects : Vec!Training(o)
  BY <1>may DEF Vec!May, Vec!Idle, Vec!Free, Vec!Training
<1>on. ASSUME NEW t \in Threads, task[t].at # "idle" PROVE \A u \in Threads : u # t => Vec!Free(u)
  BY <1>on, <1>types DEF VecAlone, Vec!Free
<1>quiet. ASSUME NEW t \in Threads, task[t].at \notin {"idle", "train", "assign"}
          PROVE  ~ \E o \in Objects : Vec!Training(o)
  BY <1>quiet, <1>types DEF VecAlone, Vec!Free, Vec!Training
<1>rest. Vec!Resting \in VecTasks
  BY DEF Vec!Resting, VecTasks, VecSteps
<1>1. ASSUME NEW t \in Threads, NEW o \in Objects, NEW id \in VecIds, NEW v \in Dims,
             NEW m \in Metas \cup {Absent}, Vec!Insert(t, o, id, v, m)
      PROVE  VecInv'
  <2> DEFINE s == [at |-> IF dimension[o] = Absent THEN "learn" ELSE "put",
                   of |-> o, id |-> id, vec |-> v, meta |-> m, todo |-> {}]
  <2>1. Vec!May(t) /\ Vec!Goto(t, s) /\ UNCHANGED <<vectors, dimension, clusters, fresh>>
    BY <1>1 DEF Vec!Insert
  <2>2. s \in VecTasks /\ s.at \in {"learn", "put"} /\ s.of = o /\ s.id = id /\ s.vec = v
    BY DEF VecTasks, VecSteps
  <2> HIDE DEF s
  <2> QED  BY <2>1, <2>2, <1>may, <1>types, VecGoto DEF VecTypes
<1>2. ASSUME NEW t \in Threads, Vec!Learn(t)
      PROVE  VecInv'
  <2> DEFINE s == [task[t] EXCEPT !.at = "put"]
  <2>1. /\ Vec!Goto(t, s) /\ UNCHANGED <<vectors, clusters, fresh>> /\ task[t].at = "learn"
        /\ dimension' = [dimension EXCEPT ![task[t].of] = task[t].vec]
    BY <1>2 DEF Vec!Learn
  <2>2. s \in VecTasks /\ s.at = "put" /\ s.of = task[t].of /\ s.id = task[t].id /\ s.vec = task[t].vec
    BY <1>types DEF VecTypes, VecTasks, VecSteps
  <2> HIDE DEF s
  <2> QED  BY <2>1, <2>2, <1>on, <1>quiet, <1>types, VecGoto DEF VecTypes
<1>3. ASSUME NEW t \in Threads, Vec!PutVector(t)
      PROVE  VecInv'
  <2> DEFINE s == IF task[t].meta = Absent THEN Vec!Resting ELSE [task[t] EXCEPT !.at = "putMeta"]
  <2>1. /\ Vec!Goto(t, s) /\ UNCHANGED <<dimension, clusters>> /\ task[t].at = "put"
        /\ vectors' = [vectors EXCEPT ![task[t].id] = task[t].vec]
        /\ fresh' = [o \in Objects |-> fresh[o] \cup {task[t].id}]
    BY <1>3 DEF Vec!PutVector
  <2>2. s \in VecTasks /\ s.at \in {"idle", "putMeta"}
    BY <1>types, <1>rest DEF VecTypes, VecTasks, VecSteps, Vec!Resting
  <2> HIDE DEF s
  <2> QED  BY <2>1, <2>2, <1>on, <1>quiet, <1>types, VecGoto DEF VecTypes
<1>4. ASSUME NEW t \in Threads, Vec!PutMeta(t) \/ Vec!DropMeta(t)
      PROVE  VecInv'
  <2>1. /\ Vec!Goto(t, Vec!Resting) /\ UNCHANGED <<vectors, dimension, clusters, fresh>>
        /\ task[t].at \in {"putMeta", "dropMeta"}
    BY <1>4 DEF Vec!PutMeta, Vec!DropMeta
  <2>2. Vec!Resting.at = "idle"
    BY DEF Vec!Resting
  <2> QED  BY <2>1, <2>2, <1>rest, <1>on, <1>quiet, <1>types, VecGoto DEF VecTypes
<1>5. ASSUME NEW t \in Threads, NEW id \in VecIds, Vec!Delete(t, id)
      PROVE  VecInv'
  <2> DEFINE s == [Vec!Resting EXCEPT !.at = "drop", !.id = id]
  <2>1. Vec!May(t) /\ Vec!Goto(t, s) /\ UNCHANGED <<vectors, dimension, clusters, fresh>>
    BY <1>5 DEF Vec!Delete
  <2>2. s \in VecTasks /\ s.at = "drop" /\ s.id = id
    BY DEF VecTasks, VecSteps, Vec!Resting
  <2> HIDE DEF s
  <2> QED  BY <2>1, <2>2, <1>may, <1>types, VecGoto DEF VecTypes
<1>6. ASSUME NEW t \in Threads, Vec!Drop(t)
      PROVE  VecInv'
  <2> DEFINE s == [task[t] EXCEPT !.at = "dropMeta"]
  <2>1. /\ Vec!Goto(t, s) /\ UNCHANGED <<dimension, clusters, fresh>> /\ task[t].at = "drop"
        /\ vectors' = [vectors EXCEPT ![task[t].id] = Absent]
    BY <1>6 DEF Vec!Drop
  <2>2. s \in VecTasks /\ s.at = "dropMeta"
    BY <1>types DEF VecTypes, VecTasks, VecSteps
  <2> HIDE DEF s
  <2> QED  BY <2>1, <2>2, <1>on, <1>quiet, <1>types, VecGoto DEF VecTypes
<1>7. ASSUME NEW t \in Threads, NEW o \in Objects, Vec!Train(t, o)
      PROVE  VecInv'
  <2> DEFINE s == [Vec!Resting EXCEPT !.at = "train", !.of = o, !.todo = Vec!Stored]
  <2>1. /\ task' = [task EXCEPT ![t] = s] /\ fresh' = [fresh EXCEPT ![o] = {}]
        /\ UNCHANGED <<vectors, dimension, clusters>> /\ \A u \in Threads : Vec!Free(u)
    BY <1>7, <1>may DEF Vec!Train, Vec!Goto
  <2>2. s \in VecTasks /\ s.at = "train" /\ s.of = o /\ s.todo = Vec!Stored
    BY DEF VecTasks, VecSteps, Vec!Resting, Vec!Stored
  <2> HIDE DEF s
  <2>3. /\ task' \in [Threads -> VecTasks] /\ task'[t] = s
        /\ \A u \in Threads : u # t => task'[u] = task[u] /\ task[u].at = "idle"
    BY <2>1, <2>2, <1>types DEF VecTypes, Vec!Free
  <2>4. VecTypes'
    BY <2>1, <2>2, <2>3, <1>types DEF VecTypes, Vec!Clusters, Vec!Untrained
  <2>5. VecAlone' /\ VecCalls'
    BY <2>1, <2>2, <2>3, <1>types DEF VecAlone, VecCalls, Vec!Free, Vec!Stored, VecTypes
  <2>6. ASSUME NEW p \in Objects, ~ Vec!Training(p)'
        PROVE  p # o /\ fresh'[p] = fresh[p] /\ ~ Vec!Training(p)
    BY <2>1, <2>2, <2>3, <2>6, <1>types DEF Vec!Training, Vec!Free, VecTypes
  <2>7. VecFinds'
    BY <2>1, <2>6, <1>types DEF VecFinds, Looked, Vec!Stored, Vec!Clusters, Vec!Untrained
  <2> QED  BY <2>4, <2>5, <2>7 DEF VecInv
<1>8. ASSUME NEW t \in Threads, Vec!Reset(t)
      PROVE  VecInv'
  <2> DEFINE s == [task[t] EXCEPT !.at = "assign"]
             o == task[t].of
  <2>1. /\ task' = [task EXCEPT ![t] = s] /\ UNCHANGED <<vectors, dimension, fresh>> /\ task[t].at = "train"
        /\ clusters' = [clusters EXCEPT ![o] = [c \in Vec!Clusters |-> {}]]
    BY <1>8 DEF Vec!Reset, Vec!Goto
  <2>2. /\ s \in VecTasks /\ s.at = "assign" /\ s.of = o /\ s.todo = task[t].todo /\ o \in Objects
        /\ Vec!Stored \subseteq task[t].todo \cup fresh[o]
    BY <2>1, <1>types, SMTT(60) DEF VecTypes, VecTasks, VecSteps, VecCalls
  <2> HIDE DEF s
  <2>3. /\ task' \in [Threads -> VecTasks] /\ task'[t] = s
        /\ \A u \in Threads : u # t => task'[u] = task[u] /\ task[u].at = "idle"
    BY <2>1, <2>2, <1>on, <1>types DEF VecTypes, Vec!Free
  <2>4. /\ clusters'[o] = [c \in Vec!Clusters |-> {}]
        /\ clusters'[o] \in [Vec!Clusters -> SUBSET VecIds]
        /\ clusters' \in [Objects -> [Vec!Clusters -> SUBSET VecIds] \cup {Vec!Untrained}]
        /\ \A p \in Objects : p # o => clusters'[p] = clusters[p]
    BY <2>1, <2>2, <1>types DEF VecTypes
  <2>5. VecTypes'
    BY <2>1, <2>2, <2>3, <2>4, <1>types DEF VecTypes, Vec!Clusters, Vec!Untrained
  <2>6. VecAlone' /\ VecCalls'
    BY <2>1, <2>2, <2>3, <2>4, <1>types DEF VecAlone, VecCalls, Vec!Free, Vec!Stored, Vec!Clusters
  <2>7. ASSUME NEW p \in Objects, ~ Vec!Training(p)'
        PROVE  p # o /\ clusters'[p] = clusters[p] /\ ~ Vec!Training(p)
    BY <2>1, <2>2, <2>3, <2>4, <2>7, <1>types DEF Vec!Training
  <2>8. VecFinds'
    BY <2>1, <2>7, <1>types DEF VecFinds, Looked, Vec!Stored, Vec!Clusters, Vec!Untrained
  <2> QED  BY <2>5, <2>6, <2>8 DEF VecInv
<1>9. ASSUME NEW t \in Threads, Vec!Assign(t)
      PROVE  VecInv'
  <2>. PICK o \in Objects : o = task[t].of
    BY <1>9, <1>types DEF VecCalls, Vec!Assign
  <2>1. PICK id \in task[t].todo, c \in Vec!Clusters :
          /\ clusters' = [clusters EXCEPT ![o][c] = clusters[o][c] \cup {id}]
          /\ task' = [task EXCEPT ![t] =
               IF task[t].todo = {id} THEN Vec!Resting ELSE [task[t] EXCEPT !.todo = task[t].todo \ {id}]]
          /\ UNCHANGED <<vectors, dimension, fresh>> /\ task[t].at = "assign"
    BY <1>9 DEF Vec!Assign, Vec!Goto
  <2> DEFINE s == IF task[t].todo = {id} THEN Vec!Resting ELSE [task[t] EXCEPT !.todo = task[t].todo \ {id}]
  <2>2. /\ s \in VecTasks /\ id \in VecIds /\ o \in Objects
        /\ task[t].todo = {id} => s.at = "idle"
        /\ task[t].todo # {id} => s.at = "assign" /\ s.of = o /\ s.todo = task[t].todo \ {id}
    BY <2>1, <1>types, <1>rest, SMTT(60) DEF VecTypes, VecTasks, VecSteps, VecCalls, Vec!Resting
  <2> HIDE DEF s
  <2>3. /\ task' \in [Threads -> VecTasks] /\ task'[t] = s
        /\ \A u \in Threads : u # t => task'[u] = task[u] /\ task[u].at = "idle"
    BY <2>1, <2>2, <1>on, <1>types DEF VecTypes, Vec!Free, s
  <2>4. /\ clusters[o] \in [Vec!Clusters -> SUBSET VecIds]
        /\ \A i \in Vec!Stored : i \in task[t].todo \cup fresh[o] \/ \E d \in Vec!Clusters : i \in clusters[o][d]
    BY <2>1, <1>types DEF VecCalls
  <2>5. /\ clusters'[o] \in [Vec!Clusters -> SUBSET VecIds]
        /\ clusters' \in [Objects -> [Vec!Clusters -> SUBSET VecIds] \cup {Vec!Untrained}]
        /\ \A p \in Objects : p # o => clusters'[p] = clusters[p]
        /\ \A d \in Vec!Clusters : clusters'[o][d] = IF d = c THEN clusters[o][c] \cup {id} ELSE clusters[o][d]
    BY <2>1, <2>2, <2>4, <1>types, ZenonT(90) DEF VecTypes
  <2>6. \A i \in Vec!Stored : i \in (task[t].todo \ {id}) \cup fresh[o] \/ \E d \in Vec!Clusters : i \in clusters'[o][d]
    BY <2>1, <2>4, <2>5
  <2>7. VecTypes'
    BY <2>1, <2>2, <2>3, <2>5, <1>types DEF VecTypes, Vec!Clusters, Vec!Untrained
  <2>8. VecAlone'
    BY <2>3 DEF VecAlone, Vec!Free
  <2>9. VecCalls'
    BY <2>1, <2>2, <2>3, <2>5, <2>6 DEF VecCalls, Vec!Stored, Vec!Clusters
  <2>10. ASSUME NEW p \in Objects, p # o, ~ Vec!Training(p)'
         PROVE  clusters'[p] = clusters[p] /\ ~ Vec!Training(p)
    BY <2>1, <2>3, <2>5, <2>10, <1>types DEF Vec!Training
  <2>11. ASSUME ~ Vec!Training(o)'
         PROVE  \A i \in Vec!Stored : i \in fresh[o] \/ Looked(o, i)'
    <3>1. task[t].todo = {id}
      BY <2>2, <2>3, <2>11 DEF Vec!Training
    <3> QED  BY <2>6, <3>1 DEF Looked, Vec!Clusters
  <2>12. VecFinds'
    BY <2>1, <2>10, <2>11, <1>types DEF VecFinds, Looked, Vec!Stored, Vec!Clusters, Vec!Untrained
  <2> QED  BY <2>7, <2>8, <2>9, <2>12 DEF VecInv
<1>10. ASSUME Vec!Stop
      PROVE  VecInv'
  <2>1. /\ task' = [t \in Threads |-> Vec!Resting] /\ UNCHANGED <<vectors, fresh>>
        /\ dimension' = [o \in Objects |-> Absent]
        /\ clusters' = [o \in Objects |-> Vec!Untrained]
    BY <1>10 DEF Vec!Stop
  <2>2. \A t \in Threads : task'[t] = Vec!Resting /\ Vec!Resting.at = "idle"
    BY <2>1 DEF Vec!Resting
  <2>3. VecTypes'
    BY <2>1, <2>2, <1>rest, <1>types DEF VecTypes, Vec!Clusters, Vec!Untrained
  <2>4. VecAlone' /\ VecCalls'
    BY <2>2 DEF VecAlone, VecCalls, Vec!Free
  <2>5. VecFinds'
    BY <2>1 DEF VecFinds, Looked, Vec!Untrained
  <2> QED  BY <2>3, <2>4, <2>5 DEF VecInv
<1>11. CASE UNCHANGED vecVars
  BY <1>11, <1>types
  DEF vecVars, VecInv, VecTypes, VecAlone, VecCalls, VecFinds, Looked, Vec!Free, Vec!Stored, Vec!Training, Vec!Clusters, Vec!Untrained
<1> QED
  BY <1>1, <1>2, <1>3, <1>4, <1>5, <1>6, <1>7, <1>8, <1>9, <1>10, <1>11
  DEF Vec!Next, Vec!Begin, Vec!Continue

\* Between trainings a search that probes all clusters finds every vector but
\* those put since, at every step and after every crash, when the application
\* makes one change of the index at a time (vector.py train_ivf, search).
THEOREM MissesStayFresh ==
    ASSUME Exclusive
    PROVE  Spec => []MissesOnlyFresh
<1>1. Init => VecInv
  BY VecInit
<1>2. VecInv /\ [Next]_vars => VecInv'
  <2>1. [Next]_vars => [Vec!Next]_vecVars
    BY DEF Next, vars, docVars, textVars, vecVars, UseDocs, UseText, UseVectors, Crash, Vec!Next
  <2> QED  BY <2>1, VecStep
<1>3. VecInv => MissesOnlyFresh
  BY DEF VecInv, VecFinds, Looked, MissesOnlyFresh, Vec!MissesOnlyFresh, Vec!Candidates, Vec!Stored
<1> QED  BY <1>1, <1>2, <1>3, PTL DEF Spec

\* Until a crash the dimension is that of all vectors.
DimInv ==
    /\ crashes \in Nat
    /\ crashes = 0 =>
         /\ \A o \in Objects, id \in Vec!Stored : vectors[id] = dimension[o]
         /\ \A t \in Threads, o \in Objects :
              /\ task[t].at = "learn" => dimension[o] = Absent
              /\ task[t].at = "put" => dimension[o] = task[t].vec

\* Vectors of one object have one dimension, until a restart forgets it, when
\* the application makes one change at a time (vector.py insert).
THEOREM DimensionStays ==
    ASSUME Exclusive, NEW o, Objects = {o}
    PROVE  Spec => []OneDimension
<1> USE VectorAssumption
<1>1. Init => VecInv /\ DimInv
  BY VecInit DEF Init, Vec!Init, DimInv, Vec!Stored, Vec!Resting
<1>2. VecInv /\ DimInv /\ [Next]_vars => (VecInv /\ DimInv)'
  <2> SUFFICES ASSUME VecInv, DimInv, [Next]_vars PROVE VecInv' /\ DimInv'
    OBVIOUS
  <2>1. [Vec!Next]_vecVars
    BY DEF Next, vars, docVars, textVars, vecVars, UseDocs, UseText, UseVectors, Crash, Vec!Next
  <2>2. VecInv'
    BY <2>1, VecStep
  <2>3. DimInv'
    <3>1. CASE Crash
      BY <3>1 DEF Crash, DimInv
    <3>2. CASE UNCHANGED vecVars /\ crashes' = crashes
      BY <3>2 DEF vecVars, DimInv, Vec!Stored
    <3>3. ASSUME NEW t \in Threads, UseVectors(t), crashes = 0
          PROVE  DimInv'
      <4>1. (Vec!Begin(t) \/ Vec!Continue(t)) /\ crashes' = 0
        BY <3>3 DEF UseVectors
      <4> HIDE DEF UseVectors
      <4>2. crashes = 0 /\ VecTypes /\ VecAlone
        BY <3>3 DEF VecInv
      <4>dim. /\ \A id \in Vec!Stored : vectors[id] = dimension[o]
              /\ \A u \in Threads :
                   /\ task[u].at = "learn" => dimension[o] = Absent
                   /\ task[u].at = "put" => dimension[o] = task[u].vec
        BY <4>2 DEF DimInv
      <4> DEFINE Kept == /\ \A id \in Vec!Stored' : vectors'[id] = dimension'[o]
                         /\ \A u \in Threads :
                              /\ task'[u].at = "learn" => dimension'[o] = Absent
                              /\ task'[u].at = "put" => dimension'[o] = task'[u].vec
      <4>3. SUFFICES Kept
        BY <4>1 DEF DimInv
      <4>4. ASSUME NEW id \in VecIds, NEW v \in Dims, NEW m \in Metas \cup {Absent}, Vec!Insert(t, o, id, v, m)
            PROVE  Kept
        BY <4>4, <4>2, <4>dim DEF Vec!Insert, Vec!Goto, Vec!Stored, VecTypes
      <4>5. ASSUME NEW s, Vec!Goto(t, s), s.at \notin {"learn", "put"}, dimension' = dimension,
                   \A i \in VecIds : vectors'[i] # Absent => vectors'[i] = vectors[i] \/ vectors'[i] = dimension[o]
            PROVE  Kept
        <5>1. task'[t] = s /\ \A u \in Threads : u # t => task'[u] = task[u]
          BY <4>5, <4>2 DEF Vec!Goto, VecTypes
        <5> QED  BY <5>1, <4>5, <4>dim DEF Vec!Stored
      <4>6. CASE Vec!Learn(t)
        <5>1. /\ task' = [task EXCEPT ![t] = [task[t] EXCEPT !.at = "put"]] /\ task[t].at = "learn"
              /\ dimension' = [dimension EXCEPT ![task[t].of] = task[t].vec] /\ vectors' = vectors
          BY <4>6 DEF Vec!Learn, Vec!Goto
        <5>2. task[t].of = o /\ dimension'[o] = task[t].vec /\ dimension[o] = Absent
          BY <5>1, <4>2, <4>dim DEF VecTypes
        <5>3. task'[t].vec = task[t].vec /\ task'[t].at = "put"
          BY <5>1, <4>2 DEF VecTypes, VecTasks
        <5>4. \A u \in Threads : u # t => task'[u].at = "idle"
          BY <5>1, <4>2 DEF VecTypes, VecAlone, Vec!Free
        <5>5. Vec!Stored' = {}
          BY <5>1, <5>2, <4>dim DEF Vec!Stored
        <5> QED  BY <5>2, <5>3, <5>4, <5>5
      <4>7. CASE Vec!PutVector(t)
        <5> DEFINE s == IF task[t].meta = Absent THEN Vec!Resting ELSE [task[t] EXCEPT !.at = "putMeta"]
        <5>1. /\ Vec!Goto(t, s) /\ dimension' = dimension /\ task[t].at = "put"
              /\ vectors' = [vectors EXCEPT ![task[t].id] = task[t].vec]
          BY <4>7 DEF Vec!PutVector
        <5>2. s.at \in {"idle", "putMeta"}
          BY <4>2 DEF VecTypes, VecTasks, Vec!Resting
        <5> HIDE DEF s
        <5>3. \A i \in VecIds : vectors'[i] = vectors[i] \/ vectors'[i] = dimension[o]
          BY <5>1, <4>2, <4>dim DEF VecTypes
        <5> QED  BY <5>1, <5>2, <5>3, <4>5
      <4>8. CASE Vec!PutMeta(t) \/ Vec!DropMeta(t)
        <5>1. Vec!Goto(t, Vec!Resting) /\ dimension' = dimension /\ vectors' = vectors /\ Vec!Resting.at = "idle"
          BY <4>8 DEF Vec!PutMeta, Vec!DropMeta, Vec!Resting
        <5> QED  BY <5>1, <4>5
      <4>9. ASSUME NEW id \in VecIds, Vec!Delete(t, id)
            PROVE  Kept
        <5> DEFINE s == [Vec!Resting EXCEPT !.at = "drop", !.id = id]
        <5>1. Vec!Goto(t, s) /\ dimension' = dimension /\ vectors' = vectors /\ s.at = "drop"
          BY <4>9 DEF Vec!Delete, Vec!Resting
        <5> HIDE DEF s
        <5> QED  BY <5>1, <4>5
      <4>10. CASE Vec!Drop(t)
        <5> DEFINE s == [task[t] EXCEPT !.at = "dropMeta"]
        <5>1. /\ Vec!Goto(t, s) /\ dimension' = dimension
              /\ vectors' = [vectors EXCEPT ![task[t].id] = Absent]
          BY <4>10 DEF Vec!Drop
        <5>2. s.at = "dropMeta"
          BY <4>2 DEF VecTypes, VecTasks
        <5> HIDE DEF s
        <5>3. \A i \in VecIds : vectors'[i] # Absent => vectors'[i] = vectors[i]
          BY <5>1, <4>2 DEF VecTypes
        <5> QED  BY <5>1, <5>2, <5>3, <4>5
      <4>11. CASE Vec!Train(t, o)
        <5> DEFINE s == [Vec!Resting EXCEPT !.at = "train", !.of = o, !.todo = Vec!Stored]
        <5>1. Vec!Goto(t, s) /\ dimension' = dimension /\ vectors' = vectors /\ s.at = "train"
          BY <4>11 DEF Vec!Train, Vec!Resting
        <5> HIDE DEF s
        <5> QED  BY <5>1, <4>5
      <4>12. CASE Vec!Reset(t)
        <5> DEFINE s == [task[t] EXCEPT !.at = "assign"]
        <5>1. Vec!Goto(t, s) /\ dimension' = dimension /\ vectors' = vectors
          BY <4>12 DEF Vec!Reset
        <5>2. s.at = "assign"
          BY <4>2 DEF VecTypes, VecTasks
        <5> HIDE DEF s
        <5> QED  BY <5>1, <5>2, <4>5
      <4>13. CASE Vec!Assign(t)
        <5>1. PICK id \in task[t].todo :
                /\ task' = [task EXCEPT ![t] =
                     IF task[t].todo = {id} THEN Vec!Resting ELSE [task[t] EXCEPT !.todo = task[t].todo \ {id}]]
                /\ dimension' = dimension /\ vectors' = vectors /\ task[t].at = "assign"
          BY <4>13 DEF Vec!Assign, Vec!Goto
        <5> DEFINE s == IF task[t].todo = {id} THEN Vec!Resting ELSE [task[t] EXCEPT !.todo = task[t].todo \ {id}]
        <5>2. s.at \in {"idle", "assign"}
          BY <5>1, <4>2 DEF VecTypes, VecTasks, Vec!Resting
        <5>3. Vec!Goto(t, s)
          BY <5>1 DEF Vec!Goto
        <5> HIDE DEF s
        <5> QED  BY <5>1, <5>2, <5>3, <4>5
      <4> QED
        BY <4>1, <4>4, <4>6, <4>7, <4>8, <4>9, <4>10, <4>11, <4>12, <4>13 DEF Vec!Begin, Vec!Continue
    <3>4. CASE crashes # 0 /\ crashes' = crashes
      BY <3>4 DEF DimInv
    <3> QED
      BY <3>1, <3>2, <3>3, <3>4 DEF Next, UseDocs, UseText, UseVectors, vars, vecVars
  <2> QED  BY <2>2, <2>3
<1>3. VecInv /\ DimInv => OneDimension
  BY DEF DimInv, OneDimension, Vec!OneDimension
<1> QED  BY <1>1, <1>2, <1>3, PTL DEF Spec

-----------------------------------------------------------------------------
(* Types *)

\* The types of the documents, which hold whatever the application does.
DocTyped ==
    /\ DocTypes
    /\ \A t \in Threads : call[t].at \in {"read", "unindex"} => call[t].id \in Ids

\* A call goes on or ends.
LEMMA DocTypedGoto ==
    ASSUME DocTyped, NEW t \in Threads, NEW s, Docs!Goto(t, s),
           s \in [at : DocSteps, id : Ids \cup {Absent}, doc : Docs!Docs \cup {Absent}, todo : SUBSET Docs!Entries],
           s.at \in {"read", "unindex"} => s.id \in Ids,
           docs' \in [Ids -> Docs!Docs \cup {Absent}], index' \subseteq Docs!Entries, indexed' \subseteq Fields
    PROVE  DocTyped'
BY DEF DocTyped, DocTypes, Docs!Goto

\* The entries of one document, or of all.
LEMMA EntriesType ==
    ASSUME NEW F \in SUBSET Fields, NEW I \in SUBSET Ids, NEW d, DOMAIN d = I
    PROVE  Docs!EntriesOf(F, d) \subseteq Docs!Entries
BY DEF Docs!EntriesOf, Docs!Entries

\* A call writes the entries E and returns when it has none.
LEMMA DocTypedWriting ==
    ASSUME DocTyped, NEW t \in Threads, NEW E \in SUBSET Docs!Entries, Docs!Writing(t, E),
           docs' \in [Ids -> Docs!Docs \cup {Absent}], index' \subseteq Docs!Entries, indexed' \subseteq Fields
    PROVE  DocTyped'
<1>1. PICK s : s = IF E = {} THEN Docs!Resting ELSE [call[t] EXCEPT !.at = "index", !.todo = E]
  OBVIOUS
<1>2. Docs!Goto(t, s)
  BY <1>1 DEF Docs!Writing
<1>3. s \in [at : DocSteps, id : Ids \cup {Absent}, doc : Docs!Docs \cup {Absent}, todo : SUBSET Docs!Entries]
  BY <1>1 DEF DocTyped, DocTypes, DocSteps, Docs!Resting
<1>4. s.at \in {"idle", "index"}
  BY <1>1 DEF DocTyped, DocTypes, Docs!Resting
<1> QED  BY <1>2, <1>3, <1>4, DocTypedGoto

LEMMA DocTypedStep ==
    ASSUME DocTyped, [Docs!Next]_docVars
    PROVE  DocTyped'
<1> DEFINE Calls == [at : DocSteps, id : Ids \cup {Absent}, doc : Docs!Docs \cup {Absent}, todo : SUBSET Docs!Entries]
<1>types. /\ docs \in [Ids -> Docs!Docs \cup {Absent}] /\ index \subseteq Docs!Entries /\ indexed \subseteq Fields
          /\ call \in [Threads -> Calls]
  BY DEF DocTyped, DocTypes
<1>1. ASSUME NEW t \in Threads, NEW id \in Ids, NEW doc \in Docs!Docs, Docs!Insert(t, id, doc)
      PROVE  DocTyped'
  <2>1. PICK s : s = [at |-> "read", id |-> id, doc |-> doc, todo |-> {}]
    OBVIOUS
  <2>2. Docs!Goto(t, s) /\ UNCHANGED <<docs, index, indexed>>
    BY <1>1, <2>1 DEF Docs!Insert
  <2>3. s \in Calls /\ s.id = id
    BY <2>1 DEF DocSteps
  <2> QED  BY <2>2, <2>3, <1>types, DocTypedGoto
<1>2. ASSUME NEW t \in Threads, NEW id \in Ids, NEW F \in SUBSET Fields, NEW patch \in [F -> Vals \cup {Absent}],
             Docs!Update(t, id, patch)
      PROVE  DocTyped'
  <2>1. docs[id] \in Docs!Docs
    BY <1>2, <1>types DEF Docs!Update
  <2>2. Docs!Patched(docs[id], patch) \in Docs!Docs
    BY <2>1 DEF Docs!Patched, Docs!Docs
  <2> QED  BY <1>1, <1>2, <2>2 DEF Docs!Update
<1>3. ASSUME NEW t \in Threads, NEW id \in Ids, Docs!Delete(t, id)
      PROVE  DocTyped'
  <2>1. PICK E : E = Docs!EntriesOf(indexed, Docs!Only(id, docs[id]))
    OBVIOUS
  <2>2. PICK s : s = [at |-> "unindex", id |-> id, doc |-> Absent, todo |-> E]
    OBVIOUS
  <2>3. Docs!Goto(t, s) /\ UNCHANGED <<docs, index, indexed>>
    BY <1>3, <2>1, <2>2 DEF Docs!Delete
  <2>4. E \subseteq Docs!Entries
    BY <2>1, <1>types, EntriesOfOne DEF Docs!Entries
  <2>5. s \in Calls /\ s.id = id
    BY <2>2, <2>4 DEF DocSteps
  <2> QED  BY <2>3, <2>5, <1>types, DocTypedGoto
<1>4. ASSUME NEW t \in Threads, NEW f \in Fields, Docs!CreateIndex(t, f)
      PROVE  DocTyped'
  <2>1. Docs!EntriesOf({f}, docs) \in SUBSET Docs!Entries
    BY <1>types, EntriesType
  <2> QED  BY <1>4, <2>1, <1>types, DocTypedWriting DEF Docs!CreateIndex
<1>5. ASSUME NEW t \in Threads, Docs!ReadOld(t)
      PROVE  DocTyped'
  <2>1. PICK id : id = call[t].id
    OBVIOUS
  <2>2. id \in Ids /\ call[t].at = "read"
    BY <1>5, <2>1 DEF Docs!ReadOld, DocTyped
  <2>3. PICK E : E = Docs!EntriesOf(indexed, Docs!Only(id, docs[id]))
    OBVIOUS
  <2>4. PICK s : s = [call[t] EXCEPT !.at = "unindex", !.todo = E]
    OBVIOUS
  <2>5. Docs!Goto(t, s) /\ UNCHANGED <<docs, index, indexed>>
    BY <1>5, <2>1, <2>3, <2>4 DEF Docs!ReadOld
  <2>6. E \subseteq Docs!Entries
    BY <2>2, <2>3, <1>types, EntriesOfOne DEF Docs!Entries
  <2>7. s \in Calls /\ s.id = id
    BY <2>1, <2>4, <2>6, <1>types DEF DocSteps
  <2> QED  BY <2>2, <2>5, <2>7, <1>types, DocTypedGoto
<1>6. ASSUME NEW t \in Threads, Docs!Unindex(t)
      PROVE  DocTyped'
  <2>1. PICK e \in call[t].todo : index' = index \ {e} /\ Docs!Goto(t, [call[t] EXCEPT !.todo = call[t].todo \ {e}])
    BY <1>6 DEF Docs!Unindex
  <2>2. PICK s : s = [call[t] EXCEPT !.todo = call[t].todo \ {e}]
    OBVIOUS
  <2>3. Docs!Goto(t, s) /\ UNCHANGED <<docs, indexed>> /\ call[t].at = "unindex"
    BY <1>6, <2>1, <2>2 DEF Docs!Unindex
  <2>4. s \in Calls /\ s.id = call[t].id /\ s.id \in Ids
    BY <2>2, <2>3, <1>types DEF DocTyped
  <2> QED  BY <2>1, <2>3, <2>4, <1>types, DocTypedGoto
<1>7. ASSUME NEW t \in Threads, Docs!Put(t)
      PROVE  DocTyped'
  <2>1. PICK id, doc : id = call[t].id /\ doc = call[t].doc
    OBVIOUS
  <2>2. id \in Ids /\ doc \in Docs!Docs \cup {Absent}
    BY <1>7, <2>1, <1>types DEF Docs!Put, DocTyped
  <2>3. PICK E : E = Docs!EntriesOf(indexed, Docs!Only(id, doc))
    OBVIOUS
  <2>4. /\ docs' = [docs EXCEPT ![id] = doc] /\ Docs!Writing(t, E) /\ UNCHANGED <<index, indexed>>
    BY <1>7, <2>1, <2>3 DEF Docs!Put
  <2>5. E \in SUBSET Docs!Entries
    BY <2>2, <2>3, <1>types, EntriesOfOne DEF Docs!Entries
  <2> QED  BY <2>2, <2>4, <2>5, <1>types, DocTypedWriting
<1>8. ASSUME NEW t \in Threads, Docs!Index(t)
      PROVE  DocTyped'
  <2>1. PICK e \in call[t].todo : index' = index \cup {e} /\ Docs!Writing(t, call[t].todo \ {e})
    BY <1>8 DEF Docs!Index
  <2>2. e \in Docs!Entries /\ call[t].todo \ {e} \in SUBSET Docs!Entries
    BY <1>types
  <2>3. UNCHANGED <<docs, indexed>>
    BY <1>8 DEF Docs!Index
  <2> QED  BY <2>1, <2>2, <2>3, <1>types, DocTypedWriting
<1>9. CASE Docs!Stop
  <2>1. Docs!Resting \in Calls /\ Docs!Resting.at = "idle"
    BY DEF Docs!Resting, DocSteps
  <2> QED  BY <1>9, <2>1, <1>types DEF Docs!Stop, DocTyped, DocTypes
<1>10. CASE UNCHANGED docVars
  BY <1>10 DEF docVars, DocTyped, DocTypes
<1> QED
  BY <1>1, <1>2, <1>3, <1>4, <1>5, <1>6, <1>7, <1>8, <1>9, <1>10 DEF Docs!Next, Docs!Begin, Docs!Continue

\* The types of the vectors, which hold whatever the application does.
VecTyped ==
    /\ VecTypes
    /\ metas \in [VecIds -> Metas \cup {Absent}]
    /\ \A t \in Threads :
         /\ task[t].at = "train" => task[t].of \in Objects
         /\ task[t].at = "assign" =>
              task[t].of \in Objects /\ clusters[task[t].of] \in [Vec!Clusters -> SUBSET VecIds]

\* A call goes on or ends.
LEMMA VecTypedGoto ==
    ASSUME VecTyped, NEW t \in Threads, NEW s \in VecTasks, Vec!Goto(t, s),
           s.at \in {"learn", "put"} => s.of \in Objects /\ s.id \in VecIds /\ s.vec \in Dims,
           s.at = "drop" => s.id \in VecIds,
           s.at = "train" => s.of \in Objects,
           s.at = "assign" => s.of \in Objects /\ clusters'[s.of] \in [Vec!Clusters -> SUBSET VecIds],
           vectors' \in [VecIds -> Dims \cup {Absent}], metas' \in [VecIds -> Metas \cup {Absent}],
           dimension' \in [Objects -> Dims \cup {Absent}], fresh' \in [Objects -> SUBSET VecIds],
           clusters' \in [Objects -> [Vec!Clusters -> SUBSET VecIds] \cup {Vec!Untrained}],
           \A o \in Objects : clusters[o] \in [Vec!Clusters -> SUBSET VecIds] =>
                              clusters'[o] \in [Vec!Clusters -> SUBSET VecIds]
    PROVE  VecTyped'
<1> DEFINE Trained == [Vec!Clusters -> SUBSET VecIds]
<1>1. Trained' = Trained
  BY DEF Vec!Clusters
<1>2. task' \in [Threads -> VecTasks] /\ task'[t] = s /\ \A u \in Threads : u # t => task'[u] = task[u]
  BY DEF VecTyped, VecTypes, Vec!Goto
<1>3. VecTypes'
  BY <1>1, <1>2 DEF VecTyped, VecTypes, Vec!Untrained
<1>4. ASSUME NEW u \in Threads, task'[u].at = "assign"
      PROVE  task'[u].of \in Objects /\ clusters'[task'[u].of] \in Trained
  BY <1>2, <1>4 DEF VecTyped
<1> QED  BY <1>1, <1>2, <1>3, <1>4 DEF VecTyped

LEMMA VecTypedStep ==
    ASSUME VecTyped, [Vec!Next]_vecVars
    PROVE  VecTyped'
<1> DEFINE Trained == [Vec!Clusters -> SUBSET VecIds]
<1>types. /\ vectors \in [VecIds -> Dims \cup {Absent}] /\ metas \in [VecIds -> Metas \cup {Absent}]
          /\ dimension \in [Objects -> Dims \cup {Absent}] /\ fresh \in [Objects -> SUBSET VecIds]
          /\ clusters \in [Objects -> Trained \cup {Vec!Untrained}]
          /\ task \in [Threads -> VecTasks]
  BY DEF VecTyped, VecTypes
<1>rest. Vec!Resting \in VecTasks /\ Vec!Resting.at = "idle"
  BY DEF Vec!Resting, VecTasks, VecSteps
<1>1. ASSUME NEW t \in Threads, NEW o \in Objects, NEW id \in VecIds, NEW v \in Dims,
             NEW m \in Metas \cup {Absent}, Vec!Insert(t, o, id, v, m)
      PROVE  VecTyped'
  <2>1. PICK s : s = [at |-> IF dimension[o] = Absent THEN "learn" ELSE "put",
                      of |-> o, id |-> id, vec |-> v, meta |-> m, todo |-> {}]
    OBVIOUS
  <2>2. Vec!Goto(t, s) /\ UNCHANGED <<vectors, metas, dimension, clusters, fresh>>
    BY <1>1, <2>1 DEF Vec!Insert
  <2>3. s \in VecTasks /\ s.at \in {"learn", "put"} /\ s.of = o /\ s.id = id /\ s.vec = v
    BY <2>1 DEF VecTasks, VecSteps
  <2> QED  BY <2>2, <2>3, <1>types, VecTypedGoto
<1>2. ASSUME NEW t \in Threads, Vec!Learn(t)
      PROVE  VecTyped'
  <2>1. PICK s : s = [task[t] EXCEPT !.at = "put"]
    OBVIOUS
  <2>2. /\ Vec!Goto(t, s) /\ UNCHANGED <<vectors, metas, clusters, fresh>> /\ task[t].at = "learn"
        /\ dimension' = [dimension EXCEPT ![task[t].of] = task[t].vec]
    BY <1>2, <2>1 DEF Vec!Learn
  <2>3. /\ s \in VecTasks /\ s.at = "put" /\ s.of = task[t].of /\ s.id = task[t].id /\ s.vec = task[t].vec
        /\ s.of \in Objects /\ s.id \in VecIds /\ s.vec \in Dims
    BY <2>1, <2>2 DEF VecTyped, VecTypes, VecTasks, VecSteps
  <2> QED  BY <2>2, <2>3, <1>types, VecTypedGoto
<1>3. ASSUME NEW t \in Threads, Vec!PutVector(t)
      PROVE  VecTyped'
  <2>1. PICK s : s = IF task[t].meta = Absent THEN Vec!Resting ELSE [task[t] EXCEPT !.at = "putMeta"]
    OBVIOUS
  <2>2. /\ Vec!Goto(t, s) /\ UNCHANGED <<metas, dimension, clusters>> /\ task[t].at = "put"
        /\ vectors' = [vectors EXCEPT ![task[t].id] = task[t].vec]
        /\ fresh' = [o \in Objects |-> fresh[o] \cup {task[t].id}]
    BY <1>3, <2>1 DEF Vec!PutVector
  <2>3. s \in VecTasks /\ s.at \in {"idle", "putMeta"} /\ task[t].id \in VecIds /\ task[t].vec \in Dims
    BY <2>1, <2>2, <1>rest DEF VecTyped, VecTypes, VecTasks, VecSteps
  <2> QED  BY <2>2, <2>3, <1>types, VecTypedGoto
<1>4. ASSUME NEW t \in Threads, Vec!PutMeta(t)
      PROVE  VecTyped'
  <2>1. /\ Vec!Goto(t, Vec!Resting) /\ UNCHANGED <<vectors, dimension, clusters, fresh>>
        /\ metas' = [metas EXCEPT ![task[t].id] = task[t].meta]
    BY <1>4 DEF Vec!PutMeta
  <2>2. metas' \in [VecIds -> Metas \cup {Absent}]
    BY <2>1, <1>types DEF VecTasks
  <2> QED  BY <2>1, <2>2, <1>rest, <1>types, VecTypedGoto
<1>5. ASSUME NEW t \in Threads, NEW id \in VecIds, Vec!Delete(t, id)
      PROVE  VecTyped'
  <2>1. PICK s : s = [Vec!Resting EXCEPT !.at = "drop", !.id = id]
    OBVIOUS
  <2>2. Vec!Goto(t, s) /\ UNCHANGED <<vectors, metas, dimension, clusters, fresh>>
    BY <1>5, <2>1 DEF Vec!Delete
  <2>3. s \in VecTasks /\ s.at = "drop" /\ s.id = id
    BY <2>1 DEF VecTasks, VecSteps, Vec!Resting
  <2> QED  BY <2>2, <2>3, <1>types, VecTypedGoto
<1>6. ASSUME NEW t \in Threads, Vec!Drop(t)
      PROVE  VecTyped'
  <2>1. PICK s : s = [task[t] EXCEPT !.at = "dropMeta"]
    OBVIOUS
  <2>2. /\ Vec!Goto(t, s) /\ UNCHANGED <<metas, dimension, clusters, fresh>>
        /\ vectors' = [vectors EXCEPT ![task[t].id] = Absent]
    BY <1>6, <2>1 DEF Vec!Drop
  <2>3. s \in VecTasks /\ s.at = "dropMeta"
    BY <2>1, <1>types DEF VecTasks, VecSteps
  <2> QED  BY <2>2, <2>3, <1>types, VecTypedGoto
<1>7. ASSUME NEW t \in Threads, Vec!DropMeta(t)
      PROVE  VecTyped'
  <2>1. /\ Vec!Goto(t, Vec!Resting) /\ UNCHANGED <<vectors, dimension, clusters, fresh>>
        /\ metas' = [metas EXCEPT ![task[t].id] = Absent]
    BY <1>7 DEF Vec!DropMeta
  <2> QED  BY <2>1, <1>rest, <1>types, VecTypedGoto
<1>8. ASSUME NEW t \in Threads, NEW o \in Objects, Vec!Train(t, o)
      PROVE  VecTyped'
  <2>1. PICK s : s = [Vec!Resting EXCEPT !.at = "train", !.of = o, !.todo = Vec!Stored]
    OBVIOUS
  <2>2. /\ Vec!Goto(t, s) /\ UNCHANGED <<vectors, metas, dimension, clusters>>
        /\ fresh' = [fresh EXCEPT ![o] = {}]
    BY <1>8, <2>1 DEF Vec!Train
  <2>3. s \in VecTasks /\ s.at = "train" /\ s.of = o
    BY <2>1 DEF VecTasks, VecSteps, Vec!Resting, Vec!Stored
  <2> QED  BY <2>2, <2>3, <1>types, VecTypedGoto
<1>9. ASSUME NEW t \in Threads, Vec!Reset(t)
      PROVE  VecTyped'
  <2>1. PICK s, o : s = [task[t] EXCEPT !.at = "assign"] /\ o = task[t].of
    OBVIOUS
  <2>2. /\ Vec!Goto(t, s) /\ UNCHANGED <<vectors, metas, dimension, fresh>> /\ task[t].at = "train"
        /\ clusters' = [clusters EXCEPT ![o] = [c \in Vec!Clusters |-> {}]]
    BY <1>9, <2>1 DEF Vec!Reset
  <2>3. s \in VecTasks /\ s.at = "assign" /\ s.of = o /\ o \in Objects
    BY <2>1, <2>2, <1>types, SMTT(60) DEF VecTyped, VecTasks, VecSteps
  <2>4. /\ [c \in Vec!Clusters |-> {}] \in Trained
        /\ clusters' \in [Objects -> Trained \cup {Vec!Untrained}] /\ clusters'[o] \in Trained
        /\ \A p \in Objects : p # o => clusters'[p] = clusters[p]
    BY <2>2, <2>3, <1>types
  <2> QED  BY <2>2, <2>3, <2>4, <1>types, VecTypedGoto
<1>10. ASSUME NEW t \in Threads, Vec!Assign(t)
       PROVE  VecTyped'
  <2>1. PICK o : o = task[t].of
    OBVIOUS
  <2>2. PICK id \in task[t].todo, c \in Vec!Clusters :
          /\ clusters' = [clusters EXCEPT ![o][c] = clusters[o][c] \cup {id}]
          /\ Vec!Goto(t, IF task[t].todo = {id} THEN Vec!Resting ELSE [task[t] EXCEPT !.todo = task[t].todo \ {id}])
    BY <1>10, <2>1 DEF Vec!Assign
  <2>3. UNCHANGED <<vectors, metas, dimension, fresh>> /\ task[t].at = "assign"
    BY <1>10 DEF Vec!Assign
  <2>4. PICK s : s = IF task[t].todo = {id} THEN Vec!Resting ELSE [task[t] EXCEPT !.todo = task[t].todo \ {id}]
    OBVIOUS
  <2>5. Vec!Goto(t, s)
    BY <2>2, <2>4
  <2>6. s \in VecTasks /\ (s.at = "idle" \/ (s.at = "assign" /\ s.of = o)) /\ id \in VecIds
    BY <2>1, <2>3, <2>4, <1>rest, <1>types DEF VecTasks
  <2>7. o \in Objects /\ clusters[o] \in Trained
    BY <2>1, <2>3 DEF VecTyped
  <2>8. /\ clusters'[o] = [clusters[o] EXCEPT ![c] = clusters[o][c] \cup {id}]
        /\ \A p \in Objects : p # o => clusters'[p] = clusters[p]
        /\ DOMAIN clusters' = Objects /\ clusters' = [p \in Objects |-> clusters'[p]]
    BY <2>2, <2>7, <1>types
  <2>9. clusters'[o] \in Trained
    BY <2>6, <2>7, <2>8
  <2>10. clusters' \in [Objects -> Trained \cup {Vec!Untrained}]
    BY <2>8, <2>9, <1>types
  <2> QED  BY <2>3, <2>5, <2>6, <2>7, <2>8, <2>9, <2>10, <1>types, VecTypedGoto
<1>11. CASE Vec!Stop
  <2>1. /\ task' = [t \in Threads |-> Vec!Resting] /\ UNCHANGED <<vectors, metas, fresh>>
        /\ dimension' = [o \in Objects |-> Absent]
        /\ clusters' = [o \in Objects |-> Vec!Untrained]
    BY <1>11 DEF Vec!Stop
  <2>2. \A t \in Threads : task'[t].at = "idle"
    BY <2>1, <1>rest
  <2>3. VecTypes'
    BY <2>1, <2>2, <1>rest, <1>types DEF VecTypes, Vec!Clusters, Vec!Untrained
  <2> QED  BY <2>1, <2>2, <2>3, <1>types DEF VecTyped
<1>12. CASE UNCHANGED vecVars
  BY <1>12 DEF vecVars, VecTyped, VecTypes, VecTasks, Vec!Clusters, Vec!Untrained
<1> QED
  BY <1>1, <1>2, <1>3, <1>4, <1>5, <1>6, <1>7, <1>8, <1>9, <1>10, <1>11, <1>12
  DEF Vec!Next, Vec!Begin, Vec!Continue

\* The cells of the three engines and their calls keep their types, whatever
\* threads the application runs beside each other and however it indexes: no
\* blank text is stored, counts stay numbers, clusters hold ids (doc.py,
\* text.py, vector.py).
THEOREM TypesHold == Spec => []TypeOK
<1> DEFINE Inv == DocTyped /\ TextTyped /\ VecTyped /\ embeds \in Processes /\ crashes \in 0 .. MaxCrashes
<1>1. Init => Inv
  <2> SUFFICES ASSUME Init PROVE Inv
    OBVIOUS
  <2>1. DocTyped
    BY DocInit DEF DocInv, DocTyped, DocCalls, DocTypes
  <2>2. \A t \in Threads : task[t].at = "idle"
    BY DEF Init, Vec!Init, Vec!Resting
  <2>3. VecTyped
    BY <2>2, VecInit DEF VecInv, VecTyped, Init, Vec!Init
  <2> QED  BY <2>1, <2>3, TypedInit, CrashAssumption DEF Init
<1>2. Inv /\ [Next]_vars => Inv'
  <2> SUFFICES ASSUME Inv, [Next]_vars PROVE Inv'
    OBVIOUS
  <2>1. [Docs!Next]_docVars
    BY DEF Next, vars, docVars, textVars, vecVars, UseDocs, UseText, UseVectors, Crash, Docs!Next
  <2>2. [Text!Next]_textVars
    BY DEF Next, vars, docVars, textVars, vecVars, UseDocs, UseText, UseVectors, Crash, Text!Next
  <2>3. [Vec!Next]_vecVars
    BY DEF Next, vars, docVars, textVars, vecVars, UseDocs, UseText, UseVectors, Crash, Vec!Next
  <2>4. embeds' = embeds /\ (crashes' = crashes \/ (crashes < MaxCrashes /\ crashes' = crashes + 1))
    BY DEF Next, vars, UseDocs, UseText, UseVectors, Crash
  <2>5. crashes' \in 0 .. MaxCrashes
    BY <2>4, CrashAssumption
  <2> QED  BY <2>1, <2>2, <2>3, <2>4, <2>5, DocTypedStep, TypedStep, VecTypedStep
<1>3. Inv => TypeOK
  <2> SUFFICES ASSUME Inv PROVE Docs!TypeOK /\ Text!TypeOK /\ Vec!TypeOK
    BY DEF TypeOK
  <2>1. Docs!TypeOK
    BY DEF DocTyped, DocTypes, DocSteps, Docs!TypeOK
  <2>2. Text!TypeOK
    BY DEF TextTyped, Counts, Jobs, Text!TypeOK
  <2>3. Vec!TypeOK
    BY DEF VecTyped, VecTypes, VecTasks, VecSteps, Vec!TypeOK
  <2> QED  BY <2>1, <2>2, <2>3
<1> QED  BY <1>1, <1>2, <1>3, PTL DEF Spec

-----------------------------------------------------------------------------
(* What an index has *)

\* An entry that a document should have and has not is still to be written, or
\* its document is about to be replaced.
DocOwes ==
    /\ \A t \in Threads : call[t].at = "unindex" => \A e \in call[t].todo : e[3] = call[t].id
    /\ \A e \in Docs!EntriesOf(indexed, docs) \ index :
         \E t \in Threads : \/ call[t].at = "index" /\ e \in call[t].todo
                            \/ call[t].at = "unindex" /\ call[t].id = e[3]

\* A call that is not about to replace a document goes on or ends, and owes
\* as much as before.
LEMMA OwesGoto ==
    ASSUME DocTyped, DocOwes, NEW t \in Threads, NEW s, Docs!Goto(t, s),
           s.at = "unindex" => \A e \in s.todo : e[3] = s.id,
           \A e \in Docs!EntriesOf(indexed, docs)' \ index' :
              \/ e \in Docs!EntriesOf(indexed, docs) \ index
                 /\ (call[t].at = "index" => e \notin call[t].todo)
                 /\ (call[t].at = "unindex" => e[3] # call[t].id)
              \/ s.at = "index" /\ e \in s.todo
              \/ s.at = "unindex" /\ s.id = e[3]
    PROVE  DocOwes'
<1>1. call'[t] = s /\ \A u \in Threads : u # t => call'[u] = call[u]
  BY DEF DocTyped, DocTypes, Docs!Goto
<1> DEFINE Owed == Docs!EntriesOf(indexed, docs)' \ index'
<1>2. ASSUME NEW e \in Owed
      PROVE  \E u \in Threads : \/ call'[u].at = "index" /\ e \in call'[u].todo
                                \/ call'[u].at = "unindex" /\ call'[u].id = e[3]
  BY <1>1, <1>2 DEF DocOwes
<1> HIDE DEF Owed
<1>3. \A u \in Threads : call'[u].at = "unindex" => \A e \in call'[u].todo : e[3] = call'[u].id
  BY <1>1 DEF DocOwes
<1> QED  BY <1>2, <1>3 DEF DocOwes, Owed

LEMMA OwesStep ==
    ASSUME DocTyped, DocOwes, [Docs!Next]_docVars
    PROVE  DocOwes'
<1>types. /\ docs \in [Ids -> Docs!Docs \cup {Absent}] /\ index \subseteq Docs!Entries /\ indexed \subseteq Fields
          /\ \A t \in Threads : call[t].at \in {"read", "unindex"} => call[t].id \in Ids
  BY DEF DocTyped, DocTypes
<1>all. \A e : e \in Docs!EntriesOf(indexed, docs) <=>
          e \in indexed \X Vals \X Ids /\ docs[e[3]] # Absent /\ docs[e[3]][e[1]] = e[2]
  BY <1>types, EntriesOfAll DEF DocTyped
<1>same. ASSUME UNCHANGED <<docs, indexed>>
         PROVE  Docs!EntriesOf(indexed, docs)' = Docs!EntriesOf(indexed, docs)
  BY <1>same DEF Docs!EntriesOf
<1>1. ASSUME NEW t \in Threads, NEW id \in Ids, NEW doc, Docs!Insert(t, id, doc)
      PROVE  DocOwes'
  <2>1. PICK s : s = [at |-> "read", id |-> id, doc |-> doc, todo |-> {}]
    OBVIOUS
  <2>2. Docs!Goto(t, s) /\ UNCHANGED <<docs, index, indexed>> /\ call[t].at = "idle"
    BY <1>1, <2>1 DEF Docs!Insert, Docs!May, Docs!Free
  <2> QED  BY <2>1, <2>2, <1>same, OwesGoto
<1>2. ASSUME NEW t \in Threads, NEW id \in Ids, NEW patch, Docs!Update(t, id, patch)
      PROVE  DocOwes'
  BY <1>1, <1>2 DEF Docs!Update
<1>3. ASSUME NEW t \in Threads, NEW id \in Ids, Docs!Delete(t, id)
      PROVE  DocOwes'
  <2>1. PICK E : E = Docs!EntriesOf(indexed, Docs!Only(id, docs[id]))
    OBVIOUS
  <2>2. PICK s : s = [at |-> "unindex", id |-> id, doc |-> Absent, todo |-> E]
    OBVIOUS
  <2>3. Docs!Goto(t, s) /\ UNCHANGED <<docs, index, indexed>> /\ call[t].at = "idle"
    BY <1>3, <2>1, <2>2 DEF Docs!Delete, Docs!May, Docs!Free
  <2>4. \A e \in E : e[3] = id
    BY <2>1, <1>types, EntriesOfOne
  <2> QED  BY <2>2, <2>3, <2>4, <1>same, OwesGoto
<1>4. ASSUME NEW t \in Threads, NEW f \in Fields, Docs!CreateIndex(t, f)
      PROVE  DocOwes'
  <2>1. PICK E : E = Docs!EntriesOf({f}, docs)
    OBVIOUS
  <2>2. PICK s : s = IF E = {} THEN Docs!Resting ELSE [call[t] EXCEPT !.at = "index", !.todo = E]
    OBVIOUS
  <2>3. /\ Docs!Goto(t, s) /\ UNCHANGED <<docs, index>> /\ indexed' = indexed \cup {f} /\ call[t].at = "idle"
    BY <1>4, <2>1, <2>2 DEF Docs!CreateIndex, Docs!Writing, Docs!MayIndex, Docs!Free
  <2>4. s.at # "unindex" /\ (E # {} => s.at = "index" /\ s.todo = E)
    BY <2>2 DEF Docs!Resting, DocTyped, DocTypes
  <2>5. Docs!EntriesOf(indexed, docs)' \subseteq Docs!EntriesOf(indexed, docs) \cup E
    BY <2>1, <2>3 DEF Docs!EntriesOf
  <2> QED  BY <2>3, <2>4, <2>5, OwesGoto
<1>5. ASSUME NEW t \in Threads, Docs!ReadOld(t)
      PROVE  DocOwes'
  <2>1. PICK id : id = call[t].id
    OBVIOUS
  <2>2. id \in Ids /\ call[t].at = "read"
    BY <1>5, <2>1, <1>types DEF Docs!ReadOld
  <2>3. PICK E : E = Docs!EntriesOf(indexed, Docs!Only(id, docs[id]))
    OBVIOUS
  <2>4. PICK s : s = [call[t] EXCEPT !.at = "unindex", !.todo = E]
    OBVIOUS
  <2>5. Docs!Goto(t, s) /\ UNCHANGED <<docs, index, indexed>>
    BY <1>5, <2>1, <2>3, <2>4 DEF Docs!ReadOld
  <2>6. s.id = id /\ s.todo = E /\ \A e \in E : e[3] = id
    BY <2>1, <2>2, <2>3, <2>4, <1>types, EntriesOfOne DEF DocTyped, DocTypes
  <2> QED  BY <2>2, <2>5, <2>6, <1>same, OwesGoto
<1>6. ASSUME NEW t \in Threads, Docs!Unindex(t)
      PROVE  DocOwes'
  <2>1. PICK e \in call[t].todo : index' = index \ {e} /\ Docs!Goto(t, [call[t] EXCEPT !.todo = call[t].todo \ {e}])
    BY <1>6 DEF Docs!Unindex
  <2>2. PICK s : s = [call[t] EXCEPT !.todo = call[t].todo \ {e}]
    OBVIOUS
  <2>3. Docs!Goto(t, s) /\ UNCHANGED <<docs, indexed>> /\ call[t].at = "unindex"
    BY <1>6, <2>1, <2>2 DEF Docs!Unindex
  <2>4. s.at = "unindex" /\ s.id = call[t].id /\ s.todo = call[t].todo \ {e}
    BY <2>2, <2>3 DEF DocTyped, DocTypes
  <2>5. \A d \in call[t].todo : d[3] = s.id
    BY <2>3, <2>4 DEF DocOwes
  <2> QED  BY <2>1, <2>3, <2>4, <2>5, <1>same, OwesGoto
<1>7. ASSUME NEW t \in Threads, Docs!Put(t)
      PROVE  DocOwes'
  <2>1. PICK id, doc : id = call[t].id /\ doc = call[t].doc
    OBVIOUS
  <2>2. PICK E : E = Docs!EntriesOf(indexed, Docs!Only(id, doc))
    OBVIOUS
  <2>3. PICK s : s = IF E = {} THEN Docs!Resting ELSE [call[t] EXCEPT !.at = "index", !.todo = E]
    OBVIOUS
  <2>4. /\ docs' = [docs EXCEPT ![id] = doc] /\ Docs!Goto(t, s) /\ UNCHANGED <<index, indexed>>
        /\ call[t].at = "unindex"
    BY <1>7, <2>1, <2>2, <2>3 DEF Docs!Put, Docs!Writing
  <2>5. s.at # "unindex" /\ (E # {} => s.at = "index" /\ s.todo = E)
    BY <2>3 DEF Docs!Resting, DocTyped, DocTypes
  <2>6. id \in Ids /\ docs'[id] = doc /\ DOMAIN docs' = Ids /\ \A i \in Ids : i # id => docs'[i] = docs[i]
    BY <2>1, <2>4, <1>types
  <2>7. \A e : e \in Docs!EntriesOf(indexed, docs)' <=>
          e \in indexed \X Vals \X Ids /\ docs'[e[3]] # Absent /\ docs'[e[3]][e[1]] = e[2]
    BY <2>4, <2>6 DEF Docs!EntriesOf
  <2>8. \A e : e \in E <=> e \in indexed \X Vals \X {id} /\ doc # Absent /\ doc[e[1]] = e[2]
    BY <2>2, <2>6, <1>types, EntriesOfOne
  <2>9. ASSUME NEW e \in Docs!EntriesOf(indexed, docs)'
        PROVE  e \in E \/ (e \in Docs!EntriesOf(indexed, docs) /\ e[3] # id)
    BY <2>6, <2>7, <2>8, <2>9, <1>all
  <2> QED  BY <2>1, <2>4, <2>5, <2>9, OwesGoto
<1>8. ASSUME NEW t \in Threads, Docs!Index(t)
      PROVE  DocOwes'
  <2>1. PICK e \in call[t].todo : index' = index \cup {e} /\ Docs!Writing(t, call[t].todo \ {e})
    BY <1>8 DEF Docs!Index
  <2>2. PICK E : E = call[t].todo \ {e}
    OBVIOUS
  <2>3. PICK s : s = IF E = {} THEN Docs!Resting ELSE [call[t] EXCEPT !.at = "index", !.todo = E]
    OBVIOUS
  <2>4. Docs!Goto(t, s) /\ UNCHANGED <<docs, indexed>> /\ call[t].at = "index"
    BY <1>8, <2>1, <2>2, <2>3 DEF Docs!Writing, Docs!Index
  <2>5. s.at # "unindex" /\ (E # {} => s.at = "index" /\ s.todo = E)
    BY <2>3 DEF Docs!Resting, DocTyped, DocTypes
  <2> QED  BY <2>1, <2>2, <2>4, <2>5, <1>same, OwesGoto
<1>9. CASE Docs!Stop
  <2>1. indexed' = {} /\ \A t \in Threads : call'[t].at = "idle"
    BY <1>9 DEF Docs!Stop, Docs!Resting
  <2>2. Docs!EntriesOf(indexed, docs)' = {}
    BY <2>1 DEF Docs!EntriesOf
  <2> QED  BY <2>1, <2>2 DEF DocOwes
<1>10. CASE UNCHANGED docVars
  BY <1>10, <1>same DEF docVars, DocOwes
<1> QED
  BY <1>1, <1>2, <1>3, <1>4, <1>5, <1>6, <1>7, <1>8, <1>9, <1>10 DEF Docs!Next, Docs!Begin, Docs!Continue

\* An index the process has lacks no entry.
IndexComplete == Docs!Idle => Docs!EntriesOf(indexed, docs) \subseteq index

\* Between calls an index lacks no entry of a document, whatever threads wrote,
\* deleted and called create_index() beside each other, and whatever crashes
\* came before (doc.py create_index, insert, delete).
THEOREM IndexStaysComplete == Spec => []IndexComplete
<1> DEFINE Inv == DocTyped /\ DocOwes
<1>1. Init => Inv
  <2> SUFFICES ASSUME Init PROVE Inv
    OBVIOUS
  <2>1. DocTyped
    BY DocInit DEF DocInv, DocTyped, DocCalls, DocTypes
  <2>2. indexed = {} /\ \A t \in Threads : call[t].at = "idle"
    BY DEF Init, Docs!Init, Docs!Resting
  <2>3. Docs!EntriesOf(indexed, docs) = {}
    BY <2>2 DEF Docs!EntriesOf
  <2> QED  BY <2>1, <2>2, <2>3 DEF DocOwes
<1>2. Inv /\ [Next]_vars => Inv'
  <2>1. [Next]_vars => [Docs!Next]_docVars
    BY DEF Next, vars, docVars, textVars, vecVars, UseDocs, UseText, UseVectors, Crash, Docs!Next
  <2> QED  BY <2>1, DocTypedStep, OwesStep
<1>3. Inv => IndexComplete
  BY DEF DocOwes, IndexComplete, Docs!Idle, Docs!Free
<1> QED  BY <1>1, <1>2, <1>3, PTL DEF Spec

=============================================================================
