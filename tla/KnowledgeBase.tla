---------------------------- MODULE KnowledgeBase ----------------------------
(***************************************************************************)
(* The documents of the projects in the store, their chunks in the vector  *)
(* collection, and the sources that were imported from Atlassian: uploads, *)
(* imports, syncs, removals and the deletion of a project, as threads of   *)
(* the server whose calls of the collection and of Atlassian may fail.     *)
(* The chunks of a document are written and deleted by one call each, so   *)
(* a document stands for its chunks.                                       *)
(***************************************************************************)
EXTENDS Naturals, FiniteSets

CONSTANTS
  Scopes,     \* projects
  Files,      \* names of uploaded files
  Pages,      \* Jira issues and Confluence pages
  Texts,      \* contents; two of them have the same hash only if equal
  Uploaded,   \* contents of uploads
  Workers,    \* threads of the server
  MaxDocs,    \* bound: documents drawn
  MaxSources, \* bound: sources drawn
  Nil         \* nothing

ASSUME KnowledgeAssumption ==
  /\ Files \intersect Pages = {} /\ Uploaded \subseteq Texts
  /\ Nil \notin Scopes \union Files \union Pages \union Texts
  /\ MaxDocs \in Nat /\ MaxSources \in Nat

VARIABLES
  live,     \* projects of the store
  docs,     \* store.documents
  vectors,  \* the project under which the collection has a document's chunks, or Nil
  sources,  \* store.external_knowledge_sources
  remote,   \* content of every page at Atlassian, or Nil
  work,     \* what every thread does
  raced,    \* history: pages of projects that two operations worked on at once
  failed    \* history: pages whose last import lost the embedding

knowledgeVars == <<live, docs, vectors, sources, remote, work, raced, failed>>

DocIds    == 1..MaxDocs
SourceIds == 1..MaxSources
Docs      == [scope : Scopes, name : Files \union Pages, text : Texts, acked : BOOLEAN]
Sources   == [id : SourceIds, scope : Scopes, name : Pages, doc : DocIds, text : Texts]

\* Nothing is no document and no source.
ASSUME NilAssumption == Nil \notin Docs \union Sources
Rest      == [at |-> "idle", scope |-> Nil, name |-> Nil, text |-> Nil, doc |-> 0,
              row |-> Nil, src |-> Nil]

KnowledgeTypeOK ==
  /\ live \subseteq Scopes
  /\ docs \in [DocIds -> Docs \union {Nil}]
  /\ vectors \in [DocIds -> Scopes \union {Nil}]
  /\ sources \in [SourceIds -> Sources \union {Nil}]
  /\ \A s \in SourceIds : sources[s] # Nil => sources[s].id = s
  /\ remote \in [Pages -> Texts \union {Nil}]
  /\ work \in [Workers -> [at : {"idle", "ingest", "chunks", "index", "answer", "fetch",
       "same", "replace", "store", "embed", "row", "blame", "drop", "unrow", "vectors", "rows"},
       scope : Scopes \union {Nil}, name : Files \union Pages \union {Nil},
       text : Texts \union {Nil}, doc : DocIds \union {0},
       row : Sources \union {Nil}, src : Sources \union {Nil}]]
  /\ raced \subseteq Scopes \X Pages
  /\ failed \subseteq Scopes \X Pages

KnowledgeInit ==
  /\ live = Scopes
  /\ docs = [d \in DocIds |-> Nil]
  /\ vectors = [d \in DocIds |-> Nil]
  /\ sources = [s \in SourceIds |-> Nil]
  /\ remote \in [Pages -> Texts]
  /\ work = [t \in Workers |-> Rest]
  /\ raced = {} /\ failed = {}

\* Ids are never drawn twice: a thread may hold one that is not stored any more.
HeldDocs == {work[t].doc : t \in Workers} \union
            {work[t].row.doc : t \in {u \in Workers : work[u].row # Nil}} \union
            {work[t].src.doc : t \in {u \in Workers : work[u].src # Nil}} \union
            {sources[s].doc : s \in {r \in SourceIds : sources[r] # Nil}} \union
            {d \in DocIds : vectors[d] # Nil}
HeldSources == {work[t].row.id : t \in {u \in Workers : work[u].row # Nil}} \union
               {work[t].src.id : t \in {u \in Workers : work[u].src # Nil}}
FreshDocs    == {d \in DocIds : docs[d] = Nil} \ HeldDocs
FreshSources == {s \in SourceIds : sources[s] = Nil} \ HeldSources

\* The threads that work on page n of project p, deleting p included.
Busy(p, n) == {t \in Workers : work[t].at # "idle" /\ work[t].scope = p
                               /\ work[t].name \in {n, Nil}}
Begin(t, w) ==
  /\ work[t].at = "idle"
  /\ work' = [work EXCEPT ![t] = w]
  /\ raced' = raced \union {<<w.scope, n>> : n \in
       {m \in Pages : w.name \in {m, Nil} /\ Busy(w.scope, m) # {}}}
Step(t, at) == work' = [work EXCEPT ![t].at = at]
End(t)      == work' = [work EXCEPT ![t] = Rest]

-----------------------------------------------------------------------------
(* Uploads: store the document, unless the project has it; read its chunks *)
(* from the store and write them to the collection; answer.                *)

Upload(t, p, f, x) ==
  /\ p \in live
  /\ Begin(t, [Rest EXCEPT !.at = "ingest", !.scope = p, !.name = f, !.text = x])
  /\ UNCHANGED <<live, docs, vectors, sources, remote, failed>>

Same(p, n, x) == {d \in DocIds : docs[d] # Nil /\ docs[d].scope = p
                                 /\ docs[d].name = n /\ docs[d].text = x}
\* Variant: a document that is there already is taken to be indexed.
KnownIsIndexed == "answer"
AfterKnown == "chunks"
Ingest(t) ==
  LET w == work[t] IN
  /\ w.at = "ingest"
  /\ \/ \E d \in Same(w.scope, w.name, w.text) :
          /\ work' = [work EXCEPT ![t].doc = d, ![t].at = AfterKnown]
          /\ UNCHANGED docs
     \/ /\ Same(w.scope, w.name, w.text) = {}
        /\ \E d \in FreshDocs :
             /\ work' = [work EXCEPT ![t].doc = d, ![t].at = "chunks"]
             /\ docs' = [docs EXCEPT ![d] = [scope |-> w.scope, name |-> w.name,
                                             text |-> w.text, acked |-> FALSE]]
  /\ UNCHANGED <<live, vectors, sources, remote, raced, failed>>

\* A document that was deleted meanwhile has no chunks.
ReadChunks(t) ==
  /\ work[t].at = "chunks"
  /\ Step(t, IF docs[work[t].doc] = Nil THEN "answer" ELSE "index")
  /\ UNCHANGED <<live, docs, vectors, sources, remote, raced, failed>>

Index(t) ==
  /\ work[t].at = "index"
  /\ \/ vectors' = [vectors EXCEPT ![work[t].doc] = work[t].scope] /\ Step(t, "answer")
     \/ UNCHANGED vectors /\ End(t)
  /\ UNCHANGED <<live, docs, sources, remote, raced, failed>>

Answer(t) ==
  /\ work[t].at = "answer"
  /\ docs' = IF docs[work[t].doc] = Nil THEN docs
             ELSE [docs EXCEPT ![work[t].doc].acked = TRUE]
  /\ End(t)
  /\ UNCHANGED <<live, vectors, sources, remote, raced, failed>>

-----------------------------------------------------------------------------
(* Imports and syncs of one page. *)

\* find_by_identity: of two sources of a page, one of them.
Rows(p, n) == {s \in SourceIds : sources[s] # Nil /\ sources[s].scope = p /\ sources[s].name = n}
Found(p, n) == IF Rows(p, n) = {} THEN {Nil} ELSE {sources[s] : s \in Rows(p, n)}

ImportPage(t, p, n) ==
  /\ p \in live
  /\ \E row \in Found(p, n) :
       Begin(t, [Rest EXCEPT !.at = "fetch", !.scope = p, !.name = n, !.row = row])
  /\ UNCHANGED <<live, docs, vectors, sources, remote, failed>>

\* sync_source is the import of the source's page; it keeps the source that
\* it read, for the case that it fails.
Sync(t, s) ==
  /\ sources[s] # Nil
  /\ LET p == sources[s].scope
         n == sources[s].name
     IN  /\ p \in live
         /\ \E row \in Found(p, n) :
              Begin(t, [Rest EXCEPT !.at = "fetch", !.scope = p, !.name = n,
                                    !.row = row, !.src = sources[s]])
  /\ UNCHANGED <<live, docs, vectors, sources, remote, failed>>

Fails(t) == IF work[t].src = Nil THEN End(t) ELSE Step(t, "blame")

Fetch(t) ==
  LET w == work[t] IN
  /\ w.at = "fetch"
  /\ IF remote[w.name] = Nil THEN Fails(t)
     ELSE work' = [work EXCEPT ![t].text = remote[w.name], ![t].at =
            IF w.row = Nil THEN "store"
            ELSE IF w.row.text = remote[w.name] THEN "same" ELSE "replace"]
  /\ UNCHANGED <<live, docs, vectors, sources, remote, raced, failed>>

Unchanged(t) ==
  /\ work[t].at = "same"
  /\ sources' = [sources EXCEPT ![work[t].row.id] = work[t].row]
  /\ End(t)
  /\ UNCHANGED <<live, docs, vectors, remote, raced, failed>>

\* _delete_document_vectors: the chunks that the stored document names, then
\* the document.
Delete(d, p) ==
  /\ vectors' = IF docs[d] = Nil THEN vectors ELSE [vectors EXCEPT ![d] = Nil]
  /\ docs' = IF docs[d] # Nil /\ docs[d].scope = p THEN [docs EXCEPT ![d] = Nil] ELSE docs

Replace(t) ==
  /\ work[t].at = "replace"
  /\ \/ Delete(work[t].row.doc, work[t].scope) /\ Step(t, "store")
     \/ Fails(t) /\ UNCHANGED <<docs, vectors>>
  /\ UNCHANGED <<live, sources, remote, raced, failed>>

Store(t) ==
  /\ work[t].at = "store"
  /\ \E d \in FreshDocs :
       /\ docs' = [docs EXCEPT ![d] = [scope |-> work[t].scope, name |-> work[t].name,
                                       text |-> work[t].text, acked |-> FALSE]]
       /\ work' = [work EXCEPT ![t].doc = d, ![t].at = "embed"]
  /\ UNCHANGED <<live, vectors, sources, remote, raced, failed>>

\* A failure leaves the new document without chunks, and the source with a
\* document that is gone.
Embed(t) ==
  /\ work[t].at = "embed"
  /\ \/ vectors' = [vectors EXCEPT ![work[t].doc] = work[t].scope] /\ Step(t, "row") /\ UNCHANGED failed
     \/ /\ Fails(t)
        /\ failed' = failed \union {<<work[t].scope, work[t].name>>}
        /\ UNCHANGED vectors
  /\ UNCHANGED <<live, docs, sources, remote, raced>>

\* Variant: an update keeps the document that the source had.
NewSourceOldDoc(w, s) ==
  [id |-> s, scope |-> w.scope, name |-> w.name, text |-> w.text,
   doc |-> IF w.row = Nil THEN w.doc ELSE w.row.doc]
NewSource(w, s) ==
  [id |-> s, scope |-> w.scope, name |-> w.name, doc |-> w.doc, text |-> w.text]
WriteRow(t) ==
  LET w == work[t] IN
  /\ w.at = "row"
  /\ \E s \in IF w.row = Nil THEN FreshSources ELSE {w.row.id} :
       sources' = [sources EXCEPT ![s] = NewSource(w, s)]
  /\ failed' = failed \ {<<w.scope, w.name>>}
  /\ End(t)
  /\ UNCHANGED <<live, docs, vectors, remote, raced>>

\* A sync that failed writes back the source it read (marked, in its status).
Blame(t) ==
  /\ work[t].at = "blame"
  /\ sources' = [sources EXCEPT ![work[t].src.id] = work[t].src]
  /\ End(t)
  /\ UNCHANGED <<live, docs, vectors, remote, raced, failed>>

-----------------------------------------------------------------------------
(* Removals, and the pages at Atlassian. *)

RemoveSource(t, s) ==
  /\ sources[s] # Nil
  /\ Begin(t, [Rest EXCEPT !.at = "drop", !.scope = sources[s].scope,
                           !.name = sources[s].name, !.src = sources[s]])
  /\ UNCHANGED <<live, docs, vectors, sources, remote, failed>>
DropDoc(t) ==
  /\ work[t].at = "drop"
  /\ \/ Delete(work[t].src.doc, work[t].scope) /\ Step(t, "unrow")
     \/ End(t) /\ UNCHANGED <<docs, vectors>>
  /\ UNCHANGED <<live, sources, remote, raced, failed>>
DropRow(t) ==
  /\ work[t].at = "unrow"
  /\ sources' = [sources EXCEPT ![work[t].src.id] = Nil]
  /\ End(t)
  /\ UNCHANGED <<live, docs, vectors, remote, raced, failed>>

\* A project goes with its chunks, whose deletion may fail, and its rows.
DeleteProject(t, p) ==
  /\ p \in live
  /\ Begin(t, [Rest EXCEPT !.at = "vectors", !.scope = p])
  /\ UNCHANGED <<live, docs, vectors, sources, remote, failed>>
DropVectors(t) ==
  /\ work[t].at = "vectors"
  /\ vectors' \in {vectors, [d \in DocIds |-> IF vectors[d] = work[t].scope THEN Nil ELSE vectors[d]]}
  /\ Step(t, "rows")
  /\ UNCHANGED <<live, docs, sources, remote, raced, failed>>
DropRows(t) ==
  LET p == work[t].scope IN
  /\ work[t].at = "rows"
  /\ IF p \in live
     THEN /\ live' = live \ {p}
          /\ docs' = [d \in DocIds |-> IF docs[d] # Nil /\ docs[d].scope = p THEN Nil ELSE docs[d]]
          /\ sources' = [s \in SourceIds |->
               IF sources[s] # Nil /\ sources[s].scope = p THEN Nil ELSE sources[s]]
     ELSE UNCHANGED <<live, docs, sources>>
  /\ End(t)
  /\ UNCHANGED <<vectors, remote, raced, failed>>

EditPage(n, x) ==
  /\ remote[n] # x
  /\ remote' = [remote EXCEPT ![n] = x]
  /\ UNCHANGED <<live, docs, vectors, sources, work, raced, failed>>

KnowledgeNext ==
  \/ \E t \in Workers :
       \/ \E p \in Scopes, f \in Files, x \in Uploaded : Upload(t, p, f, x)
       \/ Ingest(t) \/ ReadChunks(t) \/ Index(t) \/ Answer(t)
       \/ \E p \in Scopes, n \in Pages : ImportPage(t, p, n)
       \/ \E s \in SourceIds : Sync(t, s) \/ RemoveSource(t, s)
       \/ Fetch(t) \/ Unchanged(t) \/ Replace(t) \/ Store(t) \/ Embed(t)
       \/ WriteRow(t) \/ Blame(t) \/ DropDoc(t) \/ DropRow(t)
       \/ \E p \in Scopes : DeleteProject(t, p)
       \/ DropVectors(t) \/ DropRows(t)
  \/ \E n \in Pages, x \in Texts \union {Nil} : EditPage(n, x)
KnowledgeSpec == KnowledgeInit /\ [][KnowledgeNext]_knowledgeVars

-----------------------------------------------------------------------------
Deleting(p) == \E t \in Workers : work[t].at = "rows" /\ work[t].scope = p

\* A document whose upload was answered is in the collection until its project
\* goes, whatever uploads failed before it: the retry of an upload that stored
\* the document and lost the chunks writes them.
AckedDocumentsIndexed ==
  \A d \in DocIds :
    docs[d] # Nil /\ docs[d].acked /\ docs[d].scope \in live /\ ~Deleting(docs[d].scope)
    => vectors[d] # Nil

\* A source that is shown has its document, with the content whose hash it
\* keeps, in the store and in the collection, after every mix of edits,
\* imports, syncs and failures: unless two operations worked on it at once, or
\* its last import that had something to write lost the embedding.
SourcesIndexed ==
  \A s \in SourceIds :
    LET src == sources[s] IN
    src # Nil /\ <<src.scope, src.name>> \notin raced \union failed /\ Busy(src.scope, src.name) = {}
    => docs[src.doc] # Nil /\ docs[src.doc].text = src.text /\ vectors[src.doc] = src.scope

-----------------------------------------------------------------------------
(* Why an answered document is indexed, and why a source that one operation *)
(* at a time works on has its document: ids are drawn once, so what a thread *)
(* or a source holds is that document or nothing, and what the thread read   *)
(* of its page is what is stored.                                            *)

Is(r, p, n)   == r.scope = p /\ r.name = n
DocIs(d, p, n) == docs[d] = Nil \/ Is(docs[d], p, n)

\* What a thread has in hand at each of its steps.
HoldsWhatItNeeds(w) ==
  /\ w.at # "idle" => w.scope \in Scopes
  /\ w.at \in {"ingest", "chunks", "index", "answer"} => w.name \in Files /\ w.text \in Texts
  /\ w.at \in {"fetch", "same", "replace", "store", "embed", "row", "blame", "drop", "unrow"}
       => w.name \in Pages
  /\ w.at \in {"same", "replace", "store", "embed", "row"} => w.text \in Texts
  /\ w.at \in {"vectors", "rows"} => w.name = Nil
  /\ w.at \in {"chunks", "index", "answer", "embed", "row"} => w.doc # 0
  /\ w.at \in {"same", "replace"} => w.row # Nil
  /\ w.at \in {"blame", "drop", "unrow"} => w.src # Nil
PlacesHold == \A t \in Workers : HoldsWhatItNeeds(work[t])

\* Documents are those of the thread, source or chunks that name them.
DocsAgree ==
  /\ \A d \in DocIds : docs[d] # Nil /\ vectors[d] # Nil => vectors[d] = docs[d].scope
  /\ \A s \in SourceIds :
       sources[s] # Nil => DocIs(sources[s].doc, sources[s].scope, sources[s].name)
  /\ \A t \in Workers :
       LET w == work[t] IN
       /\ w.doc # 0 => DocIs(w.doc, w.scope, w.name)
       /\ \A r \in {w.row, w.src} \ {Nil} :
            Is(r, w.scope, w.name) /\ DocIs(r.doc, w.scope, w.name)

\* So are sources: what threads hold, and what is stored, under one id is of
\* one page.
HeldRows(t) == {work[t].row, work[t].src} \ {Nil}
SourcesAgree ==
  \A t \in Workers : \A r \in HeldRows(t) :
    /\ sources[r.id] # Nil => Is(sources[r.id], r.scope, r.name)
    /\ \A u \in Workers : \A q \in HeldRows(u) : q.id = r.id => Is(q, r.scope, r.name)

\* An upload is answered once its document is indexed, or gone.
IndexedUntilGone(d) ==
  docs[d] # Nil /\ docs[d].scope \in live /\ ~Deleting(docs[d].scope) => vectors[d] # Nil
AnswersIndexed ==
  \A t \in Workers : work[t].at = "answer" => IndexedUntilGone(work[t].doc)

\* Of a page that was never raced, one operation is under way at most, there
\* is one source at most, and what the operation read of it is stored.
OneAtWork(p, n) == \A t, u \in Busy(p, n) : t = u
OneRow(p, n)    == \A r, s \in Rows(p, n) : r = s
RowAsRead(p, n) ==
  \A t \in Busy(p, n) :
    /\ work[t].at \in {"fetch", "store", "embed", "row"} /\ work[t].row = Nil => Rows(p, n) = {}
    /\ \A r \in HeldRows(t) : sources[r.id] = r

\* The document of its source is stored and indexed, but for the steps between
\* the deletion of the old one and the update of the source; so is, by then,
\* the new one.
Indexed(src) ==
  docs[src.doc] # Nil /\ docs[src.doc].text = src.text /\ vectors[src.doc] = src.scope
BetweenDocs == {"store", "embed", "row", "unrow", "rows"}
SourceIndexed(p, n) ==
  <<p, n>> \notin failed /\ (\A t \in Busy(p, n) : work[t].at \notin BetweenDocs)
    => \A s \in Rows(p, n) : Indexed(sources[s])
NewDocIndexed(p, n) ==
  \A t \in Busy(p, n) :
    LET w == work[t] IN
    /\ w.at \in {"embed", "row"} => docs[w.doc] # Nil /\ docs[w.doc].text = w.text
    /\ w.at = "row" => vectors[w.doc] = p
    /\ w.at \in {"vectors", "rows"} => p \in live

PageInv(p, n) ==
  /\ OneAtWork(p, n) /\ OneRow(p, n) /\ RowAsRead(p, n)
  /\ SourceIndexed(p, n) /\ NewDocIndexed(p, n)

KnowledgeInv ==
  /\ PlacesHold /\ DocsAgree /\ SourcesAgree /\ AnswersIndexed
  /\ \A p \in Scopes, n \in Pages : <<p, n>> \notin raced => PageInv(p, n)
=============================================================================
