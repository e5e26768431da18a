----------------------------- MODULE MongoStore -----------------------------
(***************************************************************************)
(* The production graph store (backend/app/graph/store.py): one            *)
(* MongoGraphStore object shared by the request threads of the API, its    *)
(* in-memory dictionaries, and the Mongo collections they are written to.  *)
(*                                                                         *)
(* Most mutators hold the store's RLock from the dictionary update to the  *)
(* end of the write-back; create_project and the document ingester do not, *)
(* and get_project / list_projects replace the project dictionary with     *)
(* what Mongo holds, also without the lock.  A write-back walks the        *)
(* collections in a fixed order and, for each one, copies the dictionary,  *)
(* upserts every row of the copy, then deletes every other row.            *)
(*                                                                         *)
(* Rows are abstracted: a project owns one representative row in each      *)
(* collection, whose content is an opaque value.  Keys are namespaced by   *)
(* project (artifact_key), so two rows of one project in one collection    *)
(* behave as two independent copies of the representative.                 *)
(***************************************************************************)
EXTENDS Naturals, Sequences, FiniteSets

CONSTANTS
  Threads,      \* request threads of the FastAPI thread pool
  ProjectIds,   \* ids new_id("project") can draw; never drawn twice
  Values,       \* contents of a row
  Absent,       \* "no such row"
  SyncOrder,    \* collection names, in the order _persist_mongo writes them
  Kinds,        \* the kinds of request the clients of this instance send
  Faults,       \* what may go wrong in this instance (see AllFaults)
  Existing      \* projects present, with a root node, when the API starts

Collections == {SyncOrder[i] : i \in 1..Len(SyncOrder)}
Artifacts   == Collections \ {"projects"}

LockedKinds   == {"upsert", "remove", "patch", "delete"}
UnlockedKinds == {"create", "ingest"}
AllKinds      == LockedKinds \union UnlockedKinds \union {"read"}

\* crash: the process dies and restarts.  mongo: a Mongo call raises.
\* blind: Mongo is unreachable while the process restarts.
\* seed: a script writes a new project straight into Mongo.
AllFaults == {"crash", "mongo", "blind", "seed"}

ASSUME OrderAssumption ==
  /\ SyncOrder \in Seq(STRING)
  /\ Len(SyncOrder) > 0
  /\ SyncOrder[1] = "projects"
  /\ \A i, j \in 1..Len(SyncOrder) : SyncOrder[i] = SyncOrder[j] => i = j
  /\ "nodes" \in Collections

ASSUME ValueAssumption ==
  /\ Absent \notin Values
  /\ Kinds \subseteq AllKinds
  /\ "ingest" \in Kinds => "documents" \in Collections
  /\ Faults \subseteq AllFaults
  /\ Existing \subseteq ProjectIds

NoThread == "no thread"
ASSUME ThreadAssumption == NoThread \notin Threads

VARIABLES
  mem,       \* the dictionaries: collection -> project -> row
  db,        \* the Mongo collections
  lock,      \* holder of the RLock
  pc,        \* where each thread is
  req,       \* the request each thread serves
  image,     \* rows a thread has read and not yet used
  pos,       \* collection a thread's write-back has reached
  used,      \* project ids drawn so far
  left,      \* rows of a thread's copy not yet upserted
  owed,      \* history: rows of its request no later request has touched
  promised,  \* history: acknowledged rows no later request has touched, since
             \* the last restart that could not read Mongo
  gone       \* history: projects whose deletion was acknowledged

store   == <<mem, db, lock>>
history == <<owed, promised, gone>>
vars    == <<store, pc, req, image, pos, left, used, history>>

Row    == Values \union {Absent}
Rows   == [ProjectIds -> Row]
NoRows == [p \in ProjectIds |-> Absent]
\* The collections a locked setter can write; documents are only ingested.
Settable == Artifacts \ {"documents"}

Request ==
  {r \in [kind : {"create", "ingest", "patch"}, prj : ProjectIds, val : Values]
           \union
         [kind : {"upsert"}, prj : ProjectIds, coll : Settable, val : Values]
           \union
         [kind : {"remove"}, prj : ProjectIds, coll : Settable]
           \union
         [kind : {"delete", "read"}, prj : ProjectIds] : r.kind \in Kinds}
NoRequest == [kind |-> "none"]

Empty == [c \in Collections |-> NoRows]

\* The state a thread is in.
Places == {"idle", "read", "assign", "check", "lock", "mutate",
           "build", "upsert", "prune", "done"}
Syncing == {"build", "upsert", "prune"}
Writing == Syncing \union {"mutate", "done"}

TypeOK ==
  /\ mem \in [Collections -> Rows]
  /\ db \in [Collections -> Rows]
  /\ lock \in Threads \union {NoThread}
  /\ pc \in [Threads -> Places]
  /\ req \in [Threads -> Request \union {NoRequest}]
  /\ \A t \in Threads :
       /\ pc[t] # "idle" => req[t] \in Request
       /\ pc[t] \in Writing \union {"lock"} => req[t].kind # "read"
  /\ image \in [Threads -> Rows]
  /\ pos \in [Threads -> 1..Len(SyncOrder)]
  /\ left \in [Threads -> SUBSET ProjectIds]
  /\ used \subseteq ProjectIds
  /\ gone \subseteq ProjectIds
  /\ owed \in [Threads -> SUBSET Collections]
  /\ promised \in [Collections -> Rows]

-----------------------------------------------------------------------------
(* What a request writes.                                                  *)

\* Fault variants: an operator named after a definition, ending in a word of
\* what goes wrong, is a plausible bug in the code the definition models; it
\* is not part of the specification.
TouchesProjectRowOnly(r) ==
  {c \in Collections :
     IF r.kind \in {"upsert", "remove"} THEN c = r.coll ELSE c = "projects"}

\* Collections whose row of the project a request writes or removes.
Touches(r) ==
  {c \in Collections :
     \/ r.kind = "create" /\ c \in {"projects", "nodes"}
     \/ r.kind = "ingest" /\ c = "documents"
     \/ r.kind = "patch"  /\ c = "projects"
     \/ r.kind = "delete"
     \/ r.kind \in {"upsert", "remove"} /\ c = r.coll}

Content(r) == IF r.kind \in {"remove", "delete"} THEN Absent ELSE r.val

\* The rows of projects ps in collections colls become v.
Put(rows, colls, ps, v) ==
  [c \in Collections |-> [p \in ProjectIds |->
     IF c \in colls /\ p \in ps THEN v ELSE rows[c][p]]]

\* delete_test_case, update_project_meta and delete_project return early
\* when there is nothing to act on.
NothingToDo(r) ==
  \/ r.kind = "remove" /\ mem[r.coll][r.prj] = Absent
  \/ r.kind \in {"patch", "delete"} /\ mem["projects"][r.prj] = Absent

Locked(t) == req[t].kind \in LockedKinds

-----------------------------------------------------------------------------
(* Requests.                                                               *)

Init ==
  /\ \E v \in Values :
       db = Put(Empty, {"projects", "nodes"}, Existing, v)
  /\ mem = db
  /\ lock = NoThread
  /\ pc = [t \in Threads |-> "idle"]
  /\ req = [t \in Threads |-> NoRequest]
  /\ image = [t \in Threads |-> NoRows]
  /\ pos = [t \in Threads |-> 1]
  /\ left = [t \in Threads |-> {}]
  /\ used = Existing
  /\ owed = [t \in Threads |-> {}]
  /\ promised = Empty
  /\ gone = {}

\* A request arrives.  Creating a project draws a new id and looks nothing
\* up; every other route first calls get_project for its 404 check.
Begin(t, r) ==
  /\ pc[t] = "idle"
  /\ r.kind = "create" => r.prj \notin used
  /\ req' = [req EXCEPT ![t] = r]
  /\ used' = IF r.kind = "create" THEN used \union {r.prj} ELSE used
  /\ pc' = [pc EXCEPT ![t] = IF r.kind = "create" THEN "mutate" ELSE "read"]
  /\ UNCHANGED <<store, image, pos, left, history>>

\* _refresh_projects_from_mongo reads the projects collection ...
RefreshRead(t) ==
  /\ pc[t] = "read"
  /\ image' = [image EXCEPT ![t] = db["projects"]]
  /\ pc' = [pc EXCEPT ![t] = "assign"]
  /\ UNCHANGED <<store, req, pos, left, used, history>>

\* ... or, when Mongo raises, leaves the cache as it is ...
RefreshFails(t) ==
  /\ "mongo" \in Faults
  /\ pc[t] = "read"
  /\ pc' = [pc EXCEPT ![t] = "check"]
  /\ UNCHANGED <<store, req, image, pos, left, used, history>>

RefreshAssignEverything(t) ==
  /\ pc[t] = "assign"
  /\ mem' = db
  /\ image' = [image EXCEPT ![t] = NoRows]
  /\ pc' = [pc EXCEPT ![t] = "check"]
  /\ UNCHANGED <<db, lock, req, pos, left, used, history>>

\* ... and then replaces the whole project dictionary, without the lock.
RefreshAssign(t) ==
  /\ pc[t] = "assign"
  /\ mem' = [mem EXCEPT !["projects"] = image[t]]
  /\ image' = [image EXCEPT ![t] = NoRows]
  /\ pc' = [pc EXCEPT ![t] = "check"]
  /\ UNCHANGED <<db, lock, req, pos, left, used, history>>

\* The thread is idle again, having dropped the lock if it held it.
Return(t) ==
  /\ pc' = [pc EXCEPT ![t] = "idle"]
  /\ req' = [req EXCEPT ![t] = NoRequest]
  /\ image' = [image EXCEPT ![t] = NoRows]
  /\ pos' = [pos EXCEPT ![t] = 1]
  /\ left' = [left EXCEPT ![t] = {}]
  /\ owed' = [owed EXCEPT ![t] = {}]
  /\ lock' = IF lock = t THEN NoThread ELSE lock

\* 404 for an unknown project; a plain read ends here either way.
CheckEnds(t) ==
  /\ pc[t] = "check"
  /\ req[t].kind = "read" \/ mem["projects"][req[t].prj] = Absent
  /\ Return(t)
  /\ UNCHANGED <<mem, db, used, promised, gone>>

CheckPasses(t) ==
  /\ pc[t] = "check"
  /\ req[t].kind # "read" /\ mem["projects"][req[t].prj] # Absent
  /\ pc' = [pc EXCEPT ![t] = IF Locked(t) THEN "lock" ELSE "mutate"]
  /\ UNCHANGED <<store, req, image, pos, left, used, history>>

AcquireAnyway(t) ==
  /\ pc[t] = "lock"
  /\ lock' = t
  /\ pc' = [pc EXCEPT ![t] = "mutate"]
  /\ UNCHANGED <<mem, db, req, image, pos, left, used, history>>

Acquire(t) ==
  /\ pc[t] = "lock"
  /\ lock = NoThread
  /\ lock' = t
  /\ pc' = [pc EXCEPT ![t] = "mutate"]
  /\ UNCHANGED <<mem, db, req, image, pos, left, used, history>>

\* The dictionaries are updated.
Mutate(t) ==
  LET r == req[t] IN
  /\ pc[t] = "mutate"
  /\ ~NothingToDo(r)
  /\ mem' = Put(mem, Touches(r), {r.prj}, Content(r))
  /\ pc' = [pc EXCEPT ![t] = "build"]
  /\ promised' = Put(promised, Touches(r), {r.prj}, Absent)
  /\ owed' = [u \in Threads |->
       IF u = t THEN Touches(r)
       ELSE IF req[u] # NoRequest /\ req[u].prj = r.prj
            THEN owed[u] \ Touches(r) ELSE owed[u]]
  /\ pos' = [pos EXCEPT ![t] = 1]
  /\ UNCHANGED <<db, lock, req, image, left, used, gone>>

MutateNothing(t) ==
  /\ pc[t] = "mutate"
  /\ NothingToDo(req[t])
  /\ Return(t)
  /\ UNCHANGED <<mem, db, used, promised, gone>>

-----------------------------------------------------------------------------
(* The write-back, collection by collection.                               *)

Reached(t) == SyncOrder[pos[t]]

\* The rows of the next collection are copied out of the dictionary ...
Build(t) ==
  LET rows == mem[Reached(t)] IN
  /\ pc[t] = "build"
  /\ image' = [image EXCEPT ![t] = rows]
  /\ left' = [left EXCEPT ![t] = {p \in ProjectIds : rows[p] # Absent}]
  /\ pc' = [pc EXCEPT ![t] = "upsert"]
  /\ UNCHANGED <<store, req, pos, used, history>>

\* ... replaced one by one in Mongo ...
UpsertRow(t, p) ==
  /\ pc[t] = "upsert"
  /\ p \in left[t]
  /\ db' = [db EXCEPT ![Reached(t)][p] = image[t][p]]
  /\ left' = [left EXCEPT ![t] = @ \ {p}]
  /\ UNCHANGED <<mem, lock, pc, req, image, pos, used, history>>

UpsertsDone(t) ==
  /\ pc[t] = "upsert"
  /\ left[t] = {}
  /\ pc' = [pc EXCEPT ![t] = "prune"]
  /\ UNCHANGED <<store, req, image, pos, left, used, history>>

\* The next collection's turn, or the end of the write-back.
NextCollection(t, last) ==
  IF pos[t] < last
  THEN /\ pos' = [pos EXCEPT ![t] = @ + 1]
       /\ pc' = [pc EXCEPT ![t] = "build"]
  ELSE /\ pos' = [pos EXCEPT ![t] = 1]
       /\ pc' = [pc EXCEPT ![t] = "done"]

PruneStopsEarly(t) ==
  LET c == Reached(t) IN
  /\ pc[t] = "prune"
  /\ db' = [db EXCEPT ![c] = [p \in ProjectIds |->
              IF image[t][p] = Absent THEN Absent ELSE db[c][p]]]
  /\ image' = [image EXCEPT ![t] = NoRows]
  /\ NextCollection(t, Len(SyncOrder) - 1)
  /\ UNCHANGED <<mem, lock, req, left, used, history>>

PruneRunsOver(t) ==
  LET c == Reached(t) IN
  /\ pc[t] = "prune"
  /\ db' = [db EXCEPT ![c] = [p \in ProjectIds |->
              IF image[t][p] = Absent THEN Absent ELSE db[c][p]]]
  /\ image' = [image EXCEPT ![t] = NoRows]
  /\ NextCollection(t, Len(SyncOrder) + 1)
  /\ UNCHANGED <<mem, lock, req, left, used, history>>

\* ... and every row that is not in the copy is deleted.
Prune(t) ==
  LET c == Reached(t) IN
  /\ pc[t] = "prune"
  /\ db' = [db EXCEPT ![c] = [p \in ProjectIds |->
              IF image[t][p] = Absent THEN Absent ELSE db[c][p]]]
  /\ image' = [image EXCEPT ![t] = NoRows]
  /\ NextCollection(t, Len(SyncOrder))
  /\ UNCHANGED <<mem, lock, req, left, used, history>>

\* The lock is released and the request answered with success.
Finish(t) ==
  LET r == req[t] IN
  /\ pc[t] = "done"
  /\ Return(t)
  /\ promised' = Put(promised, owed[t], {r.prj}, Content(r))
  /\ gone' = IF r.kind = "delete" THEN gone \union {r.prj} ELSE gone
  /\ UNCHANGED <<mem, db, used>>

WriteFailsKeepsLock(t) ==
  /\ pc[t] \in Syncing
  /\ "mongo" \in Faults
  /\ pc' = [pc EXCEPT ![t] = "idle"]
  /\ req' = [req EXCEPT ![t] = NoRequest]
  /\ image' = [image EXCEPT ![t] = NoRows]
  /\ pos' = [pos EXCEPT ![t] = 1]
  /\ left' = [left EXCEPT ![t] = {}]
  /\ owed' = [owed EXCEPT ![t] = {}]
  /\ UNCHANGED <<store, used, promised, gone>>

\* A Mongo call raises, or a dictionary is resized under the loop that
\* copies it (RuntimeError): the request answers 500, the lock is released,
\* and neither the dictionaries nor Mongo are rolled back.
WriteFails(t) ==
  /\ pc[t] \in Syncing
  /\ \/ "mongo" \in Faults
     \/ pc[t] = "build" /\ \E u \in Threads \ {t} : pc[u] \in Writing
  /\ Return(t)
  /\ UNCHANGED <<mem, db, used, promised, gone>>

-----------------------------------------------------------------------------
(* The process and its surroundings.                                       *)

\* _load: nothing is read when the projects collection is empty.
Loaded == IF db["projects"] = NoRows THEN Empty ELSE db

Restart ==
  /\ pc' = [t \in Threads |-> "idle"]
  /\ req' = [t \in Threads |-> NoRequest]
  /\ image' = [t \in Threads |-> NoRows]
  /\ pos' = [t \in Threads |-> 1]
  /\ left' = [t \in Threads |-> {}]
  /\ owed' = [t \in Threads |-> {}]
  /\ lock' = NoThread
  /\ UNCHANGED <<db, used, gone>>

\* Nothing is promised any more when no project is left to own it.
Crash ==
  /\ "crash" \in Faults
  /\ mem' = Loaded
  /\ promised' = IF db["projects"] = NoRows THEN Empty ELSE promised
  /\ Restart

\* _load cannot reach Mongo: it logs a warning and starts empty.  What was
\* acknowledged before is at the mercy of the next write-back.
BlindRestart ==
  /\ "blind" \in Faults
  /\ mem' = Empty
  /\ promised' = Empty
  /\ Restart

\* A script writes a new project and its root node straight into Mongo.
Seed(p, v) ==
  /\ "seed" \in Faults
  /\ p \notin used
  /\ db' = Put(db, {"projects", "nodes"}, {p}, v)
  /\ used' = used \union {p}
  /\ UNCHANGED <<mem, lock, pc, req, image, pos, left, owed, promised, gone>>

-----------------------------------------------------------------------------
Work(t) ==
  \/ RefreshRead(t) \/ RefreshFails(t) \/ RefreshAssign(t)
  \/ CheckEnds(t) \/ CheckPasses(t) \/ Acquire(t)
  \/ Mutate(t) \/ MutateNothing(t)
  \/ Build(t) \/ (\E p \in ProjectIds : UpsertRow(t, p)) \/ UpsertsDone(t)
  \/ Prune(t) \/ Finish(t) \/ WriteFails(t)

Next ==
  \/ \E t \in Threads : Work(t) \/ \E r \in Request : Begin(t, r)
  \/ Crash \/ BlindRestart
  \/ \E p \in ProjectIds, v \in Values : Seed(p, v)

Spec == Init /\ [][Next]_vars

\* A thread that is running keeps running; nothing is assumed of who gets
\* the lock, so acquiring it carries no fairness beyond its thread's.
FairSpec == Spec /\ \A t \in Threads : WF_vars(Work(t))

-----------------------------------------------------------------------------
(* Properties.                                                             *)

\* The lock is held exactly by the thread that is inside a locked mutator:
\* no path out of a with-block, an exception included, keeps it, and no
\* thread writes under a lock that is not its own.
LockHeldByWriter ==
  \A t \in Threads :
    (lock = t) <=> (pc[t] \in Writing /\ req[t].kind \in LockedKinds)

Durable(c) == \A p \in ProjectIds :
                promised[c][p] # Absent => db[c][p] = promised[c][p]
Visible(c) == \A p \in ProjectIds :
                promised[c][p] # Absent => mem[c][p] = promised[c][p]

\* An acknowledged write of a test case, review, override, analysis, node...
\* is served from memory until a later request replaces or removes it.
AckedVisible == \A c \in Artifacts : Visible(c)

\* ... and it is in Mongo, where it survives a crash at any later moment, in
\* the middle of another request's write-back, and other requests' failures.
AckedDurable == \A c \in Artifacts : Durable(c)

\* "Permanently delete a project and every resource scoped to it": what was
\* deleted does not come back, in memory or in Mongo.
DeletedStaysDeleted ==
  \A p \in gone, c \in Collections : mem[c][p] = Absent /\ db[c][p] = Absent

\* When a deletion is acknowledged, no artifact of the project is left.
DeleteSweepsArtifacts ==
  [][\A p \in gone' \ gone, c \in Artifacts :
       mem'[c][p] = Absent /\ db'[c][p] = Absent]_vars

\* A held lock is released: every write-back ends.
LockReleased == \A t \in Threads : lock = t ~> lock # t

\* Seen from its artifacts, the store is one that writes requests through
\* atomically: dictionaries, rows of Mongo and acknowledged rows are the
\* three copies of WriteThroughStore.
ArtifactKeys == Artifacts \X ProjectIds
Cells(rows) == [k \in ArtifactKeys |-> rows[k[1]][k[2]]]
Abstract == INSTANCE WriteThroughStore
  WITH Keys <- ArtifactKeys, row <- Cells(mem), stable <- Cells(db), acked <- Cells(promised)
WritesThrough == Abstract!Spec

-----------------------------------------------------------------------------
(* The inductive invariant behind AckedVisible and AckedDurable, for an    *)
(* instance whose requests all take the lock: memory and Mongo agree on    *)
(* every promised row because the one thread that may write holds a copy   *)
(* of the dictionary nobody else can change.                               *)

LockInv ==
  /\ LockHeldByWriter
  /\ \A t \in Threads : pc[t] = "lock" => Locked(t)

\* Rows exist only for project ids that were drawn.
UsedInv ==
  /\ \A c \in Collections, p \in ProjectIds :
       mem[c][p] # Absent \/ db[c][p] # Absent => p \in used
  /\ \A t \in Threads, p \in ProjectIds : image[t][p] # Absent => p \in used
  /\ \A t \in Threads :
       pc[t] \in Writing \union {"lock"} => req[t].prj \in used

PromiseInv ==
  \A c \in Artifacts, p \in ProjectIds : promised[c][p] # Absent =>
    mem[c][p] = promised[c][p] /\ db[c][p] = promised[c][p]

\* The copy a thread writes back is what memory holds.
CopyInv ==
  \A t \in Threads : pc[t] \in {"upsert", "prune"} =>
    /\ Reached(t) # "projects" => image[t] = mem[Reached(t)]
    /\ pc[t] = "prune" => left[t] = {}
    /\ image[t][req[t].prj] # Absent /\ req[t].prj \notin left[t]
         => db[Reached(t)][req[t].prj] = image[t][req[t].prj]

\* What the request wrote is in memory, and in the collections done so far.
ProgressInv ==
  \A t \in Threads : pc[t] \in Syncing \union {"done"} =>
    /\ owed[t] \subseteq Touches(req[t])
    /\ \A c \in Touches(req[t]) \ {"projects"} :
         mem[c][req[t].prj] = Content(req[t])
    /\ \A j \in 1..Len(SyncOrder) :
         (j < pos[t] \/ pc[t] = "done") /\ SyncOrder[j] # "projects"
           => db[SyncOrder[j]][req[t].prj] = mem[SyncOrder[j]][req[t].prj]

StoreInv == TypeOK /\ LockInv /\ UsedInv /\ PromiseInv /\ CopyInv /\ ProgressInv
=============================================================================
