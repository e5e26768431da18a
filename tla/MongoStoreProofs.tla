-------------------------- MODULE MongoStoreProofs --------------------------
(***************************************************************************)
(* What holds of MongoStore for every number of threads, projects, values  *)
(* and collections.                                                        *)
(***************************************************************************)
EXTENDS MongoStore, TLAPS

\* Writing one value over a set of rows yields collections of rows.
LEMMA PutType ==
  ASSUME NEW rows \in [Collections -> Rows], NEW cs, NEW ps, NEW v \in Row
  PROVE  Put(rows, cs, ps, v) \in [Collections -> Rows]
BY DEF Put, Rows

\* The first collection written is "projects", and it is a collection.
LEMMA ProjectsFirst == "projects" \in Collections /\ 1 \in 1..Len(SyncOrder)
BY OrderAssumption DEF Collections

LEMMA NoRowsType == NoRows \in Rows /\ Empty \in [Collections -> Rows]
BY DEF NoRows, Empty, Rows, Row

\* Leaving a handler keeps every variable it resets well-typed.
LEMMA ReturnType ==
  ASSUME TypeOK, NEW t \in Threads, Return(t)
  PROVE  /\ lock' \in Threads \union {NoThread}
         /\ pc' \in [Threads -> Places]
         /\ req' \in [Threads -> Request \union {NoRequest}]
         /\ \A u \in Threads :
              /\ pc'[u] # "idle" => req'[u] \in Request
              /\ pc'[u] \in Writing \union {"lock"} => req'[u].kind # "read"
         /\ image' \in [Threads -> Rows]
         /\ pos' \in [Threads -> 1..Len(SyncOrder)]
         /\ left' \in [Threads -> SUBSET ProjectIds]
         /\ owed' \in [Threads -> SUBSET Collections]
<1> USE NoRowsType, ProjectsFirst
<1> QED  BY DEF TypeOK, Return, Places, Writing, Syncing

\* Every request of the types a client can send has a project, and a content.
LEMMA RequestFields ==
  ASSUME NEW r \in Request
  PROVE  /\ r.kind \in AllKinds
         /\ r.prj \in ProjectIds
         /\ r.kind \notin {"read"} => Content(r) \in Row
         /\ r.kind \in {"upsert", "remove"} => r.coll \in Settable
BY DEF Request, Content, Row, AllKinds, LockedKinds, UnlockedKinds

\* The state keeps its shape.
THEOREM TypeCorrect == Spec => []TypeOK
<1>1. Init => TypeOK
  <2> SUFFICES ASSUME Init PROVE TypeOK  OBVIOUS
  <2>1. db \in [Collections -> Rows]
    BY PutType, NoRowsType DEF Init, Row
  <2> QED
    BY <2>1, NoRowsType, ProjectsFirst, ValueAssumption
    DEF Init, TypeOK, Places, Writing, Syncing
<1>2. TypeOK /\ [Next]_vars => TypeOK'
  <2> SUFFICES ASSUME TypeOK, [Next]_vars PROVE TypeOK'  OBVIOUS
  <2> USE NoRowsType, ProjectsFirst
  <2>1. ASSUME NEW t \in Threads, NEW r \in Request, Begin(t, r)
        PROVE  TypeOK'
    <3>1. r.prj \in ProjectIds  BY RequestFields
    <3> QED  BY <2>1, <3>1 DEF TypeOK, Begin, Places, Writing, Syncing, store, history
  <2>2. ASSUME NEW t \in Threads, RefreshRead(t) PROVE TypeOK'
    BY <2>2 DEF TypeOK, RefreshRead, Places, Writing, Syncing, store, history
  <2>3. ASSUME NEW t \in Threads, RefreshFails(t) PROVE TypeOK'
    BY <2>3 DEF TypeOK, RefreshFails, Places, Writing, Syncing, store, history
  <2>4. ASSUME NEW t \in Threads, RefreshAssign(t) PROVE TypeOK'
    BY <2>4 DEF TypeOK, RefreshAssign, Places, Writing, Syncing, store, history
  <2>5. ASSUME NEW t \in Threads, CheckEnds(t) PROVE TypeOK'
    BY <2>5, ReturnType DEF TypeOK, CheckEnds
  <2>6. ASSUME NEW t \in Threads, CheckPasses(t) PROVE TypeOK'
    BY <2>6 DEF TypeOK, CheckPasses, Places, Writing, Syncing, store, history
  <2>7. ASSUME NEW t \in Threads, Acquire(t) PROVE TypeOK'
    BY <2>7 DEF TypeOK, Acquire, Places, Writing, Syncing, history
  <2>8. ASSUME NEW t \in Threads, Mutate(t) PROVE TypeOK'
    <3>1. req[t] \in Request /\ req[t].kind # "read"
      BY <2>8 DEF Mutate, TypeOK, Writing
    <3>2. Content(req[t]) \in Row /\ Absent \in Row
      BY <3>1, RequestFields DEF Row
    <3>3. /\ mem' \in [Collections -> Rows]
          /\ promised' \in [Collections -> Rows]
      BY <2>8, <3>2, PutType DEF Mutate, TypeOK
    <3>4. Touches(req[t]) \subseteq Collections
      BY DEF Touches
    <3>5. owed' \in [Threads -> SUBSET Collections]
      BY <2>8, <3>4 DEF Mutate, TypeOK
    <3> QED  BY <2>8, <3>3, <3>5 DEF TypeOK, Mutate, Places, Writing, Syncing
  <2>9. ASSUME NEW t \in Threads, MutateNothing(t) PROVE TypeOK'
    BY <2>9, ReturnType DEF TypeOK, MutateNothing
  <2>10. ASSUME NEW t \in Threads, Build(t) PROVE TypeOK'
    <3>1. mem[Reached(t)] \in Rows
      BY DEF TypeOK, Reached, Collections
    <3> QED  BY <2>10, <3>1 DEF TypeOK, Build, Places, Writing, Syncing, store, history
  <2>11. ASSUME NEW t \in Threads, NEW p \in ProjectIds, UpsertRow(t, p)
         PROVE  TypeOK'
    <3>1. image[t][p] \in Row
      BY DEF TypeOK, Rows
    <3>2. db' \in [Collections -> Rows]
      BY <2>11, <3>1 DEF TypeOK, UpsertRow, Rows
    <3> QED  BY <2>11, <3>2 DEF TypeOK, UpsertRow, history
  <2>12. ASSUME NEW t \in Threads, UpsertsDone(t) PROVE TypeOK'
    BY <2>12 DEF TypeOK, UpsertsDone, Places, Writing, Syncing, store, history
  <2>13. ASSUME NEW t \in Threads, Prune(t) PROVE TypeOK'
    <3>1. db' \in [Collections -> Rows]
      BY ZenonT(60), <2>13 DEF TypeOK, Prune, Rows, Row, Reached, Collections
    <3>2. pos' \in [Threads -> 1..Len(SyncOrder)]
      <4>1. Len(SyncOrder) \in Nat  BY OrderAssumption
      <4>2. NextCollection(t, Len(SyncOrder))  BY <2>13 DEF Prune
      <4>3. pos \in [Threads -> 1..Len(SyncOrder)]  BY DEF TypeOK
      <4> QED  BY <4>1, <4>2, <4>3 DEF NextCollection
    <3>3. pc' \in [Threads -> Places] /\ req' = req
          /\ \A u \in Threads :
               /\ pc'[u] # "idle" => pc[u] # "idle"
               /\ pc'[u] \in Writing \union {"lock"}
                    => pc[u] \in Writing \union {"lock"}
      BY <2>13 DEF TypeOK, Prune, NextCollection, Places, Writing, Syncing
    <3> QED  BY <2>13, <3>1, <3>2, <3>3 DEF TypeOK, Prune, history
  <2>14. ASSUME NEW t \in Threads, Finish(t) PROVE TypeOK'
    <3>1. req[t] \in Request /\ req[t].kind # "read"
      BY <2>14 DEF Finish, TypeOK, Writing
    <3>2. promised' \in [Collections -> Rows] /\ gone' \subseteq ProjectIds
      BY <2>14, <3>1, RequestFields, PutType DEF Finish, TypeOK
    <3> QED  BY <2>14, <3>2, ReturnType DEF TypeOK, Finish
  <2>15. ASSUME NEW t \in Threads, WriteFails(t) PROVE TypeOK'
    BY <2>15, ReturnType DEF TypeOK, WriteFails
  <2>16. CASE Crash
    BY <2>16 DEF TypeOK, Crash, Restart, Loaded, Places, Writing, Syncing
  <2>17. CASE BlindRestart
    BY <2>17 DEF TypeOK, BlindRestart, Restart, Loaded, Places, Writing, Syncing
  <2>18. ASSUME NEW p \in ProjectIds, NEW v \in Values, Seed(p, v)
         PROVE  TypeOK'
    <3>1. db' \in [Collections -> Rows]
      BY <2>18, PutType DEF Seed, TypeOK, Row
    <3> QED  BY <2>18, <3>1 DEF TypeOK, Seed
  <2>19. CASE UNCHANGED vars
    BY <2>19 DEF TypeOK, vars, store, history
  <2> QED
    BY <2>1, <2>2, <2>3, <2>4, <2>5, <2>6, <2>7, <2>8, <2>9, <2>10, <2>11,
       <2>12, <2>13, <2>14, <2>15, <2>16, <2>17, <2>18, <2>19 DEF Next, Work
<1> QED  BY <1>1, <1>2, PTL DEF Spec

-----------------------------------------------------------------------------
\* A step of one thread leaves the others where they were.
LEMMA LockStep ==
  ASSUME TypeOK, LockInv, [Next]_vars
  PROVE  LockInv'
<1> USE DEF LockInv, LockHeldByWriter, Locked, Writing, Syncing, TypeOK
<1>1. ASSUME NEW t \in Threads, NEW r \in Request, Begin(t, r) PROVE LockInv'
  <2>1. r.kind = "create" => r.kind \notin LockedKinds  BY DEF LockedKinds
  <2> QED  BY <1>1, <2>1 DEF Begin, store
<1>2. ASSUME NEW t \in Threads, Return(t), pc[t] # "idle" PROVE LockInv'
  BY <1>2, ThreadAssumption DEF Return
<1>3. ASSUME NEW t \in Threads, CheckPasses(t) PROVE LockInv'
  BY <1>3 DEF CheckPasses, store
<1>4. ASSUME NEW t \in Threads, Acquire(t) PROVE LockInv'
  BY <1>4, ThreadAssumption DEF Acquire
<1>5. ASSUME NEW t \in Threads, Mutate(t) PROVE LockInv'
  BY <1>5 DEF Mutate
<1>6. ASSUME NEW t \in Threads, Prune(t) PROVE LockInv'
  BY <1>6 DEF Prune, NextCollection
<1>7. CASE Crash \/ BlindRestart
  BY <1>7, ThreadAssumption DEF Crash, BlindRestart, Restart
<1>8. ASSUME NEW t \in Threads,
             RefreshRead(t) \/ RefreshFails(t) \/ RefreshAssign(t)
      PROVE  LockInv'
  BY <1>8 DEF RefreshRead, RefreshFails, RefreshAssign, store
<1>9. ASSUME NEW t \in Threads, NEW p \in ProjectIds, UpsertRow(t, p)
      PROVE  LockInv'
  BY <1>9 DEF UpsertRow
<1>10. ASSUME NEW t \in Threads, Build(t) \/ UpsertsDone(t)
       PROVE  LockInv'
  BY <1>10 DEF Build, UpsertsDone, store
<1>11. ASSUME NEW p \in ProjectIds, NEW v \in Values, Seed(p, v)
       PROVE  LockInv'
  BY <1>11 DEF Seed
<1>12. CASE UNCHANGED vars
  BY <1>12 DEF vars, store
<1>13. ASSUME NEW t \in Threads,
              CheckEnds(t) \/ MutateNothing(t) \/ Finish(t) \/ WriteFails(t)
       PROVE  LockInv'
  BY <1>2, <1>13 DEF CheckEnds, MutateNothing, Finish, WriteFails
<1> QED
  BY <1>1, <1>3, <1>4, <1>5, <1>6, <1>7, <1>8, <1>9, <1>10, <1>11, <1>12,
     <1>13 DEF Next, Work

\* Whoever may change the dictionaries under the lock holds it, and a thread
\* that fails, finds nothing to do or finishes gives it back.
THEOREM LockDiscipline == Spec => []LockHeldByWriter
<1>1. Init => LockInv
  BY ThreadAssumption
  DEF Init, LockInv, LockHeldByWriter, Writing, Syncing
<1>2. TypeOK /\ LockInv /\ [Next]_vars => LockInv'
  BY LockStep
<1>3. LockInv => LockHeldByWriter
  BY DEF LockInv
<1> QED  BY <1>1, <1>2, <1>3, TypeCorrect, PTL DEF Spec

-----------------------------------------------------------------------------
(* What is acknowledged is visible, whether requests take the lock or not. *)

\* What the request of a thread wrote, and no later request has touched, is in
\* memory.
OwedVisible ==
  \A t \in Threads : pc[t] \in Syncing \union {"done"} =>
    \A c \in owed[t] \ {"projects"} : mem[c][req[t].prj] = Content(req[t])

\* A thread that goes idle leaves what the others wrote.
LEMMA OwedReturn ==
  ASSUME TypeOK, OwedVisible, NEW t \in Threads, Return(t), UNCHANGED mem
  PROVE  OwedVisible'
<1>1. \A u \in Threads : pc'[u] \in Syncing \union {"done"} =>
        /\ u # t /\ pc'[u] = pc[u] /\ req'[u] = req[u] /\ owed'[u] = owed[u]
  BY DEF Return, TypeOK, Syncing
<1> QED  BY <1>1 DEF OwedVisible

\* A write takes what it touches from the others.
LEMMA OwedMutate ==
  ASSUME TypeOK, OwedVisible, NEW t \in Threads, Mutate(t)
  PROVE  OwedVisible'
<1> SUFFICES ASSUME NEW u \in Threads, pc'[u] \in Syncing \union {"done"},
                    NEW c \in owed'[u] \ {"projects"}
             PROVE  mem'[c][req[u].prj] = Content(req[u])
  BY DEF OwedVisible, Mutate
<1>0. /\ req[t] \in Request /\ req[t].prj \in ProjectIds /\ Touches(req[t]) \subseteq Collections
      /\ owed \in [Threads -> SUBSET Collections] /\ pc \in [Threads -> Places]
  BY RequestFields DEF Mutate, TypeOK, Touches
<1>1. CASE u = t
  BY <1>0, <1>1 DEF Mutate, Put
<1>2. CASE u # t
  <2>1. pc[u] \in Syncing \union {"done"} /\ c \in owed[u] /\ c \in Collections
    BY <1>0, <1>2 DEF Mutate
  <2>2. req[u] \in Request /\ req[u].prj \in ProjectIds /\ req[u] # NoRequest
    <3>1. req[u] \in Request  BY <2>1 DEF TypeOK, Syncing
    <3> QED  BY <3>1, RequestFields DEF NoRequest, AllKinds, LockedKinds, UnlockedKinds
  <2>3. ~(c \in Touches(req[t]) /\ req[u].prj = req[t].prj)
    BY <1>0, <1>2, <2>2 DEF Mutate
  <2>4. mem'[c][req[u].prj] = mem[c][req[u].prj]
    BY <2>1, <2>2, <2>3 DEF Mutate, Put
  <2> QED  BY <2>1, <2>4 DEF OwedVisible
<1> QED  BY <1>1, <1>2

\* No step takes an acknowledged row from memory, but a crash.
LEMMA VisibleStep ==
  ASSUME TypeOK, OwedVisible, AckedVisible, [Next]_vars, ~Crash
  PROVE  OwedVisible' /\ AckedVisible'
<1>1. ASSUME UNCHANGED <<mem, promised, owed>>,
             \A u \in Threads : pc'[u] \in Syncing \union {"done"} =>
               pc[u] \in Syncing \union {"done"} /\ req'[u] = req[u]
      PROVE  OwedVisible' /\ AckedVisible'
  BY <1>1 DEF OwedVisible, AckedVisible, Visible
<1>2. ASSUME NEW t \in Threads, NEW r \in Request, Begin(t, r)
      PROVE  OwedVisible' /\ AckedVisible'
  BY <1>1, <1>2 DEF Begin, store, history, TypeOK, Syncing
<1>3. ASSUME NEW t \in Threads, RefreshAssign(t)
      PROVE  OwedVisible' /\ AckedVisible'
  <2>1. \A c \in Collections \ {"projects"} : mem'[c] = mem[c]
    BY <1>3 DEF RefreshAssign, TypeOK
  <2>2. \A u \in Threads : pc'[u] \in Syncing \union {"done"} => pc'[u] = pc[u]
    BY <1>3 DEF RefreshAssign, TypeOK, Syncing
  <2>3. AckedVisible'
    BY <1>3, <2>1 DEF RefreshAssign, history, AckedVisible, Visible, Artifacts
  <2>4. OwedVisible'
    <3>1. req' = req /\ owed' = owed /\ owed \in [Threads -> SUBSET Collections]
      BY <1>3 DEF RefreshAssign, history, TypeOK
    <3> QED  BY <2>1, <2>2, <3>1 DEF OwedVisible
  <2> QED  BY <2>3, <2>4
<1>4. ASSUME NEW t \in Threads, CheckEnds(t) \/ MutateNothing(t) \/ WriteFails(t)
      PROVE  OwedVisible' /\ AckedVisible'
  <2>1. Return(t) /\ UNCHANGED <<mem, promised>>
    BY <1>4 DEF CheckEnds, MutateNothing, WriteFails
  <2>2. OwedVisible'  BY <2>1, OwedReturn
  <2> QED  BY <2>1, <2>2 DEF AckedVisible, Visible
<1>5. ASSUME NEW t \in Threads, Mutate(t)
      PROVE  OwedVisible' /\ AckedVisible'
  <2>1. OwedVisible'  BY <1>5, OwedMutate
  <2>2. AckedVisible'
    BY <1>5 DEF Mutate, Put, AckedVisible, Visible, Artifacts
  <2> QED  BY <2>1, <2>2
<1>6. ASSUME NEW t \in Threads, Finish(t)
      PROVE  OwedVisible' /\ AckedVisible'
  <2>1. Return(t) /\ UNCHANGED mem /\ pc[t] = "done"
        /\ promised' = Put(promised, owed[t], {req[t].prj}, Content(req[t]))
    BY <1>6 DEF Finish
  <2>2. OwedVisible'  BY <2>1, OwedReturn
  <2>3. \A c \in owed[t] \ {"projects"} : mem[c][req[t].prj] = Content(req[t])
    BY <2>1 DEF OwedVisible
  <2>4. AckedVisible'
    BY <2>1, <2>3 DEF AckedVisible, Visible, Put, Artifacts
  <2> QED  BY <2>2, <2>4
<1>7. CASE BlindRestart
  BY <1>7 DEF BlindRestart, Restart, OwedVisible, AckedVisible, Visible, Empty, NoRows,
              Artifacts, Syncing
<1>8. ASSUME NEW p \in ProjectIds, NEW v \in Values, Seed(p, v)
      PROVE  OwedVisible' /\ AckedVisible'
  BY <1>1, <1>8 DEF Seed
<1>9. ASSUME NEW t \in Threads,
             \/ RefreshRead(t) \/ RefreshFails(t) \/ CheckPasses(t) \/ Acquire(t)
             \/ UpsertsDone(t) \/ \E p \in ProjectIds : UpsertRow(t, p)
      PROVE  OwedVisible' /\ AckedVisible'
  <2>1. UNCHANGED <<mem, promised, owed, req>>
    BY <1>9 DEF RefreshRead, RefreshFails, CheckPasses, Acquire, UpsertsDone, UpsertRow,
                store, history
  <2>2. \A u \in Threads : pc'[u] \in Syncing \union {"done"} => pc[u] \in Syncing \union {"done"}
    BY <1>9 DEF RefreshRead, RefreshFails, CheckPasses, Acquire, UpsertsDone, UpsertRow,
                TypeOK, Syncing
  <2> QED  BY <1>1, <2>1, <2>2
<1>10. ASSUME NEW t \in Threads, Build(t) \/ Prune(t)
       PROVE  OwedVisible' /\ AckedVisible'
  <2>1. UNCHANGED <<mem, promised, owed, req>>
    BY <1>10 DEF Build, Prune, store, history
  <2>2. \A u \in Threads : pc'[u] \in Syncing \union {"done"} => pc[u] \in Syncing \union {"done"}
    BY <1>10 DEF Build, Prune, NextCollection, TypeOK, Syncing
  <2> QED  BY <1>1, <2>1, <2>2
<1>11. CASE UNCHANGED vars
  BY <1>1, <1>11 DEF vars, store, history
<1> QED
  BY <1>2, <1>3, <1>4, <1>5, <1>6, <1>7, <1>8, <1>9, <1>10, <1>11 DEF Next, Work

\* Without a crash between them, an acknowledged artifact is served from
\* memory until a later request replaces or removes it: also when requests
\* that take no lock, failed write-backs, refreshes, scripts and restarts
\* without Mongo (which void what was promised) come between.
THEOREM AckedRowsAreVisible ==
  ASSUME "crash" \notin Faults
  PROVE  Spec => []AckedVisible
<1>1. Init => OwedVisible /\ AckedVisible
  BY DEF Init, OwedVisible, AckedVisible, Visible, Syncing, Empty, NoRows, Artifacts
<1>2. TypeOK /\ OwedVisible /\ AckedVisible /\ [Next]_vars => OwedVisible' /\ AckedVisible'
  BY VisibleStep DEF Crash
<1> QED  BY <1>1, <1>2, TypeCorrect, PTL DEF Spec

-----------------------------------------------------------------------------
(* From here on every request takes the lock: create_project and the       *)
(* document ingester, which do not, are left out.                          *)

LockedOnly == Kinds \cap UnlockedKinds = {}

LEMMA EveryRequestLocked ==
  ASSUME LockedOnly, NEW r \in Request
  PROVE  r.kind # "read" => r.kind \in LockedKinds
BY ValueAssumption
DEF LockedOnly, Request, LockedKinds, UnlockedKinds, AllKinds

\* At most one thread is past the acquisition of the lock.
LEMMA OneWriter ==
  ASSUME LockedOnly, TypeOK, LockInv, NEW t \in Threads, NEW u \in Threads,
         pc[t] \in Writing, pc[u] \in Writing
  PROVE  t = u
<1>1. \A w \in Threads : pc[w] \in Writing => lock = w
  BY EveryRequestLocked
  DEF TypeOK, LockInv, LockHeldByWriter, Writing, Syncing
<1> QED  BY <1>1

\* A row always belongs to a project id that was drawn.
LEMMA UsedStep ==
  ASSUME LockedOnly, TypeOK, UsedInv, [Next]_vars
  PROVE  UsedInv'
<1> USE ProjectsFirst DEF UsedInv, TypeOK, Writing, Syncing
<1>1. ASSUME NEW t \in Threads, NEW r \in Request, Begin(t, r) PROVE UsedInv'
  <2>1. r.kind # "create"
    BY EveryRequestLocked DEF LockedOnly, LockedKinds
  <2> QED  BY <1>1, <2>1 DEF Begin, store
<1>2. ASSUME NEW t \in Threads, Return(t), UNCHANGED <<mem, db, used>>
      PROVE  UsedInv'
  BY <1>2 DEF Return, NoRows
<1>3. ASSUME NEW t \in Threads, RefreshRead(t) PROVE UsedInv'
  BY <1>3 DEF RefreshRead, store
<1>4. ASSUME NEW t \in Threads, RefreshFails(t) PROVE UsedInv'
  BY <1>4 DEF RefreshFails, store
<1>5. ASSUME NEW t \in Threads, RefreshAssign(t) PROVE UsedInv'
  BY <1>5 DEF RefreshAssign, NoRows
<1>6. ASSUME NEW t \in Threads, CheckPasses(t) PROVE UsedInv'
  <2>1. req[t].prj \in ProjectIds
    BY <1>6, RequestFields DEF CheckPasses
  <2> QED  BY <1>6, <2>1 DEF CheckPasses, store
<1>7. ASSUME NEW t \in Threads, Acquire(t) PROVE UsedInv'
  BY <1>7 DEF Acquire
<1>8. ASSUME NEW t \in Threads, Mutate(t) PROVE UsedInv'
  BY <1>8 DEF Mutate, Put
<1>9. ASSUME NEW t \in Threads, Build(t) PROVE UsedInv'
  BY <1>9 DEF Build, store, Reached, Collections
<1>10. ASSUME NEW t \in Threads, NEW p \in ProjectIds, UpsertRow(t, p)
       PROVE  UsedInv'
  BY <1>10 DEF UpsertRow, Rows
<1>11. ASSUME NEW t \in Threads, UpsertsDone(t) PROVE UsedInv'
  BY <1>11 DEF UpsertsDone, store
<1>12. ASSUME NEW t \in Threads, Prune(t) PROVE UsedInv'
  <2>1. \A c \in Collections, p \in ProjectIds :
          db'[c][p] # Absent => db[c][p] # Absent
    BY <1>12 DEF Prune, Rows
  <2>2. \A u \in Threads, p \in ProjectIds :
          image'[u][p] # Absent => image[u][p] # Absent
    BY <1>12 DEF Prune, NoRows
  <2>3. /\ mem' = mem /\ req' = req /\ used' = used
        /\ \A u \in Threads : pc'[u] \in Writing => pc[u] \in Writing
        /\ \A u \in Threads : pc'[u] = "lock" => pc[u] = "lock"
    BY <1>12 DEF Prune, NextCollection
  <2> QED  BY <2>1, <2>2, <2>3
<1>13. CASE Crash \/ BlindRestart
  BY <1>13 DEF Crash, BlindRestart, Restart, Loaded, Empty, NoRows
<1>14. ASSUME NEW p \in ProjectIds, NEW v \in Values, Seed(p, v)
       PROVE  UsedInv'
  BY <1>14 DEF Seed, Put
<1>15. CASE UNCHANGED vars
  BY <1>15 DEF vars, store
<1>16. ASSUME NEW t \in Threads,
              CheckEnds(t) \/ MutateNothing(t) \/ Finish(t) \/ WriteFails(t)
       PROVE  UsedInv'
  BY <1>2, <1>16 DEF CheckEnds, MutateNothing, Finish, WriteFails
<1> QED
  BY <1>1, <1>3, <1>4, <1>5, <1>6, <1>7, <1>8, <1>9, <1>10, <1>11, <1>12,
     <1>13, <1>14, <1>15, <1>16 DEF Next, Work

SyncInv == PromiseInv /\ CopyInv /\ ProgressInv

\* A thread that goes idle, or has not reached the dictionaries, owes
\* nothing; what the other threads have reached is as it was.
LEMMA SyncReturn ==
  ASSUME TypeOK, SyncInv, NEW t \in Threads, Return(t),
         UNCHANGED <<mem, db, promised>>
  PROVE  SyncInv'
<1> USE DEF TypeOK, SyncInv, Return, Syncing
<1>1. PromiseInv'  BY DEF PromiseInv
<1>2. \A u \in Threads : pc'[u] # "idle" =>
        /\ u # t /\ pc'[u] = pc[u] /\ req'[u] = req[u]
        /\ image'[u] = image[u] /\ pos'[u] = pos[u]
        /\ left'[u] = left[u] /\ owed'[u] = owed[u]
  OBVIOUS
<1>3. CopyInv'
  BY <1>2 DEF CopyInv, Reached
<1>4. ProgressInv'
  BY <1>2 DEF ProgressInv
<1> QED  BY <1>1, <1>3, <1>4

\* A step that leaves the store, and every thread that writes, alone.
LEMMA SyncIdle ==
  ASSUME TypeOK, SyncInv,
         UNCHANGED <<mem, db, promised, pos, left, owed>>,
         \A u \in Threads : pc'[u] \in Syncing \union {"done"} =>
           pc'[u] = pc[u] /\ req'[u] = req[u] /\ image'[u] = image[u]
  PROVE  SyncInv'
<1> USE DEF SyncInv, Syncing
<1>1. PromiseInv'  BY DEF PromiseInv
<1>2. CopyInv'  BY DEF CopyInv, Reached
<1>3. ProgressInv'  BY DEF ProgressInv
<1> QED  BY <1>1, <1>2, <1>3

\* The refresh replaces the project dictionary only.
LEMMA SyncRefresh ==
  ASSUME TypeOK, SyncInv, NEW t \in Threads, RefreshAssign(t)
  PROVE  SyncInv'
<1> USE ProjectsFirst DEF TypeOK, SyncInv, RefreshAssign, Syncing, history
<1>1. \A c \in Collections : c # "projects" => mem'[c] = mem[c]
  OBVIOUS
<1>2. \A u \in Threads : pc'[u] \in Syncing \union {"done"} =>
        u # t /\ pc'[u] = pc[u] /\ image'[u] = image[u]
  OBVIOUS
<1>3. \A j \in 1..Len(SyncOrder) : SyncOrder[j] \in Collections
  BY DEF Collections
<1>4. PromiseInv'
  BY <1>1 DEF PromiseInv, Artifacts
<1>5. CopyInv'
  BY <1>1, <1>2, <1>3 DEF CopyInv, Reached
<1>6. ProgressInv'
  <2>1. \A r : Touches(r) \subseteq Collections  BY DEF Touches
  <2> QED  BY <1>1, <1>2, <1>3, <2>1 DEF ProgressInv
<1> QED  BY <1>4, <1>5, <1>6

\* The dictionaries are updated: promises on the touched rows are withdrawn,
\* and no other thread is in a write-back.
LEMMA SyncMutate ==
  ASSUME LockedOnly, TypeOK, LockInv, SyncInv, NEW t \in Threads, Mutate(t)
  PROVE  SyncInv'
<1> USE DEF TypeOK, SyncInv
<1>1. \A u \in Threads : pc'[u] \in Syncing \union {"done"} => u = t
  BY OneWriter DEF Mutate, Writing, Syncing
<1>2. /\ pc'[t] = "build" /\ req' = req /\ pos'[t] = 1
      /\ owed'[t] = Touches(req[t])
  BY DEF Mutate
<1>3. req[t].prj \in ProjectIds
  BY RequestFields DEF Mutate, Writing
<1>4. PromiseInv'
  BY DEF PromiseInv, Mutate, Put, Artifacts
<1>5. CopyInv'
  BY <1>1, <1>2 DEF CopyInv, Syncing
<1>6. ProgressInv'
  <2>1. \A c \in Touches(req[t]) : mem'[c][req[t].prj] = Content(req[t])
    BY <1>3 DEF Mutate, Put, Touches
  <2>2. \A j \in 1..Len(SyncOrder) : ~(j < 1)  BY OrderAssumption
  <2> QED  BY <1>1, <1>2, <2>1, <2>2 DEF ProgressInv
<1> QED  BY <1>4, <1>5, <1>6

\* The copy is taken.
LEMMA SyncBuild ==
  ASSUME LockedOnly, TypeOK, LockInv, SyncInv, NEW t \in Threads, Build(t)
  PROVE  SyncInv'
<1> USE DEF TypeOK, SyncInv, Build, store, history
<1>1. \A u \in Threads : pc'[u] \in Syncing \union {"done"} => u = t
  BY OneWriter DEF Writing, Syncing
<1>2. req[t].prj \in ProjectIds
  BY RequestFields
<1>3. PromiseInv'
  BY DEF PromiseInv
<1>4. CopyInv'
  BY <1>1, <1>2 DEF CopyInv, Reached, Syncing
<1>5. ProgressInv'
  BY <1>1 DEF ProgressInv, Syncing
<1> QED  BY <1>3, <1>4, <1>5

\* One row of the copy is written.  A promised row is written with the value
\* promised, because the copy is what memory holds.
LEMMA SyncUpsertRow ==
  ASSUME LockedOnly, TypeOK, LockInv, SyncInv, NEW t \in Threads,
         NEW p \in ProjectIds, UpsertRow(t, p)
  PROVE  SyncInv'
<1> USE DEF TypeOK, SyncInv, UpsertRow, history, Rows
<1> DEFINE c == Reached(t)
<1>1. \A u \in Threads : pc'[u] \in Syncing \union {"done"} => u = t
  BY OneWriter DEF Writing, Syncing
<1>2. c \in Collections /\ Reached(t)' = c
  BY DEF Reached, Collections
<1>3. c # "projects" => image[t] = mem[c]
  BY DEF CopyInv
<1>4. \A d \in Collections, q \in ProjectIds :
        d # "projects" =>
          db'[d][q] = db[d][q] \/ (d = c /\ q = p /\ db'[d][q] = mem[d][q])
  BY <1>2, <1>3
<1>5. PromiseInv'
  BY <1>4 DEF PromiseInv, Artifacts
<1>6. CopyInv'
  BY <1>1, <1>2 DEF CopyInv, Syncing, Reached
<1>7. ProgressInv'
  <2>1. \A j \in 1..Len(SyncOrder) : j < pos[t] => SyncOrder[j] # c
    BY OrderAssumption DEF Reached
  <2>2. \A j \in 1..Len(SyncOrder) : SyncOrder[j] \in Collections
    BY DEF Collections
  <2> QED  BY <1>1, <1>2, <2>1, <2>2 DEF ProgressInv, Syncing
<1> QED  BY <1>5, <1>6, <1>7

\* Every row of the copy has been written.
LEMMA SyncUpsertsDone ==
  ASSUME LockedOnly, TypeOK, LockInv, SyncInv, NEW t \in Threads,
         UpsertsDone(t)
  PROVE  SyncInv'
<1> USE DEF TypeOK, SyncInv, UpsertsDone, store, history
<1>1. \A u \in Threads : pc'[u] \in Syncing \union {"done"} => u = t
  BY OneWriter DEF Writing, Syncing
<1>2. PromiseInv'
  BY DEF PromiseInv
<1>3. CopyInv'
  BY <1>1 DEF CopyInv, Reached, Syncing
<1>4. ProgressInv'
  BY <1>1 DEF ProgressInv, Syncing
<1> QED  BY <1>2, <1>3, <1>4

\* Rows missing from the copy are deleted, and none of them is promised: the
\* collection now holds the row the request wrote, or lacks the one it
\* removed.
LEMMA SyncPrune ==
  ASSUME LockedOnly, TypeOK, LockInv, SyncInv, NEW t \in Threads, Prune(t)
  PROVE  SyncInv'
<1> USE DEF TypeOK, SyncInv, history, Rows
<1> DEFINE c == Reached(t)
           p == req[t].prj
<1>1. pc[t] = "prune" /\ NextCollection(t, Len(SyncOrder))
      /\ UNCHANGED <<mem, req, left, promised, owed>>
  BY DEF Prune
<1>2. \A u \in Threads : pc'[u] \in Syncing \union {"done"} => u = t
  BY <1>1, OneWriter DEF NextCollection, Writing, Syncing
<1>3. c \in Collections /\ p \in ProjectIds
  BY <1>1, RequestFields DEF Reached, Collections
<1>4. c # "projects" => image[t] = mem[c]
  BY <1>1 DEF CopyInv
<1>5. \A d \in Collections, q \in ProjectIds :
        db'[d][q] = IF d = c /\ image[t][q] = Absent THEN Absent ELSE db[d][q]
  BY <1>3 DEF Prune
<1>6. PromiseInv'
  BY <1>1, <1>4, <1>5 DEF PromiseInv, Artifacts
<1>7. CopyInv'
  <2>1. pc'[t] \in {"build", "done"}
    BY <1>1 DEF NextCollection
  <2> QED  BY <1>2, <2>1 DEF CopyInv, Syncing
<1>8. ProgressInv'
  <2>1. c # "projects" => db'[c][p] = mem[c][p]
    <3>1. image[t][p] # Absent => db[c][p] = image[t][p]
      BY <1>1 DEF CopyInv
    <3> QED  BY <1>3, <1>4, <1>5, <3>1
  <2>2. \A j \in 1..Len(SyncOrder) : SyncOrder[j] \in Collections
    BY DEF Collections
  <2>3. \A d \in Collections : d # c => db'[d][p] = db[d][p]
    BY <1>3, <1>5
  <2>4. \A j \in 1..Len(SyncOrder) :
          (j < pos[t] \/ SyncOrder[j] = c) /\ SyncOrder[j] # "projects"
            => db'[SyncOrder[j]][p] = mem[SyncOrder[j]][p]
    BY <1>1, <2>1, <2>2, <2>3 DEF ProgressInv, Syncing
  <2>5. \A j \in 1..Len(SyncOrder) :
          (j < pos'[t] \/ pc'[t] = "done") => (j < pos[t] \/ SyncOrder[j] = c)
    <3>1. Len(SyncOrder) \in Nat /\ pos[t] \in 1..Len(SyncOrder)
      BY OrderAssumption
    <3>2. CASE pos[t] < Len(SyncOrder)
      BY <1>1, <3>1, <3>2 DEF NextCollection, Reached
    <3>3. CASE ~(pos[t] < Len(SyncOrder))
      BY <1>1, <3>1, <3>3 DEF NextCollection, Reached
    <3> QED  BY <3>2, <3>3
  <2> QED  BY <1>1, <1>2, <2>4, <2>5 DEF ProgressInv, Syncing
<1> QED  BY <1>6, <1>7, <1>8

\* At the end of the write-back every row the request wrote is in Mongo, so
\* it can be promised.
LEMMA SyncFinish ==
  ASSUME LockedOnly, TypeOK, SyncInv, NEW t \in Threads, Finish(t)
  PROVE  SyncInv'
<1> USE DEF TypeOK, SyncInv
<1> DEFINE r == req[t]
<1>1. pc[t] = "done" /\ Return(t) /\ UNCHANGED <<mem, db>>
      /\ promised' = Put(promised, owed[t], {r.prj}, Content(r))
  BY DEF Finish
<1>2. \A c \in owed[t] \ {"projects"} :
        mem[c][r.prj] = Content(r) /\ db[c][r.prj] = Content(r)
  <2>1. \A c \in Collections : \E j \in 1..Len(SyncOrder) : SyncOrder[j] = c
    BY DEF Collections
  <2>2. owed[t] \subseteq Touches(r) /\ Touches(r) \subseteq Collections
    BY <1>1 DEF ProgressInv, Touches
  <2>3. \A c \in Touches(r) \ {"projects"} : mem[c][r.prj] = Content(r)
    BY <1>1 DEF ProgressInv
  <2>4. \A c \in Collections \ {"projects"} : db[c][r.prj] = mem[c][r.prj]
    BY <1>1, <2>1 DEF ProgressInv
  <2> QED  BY <2>2, <2>3, <2>4
<1>3. PromiseInv'
  BY <1>1, <1>2 DEF PromiseInv, Put, Artifacts
<1>4. \A u \in Threads : pc'[u] # "idle" =>
        /\ u # t /\ pc'[u] = pc[u] /\ req'[u] = req[u]
        /\ image'[u] = image[u] /\ pos'[u] = pos[u]
        /\ left'[u] = left[u] /\ owed'[u] = owed[u]
  BY <1>1 DEF Return
<1>5. CopyInv'
  <2> SUFFICES ASSUME NEW u \in Threads, pc'[u] \in {"upsert", "prune"}
               PROVE  /\ Reached(u)' # "projects" => image'[u] = mem'[Reached(u)']
                      /\ pc'[u] = "prune" => left'[u] = {}
                      /\ image'[u][req'[u].prj] # Absent /\ req'[u].prj \notin left'[u]
                           => db'[Reached(u)'][req'[u].prj] = image'[u][req'[u].prj]
    BY DEF CopyInv
  <2>1. /\ pc'[u] = pc[u] /\ req'[u] = req[u] /\ image'[u] = image[u]
        /\ left'[u] = left[u] /\ mem' = mem /\ db' = db
    BY <1>1, <1>4
  <2>2. Reached(u)' = Reached(u)
    BY <1>4 DEF Reached
  <2> QED  BY <2>1, <2>2 DEF CopyInv
<1>6. ProgressInv'
  <2> SUFFICES ASSUME NEW u \in Threads, pc'[u] \in Syncing \union {"done"}
               PROVE  /\ owed'[u] \subseteq Touches(req'[u])
                      /\ \A c \in Touches(req'[u]) \ {"projects"} :
                           mem'[c][req'[u].prj] = Content(req'[u])
                      /\ \A j \in 1..Len(SyncOrder) :
                           (j < pos'[u] \/ pc'[u] = "done") /\ SyncOrder[j] # "projects"
                             => db'[SyncOrder[j]][req'[u].prj] = mem'[SyncOrder[j]][req'[u].prj]
    BY DEF ProgressInv, Syncing
  <2>1. /\ pc'[u] = pc[u] /\ req'[u] = req[u] /\ pos'[u] = pos[u]
        /\ owed'[u] = owed[u] /\ mem' = mem /\ db' = db
    BY <1>1, <1>4 DEF Syncing
  <2> QED  BY <2>1 DEF ProgressInv, Syncing
<1> QED  BY <1>3, <1>5, <1>6

\* The process restarts: memory becomes what Mongo holds, where a promised row
\* is found again; or it becomes empty and every promise is void.
LEMMA SyncCrash ==
  ASSUME TypeOK, SyncInv, Crash \/ BlindRestart
  PROVE  SyncInv'
<1> USE DEF TypeOK, SyncInv, Crash, BlindRestart, Restart, Syncing
<1>1. PromiseInv'
  BY DEF PromiseInv, Loaded, Empty, NoRows, Artifacts
<1>2. CopyInv' /\ ProgressInv'
  BY DEF CopyInv, ProgressInv
<1> QED  BY <1>1, <1>2

\* A script writes rows of a project nothing was ever promised about.
LEMMA SyncSeed ==
  ASSUME TypeOK, UsedInv, SyncInv, NEW p \in ProjectIds, NEW v \in Values,
         Seed(p, v)
  PROVE  SyncInv'
<1> USE DEF TypeOK, SyncInv, Seed
<1>1. \A c \in Collections, q \in ProjectIds : q # p => db'[c][q] = db[c][q]
  BY DEF Put
<1>2. \A c \in Artifacts : promised[c][p] = Absent
  BY DEF UsedInv, PromiseInv, Artifacts
<1>3. \A u \in Threads : pc[u] \in Syncing \union {"done"} =>
        req[u].prj \in ProjectIds /\ req[u].prj # p
  BY RequestFields DEF UsedInv, Syncing, Writing
<1>4. PromiseInv'
  BY ZenonT(60), <1>1, <1>2 DEF PromiseInv, Artifacts
<1>5. CopyInv'
  <2>1. UNCHANGED <<mem, pc, req, image, pos, left>>
    OBVIOUS
  <2> SUFFICES ASSUME NEW u \in Threads, pc[u] \in {"upsert", "prune"}
               PROVE  /\ Reached(u) # "projects" => image[u] = mem[Reached(u)]
                      /\ pc[u] = "prune" => left[u] = {}
                      /\ image[u][req[u].prj] # Absent /\ req[u].prj \notin left[u]
                           => db'[Reached(u)][req[u].prj] = image[u][req[u].prj]
    BY <2>1 DEF CopyInv, Reached
  <2>2. Reached(u) \in Collections
    BY DEF Reached, Collections
  <2>3. db'[Reached(u)][req[u].prj] = db[Reached(u)][req[u].prj]
    BY <1>1, <1>3, <2>2 DEF Syncing
  <2> QED  BY <2>3 DEF CopyInv
<1>6. ProgressInv'
  <2>1. \A j \in 1..Len(SyncOrder) : SyncOrder[j] \in Collections
    BY DEF Collections
  <2>2. \A u \in Threads : pc[u] \in Syncing \union {"done"} =>
          \A j \in 1..Len(SyncOrder) :
            db'[SyncOrder[j]][req[u].prj] = db[SyncOrder[j]][req[u].prj]
    BY <1>1, <1>3, <2>1
  <2>3. UNCHANGED <<mem, pc, req, pos, owed>>
    OBVIOUS
  <2> SUFFICES ASSUME NEW u \in Threads, pc[u] \in Syncing \union {"done"}
               PROVE  /\ owed[u] \subseteq Touches(req[u])
                      /\ \A c \in Touches(req[u]) \ {"projects"} :
                           mem[c][req[u].prj] = Content(req[u])
                      /\ \A j \in 1..Len(SyncOrder) :
                           (j < pos[u] \/ pc[u] = "done")
                           /\ SyncOrder[j] # "projects"
                           => db'[SyncOrder[j]][req[u].prj]
                                = mem[SyncOrder[j]][req[u].prj]
    BY ZenonT(60), <2>3 DEF ProgressInv
  <2> QED  BY <2>2 DEF ProgressInv
<1> QED  BY <1>4, <1>5, <1>6

LEMMA SyncStep ==
  ASSUME LockedOnly, TypeOK, LockInv, UsedInv, SyncInv, [Next]_vars
  PROVE  SyncInv'
<1>1. ASSUME NEW t \in Threads, NEW r \in Request, Begin(t, r) PROVE SyncInv'
  <2>1. r.kind # "create"
    BY EveryRequestLocked DEF LockedOnly, LockedKinds
  <2>2. UNCHANGED <<mem, db, promised, pos, left, owed>>
    BY <1>1 DEF Begin, store, history
  <2>3. \A u \in Threads : pc'[u] \in Syncing \union {"done"} =>
          pc'[u] = pc[u] /\ req'[u] = req[u] /\ image'[u] = image[u]
    BY <1>1, <2>1 DEF Begin, TypeOK, Syncing
  <2> QED  BY <2>2, <2>3, SyncIdle
<1>2. ASSUME NEW t \in Threads, RefreshRead(t) PROVE SyncInv'
  BY <1>2, SyncIdle DEF RefreshRead, TypeOK, Syncing, store, history
<1>3. ASSUME NEW t \in Threads, RefreshFails(t) PROVE SyncInv'
  BY <1>3, SyncIdle DEF RefreshFails, TypeOK, Syncing, store, history
<1>4. ASSUME NEW t \in Threads, CheckPasses(t) PROVE SyncInv'
  BY <1>4, SyncIdle DEF CheckPasses, TypeOK, Syncing, store, history
<1>5. ASSUME NEW t \in Threads, Acquire(t) PROVE SyncInv'
  BY <1>5, SyncIdle DEF Acquire, TypeOK, Syncing, history
<1>6. ASSUME NEW t \in Threads, NEW p \in ProjectIds, UpsertRow(t, p)
      PROVE  SyncInv'
  BY <1>6, SyncUpsertRow
<1>7. CASE Crash \/ BlindRestart
  BY <1>7, SyncCrash
<1>9. ASSUME NEW p \in ProjectIds, NEW v \in Values, Seed(p, v)
      PROVE  SyncInv'
  BY <1>9, SyncSeed
<1>10. ASSUME NEW t \in Threads,
              CheckEnds(t) \/ MutateNothing(t) \/ WriteFails(t)
       PROVE  SyncInv'
  BY <1>10, SyncReturn DEF CheckEnds, MutateNothing, WriteFails
<1>11. CASE UNCHANGED vars
  BY <1>11, SyncIdle DEF vars, store, history
<1> QED
  BY <1>1, <1>2, <1>3, <1>4, <1>5, <1>6, <1>7, <1>9, <1>10, <1>11,
     SyncRefresh, SyncMutate, SyncBuild, SyncUpsertsDone, SyncPrune, SyncFinish
  DEF Next, Work

LEMMA StoreInvariant ==
  ASSUME LockedOnly
  PROVE  Spec => [](TypeOK /\ LockInv /\ UsedInv /\ SyncInv)
<1>1. Init => LockInv /\ UsedInv /\ SyncInv
  <2> SUFFICES ASSUME Init PROVE LockInv /\ UsedInv /\ SyncInv  OBVIOUS
  <2>1. LockInv
    BY ThreadAssumption DEF Init, LockInv, LockHeldByWriter, Writing, Syncing
  <2>2. UsedInv
    BY DEF Init, UsedInv, Put, Empty, NoRows, Writing, Syncing
  <2>3. SyncInv
    BY DEF Init, SyncInv, PromiseInv, CopyInv, ProgressInv, Empty, NoRows,
           Artifacts, Syncing
  <2> QED  BY <2>1, <2>2, <2>3
<1>2. TypeOK /\ (LockInv /\ UsedInv /\ SyncInv) /\ [Next]_vars
        => (LockInv /\ UsedInv /\ SyncInv)'
  BY LockStep, UsedStep, SyncStep
<1> QED  BY <1>1, <1>2, TypeCorrect, PTL DEF Spec

\* When every request takes the lock, an acknowledged artifact stays in Mongo
\* until a later request replaces or removes it: no crash, failed request,
\* refresh, external seed or write-back for another project loses it.
THEOREM AckedRowsAreDurable ==
  ASSUME LockedOnly
  PROVE  Spec => []AckedDurable
<1>1. SyncInv => AckedDurable
  BY DEF SyncInv, PromiseInv, AckedDurable, Durable
<1> QED  BY <1>1, StoreInvariant, PTL

\* ... and it stays visible, through crashes as well.
THEOREM AckedRowsStayVisible ==
  ASSUME LockedOnly
  PROVE  Spec => []AckedVisible
<1>1. SyncInv => AckedVisible
  BY DEF SyncInv, PromiseInv, AckedVisible, Visible
<1> QED  BY <1>1, StoreInvariant, PTL

\* When every request takes the lock, no artifact of a project is left, in
\* memory or in Mongo, when its deletion is acknowledged.
THEOREM DeletionSweepsArtifacts ==
  ASSUME LockedOnly
  PROVE  Spec => DeleteSweepsArtifacts
<1>1. (TypeOK /\ LockInv /\ UsedInv /\ SyncInv) /\ [Next]_vars
        => \A p \in gone' \ gone, c \in Artifacts : mem'[c][p] = Absent /\ db'[c][p] = Absent
  <2> SUFFICES ASSUME TypeOK, SyncInv, [Next]_vars
               PROVE  \A p \in gone' \ gone, c \in Artifacts :
                        mem'[c][p] = Absent /\ db'[c][p] = Absent
    OBVIOUS
  <2>1. ASSUME NEW t \in Threads, Finish(t), NEW p \in gone' \ gone, NEW c \in Artifacts
        PROVE  mem'[c][p] = Absent /\ db'[c][p] = Absent
    <3>1. /\ pc[t] = "done" /\ req[t].kind = "delete" /\ p = req[t].prj
          /\ UNCHANGED <<mem, db>>
      BY <2>1 DEF Finish
    <3>2. c \in Touches(req[t]) \ {"projects"} /\ Content(req[t]) = Absent
      BY <3>1 DEF Touches, Artifacts, Content
    <3>3. PICK j \in 1..Len(SyncOrder) : SyncOrder[j] = c
      BY DEF Artifacts, Collections
    <3>4. mem[c][p] = Absent  BY <3>1, <3>2 DEF SyncInv, ProgressInv
    <3>5. db[c][p] = mem[c][p]
      BY <3>1, <3>2, <3>3 DEF SyncInv, ProgressInv
    <3> QED  BY <3>1, <3>4, <3>5
  <2>2. \A t \in Threads : Work(t) => Finish(t) \/ gone' = gone
    <3>1. \A t \in Threads :
            CheckEnds(t) \/ MutateNothing(t) \/ WriteFails(t) \/ Mutate(t) => gone' = gone
      BY DEF CheckEnds, MutateNothing, WriteFails, Mutate
    <3>2. \A t \in Threads :
            RefreshRead(t) \/ RefreshFails(t) \/ RefreshAssign(t) \/ CheckPasses(t) \/ Acquire(t)
              => gone' = gone
      BY DEF RefreshRead, RefreshFails, RefreshAssign, CheckPasses, Acquire, history
    <3>3. \A t \in Threads :
            Build(t) \/ (\E p \in ProjectIds : UpsertRow(t, p)) \/ UpsertsDone(t) \/ Prune(t)
              => gone' = gone
      BY DEF Build, UpsertRow, UpsertsDone, Prune, history
    <3> QED  BY <3>1, <3>2, <3>3 DEF Work
  <2>3. (\A t \in Threads : ~Work(t)) => gone' = gone
    <3>1. \A t \in Threads, r \in Request : Begin(t, r) => gone' = gone
      BY DEF Begin, history
    <3>2. Crash \/ BlindRestart \/ UNCHANGED vars => gone' = gone
      BY DEF Crash, BlindRestart, Restart, vars, history
    <3>3. \A p \in ProjectIds, v \in Values : Seed(p, v) => gone' = gone
      BY DEF Seed
    <3> QED  BY <3>1, <3>2, <3>3 DEF Next
  <2>4. gone' = gone \/ \E t \in Threads : Finish(t)
    BY <2>2, <2>3
  <2>5. CASE gone' = gone
    BY <2>5
  <2>6. CASE \E t \in Threads : Finish(t)
    <3>1. PICK t \in Threads : Finish(t)  BY <2>6
    <3> QED  BY <2>1, <3>1
  <2> QED  BY <2>4, <2>5, <2>6
<1> QED  BY <1>1, StoreInvariant, PTL DEF Spec, DeleteSweepsArtifacts

-----------------------------------------------------------------------------
(* The store implements WriteThroughStore.                                 *)

LEMMA CellsOf ==
  ASSUME NEW rows
  PROVE  /\ Cells(rows) = [k \in ArtifactKeys |-> Cells(rows)[k]]
         /\ \A c \in Artifacts, p \in ProjectIds : Cells(rows)[<<c, p>>] = rows[c][p]
BY DEF Cells, ArtifactKeys

LEMMA CellsSame ==
  ASSUME NEW a, NEW b, \A c \in Artifacts, p \in ProjectIds : a[c][p] = b[c][p]
  PROVE  Cells(a) = Cells(b)
BY DEF Cells, ArtifactKeys

\* Some cells are replaced, the others stay.
LEMMA CellsOver ==
  ASSUME NEW a, NEW b, NEW K, NEW f,
         \A c \in Artifacts, p \in ProjectIds :
           b[c][p] = IF <<c, p>> \in K THEN f[<<c, p>>] ELSE a[c][p]
  PROVE  Cells(b) = Abstract!Over(Cells(a), K, f)
BY DEF Cells, ArtifactKeys, Abstract!Over

LEMMA AbstractInit ==
  ASSUME TypeOK, Init
  PROVE  Abstract!Init
<1>1. Cells(mem) \in [ArtifactKeys -> Abstract!Row]
  BY DEF TypeOK, Cells, ArtifactKeys, Artifacts, Rows, Row, Abstract!Row
<1>2. Cells(promised) = Abstract!NoRow
  BY DEF Init, Empty, NoRows, Cells, ArtifactKeys, Artifacts, Abstract!NoRow
<1> QED  BY <1>1, <1>2 DEF Init, Abstract!Init

\* A step that changes no artifact.
LEMMA AbstractStutter ==
  ASSUME \A c \in Artifacts, p \in ProjectIds :
           mem'[c][p] = mem[c][p] /\ db'[c][p] = db[c][p] /\ promised'[c][p] = promised[c][p]
  PROVE  UNCHANGED Abstract!vars
<1>1. Cells(mem') = Cells(mem) /\ Cells(db') = Cells(db) /\ Cells(promised') = Cells(promised)
  BY CellsSame
<1> QED  BY <1>1 DEF Abstract!vars, Cells

LEMMA AbstractWrite ==
  ASSUME TypeOK, NEW t \in Threads, Mutate(t)
  PROVE  Abstract!Next
<1> DEFINE r == req[t]
           K == {k \in ArtifactKeys : k[1] \in Touches(r) /\ k[2] = r.prj}
           fill == [k \in ArtifactKeys |-> Content(r)]
<1>1. r \in Request /\ r.kind # "read"
  BY DEF Mutate, TypeOK, Writing
<1>2. Content(r) \in Abstract!Row
  BY <1>1, RequestFields DEF Row, Abstract!Row
<1>3. \A c \in Artifacts, p \in ProjectIds :
        /\ <<c, p>> \in ArtifactKeys
        /\ <<c, p>> \in K <=> c \in Touches(r) /\ p = r.prj
  BY DEF ArtifactKeys
<1>4. \A c \in Artifacts, p \in ProjectIds :
        mem'[c][p] = IF <<c, p>> \in K THEN fill[<<c, p>>] ELSE mem[c][p]
  BY <1>3 DEF Mutate, Put, Artifacts
<1>5. \A c \in Artifacts, p \in ProjectIds :
        promised'[c][p] = IF <<c, p>> \in K THEN Abstract!NoRow[<<c, p>>] ELSE promised[c][p]
  BY <1>3 DEF Mutate, Put, Artifacts, Abstract!NoRow
<1>6. db' = db
  BY DEF Mutate
<1>7. K \in SUBSET ArtifactKeys
  OBVIOUS
<1> HIDE DEF K
<1>8. /\ Cells(mem') = Abstract!Over(Cells(mem), K, fill)
      /\ Cells(promised') = Abstract!Over(Cells(promised), K, Abstract!NoRow)
  BY <1>4, <1>5, CellsOver
<1>9. Abstract!Write(K, Content(r))
  BY <1>6, <1>8 DEF Abstract!Write, Cells
<1> QED  BY <1>2, <1>7, <1>9 DEF Abstract!Next

\* Rows of one collection reach Mongo as memory has them.
LEMMA AbstractStore ==
  ASSUME TypeOK, UNCHANGED <<mem, promised>>, NEW K \in SUBSET ArtifactKeys,
         \A c \in Artifacts, p \in ProjectIds :
           db'[c][p] = IF <<c, p>> \in K THEN mem[c][p] ELSE db[c][p]
  PROVE  Abstract!Next
<1>1. \A c \in Artifacts, p \in ProjectIds : Cells(mem)[<<c, p>>] = mem[c][p]
  BY CellsOf
<1>2. Cells(db') = Abstract!Over(Cells(db), K, Cells(mem))
  BY <1>1, CellsOver
<1>3. Abstract!Store(K)
  BY <1>2 DEF Abstract!Store, Cells
<1> QED  BY <1>3 DEF Abstract!Next

LEMMA AbstractUpsertRow ==
  ASSUME TypeOK, SyncInv, NEW t \in Threads, NEW p \in ProjectIds, UpsertRow(t, p)
  PROVE  Abstract!Next
<1> DEFINE c == Reached(t)
           K == {k \in ArtifactKeys : k = <<c, p>>}
<1>1. c # "projects" => image[t] = mem[c]
  BY DEF UpsertRow, SyncInv, CopyInv
<1>2. \A d \in Artifacts, q \in ProjectIds : <<d, q>> \in K <=> d = c /\ q = p
  BY DEF ArtifactKeys
<1>3. \A d \in Artifacts, q \in ProjectIds :
        db'[d][q] = IF d = c /\ q = p THEN image[t][p] ELSE db[d][q]
  BY DEF UpsertRow, TypeOK, Rows, Artifacts
<1>4. UNCHANGED <<mem, promised>> /\ K \in SUBSET ArtifactKeys
  BY DEF UpsertRow, history
<1> HIDE DEF K, c
<1>5. \A d \in Artifacts, q \in ProjectIds :
        db'[d][q] = IF <<d, q>> \in K THEN mem[d][q] ELSE db[d][q]
  BY <1>1, <1>2, <1>3 DEF Artifacts
<1> QED  BY <1>4, <1>5, AbstractStore

LEMMA AbstractPrune ==
  ASSUME TypeOK, SyncInv, NEW t \in Threads, Prune(t)
  PROVE  Abstract!Next
<1> DEFINE c == Reached(t)
           K == {k \in ArtifactKeys : k[1] = c /\ image[t][k[2]] = Absent}
<1>1. c # "projects" => image[t] = mem[c]
  BY DEF Prune, SyncInv, CopyInv
<1>2. \A d \in Artifacts, q \in ProjectIds :
        <<d, q>> \in K <=> d = c /\ image[t][q] = Absent
  BY DEF ArtifactKeys
<1>3. \A d \in Artifacts, q \in ProjectIds :
        db'[d][q] = IF d = c /\ image[t][q] = Absent THEN Absent ELSE db[d][q]
  BY DEF Prune, TypeOK, Rows, Artifacts
<1>4. UNCHANGED <<mem, promised>> /\ K \in SUBSET ArtifactKeys
  BY DEF Prune, history
<1> HIDE DEF K, c
<1>5. \A d \in Artifacts, q \in ProjectIds :
        db'[d][q] = IF <<d, q>> \in K THEN mem[d][q] ELSE db[d][q]
  BY ZenonT(60), <1>1, <1>2, <1>3 DEF Artifacts
<1> QED  BY <1>4, <1>5, AbstractStore

\* A request is answered when memory and Mongo have what it wrote.
LEMMA AbstractFinish ==
  ASSUME TypeOK, SyncInv, NEW t \in Threads, Finish(t)
  PROVE  Abstract!Next
<1> DEFINE r == req[t]
           K == {k \in ArtifactKeys : k[1] \in owed[t] /\ k[2] = r.prj}
<1>1. pc[t] = "done" /\ UNCHANGED <<mem, db>>
      /\ promised' = Put(promised, owed[t], {r.prj}, Content(r))
  BY DEF Finish
<1>2. \A c \in owed[t] \ {"projects"} :
        mem[c][r.prj] = Content(r) /\ db[c][r.prj] = Content(r)
  <2>1. \A c \in Collections : \E j \in 1..Len(SyncOrder) : SyncOrder[j] = c
    BY DEF Collections
  <2>2. owed[t] \subseteq Touches(r) /\ Touches(r) \subseteq Collections
    BY <1>1 DEF SyncInv, ProgressInv, Touches
  <2>3. \A c \in Touches(r) \ {"projects"} : mem[c][r.prj] = Content(r)
    BY <1>1 DEF SyncInv, ProgressInv
  <2>4. \A c \in Collections \ {"projects"} : db[c][r.prj] = mem[c][r.prj]
    BY <1>1, <2>1 DEF SyncInv, ProgressInv
  <2> QED  BY <2>2, <2>3, <2>4
<1>3. \A c \in Artifacts, p \in ProjectIds : <<c, p>> \in K <=> c \in owed[t] /\ p = r.prj
  BY DEF ArtifactKeys
<1>4. \A c \in Artifacts, p \in ProjectIds :
        /\ Cells(mem)[<<c, p>>] = mem[c][p]
        /\ promised'[c][p] = IF <<c, p>> \in K THEN mem[c][p] ELSE promised[c][p]
  <2> TAKE c \in Artifacts, p \in ProjectIds
  <2>1. Cells(mem)[<<c, p>>] = mem[c][p]
    BY CellsOf
  <2>2. promised'[c][p] = IF c \in owed[t] /\ p = r.prj THEN Content(r) ELSE promised[c][p]
    BY <1>1 DEF Put, Artifacts
  <2>3. c \in owed[t] /\ p = r.prj => mem[c][p] = Content(r)
    BY <1>2 DEF Artifacts
  <2> HIDE DEF r, K
  <2> QED  BY <1>3, <2>1, <2>2, <2>3
<1>5. \A k \in K : Cells(db)[k] = Cells(mem)[k]
  <2> TAKE k \in K
  <2>1. PICK c \in Artifacts, p \in ProjectIds : k = <<c, p>>
    BY DEF ArtifactKeys
  <2>2. c \in owed[t] \ {"projects"} /\ p = r.prj
    BY <1>3, <2>1 DEF Artifacts
  <2> QED  BY <1>2, <2>1, <2>2, CellsOf
<1>6. K \in SUBSET ArtifactKeys
  OBVIOUS
<1> HIDE DEF K
<1>7. Cells(promised') = Abstract!Over(Cells(promised), K, Cells(mem))
  BY <1>4, CellsOver
<1>8. Abstract!Acknowledge(K)
  BY <1>1, <1>5, <1>7 DEF Abstract!Acknowledge, Cells
<1> QED  BY <1>6, <1>8 DEF Abstract!Next

LEMMA AbstractRestart ==
  ASSUME TypeOK, Crash \/ BlindRestart
  PROVE  Abstract!Next
<1>1. db' = db
  BY DEF Crash, BlindRestart, Restart
<1>2. CASE mem' = Empty /\ promised' = Empty
  <2>1. Cells(mem') = Abstract!NoRow /\ Cells(promised') = Abstract!NoRow
    BY <1>2 DEF Empty, NoRows, Cells, ArtifactKeys, Artifacts, Abstract!NoRow
  <2>2. Abstract!RestartEmpty
    BY <1>1, <2>1 DEF Abstract!RestartEmpty, Cells
  <2> QED  BY <2>2 DEF Abstract!Next
<1>3. CASE mem' = db /\ promised' = promised
  <2>1. Abstract!Restart
    BY <1>1, <1>3 DEF Abstract!Restart, Cells
  <2> QED  BY <2>1 DEF Abstract!Next
<1> QED  BY <1>2, <1>3 DEF Crash, BlindRestart, Loaded

LEMMA AbstractSeed ==
  ASSUME TypeOK, UsedInv, SyncInv, NEW p \in ProjectIds, NEW v \in Values, Seed(p, v)
  PROVE  Abstract!Next
<1> DEFINE K == {k \in ArtifactKeys : k[1] = "nodes" /\ k[2] = p}
           fill == [k \in ArtifactKeys |-> v]
<1>1. p \notin used /\ UNCHANGED <<mem, promised>>
      /\ db' = Put(db, {"projects", "nodes"}, {p}, v)
  BY DEF Seed
<1>2. \A c \in Artifacts : mem[c][p] = Absent /\ db[c][p] = Absent /\ promised[c][p] = Absent
  BY <1>1 DEF UsedInv, SyncInv, PromiseInv, Artifacts
<1>3. \A c \in Artifacts, q \in ProjectIds :
        /\ <<c, q>> \in ArtifactKeys
        /\ <<c, q>> \in K <=> c = "nodes" /\ q = p
  BY DEF ArtifactKeys
<1>4. \A c \in Artifacts, q \in ProjectIds :
        db'[c][q] = IF <<c, q>> \in K THEN fill[<<c, q>>] ELSE db[c][q]
  BY <1>1, <1>3 DEF Put, Artifacts
<1>5. \A k \in K : Cells(mem)[k] = Absent /\ Cells(db)[k] = Absent /\ Cells(promised)[k] = Absent
  <2> TAKE k \in K
  <2>1. PICK c \in Artifacts : k = <<c, p>>
    BY DEF ArtifactKeys
  <2> QED  BY <1>2, <2>1, CellsOf
<1>6. K \in SUBSET ArtifactKeys
  OBVIOUS
<1> HIDE DEF K
<1>7. Cells(db') = Abstract!Over(Cells(db), K, fill)
  BY <1>4, CellsOver
<1>8. Abstract!Import(K, v)
  BY <1>1, <1>5, <1>7 DEF Abstract!Import, Cells
<1> QED  BY <1>6, <1>8 DEF Abstract!Next

LEMMA AbstractStep ==
  ASSUME LockedOnly, TypeOK, UsedInv, SyncInv, [Next]_vars
  PROVE  [Abstract!Next]_Abstract!vars
<1>1. ASSUME NEW t \in Threads, RefreshAssign(t) PROVE UNCHANGED Abstract!vars
  <2>1. \A c \in Artifacts : mem'[c] = mem[c]
    BY <1>1 DEF RefreshAssign, TypeOK, Artifacts
  <2> QED  BY <1>1, <2>1, AbstractStutter DEF RefreshAssign, history
<1>2. ASSUME UNCHANGED <<mem, db, promised>> PROVE UNCHANGED Abstract!vars
  BY <1>2, AbstractStutter
<1>3. ASSUME NEW t \in Threads, NEW r \in Request, Begin(t, r)
      PROVE  UNCHANGED <<mem, db, promised>>
  BY <1>3 DEF Begin, store, history
<1>4. ASSUME NEW t \in Threads,
             \/ RefreshRead(t) \/ RefreshFails(t) \/ CheckEnds(t) \/ CheckPasses(t)
             \/ Acquire(t) \/ MutateNothing(t) \/ Build(t) \/ UpsertsDone(t) \/ WriteFails(t)
      PROVE  UNCHANGED <<mem, db, promised>>
  BY <1>4 DEF RefreshRead, RefreshFails, CheckEnds, CheckPasses, Acquire, MutateNothing,
              Build, UpsertsDone, WriteFails, store, history
<1>5. CASE UNCHANGED vars
  BY <1>2, <1>5 DEF vars, store, history
<1> QED
  BY <1>1, <1>2, <1>3, <1>4, <1>5, AbstractWrite, AbstractUpsertRow, AbstractPrune,
     AbstractFinish, AbstractRestart, AbstractSeed
  DEF Next, Work

\* When every request takes the lock, the store's dictionaries and Mongo are
\* together a store that writes through atomically and acknowledges what is
\* stable: what the refinement of the run says, for every instance.
THEOREM LockedStoreWritesThrough ==
  ASSUME LockedOnly
  PROVE  Spec => WritesThrough
<1>1. TypeOK /\ Init => Abstract!Init
  BY AbstractInit
<1>2. (TypeOK /\ LockInv /\ UsedInv /\ SyncInv) /\ [Next]_vars => [Abstract!Next]_Abstract!vars
  BY AbstractStep
<1>3. Spec => Init /\ [][Next]_vars
  BY DEF Spec
<1> QED  BY <1>1, <1>2, <1>3, StoreInvariant, PTL DEF WritesThrough, Abstract!Spec
=============================================================================
