------------------------------ MODULE FlowGraph ------------------------------
(***************************************************************************)
(* The flow graphs of the projects: the nodes and edges the store keeps,   *)
(* the history of versions, and everything that rewrites them side by      *)
(* side: the page on which a user edits a copy, imports of JSON or prose,  *)
(* and the extraction of entities from an uploaded document.               *)
(*                                                                         *)
(* A store method is one step, because of its lock (its write-through is   *)
(* the subject of MongoStore).  A request of the page is a step of the     *)
(* server and, later, the arrival of the answer.                           *)
(***************************************************************************)
EXTENDS Naturals, Sequences, FiniteSets

CONSTANTS
  Projects,   \* projects; they are neither created nor deleted here
  NodeIds,    \* ids of nodes; new_id never draws one twice
  NoNode,     \* no id, no project, no graph
  Artifacts,  \* ids of nodes of the types that a save of the flow preserves
  Jobs,       \* worker threads that import a flow or extract entities
  KeepLast,   \* versions kept in the history (20)
  MaxLoads,   \* bound: loads of the page in flight
  MaxSaves,   \* bound: calls of save_project_graph
  StoredUnder \* project of every node when the instance starts

ASSUME FlowAssumption ==
  /\ Projects # {} /\ NoNode \notin Projects \union NodeIds
  /\ Artifacts \subseteq NodeIds
  /\ KeepLast \in Nat \ {0} /\ MaxSaves \in Nat
  /\ StoredUnder \in [NodeIds -> Projects \union {NoNode}]

VARIABLES
  home,     \* store.nodes: the project_id of every stored node
  links,    \* store.edges as pairs of source and target
  meta,     \* store.projects: root_node_id and graph_version
  past,     \* store.graph_versions, oldest first
  saves,    \* calls of save_project_graph so far
  drawn,    \* ids drawn so far, by the server or by the page
  page,     \* the page: its project and the graph it shows
  loads,    \* loads in flight: live is FALSE after another project was chosen
  saving,   \* the save in flight, or NoNode
  job,      \* what every worker thread does
  authored  \* history: nodes ever stored under a project

flow     == <<home, links, meta, past, saves, authored>>
flowVars == <<flow, drawn, page, loads, saving, job>>

Links    == SUBSET (NodeIds \X NodeIds)
Graph    == [root : NodeIds \union {NoNode}, version : 1..MaxSaves + 1,
             nodes : SUBSET NodeIds, links : Links]
Shown    == Graph \union {NoNode}
NodesOf(p) == {n \in NodeIds : home[n] = p}
Fresh    == NodeIds \ drawn

\* get_project_graph: edges with an end outside the project do not show.
GraphOf(p) ==
  [root |-> meta[p].root, version |-> meta[p].version, nodes |-> NodesOf(p),
   links |-> links \intersect (NodesOf(p) \X NodesOf(p))]

FlowTypeOK ==
  /\ home \in [NodeIds -> Projects \union {NoNode}]
  /\ links \in Links
  /\ meta \in [Projects -> [root : NodeIds \union {NoNode}, version : 1..MaxSaves + 1]]
  /\ past \in [Projects -> Seq(Graph)]
  /\ \A p \in Projects : Len(past[p]) <= KeepLast
  /\ saves \in 0..MaxSaves
  /\ drawn \subseteq NodeIds
  /\ page \in [project : Projects, shown : Shown]
  /\ loads \subseteq [project : Projects, live : BOOLEAN, answer : Shown]
  /\ saving \in [project : Projects, graph : Graph, done : BOOLEAN] \union {NoNode}
  /\ job \in [Jobs -> [at : {"idle", "text", "link"}, project : Projects,
                       node : NodeIds \union {NoNode}]]
  /\ authored \in [Projects -> SUBSET NodeIds]

FlowInit ==
  /\ home = StoredUnder
  /\ links = {}
  /\ meta = [p \in Projects |-> [root |-> NoNode, version |-> 1]]
  /\ past = [p \in Projects |-> <<>>]
  /\ saves = 0
  /\ drawn = {n \in NodeIds : StoredUnder[n] # NoNode}
  /\ page = [project |-> CHOOSE p \in Projects : TRUE, shown |-> NoNode]
  /\ loads = {}
  /\ saving = NoNode
  /\ job = [j \in Jobs |-> [at |-> "idle", project |-> CHOOSE p \in Projects : TRUE,
                            node |-> NoNode]]
  /\ authored = [p \in Projects |-> {n \in NodeIds : StoredUnder[n] = p}]

-----------------------------------------------------------------------------
(* Methods of the store. *)

LastOf(k, s) == IF Len(s) <= k THEN s ELSE SubSeq(s, Len(s) - k + 1, Len(s))

\* Saving graph g of project p: the version that is replaced, the nodes that
\* go (artifacts stay although the flow leaves them out), and the edges,
\* replaced between nodes of the saved flow only.
NoSnapshot(p) == past[p]
Snapshot(p) ==
  IF NodesOf(p) = {} THEN past[p] ELSE LastOf(KeepLast, Append(past[p], GraphOf(p)))
Removed(p, g) == NodesOf(p) \ (g.nodes \union Artifacts)
LinksAfter(p, g) ==
  {l \in links : ~ {l[1], l[2]} \subseteq g.nodes
                 /\ {l[1], l[2]} \intersect Removed(p, g) = {}} \union g.links
VersionAfter(p, g) == g.version + (IF NodesOf(p) = {} THEN 0 ELSE 1)

SaveProjectGraph(p, g) ==
  /\ saves < MaxSaves
  /\ saves' = saves + 1
  /\ past' = [past EXCEPT ![p] = Snapshot(p)]
  /\ home' = [n \in NodeIds |-> IF n \in g.nodes THEN p
                                ELSE IF n \in Removed(p, g) THEN NoNode ELSE home[n]]
  /\ links' = LinksAfter(p, g)
  /\ meta' = [meta EXCEPT ![p] = [root |-> g.root, version |-> VersionAfter(p, g)]]
  /\ authored' = [authored EXCEPT ![p] = @ \union g.nodes]

-----------------------------------------------------------------------------
(* The page. *)

\* selectProject: the answers of loads asked before are dropped, a save in
\* flight is not.
Select(p) ==
  /\ Cardinality(loads) < MaxLoads
  /\ page' = [project |-> p, shown |-> NoNode]
  /\ loads' = {[l EXCEPT !.live = FALSE] : l \in loads}
                \union {[project |-> p, live |-> TRUE, answer |-> NoNode]}
  /\ UNCHANGED <<flow, drawn, saving, job>>

\* The server answers getFlow; the other calls of Promise.all come in later.
AnswerLoad(l) ==
  /\ l.answer = NoNode
  /\ loads' = (loads \ {l}) \union {[l EXCEPT !.answer = GraphOf(l.project)]}
  /\ UNCHANGED <<flow, drawn, page, saving, job>>

\* The rest of refreshProjectData: both guards are needed, because an import
\* reloads the project it was for with the token of the one chosen since.
PassesToken(l) == l.live
Passes(l) == l.live /\ l.project = page.project
ShowLoad(l) ==
  /\ l.answer # NoNode
  /\ loads' = loads \ {l}
  /\ page' = IF Passes(l) THEN [page EXCEPT !.shown = l.answer] ELSE page
  /\ UNCHANGED <<flow, drawn, saving, job>>

LoseLoad(l) ==
  /\ loads' = loads \ {l}
  /\ UNCHANGED <<flow, drawn, page, saving, job>>

Show(g) == page' = [page EXCEPT !.shown = g]

AddChild(parent, n) ==
  /\ page.shown # NoNode
  /\ parent \in page.shown.nodes
  /\ drawn' = drawn \union {n}
  /\ Show([page.shown EXCEPT !.nodes = @ \union {n}, !.links = @ \union {<<parent, n>>}])
  /\ UNCHANGED <<flow, loads, saving, job>>

DeleteSelected(n) ==
  /\ page.shown # NoNode
  /\ n \in page.shown.nodes \ {page.shown.root}
  /\ Show([page.shown EXCEPT !.nodes = @ \ {n},
                             !.links = {l \in @ : n \notin {l[1], l[2]}}])
  /\ UNCHANGED <<flow, drawn, loads, saving, job>>

\* The root button: a graph of one new node, and of version 1.
ResetRoot(n) ==
  /\ page.shown # NoNode
  /\ drawn' = drawn \union {n}
  /\ Show([root |-> n, version |-> 1, nodes |-> {n}, links |-> {}])
  /\ UNCHANGED <<flow, loads, saving, job>>

\* handleSaveGraph; the button is disabled until the answer.
SaveSend ==
  /\ saving = NoNode
  /\ page.shown # NoNode
  /\ saving' = [project |-> page.project, graph |-> page.shown, done |-> FALSE]
  /\ UNCHANGED <<flow, drawn, page, loads, job>>

SaveServer ==
  /\ saving # NoNode
  /\ ~ saving.done
  /\ SaveProjectGraph(saving.project, saving.graph)
  /\ saving' = [saving EXCEPT !.done = TRUE,
                !.graph.version = VersionAfter(saving.project, saving.graph)]
  /\ UNCHANGED <<drawn, page, loads, job>>

\* What the user drew since SaveSend is replaced by what was saved.
SaveReply ==
  /\ saving # NoNode
  /\ saving.done
  /\ page' = IF page.project = saving.project THEN [page EXCEPT !.shown = saving.graph] ELSE page
  /\ saving' = NoNode
  /\ UNCHANGED <<flow, drawn, loads, job>>

SaveFails ==
  /\ saving # NoNode
  /\ saving' = NoNode
  /\ UNCHANGED <<flow, drawn, page, loads, job>>

-----------------------------------------------------------------------------
(* Workers of the server. *)

\* from_nested_import: a root and its branches, all with new ids.  The graph
\* starts at version 1 whatever the project has.
ImportedGraph(root, rest) ==
  [root |-> root, version |-> 1, nodes |-> {root} \union rest,
   links |-> {<<root, n>> : n \in rest}]
\* validate_and_repair_graph gives a graph a root, drops loops and loose ends,
\* and hangs nodes without a parent from the root.  An imported graph has
\* nothing to repair (MCServices), so it is not stored a second time.
Repaired(g) ==
  LET root    == IF g.root \in g.nodes THEN g.root ELSE CHOOSE n \in g.nodes : TRUE
      kept    == {l \in g.links : l[1] # l[2] /\ {l[1], l[2]} \subseteq g.nodes}
      orphans == g.nodes \ ({root} \union {l[2] : l \in kept})
  IN  IF g.nodes = {} THEN g
      ELSE [g EXCEPT !.root = root, !.links = kept \union {<<root, n>> : n \in orphans}]

Import(j, p, root, rest, kind) ==
  /\ job[j].at = "idle"
  /\ drawn' = drawn \union {root} \union rest
  /\ SaveProjectGraph(p, ImportedGraph(root, rest))
  /\ job' = IF kind = "text"
            THEN [job EXCEPT ![j] = [at |-> "text", project |-> p, node |-> root]]
            ELSE job
  /\ UNCHANGED <<page, loads, saving>>

\* from_natural_language stores the root again, with its statistics, also if
\* it was removed meanwhile.
AttachStats(j) ==
  /\ job[j].at = "text"
  /\ home' = [home EXCEPT ![job[j].node] = job[j].project]
  /\ authored' = [authored EXCEPT ![job[j].project] = @ \union {job[j].node}]
  /\ job' = [job EXCEPT ![j].at = "idle", ![j].node = NoNode]
  /\ UNCHANGED <<links, meta, past, saves, drawn, page, loads, saving>>

\* onImported: the project the import was for, under the current token.
Imported(p) ==
  /\ Cardinality(loads) < MaxLoads
  /\ loads' = loads \union {[project |-> p, live |-> TRUE, answer |-> NoNode]}
  /\ UNCHANGED <<flow, drawn, page, saving, job>>

\* extract_from_text, for one entity: the node of that name, or a new one...
ExtractNode(j, p, n) ==
  /\ job[j].at = "idle"
  /\ n \in Fresh \/ home[n] = p
  /\ home' = [home EXCEPT ![n] = p]
  /\ drawn' = drawn \union {n}
  /\ authored' = [authored EXCEPT ![p] = @ \union {n}]
  /\ job' = [job EXCEPT ![j] = [at |-> "link", project |-> p, node |-> n]]
  /\ UNCHANGED <<links, meta, past, saves, page, loads, saving>>

\* ... and then an edge to it from the root the project has by then, unless
\* it has one; the node may be gone by then.
ExtractLink(j) ==
  LET root == meta[job[j].project].root
  IN  /\ job[j].at = "link"
      /\ links' = IF root \in {NoNode, job[j].node} THEN links
                  ELSE links \union {<<root, job[j].node>>}
      /\ job' = [job EXCEPT ![j].at = "idle", ![j].node = NoNode]
      /\ UNCHANGED <<home, meta, past, saves, drawn, page, loads, saving, authored>>

FlowNext ==
  \/ \E p \in Projects : Select(p) \/ Imported(p)
  \/ \E l \in loads : AnswerLoad(l) \/ ShowLoad(l) \/ LoseLoad(l)
  \/ \E n \in Fresh : ResetRoot(n) \/ \E parent \in NodeIds : AddChild(parent, n)
  \/ \E n \in NodeIds : DeleteSelected(n)
  \/ SaveSend \/ SaveServer \/ SaveReply \/ SaveFails
  \/ \E j \in Jobs, p \in Projects :
       \/ \E root \in Fresh, kind \in {"json", "text"} :
            \E rest \in SUBSET (Fresh \ {root}) : Import(j, p, root, rest, kind)
       \/ \E n \in NodeIds : ExtractNode(j, p, n)
  \/ \E j \in Jobs : AttachStats(j) \/ ExtractLink(j)

FlowSpec == FlowInit /\ [][FlowNext]_flowVars

-----------------------------------------------------------------------------
\* A stored node stays in its project, and an artifact stays stored, however
\* loads, imports and saves of several projects overlap: a graph that the
\* page shows under another project than its own would take all its nodes
\* along when it is saved (save_project_graph, node.project_id = ...).
NodesStayHome ==
  [][\A n \in NodeIds : home[n] # NoNode =>
       home'[n] \in {home[n]} \union (IF n \in Artifacts THEN {} ELSE {NoNode})]_flowVars

\* Whatever anybody stored in a flow is there or in a kept version, also after
\* saves of stale copies, as long as the history has not been cut.
WorkRecoverable ==
  \A p \in Projects : Len(past[p]) < KeepLast =>
    authored[p] \subseteq NodesOf(p) \union UNION {past[p][i].nodes : i \in DOMAIN past[p]}

-----------------------------------------------------------------------------
(* Why nodes stay home: whoever has a node - the store, the page, an answer  *)
(* on its way, a save, a worker - has it for the same project, and new nodes *)
(* get ids that nobody has.                                                  *)
Has(n, p) ==
  \/ home[n] = p
  \/ page.project = p /\ page.shown # NoNode /\ n \in page.shown.nodes
  \/ \E l \in loads : l.project = p /\ l.answer # NoNode /\ n \in l.answer.nodes
  \/ saving # NoNode /\ saving.project = p /\ n \in saving.graph.nodes
  \/ \E j \in Jobs : job[j].at = "text" /\ job[j].project = p /\ job[j].node = n
HomeInv ==
  \A n \in NodeIds, p \in Projects : Has(n, p) =>
    n \in drawn /\ \A q \in Projects : Has(n, q) => p = q
=============================================================================
