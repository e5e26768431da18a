---------------------------- MODULE FlowGraphProofs ----------------------------
(***************************************************************************)
(* Flow graphs, for any number of projects, nodes, jobs, loads and saves:  *)
(* no overlap of loads, edits, saves, imports and extractions moves a node *)
(* into another project or loses an artifact (NodesStayHome), what anybody *)
(* stored stays there or in a kept version as long as the history is not   *)
(* cut (WorkRecoverable), and types hold.                                  *)
(***************************************************************************)
EXTENDS FlowGraph, SequenceTheorems, TLAPS

\* The types this needs; versions may be any number.
AnyGraph ==
  [root : NodeIds \union {NoNode}, version : Nat, nodes : SUBSET NodeIds, links : Links]
JobType  ==
  {w \in [at : {"idle", "text", "link"}, project : Projects, node : NodeIds \union {NoNode}] :
     w.at # "idle" => w.node \in NodeIds}
PlacesOK ==
  /\ home \in [NodeIds -> Projects \union {NoNode}]
  /\ links \in Links
  /\ meta \in [Projects -> [root : NodeIds \union {NoNode}, version : Nat]]
  /\ page \in [project : Projects, shown : AnyGraph \union {NoNode}]
  /\ loads \subseteq [project : Projects, live : BOOLEAN, answer : AnyGraph \union {NoNode}]
  /\ saving \in [project : Projects, graph : AnyGraph, done : BOOLEAN] \union {NoNode}
  /\ job \in [Jobs -> JobType]

\* The flow that the store shows for a project.
LEMMA GraphOfTypes ==
  ASSUME PlacesOK, NEW p \in Projects
  PROVE  GraphOf(p) \in AnyGraph
  BY DEF PlacesOK, GraphOf, AnyGraph, NodesOf, Links

\* Saving a graph keeps the types of the store.
LEMMA SaveTypes ==
  ASSUME PlacesOK, NEW p \in Projects, NEW g \in AnyGraph, SaveProjectGraph(p, g)
  PROVE  /\ home' \in [NodeIds -> Projects \union {NoNode}]
         /\ links' \in Links
         /\ meta' \in [Projects -> [root : NodeIds \union {NoNode}, version : Nat]]
         /\ VersionAfter(p, g) \in Nat
<1>1. home' \in [NodeIds -> Projects \union {NoNode}]
  BY DEF SaveProjectGraph, PlacesOK
<1>2. links' \in Links
  BY DEF SaveProjectGraph, LinksAfter, PlacesOK, Links, AnyGraph
<1>3. VersionAfter(p, g) \in Nat
  BY DEF VersionAfter, AnyGraph
<1>4. meta' \in [Projects -> [root : NodeIds \union {NoNode}, version : Nat]]
  BY <1>3 DEF SaveProjectGraph, PlacesOK, AnyGraph
<1> QED
  BY <1>1, <1>2, <1>3, <1>4

\* What an import brings is a graph.
LEMMA ImportedTypes ==
  ASSUME NEW root \in NodeIds, NEW rest \in SUBSET NodeIds
  PROVE  ImportedGraph(root, rest) \in AnyGraph /\ ImportedGraph(root, rest).nodes = {root} \union rest
  BY DEF ImportedGraph, AnyGraph, Links

\* The page keeps its types.
LEMMA PageTypes ==
  ASSUME PlacesOK, page.shown # NoNode, NEW g \in AnyGraph, Show(g)
  PROVE  page' \in [project : Projects, shown : AnyGraph \union {NoNode}]
  BY DEF Show, PlacesOK

\* Types of home, links, drawn, page, loads, saving and job after any action.
LEMMA PlacesStep ==
  ASSUME PlacesOK, [FlowNext]_flowVars
  PROVE  PlacesOK'
<1> DEFINE Load == [project : Projects, live : BOOLEAN, answer : AnyGraph \union {NoNode}]
<1>1. CASE UNCHANGED flowVars
  BY <1>1 DEF flowVars, flow, PlacesOK
<1>2. ASSUME NEW p \in Projects, Select(p) \/ Imported(p)
      PROVE  PlacesOK'
  <2>1. loads' \subseteq Load
    <3>1. \A l \in Load : [l EXCEPT !.live = FALSE] \in Load
      OBVIOUS
    <3>2. [project |-> p, live |-> TRUE, answer |-> NoNode] \in Load
      OBVIOUS
    <3>3. loads \subseteq Load
      BY DEF PlacesOK
    <3>4. \A k \in loads' :
            \/ k = [project |-> p, live |-> TRUE, answer |-> NoNode]
            \/ \E l \in loads : k = [l EXCEPT !.live = FALSE]
            \/ k \in loads
      BY <1>2 DEF Select, Imported
    <3> QED
      BY ZenonT(60), <3>1, <3>2, <3>3, <3>4
  <2>2. page' \in [project : Projects, shown : AnyGraph \union {NoNode}]
    BY <1>2 DEF Select, Imported, PlacesOK
  <2>3. UNCHANGED <<home, links, meta, saving, job>>
    BY <1>2 DEF Select, Imported, flow
  <2> QED
    BY <2>1, <2>2, <2>3 DEF PlacesOK
<1>3. ASSUME NEW l \in loads, AnswerLoad(l) \/ ShowLoad(l) \/ LoseLoad(l)
      PROVE  PlacesOK'
  <2>0. l \in Load /\ loads \subseteq Load
    BY DEF PlacesOK
  <2>1. loads' \subseteq Load
    <3>1. [l EXCEPT !.answer = GraphOf(l.project)] \in Load
      BY <2>0, GraphOfTypes
    <3>2. loads' \subseteq loads \union {[l EXCEPT !.answer = GraphOf(l.project)]}
      BY <1>3 DEF AnswerLoad, ShowLoad, LoseLoad
    <3> QED
      BY <2>0, <3>1, <3>2
  <2>2. page' \in [project : Projects, shown : AnyGraph \union {NoNode}]
    BY <1>3, <2>0 DEF AnswerLoad, ShowLoad, LoseLoad, PlacesOK
  <2>3. UNCHANGED <<home, links, meta, saving, job>>
    BY <1>3 DEF AnswerLoad, ShowLoad, LoseLoad, flow
  <2> QED
    BY <2>1, <2>2, <2>3 DEF PlacesOK
<1>4. ASSUME NEW n \in NodeIds,
             ResetRoot(n) \/ DeleteSelected(n) \/ \E parent \in NodeIds : AddChild(parent, n)
      PROVE  PlacesOK'
  <2>1. page.shown # NoNode /\ page.shown \in AnyGraph
    BY <1>4 DEF ResetRoot, DeleteSelected, AddChild, PlacesOK
  <2>2. \E g \in AnyGraph : Show(g)
    <3>1. CASE ResetRoot(n)
      <4>1. [root |-> n, version |-> 1, nodes |-> {n}, links |-> {}] \in AnyGraph
        BY DEF AnyGraph, Links
      <4> QED
        BY <3>1, <4>1 DEF ResetRoot
    <3>2. CASE DeleteSelected(n)
      <4>1. [page.shown EXCEPT !.nodes = @ \ {n},
                               !.links = {l \in @ : n \notin {l[1], l[2]}}] \in AnyGraph
        BY <2>1 DEF AnyGraph, Links
      <4> QED
        BY <3>2, <4>1 DEF DeleteSelected
    <3>3. ASSUME NEW parent \in NodeIds, AddChild(parent, n)
          PROVE  \E g \in AnyGraph : Show(g)
      <4>1. <<parent, n>> \in NodeIds \X NodeIds
        OBVIOUS
      <4>2. [page.shown EXCEPT !.nodes = @ \union {n}, !.links = @ \union {<<parent, n>>}]
              \in AnyGraph
        BY <2>1, <4>1 DEF AnyGraph, Links
      <4> QED
        BY <3>3, <4>2 DEF AddChild
    <3> QED
      BY <1>4, <3>1, <3>2, <3>3
  <2>3. UNCHANGED <<home, links, meta, loads, saving, job>>
    BY <1>4 DEF ResetRoot, DeleteSelected, AddChild, flow
  <2> QED
    BY <2>1, <2>2, <2>3, PageTypes DEF PlacesOK
<1>5. CASE SaveSend \/ SaveReply \/ SaveFails
  <2>1. page' \in [project : Projects, shown : AnyGraph \union {NoNode}]
    BY <1>5 DEF SaveSend, SaveReply, SaveFails, PlacesOK
  <2>2. saving' \in [project : Projects, graph : AnyGraph, done : BOOLEAN] \union {NoNode}
    <3>1. CASE SaveSend
      <4>1. page.project \in Projects /\ page.shown \in AnyGraph
        BY <3>1 DEF SaveSend, PlacesOK
      <4> QED
        BY <3>1, <4>1 DEF SaveSend
    <3> QED
      BY <1>5, <3>1 DEF SaveReply, SaveFails
  <2>3. UNCHANGED <<home, links, meta, loads, job>>
    BY <1>5 DEF SaveSend, SaveReply, SaveFails, flow
  <2> QED
    BY <2>1, <2>2, <2>3 DEF PlacesOK
<1>6. CASE SaveServer
  <2>1. saving \in [project : Projects, graph : AnyGraph, done : BOOLEAN]
    BY <1>6 DEF SaveServer, PlacesOK
  <2>2. SaveProjectGraph(saving.project, saving.graph)
    BY <1>6 DEF SaveServer
  <2>3. saving' \in [project : Projects, graph : AnyGraph, done : BOOLEAN]
    BY <1>6, <2>1, <2>2, SaveTypes DEF SaveServer, AnyGraph
  <2> QED
    BY <1>6, <2>1, <2>2, <2>3, SaveTypes DEF SaveServer, PlacesOK
<1>7. ASSUME NEW j \in Jobs, NEW p \in Projects, NEW root \in Fresh, NEW kind,
             NEW rest \in SUBSET (Fresh \ {root}), Import(j, p, root, rest, kind)
      PROVE  PlacesOK'
  <2>1. root \in NodeIds /\ ImportedGraph(root, rest) \in AnyGraph
    BY ImportedTypes DEF Fresh
  <2>2. job' \in [Jobs -> JobType]
    BY <1>7, <2>1 DEF Import, PlacesOK, JobType
  <2> QED
    BY <1>7, <2>1, <2>2, SaveTypes DEF Import, PlacesOK
<1>8. ASSUME NEW j \in Jobs, AttachStats(j) \/ ExtractLink(j)
             \/ \E p \in Projects, n \in NodeIds : ExtractNode(j, p, n)
      PROVE  PlacesOK'
  <2>1. job' \in [Jobs -> JobType]
    <3>1. CASE AttachStats(j) \/ ExtractLink(j)
      <4>1. job' = [job EXCEPT ![j] = [job[j] EXCEPT !.at = "idle", !.node = NoNode]]
        BY <3>1 DEF AttachStats, ExtractLink, PlacesOK, JobType
      <4>2. [job[j] EXCEPT !.at = "idle", !.node = NoNode] \in JobType
        BY DEF PlacesOK, JobType
      <4> QED
        BY <4>1, <4>2 DEF PlacesOK
    <3>2. CASE \E p \in Projects, n \in NodeIds : ExtractNode(j, p, n)
      BY <3>2 DEF ExtractNode, PlacesOK, JobType
    <3> QED
      BY <1>8, <3>1, <3>2
  <2>2. home' \in [NodeIds -> Projects \union {NoNode}]
    <3>1. CASE AttachStats(j)
      <4>1. job[j].project \in Projects
        BY DEF PlacesOK, JobType
      <4> QED
        BY <3>1, <4>1 DEF AttachStats, PlacesOK
    <3>2. CASE \E p \in Projects, n \in NodeIds : ExtractNode(j, p, n)
      BY <3>2 DEF ExtractNode, PlacesOK
    <3> QED
      BY <1>8, <3>1, <3>2 DEF ExtractLink, PlacesOK
  <2>3. links' \in Links
    <3>1. CASE ExtractLink(j)
      <4> DEFINE root == meta[job[j].project].root
      <4>1. root \in NodeIds \union {NoNode} /\ job[j].node \in NodeIds
        BY <3>1 DEF ExtractLink, PlacesOK, JobType
      <4>2. links' = IF root \in {NoNode, job[j].node} THEN links
                     ELSE links \union {<<root, job[j].node>>}
        BY <3>1 DEF ExtractLink
      <4> HIDE DEF root
      <4> QED
        BY <4>1, <4>2 DEF PlacesOK, Links
    <3> QED
      BY <1>8, <3>1 DEF AttachStats, ExtractNode, PlacesOK
  <2>4. UNCHANGED <<meta, page, loads, saving>>
    BY <1>8 DEF AttachStats, ExtractLink, ExtractNode
  <2> QED
    BY <2>1, <2>2, <2>3, <2>4 DEF PlacesOK
<1> QED
  BY <1>1, <1>2, <1>3, <1>4, <1>5, <1>6, <1>7, <1>8 DEF FlowNext, Fresh

-----------------------------------------------------------------------------
(* Nobody gets a node that somebody has for another project. *)

\* A step that gives out nodes for projects they were had for, or new ones
\* for one project, keeps the invariant.
LEMMA GivenOut ==
  ASSUME HomeInv, drawn \subseteq drawn', NEW p \in Projects, NEW new \in SUBSET Fresh,
         new \subseteq drawn',
         \A n \in NodeIds, q \in Projects : Has(n, q)' => Has(n, q) \/ (n \in new /\ q = p)
  PROVE  HomeInv'
<1> SUFFICES ASSUME NEW n \in NodeIds, NEW q \in Projects, Has(n, q)'
             PROVE  n \in drawn' /\ \A o \in Projects : Has(n, o)' => q = o
  BY DEF HomeInv
<1>1. CASE n \in new
  <2>1. \A o \in Projects : ~ Has(n, o)
    BY <1>1 DEF HomeInv, Fresh
  <2> QED
    BY <1>1, <2>1
<1>2. CASE n \notin new
  <2>1. Has(n, q) /\ \A o \in Projects : Has(n, o)' => Has(n, o)
    BY <1>2
  <2> QED
    BY <2>1 DEF HomeInv
<1> QED
  BY <1>1, <1>2

\* ... in particular one that gives out no new node.
LEMMA NoneGivenOut ==
  ASSUME HomeInv, drawn \subseteq drawn',
         \A n \in NodeIds, q \in Projects : Has(n, q)' => Has(n, q)
  PROVE  HomeInv'
<1> SUFFICES ASSUME NEW n \in NodeIds, NEW q \in Projects, Has(n, q)'
             PROVE  n \in drawn' /\ \A o \in Projects : Has(n, o)' => q = o
  BY DEF HomeInv
<1>1. Has(n, q) /\ \A o \in Projects : Has(n, o)' => Has(n, o)
  OBVIOUS
<1> QED
  BY <1>1 DEF HomeInv

\* What the page does keeps every node in one project.
LEMMA PageHomeStep ==
  ASSUME PlacesOK, HomeInv,
         \/ \E p \in Projects : Select(p) \/ Imported(p)
         \/ \E l \in loads : AnswerLoad(l) \/ ShowLoad(l) \/ LoseLoad(l)
         \/ SaveSend \/ SaveReply \/ SaveFails
         \/ \E n \in NodeIds : DeleteSelected(n)
  PROVE  HomeInv'
<1> SUFFICES ASSUME NEW n \in NodeIds, NEW q \in Projects, Has(n, q)'
             PROVE  Has(n, q)
  <2>1. drawn' = drawn
    BY DEF Select, Imported, AnswerLoad, ShowLoad, LoseLoad, SaveSend, SaveReply, SaveFails,
           DeleteSelected
  <2> QED
    BY <2>1, NoneGivenOut
<1>1. ASSUME NEW p \in Projects, Select(p) \/ Imported(p)
      PROVE  Has(n, q)
  <2>1. \A k \in loads' : k.answer # NoNode =>
          \E l \in loads : l.project = k.project /\ l.answer = k.answer
    <3>1. \A l \in loads : /\ [l EXCEPT !.live = FALSE].project = l.project
                           /\ [l EXCEPT !.live = FALSE].answer = l.answer
      BY DEF PlacesOK
    <3>2. \A k \in loads' :
            \/ k = [project |-> p, live |-> TRUE, answer |-> NoNode]
            \/ \E l \in loads : k = [l EXCEPT !.live = FALSE]
            \/ k \in loads
      BY <1>1 DEF Select, Imported
    <3>3. [project |-> p, live |-> TRUE, answer |-> NoNode].answer = NoNode
      OBVIOUS
    <3> QED
      BY <3>1, <3>2, <3>3
  <2> QED
    BY <1>1, <2>1 DEF Has, Select, Imported, flow
<1>2. ASSUME NEW l \in loads, AnswerLoad(l)
      PROVE  Has(n, q)
  <2>1. \A k \in loads' : \/ k \in loads
                          \/ k.project = l.project /\ k.answer = GraphOf(l.project)
    <3>1. /\ [l EXCEPT !.answer = GraphOf(l.project)].project = l.project
          /\ [l EXCEPT !.answer = GraphOf(l.project)].answer = GraphOf(l.project)
      BY DEF PlacesOK
    <3> QED
      BY <1>2, <3>1 DEF AnswerLoad
  <2>2. GraphOf(l.project).nodes = {m \in NodeIds : home[m] = l.project}
    BY DEF GraphOf, NodesOf
  <2> QED
    BY <1>2, <2>1, <2>2 DEF Has, AnswerLoad, flow
<1>3. ASSUME NEW l \in loads, ShowLoad(l) \/ LoseLoad(l)
      PROVE  Has(n, q)
  <2>1. page' = page \/ (Passes(l) /\ page' = [page EXCEPT !.shown = l.answer])
    BY <1>3 DEF ShowLoad, LoseLoad
  <2>2. page' = page \/ (/\ page'.project = l.project /\ page'.shown = l.answer)
    BY <2>1 DEF PlacesOK, Passes
  <2> QED
    BY <1>3, <2>2 DEF Has, ShowLoad, LoseLoad, flow
<1>4. CASE SaveSend \/ SaveFails
  BY <1>4 DEF Has, SaveSend, SaveFails, flow
<1>5. CASE SaveReply
  <2>1. \/ page' = page
        \/ page'.project = saving.project /\ page'.shown = saving.graph
    BY <1>5 DEF SaveReply, PlacesOK
  <2> QED
    BY <1>5, <2>1 DEF Has, SaveReply, flow
<1>6. ASSUME NEW m \in NodeIds, DeleteSelected(m)
      PROVE  Has(n, q)
  <2>1. /\ page'.project = page.project
        /\ page'.shown.nodes = page.shown.nodes \ {m} /\ page.shown # NoNode
    BY <1>6 DEF DeleteSelected, Show, PlacesOK, AnyGraph
  <2> QED
    BY <1>6, <2>1 DEF Has, DeleteSelected, flow
<1> QED
  BY <1>1, <1>2, <1>3, <1>4, <1>5, <1>6

\* A save gives the nodes of the graph to its project, and others to nobody.
LEMMA SavedHomes ==
  ASSUME PlacesOK, NEW p \in Projects, NEW g \in AnyGraph, SaveProjectGraph(p, g),
         NEW n \in NodeIds
  PROVE  /\ home'[n] = IF n \in g.nodes THEN p
                       ELSE IF n \in Removed(p, g) THEN NoNode ELSE home[n]
         /\ n \in Removed(p, g) => n \notin Artifacts /\ home[n] = p
  BY DEF SaveProjectGraph, Removed, NodesOf

\* So do the answers of the server to loads and saves.
LEMMA ServerHomeStep ==
  ASSUME PlacesOK, HomeInv, SaveServer
  PROVE  HomeInv'
<1>1. saving \in [project : Projects, graph : AnyGraph, done : BOOLEAN]
  BY DEF SaveServer, PlacesOK
<1>2. SaveProjectGraph(saving.project, saving.graph)
  BY DEF SaveServer
<1>3. /\ saving' # NoNode => saving'.project = saving.project
      /\ saving' # NoNode => saving'.graph.nodes = saving.graph.nodes
  BY <1>1 DEF SaveServer, AnyGraph
<1>4. ASSUME NEW n \in NodeIds, NEW q \in Projects, Has(n, q)'
      PROVE  Has(n, q)
  <2>1. home'[n] = q => Has(n, q)
    BY <1>1, <1>2, SavedHomes, FlowAssumption DEF Has, FlowAssumption, SaveServer
  <2> QED
    BY <1>3, <1>4, <2>1 DEF Has, SaveServer
<1> QED
  BY <1>4, NoneGivenOut DEF SaveServer

\* So do nodes drawn on the page, which get new ids.
LEMMA DrawHomeStep ==
  ASSUME PlacesOK, HomeInv, NEW n \in Fresh,
         ResetRoot(n) \/ \E parent \in NodeIds : AddChild(parent, n)
  PROVE  HomeInv'
<1>1. /\ page.shown # NoNode /\ page.shown \in AnyGraph /\ page.project \in Projects
      /\ drawn' = drawn \union {n} /\ UNCHANGED <<home, loads, saving, job>>
  BY DEF ResetRoot, AddChild, PlacesOK, flow
<1>2. page'.project = page.project /\ page'.shown.nodes \subseteq page.shown.nodes \union {n}
  <2>1. CASE ResetRoot(n)
    BY <1>1, <2>1 DEF ResetRoot, Show, PlacesOK
  <2>2. ASSUME NEW parent \in NodeIds, AddChild(parent, n)
        PROVE  /\ page'.project = page.project
               /\ page'.shown.nodes \subseteq page.shown.nodes \union {n}
    <3>1. page'.project = page.project
      BY <2>2 DEF AddChild, Show, PlacesOK
    <3>2. page'.shown = [page.shown EXCEPT !.nodes = @ \union {n},
                                           !.links = @ \union {<<parent, n>>}]
      BY <2>2 DEF AddChild, Show, PlacesOK
    <3> QED
      BY <1>1, <3>1, <3>2 DEF AnyGraph
  <2> QED
    BY <2>1, <2>2
<1>3. \A m \in NodeIds, q \in Projects :
        Has(m, q)' => Has(m, q) \/ (m \in {n} /\ q = page.project)
  BY <1>1, <1>2 DEF Has
<1> QED
  BY <1>1, <1>3, GivenOut

\* So does an import, all of whose ids are new.
LEMMA ImportHomeStep ==
  ASSUME PlacesOK, HomeInv, NEW j \in Jobs, NEW p \in Projects, NEW root \in Fresh, NEW kind,
         NEW rest \in SUBSET (Fresh \ {root}), Import(j, p, root, rest, kind)
  PROVE  HomeInv'
<1> DEFINE g == ImportedGraph(root, rest)
<1>1. root \in NodeIds /\ g \in AnyGraph /\ g.nodes = {root} \union rest
  BY ImportedTypes DEF Fresh
<1>2. SaveProjectGraph(p, g) /\ drawn' = drawn \union {root} \union rest
      /\ UNCHANGED <<page, loads, saving>>
  BY DEF Import
<1>3. \A i \in Jobs : job'[i].at = "text" =>
        job'[i] = job[i] \/ (job'[i].node = root /\ job'[i].project = p)
  BY DEF Import, PlacesOK, JobType
<1> HIDE DEF g
<1>4. ASSUME NEW n \in NodeIds, NEW q \in Projects, Has(n, q)'
      PROVE  Has(n, q) \/ (n \in {root} \union rest /\ q = p)
  <2>1. home'[n] = q => Has(n, q) \/ (n \in {root} \union rest /\ q = p)
    BY <1>1, <1>2, SavedHomes, FlowAssumption DEF Has, FlowAssumption
  <2>2. ASSUME NEW i \in Jobs, job'[i].at = "text", job'[i].project = q, job'[i].node = n
        PROVE  Has(n, q) \/ (n \in {root} \union rest /\ q = p)
    BY <1>3, <2>2 DEF Has
  <2> QED
    BY <1>2, <1>4, <2>1, <2>2 DEF Has
<1>5. {root} \union rest \in SUBSET Fresh
  OBVIOUS
<1> QED
  BY <1>2, <1>4, <1>5, GivenOut

\* So do the statistics and the extraction of entities.
LEMMA JobHomeStep ==
  ASSUME PlacesOK, HomeInv, NEW j \in Jobs,
         AttachStats(j) \/ ExtractLink(j)
         \/ \E p \in Projects, n \in NodeIds : ExtractNode(j, p, n)
  PROVE  HomeInv'
<1>0. \A i \in Jobs : job'[i].at = "text" => job'[i] = job[i]
  BY DEF AttachStats, ExtractLink, ExtractNode, PlacesOK, JobType
<1>1. CASE AttachStats(j)
  <2>1. job[j].at = "text" /\ job[j].node \in NodeIds /\ job[j].project \in Projects
    BY <1>1 DEF AttachStats, PlacesOK, JobType
  <2>2. \A n \in NodeIds, q \in Projects : Has(n, q)' => Has(n, q)
    BY <1>0, <1>1, <2>1 DEF Has, AttachStats, PlacesOK
  <2> QED
    BY <1>1, <2>2, NoneGivenOut DEF AttachStats
<1>2. CASE ExtractLink(j)
  <2>1. \A n \in NodeIds, q \in Projects : Has(n, q)' => Has(n, q)
    BY <1>0, <1>2 DEF Has, ExtractLink
  <2> QED
    BY <1>2, <2>1, NoneGivenOut DEF ExtractLink
<1>3. ASSUME NEW p \in Projects, NEW m \in NodeIds, ExtractNode(j, p, m)
      PROVE  HomeInv'
  <2>1. \A n \in NodeIds, q \in Projects :
          Has(n, q)' => Has(n, q) \/ (n \in {m} \intersect Fresh /\ q = p)
    BY <1>0, <1>3 DEF Has, ExtractNode, PlacesOK
  <2> QED
    <3>1. drawn' = drawn \union {m} /\ {m} \intersect Fresh \in SUBSET Fresh
      BY <1>3 DEF ExtractNode
    <3> QED
      BY <2>1, <3>1, GivenOut
<1> QED
  BY <1>1, <1>2, <1>3

\* Every step keeps HomeInv.
LEMMA HomeStep ==
  ASSUME PlacesOK, HomeInv, [FlowNext]_flowVars
  PROVE  HomeInv'
<1>1. CASE UNCHANGED flowVars
  BY <1>1 DEF flowVars, flow, HomeInv, Has
<1>2. CASE FlowNext
  BY <1>2, PageHomeStep, ServerHomeStep, DrawHomeStep, ImportHomeStep, JobHomeStep DEF FlowNext
<1> QED
  BY <1>1, <1>2

-----------------------------------------------------------------------------
(* The theorem. *)

\* With it, no step moves a stored node or removes an artifact.
LEMMA StayStep ==
  ASSUME PlacesOK, HomeInv, [FlowNext]_flowVars, NEW n \in NodeIds, home[n] # NoNode
  PROVE  home'[n] \in {home[n]} \union (IF n \in Artifacts THEN {} ELSE {NoNode})
<1>0. home[n] \in Projects /\ Has(n, home[n]) /\ n \in drawn
      /\ \A q \in Projects : Has(n, q) => q = home[n]
  BY DEF PlacesOK, HomeInv, Has
<1>1. CASE UNCHANGED home
  BY <1>1
<1>2. CASE SaveServer
  <2>1. saving \in [project : Projects, graph : AnyGraph, done : BOOLEAN] /\ saving # NoNode
    BY <1>2 DEF SaveServer, PlacesOK
  <2>2. SaveProjectGraph(saving.project, saving.graph)
    BY <1>2 DEF SaveServer
  <2>3. n \in saving.graph.nodes => saving.project = home[n]
    BY <1>0, <2>1 DEF Has
  <2> QED
    BY <2>1, <2>2, <2>3, SavedHomes
<1>3. ASSUME NEW j \in Jobs, NEW p \in Projects, NEW root \in Fresh, NEW kind,
             NEW rest \in SUBSET (Fresh \ {root}), Import(j, p, root, rest, kind)
      PROVE  home'[n] \in {home[n]} \union (IF n \in Artifacts THEN {} ELSE {NoNode})
  <2>1. /\ ImportedGraph(root, rest) \in AnyGraph
        /\ n \notin ImportedGraph(root, rest).nodes
    BY <1>0, ImportedTypes DEF Fresh
  <2>2. SaveProjectGraph(p, ImportedGraph(root, rest))
    BY <1>3 DEF Import
  <2> QED
    BY <2>1, <2>2, SavedHomes
<1>4. ASSUME NEW j \in Jobs, AttachStats(j)
      PROVE  home'[n] = home[n]
  <2>1. job[j].at = "text" /\ job[j].project \in Projects
    BY <1>4 DEF AttachStats, PlacesOK, JobType
  <2>2. job[j].node = n => job[j].project = home[n]
    BY <1>0, <2>1 DEF Has
  <2> QED
    BY <1>4, <2>2 DEF AttachStats, PlacesOK
<1>5. ASSUME NEW j \in Jobs, NEW p \in Projects, NEW m \in NodeIds, ExtractNode(j, p, m)
      PROVE  home'[n] = home[n]
  BY <1>0, <1>5 DEF ExtractNode, Fresh, PlacesOK
<1> QED
  BY <1>1, <1>2, <1>3, <1>4, <1>5
  DEF FlowNext, flowVars, flow, Select, Imported, AnswerLoad, ShowLoad, LoseLoad, ResetRoot,
      AddChild, DeleteSelected, SaveSend, SaveReply, SaveFails, ExtractLink

\* It holds at the start.
LEMMA HomeInit == FlowInit => PlacesOK /\ HomeInv
<1> SUFFICES ASSUME FlowInit PROVE PlacesOK /\ HomeInv
  OBVIOUS
<1>1. PlacesOK
  <2>1. (CHOOSE p \in Projects : TRUE) \in Projects
    BY FlowAssumption DEF FlowAssumption
  <2>2. job \in [Jobs -> JobType]
    BY <2>1 DEF FlowInit, JobType
  <2>3. page \in [project : Projects, shown : AnyGraph \union {NoNode}]
    BY <2>1 DEF FlowInit
  <2>4. meta \in [Projects -> [root : NodeIds \union {NoNode}, version : Nat]]
    BY DEF FlowInit
  <2> QED
    BY <2>2, <2>3, <2>4, FlowAssumption DEF FlowAssumption, FlowInit, PlacesOK, Links
<1>2. HomeInv
  <2>1. \A n \in NodeIds, p \in Projects : Has(n, p) => home[n] = p
    BY DEF FlowInit, Has
  <2>2. \A n \in NodeIds, p \in Projects : home[n] = p => n \in drawn
    BY FlowAssumption DEF FlowAssumption, FlowInit
  <2> QED
    BY <2>1, <2>2 DEF HomeInv
<1> QED  BY <1>1, <1>2

\* For any number of projects, nodes, loads, saves and jobs: a stored node
\* stays in its project, and an artifact stays stored.
THEOREM NodesStay == FlowSpec => NodesStayHome
<1>1. PlacesOK /\ HomeInv /\ [FlowNext]_flowVars
        => /\ PlacesOK' /\ HomeInv'
           /\ \A n \in NodeIds : home[n] # NoNode =>
                home'[n] \in {home[n]} \union (IF n \in Artifacts THEN {} ELSE {NoNode})
  BY PlacesStep, HomeStep, StayStep
<1> QED
  BY <1>1, HomeInit, PTL DEF FlowSpec, NodesStayHome

-----------------------------------------------------------------------------
(* The history of versions. *)

HistoryOK ==
  /\ past \in [Projects -> Seq(AnyGraph)]
  /\ \A p \in Projects : Len(past[p]) <= KeepLast
  /\ authored \in [Projects -> SUBSET NodeIds]

\* The last k elements of a sequence.
LEMMA LastOfDoes ==
  ASSUME NEW S, NEW s \in Seq(S), NEW k \in Nat
  PROVE  /\ LastOf(k, s) \in Seq(S)
         /\ Len(LastOf(k, s)) <= k
         /\ Len(LastOf(k, s)) < k => LastOf(k, s) = s
<1>1. CASE Len(s) <= k
  BY <1>1 DEF LastOf
<1>2. CASE ~ (Len(s) <= k)
  <2>1. Len(s) \in Nat /\ LastOf(k, s) = SubSeq(s, Len(s) - k + 1, Len(s))
    BY <1>2 DEF LastOf
  <2>2. \A i \in Len(s) - k + 1 .. Len(s) : s[i] \in S
    BY <1>2, <2>1
  <2>3. /\ SubSeq(s, Len(s) - k + 1, Len(s)) \in Seq(S)
        /\ Len(SubSeq(s, Len(s) - k + 1, Len(s))) = k
    <3> DEFINE m == Len(s) - k + 1
    <3>1. m \in Int /\ Len(s) \in Int /\ Len(s) - m + 1 = k /\ (k # 0 => m <= Len(s))
      BY <1>2, <2>1
    <3>2. k = 0 => ~ (m <= Len(s))  BY <2>1
    <3> HIDE DEF m
    <3>3. /\ SubSeq(s, m, Len(s)) \in Seq(S)
          /\ Len(SubSeq(s, m, Len(s))) = IF m <= Len(s) THEN Len(s) - m + 1 ELSE 0
      BY <2>2, <3>1, SubSeqProperties DEF m
    <3> QED  BY <3>1, <3>2, <3>3 DEF m
  <2> QED  BY <2>1, <2>3
<1> QED  BY <1>1, <1>2

\* A version that is kept is put at the end of the history, which keeps all
\* of the versions before unless it is full.
LEMMA SnapshotDoes ==
  ASSUME PlacesOK, HistoryOK, NEW p \in Projects
  PROVE  /\ Snapshot(p) \in Seq(AnyGraph) /\ Len(Snapshot(p)) <= KeepLast
         /\ Len(Snapshot(p)) < KeepLast =>
              Snapshot(p) = IF NodesOf(p) = {} THEN past[p] ELSE Append(past[p], GraphOf(p))
<1>1. past[p] \in Seq(AnyGraph) /\ Len(past[p]) <= KeepLast  BY DEF HistoryOK
<1>2. GraphOf(p) \in AnyGraph  BY GraphOfTypes
<1>3. Append(past[p], GraphOf(p)) \in Seq(AnyGraph)  BY <1>1, <1>2
<1>4. KeepLast \in Nat  BY FlowAssumption DEF FlowAssumption
<1>5. LET s == LastOf(KeepLast, Append(past[p], GraphOf(p))) IN
      /\ s \in Seq(AnyGraph) /\ Len(s) <= KeepLast
      /\ Len(s) < KeepLast => s = Append(past[p], GraphOf(p))
  BY <1>3, <1>4, LastOfDoes
<1> QED  BY <1>1, <1>5 DEF Snapshot

\* What a step writes to the store: nothing, one graph, or one node, and no
\* node that another project has.
LEMMA StoreWrites ==
  ASSUME PlacesOK, HomeInv, [FlowNext]_flowVars
  PROVE  \/ UNCHANGED <<home, past, authored>>
         \/ \E p \in Projects, g \in AnyGraph :
              SaveProjectGraph(p, g) /\ \A n \in g.nodes : home[n] \in {p, NoNode}
         \/ \E p \in Projects, n \in NodeIds :
              /\ home[n] \in {p, NoNode} /\ home' = [home EXCEPT ![n] = p]
              /\ authored' = [authored EXCEPT ![p] = @ \union {n}]
              /\ UNCHANGED past
<1>0. \A n \in NodeIds, p \in Projects : Has(n, p) \/ n \in Fresh => home[n] \in {p, NoNode}
  <2> SUFFICES ASSUME NEW n \in NodeIds, NEW p \in Projects, Has(n, p) \/ n \in Fresh,
                      home[n] # NoNode
               PROVE  home[n] = p
    OBVIOUS
  <2>1. home[n] \in Projects /\ Has(n, home[n])
    BY DEF PlacesOK, Has
  <2> QED  BY <2>1 DEF HomeInv, Fresh
<1>1. CASE SaveServer
  <2>1. saving \in [project : Projects, graph : AnyGraph, done : BOOLEAN] /\ saving # NoNode
    BY <1>1 DEF SaveServer, PlacesOK
  <2>2. SaveProjectGraph(saving.project, saving.graph)
    BY <1>1 DEF SaveServer
  <2>3. saving.project \in Projects /\ saving.graph \in AnyGraph /\ saving.graph.nodes \subseteq NodeIds
    BY <2>1 DEF AnyGraph
  <2>4. \A n \in saving.graph.nodes : Has(n, saving.project)
    BY <2>1 DEF Has
  <2> QED
    BY <1>0, <2>2, <2>3, <2>4
<1>2. ASSUME NEW j \in Jobs, NEW p \in Projects, NEW root \in Fresh, NEW kind,
             NEW rest \in SUBSET (Fresh \ {root}), Import(j, p, root, rest, kind)
      PROVE  \E g \in AnyGraph :
               SaveProjectGraph(p, g) /\ \A n \in g.nodes : home[n] \in {p, NoNode}
  <2>1. /\ ImportedGraph(root, rest) \in AnyGraph
        /\ ImportedGraph(root, rest).nodes = {root} \union rest
    BY ImportedTypes DEF Fresh
  <2>2. SaveProjectGraph(p, ImportedGraph(root, rest))
    BY <1>2 DEF Import
  <2>3. \A n \in ImportedGraph(root, rest).nodes : n \in Fresh /\ n \in NodeIds
    BY <2>1 DEF Fresh
  <2> QED
    BY <1>0, <2>1, <2>2, <2>3
<1>3. ASSUME NEW j \in Jobs, AttachStats(j)
      PROVE  \E p \in Projects, n \in NodeIds :
               /\ home[n] \in {p, NoNode} /\ home' = [home EXCEPT ![n] = p]
               /\ authored' = [authored EXCEPT ![p] = @ \union {n}]
               /\ UNCHANGED past
  <2>1. job[j].at = "text" /\ job[j].project \in Projects /\ job[j].node \in NodeIds
    BY <1>3 DEF AttachStats, PlacesOK, JobType
  <2>2. Has(job[j].node, job[j].project)  BY <2>1 DEF Has
  <2> QED  BY <1>0, <1>3, <2>1, <2>2 DEF AttachStats
<1>4. ASSUME NEW j \in Jobs, NEW p \in Projects, NEW n \in NodeIds, ExtractNode(j, p, n)
      PROVE  /\ home[n] \in {p, NoNode} /\ home' = [home EXCEPT ![n] = p]
             /\ authored' = [authored EXCEPT ![p] = @ \union {n}]
             /\ UNCHANGED past
  BY <1>0, <1>4 DEF ExtractNode
<1>5. CASE \/ UNCHANGED flowVars
           \/ \E p \in Projects : Select(p) \/ Imported(p)
           \/ \E l \in loads : AnswerLoad(l) \/ ShowLoad(l) \/ LoseLoad(l)
           \/ \E n \in Fresh : ResetRoot(n) \/ \E parent \in NodeIds : AddChild(parent, n)
           \/ \E n \in NodeIds : DeleteSelected(n)
           \/ SaveSend \/ SaveReply \/ SaveFails
           \/ \E j \in Jobs : ExtractLink(j)
  BY <1>5
  DEF flowVars, flow, Select, Imported, AnswerLoad, ShowLoad, LoseLoad, ResetRoot,
      AddChild, DeleteSelected, SaveSend, SaveReply, SaveFails, ExtractLink
<1> QED
  BY <1>1, <1>2, <1>3, <1>4, <1>5 DEF FlowNext

\* The nodes that a project ever had are there or in a kept version.
Kept(p) == NodesOf(p) \union UNION {past[p][i].nodes : i \in DOMAIN past[p]}

\* A save keeps what it replaces in the history of its project.
LEMMA SaveKeeps ==
  ASSUME PlacesOK, HistoryOK, NEW p \in Projects, NEW g \in AnyGraph, SaveProjectGraph(p, g),
         Len(past'[p]) < KeepLast
  PROVE  Len(past[p]) < KeepLast /\ Kept(p) \subseteq Kept(p)'
<1>1. past'[p] = Snapshot(p)  BY DEF SaveProjectGraph, HistoryOK
<1>2. past'[p] = IF NodesOf(p) = {} THEN past[p] ELSE Append(past[p], GraphOf(p))
  BY <1>1, SnapshotDoes
<1>3. past[p] \in Seq(AnyGraph) /\ GraphOf(p) \in AnyGraph /\ GraphOf(p).nodes = NodesOf(p)
  BY GraphOfTypes DEF HistoryOK, GraphOf
<1>4. KeepLast \in Nat  BY FlowAssumption DEF FlowAssumption
<1>5. CASE NodesOf(p) = {}
  BY <1>2, <1>5 DEF Kept
<1>6. CASE NodesOf(p) # {}
  <2>1. /\ past'[p] = Append(past[p], GraphOf(p)) /\ Len(past[p]) \in Nat
        /\ Len(past'[p]) = Len(past[p]) + 1
        /\ \A i \in 1..Len(past[p]) : past'[p][i] = past[p][i]
        /\ past'[p][Len(past[p]) + 1] = GraphOf(p)
        /\ DOMAIN past[p] = 1..Len(past[p]) /\ DOMAIN past'[p] = 1..Len(past[p]) + 1
    BY <1>2, <1>3, <1>6
  <2>2. \A n \in Kept(p) : n \in Kept(p)'
    <3>1. \A n \in NodesOf(p) : n \in past'[p][Len(past[p]) + 1].nodes
      BY <1>3, <2>1
    <3>2. Len(past[p]) + 1 \in DOMAIN past'[p] /\ DOMAIN past[p] \subseteq DOMAIN past'[p]
      BY <2>1
    <3> QED  BY <2>1, <3>1, <3>2 DEF Kept
  <2> QED  BY <1>4, <2>1, <2>2
<1> QED  BY <1>5, <1>6

\* Every step keeps the types of the history.
LEMMA HistoryStep ==
  ASSUME PlacesOK, HomeInv, HistoryOK, [FlowNext]_flowVars
  PROVE  HistoryOK'
<1>1. CASE UNCHANGED <<home, past, authored>>
  BY <1>1 DEF HistoryOK
<1>2. ASSUME NEW p \in Projects, NEW g \in AnyGraph, SaveProjectGraph(p, g)  PROVE HistoryOK'
  <2>1. g.nodes \subseteq NodeIds  BY DEF AnyGraph
  <2>2. past' = [past EXCEPT ![p] = Snapshot(p)]
        /\ authored' = [authored EXCEPT ![p] = @ \union g.nodes]
    BY <1>2 DEF SaveProjectGraph
  <2> QED  BY <2>1, <2>2, SnapshotDoes DEF HistoryOK
<1>3. ASSUME NEW p \in Projects, NEW n \in NodeIds,
             authored' = [authored EXCEPT ![p] = @ \union {n}], UNCHANGED past
      PROVE  HistoryOK'
  BY <1>3 DEF HistoryOK
<1> QED  BY <1>1, <1>2, <1>3, StoreWrites

\* No step takes from a project what it had, unless its history is full.
LEMMA RecoverableStep ==
  ASSUME PlacesOK, HomeInv, HistoryOK, WorkRecoverable, [FlowNext]_flowVars
  PROVE  WorkRecoverable'
<1>0. \A p \in Projects : Len(past[p]) < KeepLast => authored[p] \subseteq Kept(p)
  BY DEF WorkRecoverable, Kept
<1> SUFFICES \A q \in Projects :
               Len(past'[q]) < KeepLast => authored'[q] \subseteq Kept(q)'
  BY DEF WorkRecoverable, Kept
<1>1. CASE UNCHANGED <<home, past, authored>>
  BY <1>0, <1>1 DEF Kept, NodesOf
<1>2. ASSUME NEW p \in Projects, NEW g \in AnyGraph, SaveProjectGraph(p, g),
             \A n \in g.nodes : home[n] \in {p, NoNode}
      PROVE  \A q \in Projects :
               Len(past'[q]) < KeepLast => authored'[q] \subseteq Kept(q)'
  <2>1. g.nodes \subseteq NodeIds  BY DEF AnyGraph
  <2>3. ASSUME NEW q \in Projects, q # p, Len(past'[q]) < KeepLast
        PROVE  authored'[q] \subseteq Kept(q)'
    <3>1. past'[q] = past[q] /\ authored'[q] = authored[q]
      BY <1>2, <2>3 DEF SaveProjectGraph, HistoryOK
    <3>2. \A n \in NodeIds : home[n] = q => home'[n] = q
      BY <1>2, <2>3, SavedHomes, FlowAssumption DEF FlowAssumption
    <3> QED  BY <1>0, <2>3, <3>1, <3>2 DEF Kept, NodesOf
  <2>4. ASSUME Len(past'[p]) < KeepLast  PROVE authored'[p] \subseteq Kept(p)'
    <3>1. authored'[p] = authored[p] \union g.nodes
      BY <1>2 DEF SaveProjectGraph, HistoryOK
    <3>2. \A n \in g.nodes : home'[n] = p  BY <1>2, <2>1, SavedHomes
    <3>3. g.nodes \subseteq Kept(p)'  BY <2>1, <3>2 DEF Kept, NodesOf
    <3> QED  BY <1>0, <1>2, <2>4, <3>1, <3>3, SaveKeeps
  <2> QED  BY <2>3, <2>4
<1>3. ASSUME NEW p \in Projects, NEW n \in NodeIds,
             home[n] \in {p, NoNode}, home' = [home EXCEPT ![n] = p],
             authored' = [authored EXCEPT ![p] = @ \union {n}], UNCHANGED past
      PROVE  \A q \in Projects :
               Len(past'[q]) < KeepLast => authored'[q] \subseteq Kept(q)'
  <2>2. \A q \in Projects : NodesOf(q) \subseteq NodesOf(q)'
    BY <1>3, FlowAssumption DEF NodesOf, PlacesOK, FlowAssumption
  <2>3. n \in NodesOf(p)'  BY <1>3 DEF NodesOf, PlacesOK
  <2>4. \A q \in Projects : authored'[q] \subseteq authored[q] \union (IF q = p THEN {n} ELSE {})
    BY <1>3 DEF HistoryOK
  <2> QED  BY <1>0, <1>3, <2>2, <2>3, <2>4 DEF Kept
<1> QED  BY <1>1, <1>2, <1>3, StoreWrites

\* For any number of projects, nodes, jobs, loads and saves: whatever anybody
\* stored in a flow is there or in a kept version, however many copies of it
\* are edited and saved side by side, until the history has been cut.
THEOREM WorkStaysRecoverable == FlowSpec => []WorkRecoverable
<1>1. FlowInit => HistoryOK /\ WorkRecoverable
  <2> SUFFICES ASSUME FlowInit PROVE HistoryOK /\ WorkRecoverable
    OBVIOUS
  <2>1. past = [p \in Projects |-> <<>>] /\ authored = [p \in Projects |-> NodesOf(p)]
    BY DEF FlowInit, NodesOf
  <2> QED
    BY <2>1, FlowAssumption DEF FlowAssumption, HistoryOK, WorkRecoverable, NodesOf
<1>2. PlacesOK /\ HomeInv /\ HistoryOK /\ WorkRecoverable /\ [FlowNext]_flowVars
        => PlacesOK' /\ HomeInv' /\ HistoryOK' /\ WorkRecoverable'
  BY PlacesStep, HomeStep, HistoryStep, RecoverableStep
<1> QED
  BY <1>1, <1>2, HomeInit, PTL DEF FlowSpec

-----------------------------------------------------------------------------
(* Types: a version is at most one more than the number of saves. *)

GraphsTo(v) == {g \in AnyGraph : g.version \in 1..v}
VersionsOK ==
  /\ saves \in 0..MaxSaves
  /\ drawn \subseteq NodeIds
  /\ \A p \in Projects : meta[p].version \in 1..saves + 1
  /\ \A p \in Projects : past[p] \in Seq(GraphsTo(saves + 1))
  /\ page.shown # NoNode => page.shown.version \in 1..saves + 1
  /\ \A l \in loads : l.answer # NoNode => l.answer.version \in 1..saves + 1
  /\ saving # NoNode => saving.graph.version \in 1..saves + 1

\* A save adds one to the version of its graph at most, and keeps in the
\* history what the project had.
LEMMA SaveCounts ==
  ASSUME PlacesOK, HistoryOK, VersionsOK, NEW p \in Projects, NEW g \in AnyGraph,
         g.version \in 1..saves + 1, SaveProjectGraph(p, g)
  PROVE  /\ saves' = saves + 1 /\ saves' \in 0..MaxSaves
         /\ VersionAfter(p, g) \in 1..saves' + 1
         /\ \A q \in Projects : meta'[q].version \in 1..saves' + 1
         /\ \A q \in Projects : past'[q] \in Seq(GraphsTo(saves' + 1))
<1>1. saves \in Nat /\ saves' = saves + 1 /\ saves' \in 0..MaxSaves
  BY FlowAssumption DEF SaveProjectGraph, VersionsOK, FlowAssumption
<1>2. VersionAfter(p, g) \in 1..saves' + 1
  BY <1>1 DEF VersionAfter
<1>3. ASSUME NEW q \in Projects  PROVE meta'[q].version \in 1..saves' + 1
  BY <1>1, <1>2 DEF SaveProjectGraph, VersionsOK, PlacesOK
<1>4. GraphsTo(saves + 1) \subseteq GraphsTo(saves' + 1)
  BY <1>1 DEF GraphsTo
<1>5. \A q \in Projects : past[q] \in Seq(GraphsTo(saves' + 1))
  <2> SUFFICES ASSUME NEW q \in Projects  PROVE past[q] \in Seq(GraphsTo(saves' + 1))
    OBVIOUS
  <2>1. past[q] \in Seq(GraphsTo(saves + 1))  BY DEF VersionsOK
  <2> QED  BY <1>4, <2>1
<1>6. GraphOf(p) \in GraphsTo(saves' + 1)
  BY <1>1, GraphOfTypes DEF GraphsTo, GraphOf, VersionsOK
<1>7. Snapshot(p) \in Seq(GraphsTo(saves' + 1))
  <2>1. Append(past[p], GraphOf(p)) \in Seq(GraphsTo(saves' + 1))
    BY <1>5, <1>6
  <2> QED  BY <1>5, <2>1, LastOfDoes, FlowAssumption DEF Snapshot, FlowAssumption
<1>8. past' = [past EXCEPT ![p] = Snapshot(p)]  BY DEF SaveProjectGraph
<1> QED  BY <1>1, <1>2, <1>3, <1>5, <1>7, <1>8 DEF HistoryOK

\* Every step keeps versions behind the number of saves.
LEMMA VersionsStep ==
  ASSUME PlacesOK, HistoryOK, VersionsOK, [FlowNext]_flowVars
  PROVE  VersionsOK'
<1> DEFINE Load == [project : Projects, live : BOOLEAN, answer : AnyGraph \union {NoNode}]
           Few(g) == g # NoNode => g.version \in 1..saves + 1
<1>0. /\ loads \subseteq Load
      /\ page \in [project : Projects, shown : AnyGraph \union {NoNode}]
      /\ saving \in [project : Projects, graph : AnyGraph, done : BOOLEAN] \union {NoNode}
      /\ Few(page.shown) /\ \A l \in loads : Few(l.answer)
      /\ saving # NoNode => saving.graph.version \in 1..saves + 1
      /\ saves \in Nat
  BY DEF PlacesOK, VersionsOK
<1>1. CASE UNCHANGED flowVars
  BY <1>1 DEF flowVars, flow, VersionsOK
<1>2. ASSUME NEW p \in Projects, Select(p) \/ Imported(p)  PROVE VersionsOK'
  <2>1. \A l \in loads : [l EXCEPT !.live = FALSE].answer = l.answer  BY <1>0
  <2>2. \A l \in loads' : Few(l.answer)  BY <1>0, <1>2, <2>1 DEF Select, Imported
  <2>3. Few(page'.shown)  BY <1>0, <1>2 DEF Select, Imported
  <2> QED  BY <1>2, <2>2, <2>3 DEF Select, Imported, flow, VersionsOK
<1>3. ASSUME NEW l \in loads, AnswerLoad(l) \/ ShowLoad(l) \/ LoseLoad(l)  PROVE VersionsOK'
  <2>0. l.project \in Projects /\ l \in Load  BY <1>0
  <2>1. [l EXCEPT !.answer = GraphOf(l.project)].answer.version = meta[l.project].version
    BY <2>0 DEF GraphOf
  <2>2. \A k \in loads' : Few(k.answer)
    BY <1>0, <1>3, <2>0, <2>1 DEF AnswerLoad, ShowLoad, LoseLoad, VersionsOK
  <2>3. Few(page'.shown)  BY <1>0, <1>3 DEF AnswerLoad, ShowLoad, LoseLoad
  <2> QED  BY <1>3, <2>2, <2>3 DEF AnswerLoad, ShowLoad, LoseLoad, flow, VersionsOK
<1>4. ASSUME NEW n \in NodeIds,
             \/ n \in Fresh /\ ResetRoot(n)
             \/ \E parent \in NodeIds : n \in Fresh /\ AddChild(parent, n)
             \/ DeleteSelected(n)
      PROVE  VersionsOK'
  <2>1. page.shown \in AnyGraph /\ page.shown.version \in 1..saves + 1
    BY <1>0, <1>4 DEF ResetRoot, AddChild, DeleteSelected
  <2>2. page'.shown.version \in 1..saves + 1
    <3>1. \E g : Show(g) /\ g.version \in {1, page.shown.version}
      <4>1. CASE ResetRoot(n)
        <5> DEFINE g == [root |-> n, version |-> 1, nodes |-> {n}, links |-> {}]
        <5>1. Show(g) /\ g.version = 1  BY <4>1 DEF ResetRoot
        <5> QED  BY <5>1
      <4>2. CASE DeleteSelected(n)
        <5> DEFINE g == [page.shown EXCEPT !.nodes = @ \ {n},
                                           !.links = {l \in @ : n \notin {l[1], l[2]}}]
        <5>1. Show(g)  BY <4>2 DEF DeleteSelected
        <5>2. g.version = page.shown.version  BY <2>1 DEF AnyGraph
        <5> QED  BY <5>1, <5>2
      <4>3. ASSUME NEW parent \in NodeIds, AddChild(parent, n)
            PROVE  \E g : Show(g) /\ g.version \in {1, page.shown.version}
        <5> DEFINE g == [page.shown EXCEPT !.nodes = @ \union {n},
                                           !.links = @ \union {<<parent, n>>}]
        <5>1. Show(g)  BY <4>3 DEF AddChild
        <5>2. g.version = page.shown.version  BY <2>1 DEF AnyGraph
        <5> QED  BY <5>1, <5>2
      <4> QED  BY <1>4, <4>1, <4>2, <4>3
    <3> QED  BY <1>0, <2>1, <3>1 DEF Show
  <2>3. drawn' \subseteq NodeIds
    BY <1>4 DEF ResetRoot, AddChild, DeleteSelected, VersionsOK
  <2> QED  BY <1>4, <2>2, <2>3 DEF ResetRoot, AddChild, DeleteSelected, flow, VersionsOK
<1>5. CASE SaveSend \/ SaveReply \/ SaveFails
  <2>1. Few(page'.shown)  BY <1>0, <1>5 DEF SaveSend, SaveReply, SaveFails
  <2>2. saving' # NoNode => saving'.graph.version \in 1..saves + 1
    BY <1>0, <1>5 DEF SaveSend, SaveReply, SaveFails
  <2> QED  BY <1>5, <2>1, <2>2 DEF SaveSend, SaveReply, SaveFails, flow, VersionsOK
<1>6. CASE SaveServer
  <2> DEFINE p == saving.project
             g == saving.graph
  <2>1. saving \in [project : Projects, graph : AnyGraph, done : BOOLEAN] /\ saving # NoNode
    BY <1>6 DEF SaveServer, PlacesOK
  <2>2. p \in Projects /\ g \in AnyGraph /\ g.version \in 1..saves + 1 /\ SaveProjectGraph(p, g)
    BY <1>0, <1>6, <2>1 DEF SaveServer
  <2>3. /\ saves' = saves + 1 /\ saves' \in 0..MaxSaves
        /\ VersionAfter(p, g) \in 1..saves' + 1
        /\ \A q \in Projects : meta'[q].version \in 1..saves' + 1
        /\ \A q \in Projects : past'[q] \in Seq(GraphsTo(saves' + 1))
    BY <2>2, SaveCounts
  <2>4. saving'.graph.version = VersionAfter(p, g)
    BY <1>6, <2>1 DEF SaveServer, AnyGraph
  <2> HIDE DEF p, g
  <2> QED  BY <1>0, <1>6, <2>3, <2>4 DEF SaveServer, VersionsOK
<1>7. ASSUME NEW j \in Jobs, NEW p \in Projects, NEW root \in Fresh, NEW kind,
             NEW rest \in SUBSET (Fresh \ {root}), Import(j, p, root, rest, kind)
      PROVE  VersionsOK'
  <2> DEFINE g == ImportedGraph(root, rest)
  <2>1. g \in AnyGraph /\ g.version \in 1..saves + 1 /\ SaveProjectGraph(p, g)
    BY <1>0, <1>7, ImportedTypes DEF Import, Fresh, ImportedGraph
  <2>2. /\ saves' = saves + 1 /\ saves' \in 0..MaxSaves
        /\ \A q \in Projects : meta'[q].version \in 1..saves' + 1
        /\ \A q \in Projects : past'[q] \in Seq(GraphsTo(saves' + 1))
    BY <2>1, SaveCounts
  <2>3. drawn' \subseteq NodeIds  BY <1>7 DEF Import, Fresh, VersionsOK
  <2> QED  BY <1>0, <1>7, <2>2, <2>3 DEF Import, VersionsOK
<1>8. ASSUME NEW j \in Jobs, AttachStats(j) \/ ExtractLink(j)
             \/ \E p \in Projects, n \in NodeIds : ExtractNode(j, p, n)
      PROVE  VersionsOK'
  BY <1>8 DEF AttachStats, ExtractLink, ExtractNode, VersionsOK
<1> QED
  BY <1>1, <1>2, <1>3, <1>4, <1>5, <1>6, <1>7, <1>8 DEF FlowNext, Fresh

\* The store, the page, what is on its way and the jobs are well formed; the
\* history has at most KeepLast versions, and no version is more than one
\* ahead of the saves.
THEOREM FlowTypeCorrect == FlowSpec => []FlowTypeOK
<1>1. FlowInit => HistoryOK /\ VersionsOK
  <2> SUFFICES ASSUME FlowInit PROVE HistoryOK /\ VersionsOK
    OBVIOUS
  <2>1. past = [p \in Projects |-> <<>>] /\ authored = [p \in Projects |-> NodesOf(p)]
    BY DEF FlowInit, NodesOf
  <2>2. HistoryOK
    BY <2>1, FlowAssumption DEF FlowAssumption, HistoryOK, NodesOf
  <2>3. VersionsOK
    BY <2>1, FlowAssumption DEF FlowAssumption, VersionsOK, FlowInit
  <2> QED  BY <2>2, <2>3
<1>2. PlacesOK /\ HomeInv /\ HistoryOK /\ VersionsOK /\ [FlowNext]_flowVars
        => PlacesOK' /\ HomeInv' /\ HistoryOK' /\ VersionsOK'
  BY PlacesStep, HomeStep, HistoryStep, VersionsStep
<1>3. PlacesOK /\ HistoryOK /\ VersionsOK => FlowTypeOK
  <2> SUFFICES ASSUME PlacesOK, HistoryOK, VersionsOK PROVE FlowTypeOK
    OBVIOUS
  <2>0. saves \in Nat /\ saves <= MaxSaves /\ MaxSaves \in Nat
    BY FlowAssumption DEF FlowAssumption, VersionsOK
  <2>1. \A g \in AnyGraph : g.version \in 1..saves + 1 => g \in Graph
    BY <2>0 DEF AnyGraph, Graph
  <2>2. page \in [project : Projects, shown : Shown]
    BY <2>1 DEF PlacesOK, VersionsOK, Shown
  <2>3. loads \subseteq [project : Projects, live : BOOLEAN, answer : Shown]
    BY <2>1 DEF PlacesOK, VersionsOK, Shown
  <2>4. saving \in [project : Projects, graph : Graph, done : BOOLEAN] \union {NoNode}
    BY <2>1 DEF PlacesOK, VersionsOK
  <2>5. meta \in [Projects -> [root : NodeIds \union {NoNode}, version : 1..MaxSaves + 1]]
    <3>1. \A p \in Projects : meta[p].version \in 1..MaxSaves + 1
      BY <2>0 DEF VersionsOK
    <3> QED  BY <3>1 DEF PlacesOK
  <2>6. past \in [Projects -> Seq(Graph)]
    <3>1. GraphsTo(saves + 1) \subseteq Graph  BY <2>1 DEF GraphsTo
    <3>2. ASSUME NEW p \in Projects  PROVE past[p] \in Seq(Graph)
      <4>1. past[p] \in Seq(GraphsTo(saves + 1))  BY DEF VersionsOK
      <4> QED  BY <3>1, <4>1
    <3> QED  BY <3>2 DEF HistoryOK
  <2> QED
    BY <2>2, <2>3, <2>4, <2>5, <2>6 DEF FlowTypeOK, PlacesOK, HistoryOK, VersionsOK, JobType
<1> QED
  BY <1>1, <1>2, <1>3, HomeInit, PTL DEF FlowSpec
=============================================================================
