---------------------------- MODULE FlowTraversal ----------------------------
(***************************************************************************)
(* What the engines of the backend read off a flow graph: the paths from   *)
(* its root and the nodes that a change of one node touches.  A flow is a  *)
(* set of links, pairs of nodes of one project; parallel edges count once. *)
(***************************************************************************)
EXTENDS Naturals, Sequences, FiniteSets

Outgoing(links, n) == {l[2] : l \in {m \in links : m[1] = n}}
Incoming(links, n) == {l[1] : l \in {m \in links : m[2] = n}}
Neighbors(links, n) == Outgoing(links, n) \union Incoming(links, n)

NamesOn(path) == {path[i] : i \in DOMAIN path}
Leaf(path)    == path[Len(path)]

\* The children that the search has not met on its way down.
Unvisited(links, path) == Outgoing(links, Leaf(path)) \ NamesOn(path)

\* discover_paths: the search goes down level by level; a path ends where
\* nothing is left to visit, or at the depth limit.
DiscoverPaths(links, root, depth) ==
  LET walks[k \in 0..depth] ==
        IF k = 0 THEN {<<root>>}
        ELSE UNION {{Append(w, n) : n \in Unvisited(links, w)} : w \in walks[k - 1]}
  IN  {w \in UNION {walks[k] : k \in 0..depth} :
         Unvisited(links, w) = {} \/ Len(w) = depth + 1}

\* impact_subgraph: breadth first, along the edges and against them.
ImpactSubgraph(links, changed, depth) ==
  LET reached[k \in 0..depth] ==
        IF k = 0 THEN {changed}
        ELSE reached[k - 1] \union UNION {Neighbors(links, n) : n \in reached[k - 1]}
  IN  [direct   |-> reached[1] \ {changed},
       indirect |-> reached[depth] \ (reached[1] \union {changed})]

-----------------------------------------------------------------------------
\* Reference: the simple paths from root of at most depth edges that cannot be
\* made longer, or that have depth edges.
SimplePaths(links, nodes, root, depth) ==
  {p \in UNION {[1..k -> nodes] : k \in 1..Cardinality(nodes)} :
     /\ Len(p) <= depth + 1 /\ p[1] = root
     /\ \A i, j \in DOMAIN p : p[i] = p[j] => i = j
     /\ \A i \in 1..Len(p) - 1 : <<p[i], p[i + 1]>> \in links}
LongestPaths(links, nodes, root, depth) ==
  LET simple == SimplePaths(links, nodes, root, depth)
  IN  {p \in simple : Len(p) = depth + 1
                      \/ \A n \in nodes : Append(p, n) \notin simple}
=============================================================================
