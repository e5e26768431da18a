----------------------------- MODULE MCServices -----------------------------
(* Instances of the components that share nothing with each other, for TLC: *)
(* each behaviour is one of them, the others stay as they began.            *)
EXTENDS FlowGraph, CoverageGaps, AnalysisStream, KnowledgeBase, AtlassianConnection

CONSTANTS p1, p2, n0, n1, n2, bug, need
VARIABLE component

\* FlowGraph: one node is stored.
OneStored == [n \in NodeIds |-> IF n = n1 THEN p1 ELSE NoNode]

\* What an import makes of a flow needs no repair.
ASSUME \A rest \in SUBSET (NodeIds \ {n1}) :
         Repaired(ImportedGraph(n1, rest)) = ImportedGraph(n1, rest)

\* CoverageGaps: two branches, or a branch that turns back; tests that a model
\* or the rules draft; a library that is empty, or has a test of the first gap.
Branches == {{<<n0, n1>>, <<n0, n2>>}, {<<n0, n1>>, <<n1, n2>>, <<n2, n1>>}}
Draft(sort, about, path, steps, cites) ==
  [sort |-> sort, about |-> about, path |-> path, steps |-> steps, cites |-> cites]
SomeDrafts == {Draft("path", {n0, n1}, <<n0, n1>>, "walk", {n2}),
               Draft("gap", {n0, n2}, <<n0, n2>>, "fault", {need}),
               Draft("path", {n1}, <<n0>>, "other", {bug})}
PathOfBug == [x \in Bugs |-> <<n0, n1>>]
NoneOrOne == {[n \in 1..MaxCases |-> NoCase],
              [n \in 1..MaxCases |-> IF n = 1 THEN Draft("gap", {n0, n2}, <<n0, n2>>, "walk", {})
                                     ELSE NoCase]}

\* The search for paths finds the simple paths that cannot be made longer.
ASSUME \A arrows \in SUBSET (Names \X Names) : \A depth \in 1..3 :
         DiscoverPaths(arrows, n0, depth) = LongestPaths(arrows, Names, n0, depth)

\* AnalysisStream: one model for everything, and a strong one.
OneModel == [t \in Tasks |-> "mini"]

Init ==
  /\ component \in {"flow", "gaps", "stream", "knowledge", "atlassian"}
  /\ FlowInit /\ GapInit /\ StreamInit /\ KnowledgeInit /\ ConnectionInit
  \* one initial state of those that do not take part
  /\ component # "gaps" => /\ tree = CHOOSE t \in Flows : TRUE
                           /\ cases = CHOOSE library \in Libraries : TRUE
                           /\ gapLimit = CHOOSE limit \in GapLimits : TRUE
                           /\ regen
  /\ component # "knowledge" => remote = [n \in Pages |-> CHOOSE x \in Texts : TRUE]

Next ==
  \/ /\ component = "flow" /\ FlowNext
     /\ UNCHANGED <<component, gapVars, streamVars, knowledgeVars, connectionVars>>
  \/ /\ component = "gaps" /\ GapNext
     /\ UNCHANGED <<component, flowVars, streamVars, knowledgeVars, connectionVars>>
  \/ /\ component = "stream" /\ StreamNext
     /\ UNCHANGED <<component, flowVars, gapVars, knowledgeVars, connectionVars>>
  \/ /\ component = "knowledge" /\ KnowledgeNext
     /\ UNCHANGED <<component, flowVars, gapVars, streamVars, connectionVars>>
  \/ /\ component = "atlassian" /\ ConnectionNext
     /\ UNCHANGED <<component, flowVars, gapVars, streamVars, knowledgeVars>>

vars == <<component, flowVars, gapVars, streamVars, knowledgeVars, connectionVars>>
Spec == Init /\ [][Next]_vars /\ StreamFairness

\* Types of the five components.
ServicesTypeOK ==
  /\ FlowTypeOK /\ GapTypeOK /\ StreamTypeOK /\ KnowledgeTypeOK /\ ConnectionTypeOK
=============================================================================
