----------------------------- MODULE CoverageGaps -----------------------------
(***************************************************************************)
(* Targeted regeneration: what an analysis run does with the tests it has  *)
(* generated.  It compares them with the paths of the flow, the historical *)
(* bugs and the requirements, turns what is missing into gaps, asks for    *)
(* tests of the most important ones in at most two rounds, drops           *)
(* duplicates, and reports what is still open.  The coverage engine reads  *)
(* the stored tests of the project, which other requests may delete.       *)
(***************************************************************************)
EXTENDS FlowTraversal, SequencesExt

CONSTANTS
  Names,        \* nodes of the flow
  Root,         \* its root
  Flows,        \* flows an instance starts with: sets of links
  Depth,        \* depth limit of the path search (8)
  Risky,        \* names that say an outside identity provider
  Failing,      \* names that say failure
  FailureNodes, \* nodes marked as failure paths
  Dependencies, \* nodes marked as external dependencies
  CriticalNodes, \* nodes marked as critical
  Bugs,         \* historical bugs of the project
  BugPath,      \* graph_path of every bug
  SevereBugs,   \* bugs of high or critical severity
  Needs,        \* requirements the retrieval brought back
  UrgentNeeds,  \* those whose text says must, shall, required or critical
  Drafts,       \* tests the model may write
  Libraries,    \* stored tests an instance starts with
  MaxCases,     \* bound: numbers of stored tests
  MaxSuite,     \* bound: tests the model writes for the first suite
  PerGap,       \* tests kept of one answer to a gap (3)
  GapLimits,    \* values of max_gaps_per_round
  MaxRounds,    \* rounds of regeneration (2)
  KnownLimit,   \* stored tests that the fused context holds (40)
  NoCase        \* no test

Topics == Names \union Bugs \union Needs
Kinds  == {"path", "failing", "branch", "failure", "risk", "bug", "requirement"}
Paths  == UNION {[1..k -> Names] : k \in 1..Cardinality(Names)}

\* Tests.  A title says what sort of test it is and what it is about; sort
\* "regression" also stands for a category or a text that speaks of a bug.
Case == [sort : {"path", "again", "gap", "negative", "requirement", "regression", "renamed"},
         about : SUBSET Topics, path : Paths, steps : {"walk", "fault", "other"},
         cites : SUBSET Topics]
Numbered == [id : 1..MaxCases, test : Case]

ASSUME GapAssumption ==
  /\ IsFiniteSet(Names) /\ Root \in Names
  /\ Flows \subseteq SUBSET (Names \X Names)
  /\ Risky \union Failing \union FailureNodes \union Dependencies \union CriticalNodes \subseteq Names
  /\ BugPath \in [Bugs -> Paths]
  /\ SevereBugs \subseteq Bugs /\ UrgentNeeds \subseteq Needs
  /\ Drafts \subseteq Case /\ NoCase \notin Case
  /\ Libraries \subseteq [1..MaxCases -> Case \union {NoCase}]
  /\ Depth \in Nat \ {0} /\ PerGap \in Nat \ {0} /\ MaxRounds \in 0..2
  /\ {MaxCases, MaxSuite, KnownLimit} \union GapLimits \subseteq Nat

VARIABLES
  tree,       \* the flow of the project
  cases,      \* store.test_cases of the project, by the number of TC-001, ...
  fused,      \* the paths and the stored tests as the context has them
  suite,      \* test_cases of the run
  firstSuite, \* how many of them are the first generation
  gaps,       \* all_gaps
  chosen,     \* gaps of this round that wait for their tests
  roundNew,   \* tests of this round
  round,      \* round_idx
  gapLimit,   \* max_gaps
  regen,      \* enable_targeted_regeneration, include_critic
  phase,
  unresolved, \* unresolved_gaps of the answer
  impact,     \* impacted nodes and stored tests, for the root
  dropped,    \* history: a targeted test was dropped as a duplicate
  meddled     \* bound: another request deleted a stored test

gapVars == <<tree, cases, fused, suite, firstSuite, gaps, chosen, roundNew, round,
             gapLimit, regen, phase, unresolved, impact, dropped, meddled>>
-----------------------------------------------------------------------------
(* What tests say, and duplicates. *)

Title(t) == [sort |-> t.sort, about |-> t.about]
Tests(s) == {s[i].test : i \in DOMAIN s}
Stored   == {cases[n] : n \in 1..MaxCases} \ {NoCase}

Mentions(t) == t.about \union t.cites

\* _path_covered: the whole path, or all its names, or only its last one on
\* the path or in the title of a test; the last one is enough.
PathCovered(path, tests) ==
  \E t \in tests : Leaf(path) \in NamesOn(t.path) \union t.about

\* is_duplicate, between tests; a path is never empty.
IsDuplicate(t, other) == t.path = other.path /\ (Title(t) = Title(other) \/ t.steps = other.steps)
\* ... and against existing_coverage, of which only title and path are kept.
IsKnown(t) == \E k \in fused.known : k.path = t.path /\ k.title = Title(t)

\* deduplicate_tests
Deduplicate(new, against) ==
  FoldLeft(LAMBDA kept, c : IF \E o \in Tests(against \o kept) : IsDuplicate(c.test, o)
                            THEN kept ELSE Append(kept, c), <<>>, new)

\* Those of some tests that are not known.
Unknown(new) ==
  FoldLeft(LAMBDA kept, c : IF IsKnown(c.test) THEN kept ELSE Append(kept, c), <<>>, new)

\* sanitize_evidence, evidence_for_path_bugs_and_requirements: only sources of
\* the fused context may be cited; a test without any gets those of its path.
Catalog == Bugs \union Needs
PathEvidence(path) ==
  {b \in Bugs : NamesOn(BugPath[b]) \intersect NamesOn(path) # {}} \union Needs
Sanitized(t) ==
  [t EXCEPT !.cites = IF t.cites \intersect Catalog = {} THEN PathEvidence(t.path)
                      ELSE t.cites \intersect Catalog]

-----------------------------------------------------------------------------
(* The coverage engine, which reads the stored tests, and the gaps. *)

Covered(tests, branches) ==
  UNION {NamesOn(t.path) \union (t.about \intersect branches) : t \in tests}
\* CoverageEngine.analyze
Analyze(links, tests) ==
  LET branches == Outgoing(links, Root)
      covered  == Covered(tests, branches)
  IN  [branches |-> branches \ covered, failures |-> FailureNodes \ covered,
       dependencies |-> Dependencies \ covered]

\* prioritize_gaps: priority, then risk, then kind; titles break ties.
Rank(kind, high) ==
  CASE kind = "bug"         -> IF high THEN 1 ELSE 221
    [] kind = "path"        -> IF high THEN 110 ELSE 220
    [] kind = "requirement" -> IF high THEN 112 ELSE 332
    [] kind \in {"failing", "failure"} -> 113
    [] kind = "risk"        -> 115
    [] kind = "branch"      -> IF high THEN 117 ELSE 227
Gap == [kind : Kinds, topic : Topics, path : Paths, rank : 1..332]
MakeGap(kind, topic, path, high) ==
  [kind |-> kind, topic |-> topic, path |-> path, rank |-> Rank(kind, high)]
High(g) == g.rank < 200

\* _find_path_for_name
PathFor(n) ==
  IF \E p \in fused.paths : n \in NamesOn(p)
  THEN CHOOSE p \in fused.paths : n \in NamesOn(p)
  ELSE <<Root, n>>

BugCovered(b, tests) ==
  \E t \in tests : b \in Mentions(t) \/ (t.sort = "regression" /\ PathCovered(BugPath[b], {t}))

\* A path whose names say failure is a failure gap of the whole path.
PathGap(p) ==
  IF NamesOn(p) \intersect Failing # {} THEN MakeGap("failing", Leaf(p), p, TRUE)
  ELSE MakeGap("path", Leaf(p), p, NamesOn(p) \intersect Risky # {})
BranchGap(b)  == MakeGap("branch", b, PathFor(b), b \in CriticalNodes \union Risky)
FailureGap(n) == MakeGap("failure", n, PathFor(n), TRUE)
RiskGap(n)    == MakeGap("risk", n, PathFor(n), TRUE)
BugGap(b)     == MakeGap("bug", b, BugPath[b], b \in SevereBugs)
NeedGap(need) == MakeGap("requirement", need, <<Root>>, need \in UrgentNeeds)
NeedCovered(need, tests) == \E t \in tests : need \in Mentions(t)

\* build_coverage_gaps
BuildGaps(tests, coverage) ==
  UNION {{PathGap(p) : p \in {q \in fused.paths : ~ PathCovered(q, tests)}},
         {BranchGap(b) : b \in coverage.branches},
         {FailureGap(n) : n \in coverage.failures},
         {RiskGap(n) : n \in coverage.dependencies},
         {BugGap(b) : b \in {c \in Bugs : ~ BugCovered(c, tests)}},
         {NeedGap(need) : need \in {q \in Needs : ~ NeedCovered(q, tests)}}}

\* Variant: forgetting what a round already asked for.
StillOpenButAsked(gs, tests) == {g \in gs : ~ High(g)}
\* gaps_still_open; the ids of gaps are drawn anew at every analysis, so no
\* test closes one of these by its id.
StillOpen(gs, tests) ==
  {g \in gs : IF g.kind \in {"bug", "requirement"}
              THEN \A t \in tests : g.topic \notin Mentions(t)
              ELSE ~ PathCovered(g.path, tests)}

\* select_gaps_for_regeneration: the limit is looked at after a gap is taken,
\* so a limit of zero takes one.
Selections(gs) ==
  LET high == {g \in gs : High(g)}
      n    == IF gapLimit = 0 THEN 1 ELSE gapLimit
  IN  {S \in SUBSET high :
         /\ Cardinality(S) = IF Cardinality(high) < n THEN Cardinality(high) ELSE n
         /\ \A g \in S, h \in high \ S : g.rank <= h.rank}

-----------------------------------------------------------------------------
Knowns == {[title |-> Title(t), path |-> t.path] : t \in Stored}

GapTypeOK ==
  /\ tree \in Flows
  /\ cases \in [1..MaxCases -> Case \union {NoCase}]
  /\ fused.paths \subseteq Paths
  /\ Cardinality(fused.known) <= KnownLimit
  /\ suite \in Seq(Numbered) /\ roundNew \in Seq(Numbered)
  /\ firstSuite \in 0..Len(suite)
  /\ gaps \subseteq Gap /\ chosen \subseteq gaps /\ unresolved \subseteq Gap
  /\ round \in 0..MaxRounds
  /\ gapLimit \in GapLimits
  /\ phase \in {"generate", "analyze", "select", "ask", "close", "report", "done"}
  /\ {regen, dropped, meddled} \subseteq BOOLEAN
  /\ impact.direct \union impact.indirect \subseteq Names \ {Root}
  /\ impact.tests \subseteq 1..MaxCases

\* ContextFusionLayer.fuse: all paths, and some of the stored tests.
Fused == {[paths |-> DiscoverPaths(tree, Root, Depth), known |-> known] :
            known \in {K \in SUBSET Knowns :
              Cardinality(K) = IF Cardinality(Knowns) < KnownLimit
                               THEN Cardinality(Knowns) ELSE KnownLimit}}
\* impact_analysis of the root, which a complete analysis asks for.
Impact ==
  LET touched == ImpactSubgraph(tree, Root, 4)
  IN  [direct |-> touched.direct, indirect |-> touched.indirect,
       tests |-> {n \in 1..MaxCases : cases[n] # NoCase
                    /\ NamesOn(cases[n].path) \intersect ({Root} \union touched.direct) # {}}]

\* What a run has before it generates anything.
GapInit ==
  /\ tree \in Flows
  /\ cases \in Libraries
  /\ fused \in Fused
  /\ impact = Impact
  /\ suite = <<>> /\ firstSuite = 0 /\ roundNew = <<>>
  /\ gaps = {} /\ chosen = {} /\ unresolved = {}
  /\ round = 0
  /\ gapLimit \in GapLimits
  /\ regen \in BOOLEAN
  /\ phase = "generate"
  /\ dropped = FALSE /\ meddled = FALSE

\* Tests numbered from offset + 1 on.
Number(ts, offset) == [i \in DOMAIN ts |-> [id |-> offset + i, test |-> ts[i]]]
\* upsert_test_case: whatever has the number is replaced.
Upserted(new) ==
  [n \in 1..MaxCases |->
     IF \E i \in DOMAIN new : new[i].id = n
     THEN new[CHOOSE i \in DOMAIN new : new[i].id = n /\ \A j \in DOMAIN new : new[j].id = n => j <= i].test
     ELSE cases[n]]

\* _parse_and_validate_cases, of what the model drafted.
Parsed(drafts) == [i \in DOMAIN drafts |-> Sanitized(drafts[i])]
Drafted(limit) == {Parsed(s) : s \in UNION {[1..k -> Drafts] : k \in 1..limit}}

\* _generate_deterministic writes a test for every path of the flow...
PathTest(p) ==
  [sort |-> IF \E k \in fused.known : k.title = [sort |-> "path", about |-> NamesOn(p)]
            THEN "again" ELSE "path",
   about |-> NamesOn(p), path |-> p,
   steps |-> IF NamesOn(p) \intersect FailureNodes # {} THEN "fault" ELSE "walk",
   cites |-> PathEvidence(p)]
ByModel == Drafted(MaxSuite)
ByPaths == SetToSeqs({PathTest(p) : p \in fused.paths})
\* ... and TestCaseAgent.generate takes the answer of the model instead when
\* it has one.
GenerateSuite ==
  /\ phase = "generate"
  /\ \E ts \in ByModel \union ByPaths : Len(ts) <= MaxCases /\ suite' = Number(ts, 0)
  /\ firstSuite' = Len(suite')
  /\ cases' = Upserted(suite')
  /\ phase' = "analyze"
  /\ UNCHANGED <<tree, fused, gaps, chosen, roundNew, round, gapLimit, regen, unresolved,
                 impact, dropped, meddled>>

AnalyzeGaps ==
  /\ phase = "analyze"
  /\ gaps' = BuildGaps(Tests(suite), Analyze(tree, Stored))
  /\ phase' = IF regen THEN "select" ELSE "report"
  /\ UNCHANGED <<tree, cases, fused, suite, firstSuite, chosen, roundNew, round, gapLimit,
                 regen, unresolved, impact, dropped, meddled>>

SelectGaps ==
  /\ phase = "select"
  /\ \E S \in Selections(gaps) :
       IF round < MaxRounds /\ S # {}
       THEN round' = round + 1 /\ chosen' = S /\ phase' = "ask"
       ELSE phase' = "report" /\ UNCHANGED <<round, chosen>>
  /\ roundNew' = <<>>
  /\ UNCHANGED <<tree, cases, fused, suite, firstSuite, gaps, gapLimit, regen, unresolved,
                 impact, dropped, meddled>>

\* _generate_targeted_deterministic
GapTest(g) ==
  LET sort  == CASE g.kind = "bug" -> "regression"
                 [] g.kind \in {"failing", "failure"} -> "negative"
                 [] g.kind = "requirement" -> "requirement"
                 [] OTHER -> "gap"
      about == IF g.kind \in {"bug", "requirement"} THEN {g.topic} ELSE NamesOn(g.path)
      taken == \E t \in Tests(suite \o roundNew) : Title(t) = [sort |-> sort, about |-> about]
  IN  [sort |-> IF taken THEN "renamed" ELSE sort, about |-> about, path |-> g.path,
       steps |-> IF sort = "negative" \/ NamesOn(g.path) \intersect FailureNodes # {}
                 THEN "fault" ELSE "walk",
       cites |-> PathEvidence(g.path)]
Answers(g) == {<<GapTest(g)>>} \union Drafted(PerGap)

\* Where the numbers of targeted tests start: after the tests there are.
Offset == Len(suite) + Len(roundNew)

\* generate_for_gap: the tests name the gap, so they cite what it is about;
\* those that are new are stored at once.
GenerateForGap(g, ts) ==
  LET new  == Number([i \in DOMAIN ts |-> [ts[i] EXCEPT !.cites = @ \union {g.topic}]], Offset)
      kept == Deduplicate(new, suite \o roundNew)
  IN  /\ phase = "ask"
      /\ \A h \in chosen : g.rank <= h.rank
      /\ Offset + Len(ts) <= MaxCases
      /\ roundNew' = roundNew \o kept
      /\ cases' = Upserted(kept)
      /\ dropped' = (dropped \/ Len(kept) < Len(new))
      /\ chosen' = chosen \ {g}
      /\ phase' = IF chosen' = {} THEN "close" ELSE "ask"
      /\ UNCHANGED <<tree, fused, suite, firstSuite, gaps, round, gapLimit, regen, unresolved,
                     impact, meddled>>

\* The tests of the round that are neither in the suite nor known before.
UniqueInSuite == Deduplicate(roundNew, suite)
UniqueNew == Unknown(Deduplicate(roundNew, suite))

CloseRound ==
  LET unique == UniqueNew
      left   == BuildGaps(Tests(suite \o unique), Analyze(tree, Stored))
  IN  /\ phase = "close"
      /\ suite' = suite \o unique
      /\ dropped' = (dropped \/ Len(unique) < Len(roundNew))
      /\ roundNew' = <<>>
      /\ IF unique = <<>> THEN phase' = "report" /\ UNCHANGED gaps
         ELSE /\ gaps' = left
              /\ phase' = IF round >= MaxRounds \/ \A g \in left : ~ High(g)
                          THEN "report" ELSE "select"
      /\ UNCHANGED <<tree, cases, fused, firstSuite, chosen, round, gapLimit, regen,
                     unresolved, impact, meddled>>

\* Without regeneration the answer lists the gaps of high priority only; with
\* it, those of the last analysis that the suite leaves open.  Nothing stored
\* is read again (coverage_after has the coverage of the last round), and no
\* later step of the run touches the list.
Report ==
  /\ phase = "report"
  /\ unresolved' = IF regen THEN StillOpen(gaps, Tests(suite)) ELSE {g \in gaps : High(g)}
  /\ phase' = "done"
  /\ UNCHANGED <<tree, cases, fused, suite, firstSuite, gaps, chosen, roundNew, round, gapLimit,
                 regen, impact, dropped, meddled>>

\* Another request deletes a stored test meanwhile.
DeleteElsewhere(n) ==
  /\ ~ meddled
  /\ phase # "done"
  /\ cases[n] # NoCase
  /\ cases' = [cases EXCEPT ![n] = NoCase]
  /\ meddled' = TRUE
  /\ UNCHANGED <<tree, fused, suite, firstSuite, gaps, chosen, roundNew, round, gapLimit,
                 regen, phase, unresolved, impact, dropped>>

GapNext ==
  \/ GenerateSuite
  \/ AnalyzeGaps
  \/ SelectGaps
  \/ \E g \in chosen : \E ts \in Answers(g) : GenerateForGap(g, ts)
  \/ CloseRound
  \/ Report
  \/ \E n \in 1..MaxCases : DeleteElsewhere(n)

GapSpec == GapInit /\ [][GapNext]_gapVars

-----------------------------------------------------------------------------
\* "Gaps that remain unresolved after targeted tests were added": when the
\* rounds are over, a longest path of the flow is listed as open exactly if no
\* test of the suite they leave has its end, and so is every bug that no test
\* speaks of, whatever was asked for, dropped as a duplicate, renumbered or
\* deleted on the way.  The suite of the answer may be another one: the
\* reviewer may rename its tests, the refinement replace it and the filter
\* keep the valid ones only, and the list is not made again for it.
OpenGapsReported ==
  (phase = "done" /\ regen) =>
    /\ \A p \in LongestPaths(tree, Names, Root, Depth) :
         PathCovered(p, Tests(suite)) <=> ~ \E g \in unresolved : g.kind \in {"path", "failing"} /\ g.path = p
    /\ \A b \in Bugs : \/ BugCovered(b, Tests(suite))
                       \/ \E g \in unresolved : g.kind = "bug" /\ g.topic = b

\* Targeted tests are new: none has the title and the path of a test that was
\* stored before the run and shown to it, and none duplicates another test of
\* the suite, in either order.  Nor does one have the number of another, and
\* replace it in the store, unless a targeted test was dropped as a duplicate
\* before: then numbers are reused.
TargetedTestsAreNew ==
  \A i \in firstSuite + 1..Len(suite) :
    /\ ~ IsKnown(suite[i].test)
    /\ \A j \in 1..Len(suite) \ {i} :
         /\ ~ IsDuplicate(suite[i].test, suite[j].test)
         /\ suite[i].id = suite[j].id => dropped
=============================================================================
