--------------------------- MODULE RefinementLoop ---------------------------
(***************************************************************************)
(* Coverage closure (backend/app/agents/coverage_closure): a suite of      *)
(* generated tests is reviewed, revised, pruned and extended round after   *)
(* round until every mandatory coverage obligation is covered and no       *)
(* test is invalid or needs revision, or until a limit stops the loop.  A  *)
(* final review then decides what the convergence report says.  A run can  *)
(* be resumed from the suite the previous one published.                   *)
(*                                                                         *)
(* What a test says is an opaque content; the constants give, for each     *)
(* content, what the code's pure functions return on it.  The validity     *)
(* reviewer is the rule set alone, or the rules overruled by a language    *)
(* model, which may answer anything.                                       *)
(***************************************************************************)
EXTENDS Naturals, Sequences, FiniteSets

CONSTANTS
  Ids,              \* test_case_ids, ordered as the suite is sorted
  Contents,         \* what a test can say
  NoTest,           \* the content of an id that is not in the suite
  DoNotEdit,        \* ids whose test carries do_not_edit
  HumanEdited,      \* ids whose test carries human_edited
  Obligations,      \* ids of the mandatory coverage obligations
  NoLink,           \* obligation of a test that was not created for one
  Corrected,        \* apply_safe_corrections
  Hardened,         \* apply_validity_hardening
  Revisions,        \* revise_test_from_findings: contents it may produce
  Made,             \* create_test_for_obligation
  Grade,            \* decide_validity of a test without duplicates
  Fits,             \* obligations the content matches
  Alike,            \* is_duplicate, as a set of pairs
  Deterministic,    \* whether the rules review alone
  MaxIterations, MaxTests, MaxLlmCalls, StagnationRounds,
  MinGain,          \* newly covered obligations that count as improvement
  MaxResumes,       \* bound: how often the instance resumes
  Suites            \* suites to start from, none of them empty

Validities == {"valid", "invalid", "needs_revision", "insufficient_evidence"}
Unreviewed == "unreviewed"

ASSUME IdAssumption ==
  /\ Ids \subseteq Nat
  /\ IsFiniteSet(Ids)
  /\ DoNotEdit \subseteq Ids
  /\ HumanEdited \subseteq Ids
  /\ NoTest \notin Contents
  /\ IsFiniteSet(Obligations)
  /\ NoLink \notin Obligations
  /\ Suites \subseteq [Ids -> Contents \union {NoTest}]

ASSUME ContentAssumption ==
  /\ Corrected \in [Contents -> Contents]
  /\ \A c \in Contents : Corrected[Corrected[c]] = Corrected[c]
  /\ Hardened \in [Contents -> Contents]
  /\ Revisions \in [Contents -> SUBSET Contents]
  /\ \A c \in Contents : Revisions[c] # {}
  /\ Made \in [Obligations -> Contents]
  /\ Grade \in [Contents -> Validities]
  /\ Fits \in [Contents -> SUBSET Obligations]
  /\ Alike \subseteq Contents \X Contents
  /\ \A c, d \in Contents : <<c, d>> \in Alike => <<d, c>> \in Alike
  /\ \A c \in Contents : <<c, c>> \in Alike   \* tests have a title or steps

\* RefinementLimits.from_settings clamps each limit to these ranges.
ASSUME LimitAssumption ==
  /\ Deterministic \in BOOLEAN
  /\ MaxIterations \in 1..8
  /\ MaxTests \in Nat \ {0}
  /\ MaxLlmCalls \in Nat
  /\ StagnationRounds \in Nat \ {0}
  /\ MinGain \in Nat \ {0}
  /\ MaxResumes \in Nat

VARIABLES
  phase,     \* what the loop does next
  content,   \* what each test of the suite says
  link,      \* obligation each test was created for
  retired,   \* tests of the suite that are retired
  verdict,   \* validity of each test in the latest review
  covered,   \* obligations whose status is COVERED
  round,     \* the loop's iteration number
  llmCalls,  \* controller.llm_calls
  history,   \* controller.history, prior rounds of a resumed run included
  initial,   \* initial_test_count
  status,    \* convergence status
  resumes    \* runs resumed so far

suite == <<content, link, retired>>
vars  == <<phase, suite, verdict, covered, round, llmCalls, history,
           initial, status, resumes>>

Snapshot == [covered : Nat, invalid : Nat, needs : Nat]
Phases   == {"review", "decide", "final", "harden", "gate", "done"}
Statuses == {"partial", "complete", "limit_reached", "stagnated"}

TypeOK ==
  /\ phase \in Phases
  /\ content \in [Ids -> Contents \union {NoTest}]
  /\ link \in [Ids -> Obligations \union {NoLink}]
  /\ retired \subseteq {t \in Ids : content[t] # NoTest}
  /\ verdict \in [Ids -> Validities \union {Unreviewed}]
  /\ covered \subseteq Obligations
  /\ round \in 1..MaxIterations
  /\ llmCalls \in Nat
  /\ history \in Seq(Snapshot)
  /\ initial \in Nat
  /\ status \in Statuses
  /\ resumes \in 0..MaxResumes

-----------------------------------------------------------------------------
(* The suite and its review.                                               *)

Present == {t \in Ids : content[t] # NoTest}
Active  == Present \ retired

\* Tests the latest review found in validity v.
Found(v) == {t \in Active : verdict[t] = v}

\* evaluate_obligation_coverage: an obligation is covered when some active
\* test that the review calls valid matches it; a test is never credited
\* while its verdict is anything else.
CoveredBy(says, verdicts) ==
  {o \in Obligations : \E t \in Active : verdicts[t] = "valid" /\ o \in Fits[says[t]]}

Open == Obligations \ covered

\* Later ones of two tests that say the same.
Spare(says, tests) ==
  {b \in tests : \E a \in tests : a < b /\ <<says[a], says[b]>> \in Alike}

\* deduplicate_tests: of the tests, in order, those unlike every kept one.
IsDeduplicated(kept, says, tests) ==
  /\ kept \subseteq tests
  /\ \A b \in tests :
       b \in kept <=> \A a \in kept : a < b => <<says[a], says[b]>> \notin Alike

\* What a review may answer for a test.  The rules call it invalid when some
\* other test under review is an exact duplicate, else give its grade; the
\* model may say anything.
Judgements(says, t, byRules) ==
  LET others == {says[u] : u \in Active \ {t}}
      like   == {c \in others : <<c, says[t]>> \in Alike}
      grade  == Grade[Corrected[says[t]]]
  IN IF ~byRules THEN Validities
     ELSE IF says[t] \in others
     THEN {v \in {grade, "invalid"} : v \in {"invalid", "insufficient_evidence"}}
     ELSE {v \in {grade, "invalid"} : v = grade \/ like # {}}

\* Reviews of the active tests, should they say this.
Reviews(says, byRules) ==
  {[t \in Ids |-> IF t \in Active THEN v[t] ELSE Unreviewed] :
     v \in {v \in [Active -> Validities] :
              \A t \in Active : v[t] \in Judgements(says, t, byRules)}}

Count(v, validity) == Cardinality({t \in Ids : v[t] = validity})

GatesMetByCoverage(says, v, cov) ==
  /\ Obligations \subseteq cov
  /\ \A t \in Active : v[t] # "invalid"

\* ConvergenceController.is_success, with the default quality gates.
GatesMet(says, v, cov) ==
  /\ Obligations \subseteq cov
  /\ \A t \in Active : v[t] \notin {"invalid", "needs_revision"}
  /\ Spare(says, Active) = {}

-----------------------------------------------------------------------------
(* A run.                                                                  *)

\* A run starts by dropping the duplicates of the suite it is given.
Init ==
  /\ \E says \in Suites :
       /\ content = says
       /\ initial = Cardinality({t \in Ids : says[t] # NoTest})
  /\ IsDeduplicated(Present, content, Present)
  /\ link = [t \in Ids |-> NoLink]
  /\ retired = {}
  /\ phase = "review"
  /\ verdict = [t \in Ids |-> Unreviewed]
  /\ covered = {}
  /\ round = 1
  /\ llmCalls = 0
  /\ history = <<>>
  /\ status = "partial"
  /\ resumes = 0

\* The validity review, whose safe corrections go into the suite, and the
\* suite review with its snapshot.
Review ==
  LET says == [t \in Ids |-> IF t \in Active THEN Corrected[content[t]]
                             ELSE content[t]]
  IN
  /\ phase = "review"
  /\ content' = says
  /\ \E v \in Reviews(says, Deterministic) :
       /\ verdict' = v
       /\ covered' = CoveredBy(says, v)
       /\ history' = Append(history, [covered |-> Cardinality(CoveredBy(says, v)),
                                      invalid |-> Count(v, "invalid"),
                                      needs   |-> Count(v, "needs_revision")])
  /\ llmCalls' = IF Deterministic THEN llmCalls ELSE llmCalls + 1
  /\ phase' = "decide"
  /\ UNCHANGED <<link, retired, round, initial, status, resumes>>

AtLimitOneLate ==
  round > MaxIterations \/ Cardinality(Active) >= MaxTests \/ llmCalls >= MaxLlmCalls

AtLimit ==
  \/ round >= MaxIterations
  \/ Cardinality(Active) >= MaxTests
  \/ llmCalls >= MaxLlmCalls

\* No improvement over the last rounds, those of earlier runs included.
Stagnant ==
  /\ Len(history) > StagnationRounds
  /\ \A i \in (Len(history) - StagnationRounds + 1)..Len(history) :
       /\ history[i].covered < history[i-1].covered + MinGain
       /\ history[i].invalid >= history[i-1].invalid
       /\ history[i].needs >= history[i-1].needs

Stop(as) ==
  /\ status' = as
  /\ phase' = "final"
  /\ UNCHANGED <<suite, verdict, covered, round, llmCalls, history, initial, resumes>>

Satisfied == GatesMet(content, verdict, covered)

Succeed     == phase = "decide" /\ Satisfied /\ Stop("complete")
StopAtLimit == phase = "decide" /\ ~Satisfied /\ AtLimit /\ Stop("limit_reached")
Stagnate    == phase = "decide" /\ ~Satisfied /\ ~AtLimit /\ Stagnant
                 /\ Stop("stagnated")

-----------------------------------------------------------------------------
(* One revision: retire, revise, create, deduplicate.                      *)

RejectedWhoeverEdits == Found("insufficient_evidence") \union Spare(content, Active)
ToReviseEverything == Active \ (DoNotEdit \union HumanEdited)
UnservedOrNot(plan) == plan
MaxNewOfEmptySuite == MaxTests

\* The revision plan: what to retire and what to rewrite; a test a human has
\* edited is planned for revision and then returned as it is.
Rejected ==
  (Found("insufficient_evidence") \union Spare(content, Active)) \ DoNotEdit
ToRevise ==
  (Found("invalid") \union Found("needs_revision"))
    \ (Rejected \union DoNotEdit \union HumanEdited)

\* What the suite says once the tests to revise are rewritten.
Rewritings ==
  {[t \in Ids |-> IF t \in ToRevise THEN r[t] ELSE content[t]] :
     r \in {r \in [ToRevise -> Contents] :
              \A t \in ToRevise : r[t] \in Revisions[content[t]]}}

MaxNew == IF Cardinality(Active) < MaxTests THEN MaxTests - Cardinality(Active) ELSE 1

\* The first MaxNew open obligations, less those a test is linked to.
Planned ==
  {plan \in SUBSET Open : Cardinality(plan) =
     IF Cardinality(Open) < MaxNew THEN Cardinality(Open) ELSE MaxNew}
Unserved(plan) ==
  {o \in plan : \A t \in Active \ Rejected : link[t] # o}

\* Of the tests created for the obligations of new, in their order, those
\* unlike the kept ones and every active test.
AreNovel(kept, new, says) ==
  LET like(o, c) == <<Made[o], c>> \in Alike
  IN /\ kept \subseteq new
     /\ \A o \in kept : \A t \in Active \ Rejected : ~like(o, says[t])
     /\ \A o, p \in kept : o # p => ~like(o, Made[p])
     /\ \A o \in new \ kept : \/ \E t \in Active \ Rejected : like(o, says[t])
                              \/ \E p \in kept : like(o, Made[p])

\* Ids for the created tests; new_id never repeats one.
Namings(new) ==
  {ids \in [new -> Ids \ (Present \union DoNotEdit \union HumanEdited)] :
     \A o, p \in new : ids[o] = ids[p] => o = p}

\* The obligation the test of this id is created for, as a set.
MadeAs(t, new, ids) == {o \in new : ids[o] = t}

\* The suite with the created tests in it, and the tests still active.
Extended(says, new, ids) ==
  [t \in Ids |-> IF MadeAs(t, new, ids) = {} THEN says[t]
                 ELSE Made[CHOOSE o \in MadeAs(t, new, ids) : TRUE]]
Living(new, ids) == (Active \ Rejected) \union {ids[o] : o \in new}

Revise ==
  /\ phase = "decide"
  /\ ~Satisfied /\ ~AtLimit /\ ~Stagnant
  /\ retired' = retired \union Rejected
  /\ \E says \in Rewritings, plan \in Planned :
     \E new \in SUBSET Unserved(plan) :
     \E ids \in Namings(new) :
     \E kept \in SUBSET Living(new, ids) :
       LET dropped == Living(new, ids) \ kept IN
       /\ AreNovel(new, Unserved(plan), says)
       /\ IsDeduplicated(kept, Extended(says, new, ids), Living(new, ids))
       /\ content' = [t \in Ids |-> IF t \in dropped THEN NoTest
                                    ELSE Extended(says, new, ids)[t]]
       /\ link' = [t \in Ids |->
                     IF t \in dropped THEN NoLink
                     ELSE IF MadeAs(t, new, ids) = {} THEN link[t]
                     ELSE CHOOSE o \in MadeAs(t, new, ids) : TRUE]
  /\ round' = round + 1
  /\ phase' = "review"
  /\ UNCHANGED <<verdict, covered, llmCalls, history, initial, status, resumes>>

-----------------------------------------------------------------------------
(* After the loop.                                                         *)

HardenUntilClean ==
  LET says == [t \in Ids |-> IF t \in Active \ (DoNotEdit \union HumanEdited)
                             THEN Hardened[content[t]] ELSE content[t]]
  IN
  /\ phase = "harden"
  /\ content' = says
  /\ verdict' \in Reviews(says, TRUE)
  /\ phase' = "final"
  /\ UNCHANGED <<link, retired, covered, round, llmCalls, history, initial,
                 status, resumes>>

\* The final review is of the suite as it is, and is no counted call.  (Its
\* branch for an empty suite is never taken: the orchestrator starts the loop
\* with tests only, and no step removes the last one.)
FinalReview ==
  /\ phase = "final"
  /\ \E v \in Reviews(content, Deterministic) :
       /\ verdict' = v
       /\ phase' = IF \E t \in Active : v[t] \in {"invalid", "needs_revision"}
                   THEN "harden" ELSE "gate"
  /\ UNCHANGED <<suite, covered, round, llmCalls, history, initial, status, resumes>>

\* Every editable test is hardened, and the rules alone review again.
Harden ==
  LET says == [t \in Ids |-> IF t \in Active \ (DoNotEdit \union HumanEdited)
                             THEN Hardened[content[t]] ELSE content[t]]
  IN
  /\ phase = "harden"
  /\ content' = says
  /\ verdict' \in Reviews(says, TRUE)
  /\ phase' = "gate"
  /\ UNCHANGED <<link, retired, covered, round, llmCalls, history, initial,
                 status, resumes>>

\* The last suite review can make a run complete, never the opposite.
Gate ==
  LET cov == CoveredBy(content, verdict) IN
  /\ phase = "gate"
  /\ covered' = cov
  /\ status' = IF GatesMet(content, verdict, cov) THEN "complete" ELSE status
  /\ phase' = "done"
  /\ UNCHANGED <<suite, verdict, round, llmCalls, history, initial, resumes>>

\* Resuming starts from what was published, the valid tests, with the
\* history of the earlier runs.  (When nothing was published the run works
\* on newly generated tests, as a first one does.)
Resume ==
  /\ phase = "done"
  /\ resumes < MaxResumes
  /\ Found("valid") # {}
  /\ \E kept \in SUBSET Found("valid") :
       /\ IsDeduplicated(kept, content, Found("valid"))
       /\ content' = [t \in Ids |-> IF t \in kept THEN content[t] ELSE NoTest]
       /\ link' = [t \in Ids |-> IF t \in kept THEN link[t] ELSE NoLink]
       /\ initial' = Cardinality(kept)
  /\ retired' = {}
  /\ verdict' = [t \in Ids |-> Unreviewed]
  /\ round' = 1
  /\ llmCalls' = 0
  /\ status' = "partial"
  /\ resumes' = resumes + 1
  /\ phase' = "review"
  /\ UNCHANGED <<covered, history>>

Step == \/ Review \/ Succeed \/ StopAtLimit \/ Stagnate \/ Revise
        \/ FinalReview \/ Harden \/ Gate

Next == Step \/ Resume

Spec     == Init /\ [][Next]_vars
FairSpec == Spec /\ WF_vars(Step)

-----------------------------------------------------------------------------
(* Properties.                                                             *)

\* The suite outgrows neither the test limit nor, when it was over the limit
\* from the start, its initial size.
SuiteBounded ==
  Cardinality(Active) <= IF initial < MaxTests THEN MaxTests ELSE initial

\* However often a gap is planned for, it has one active test of its own.
OneTestPerGap ==
  \A t, u \in Active : link[t] # NoLink /\ link[t] = link[u] => t = u

\* "100% of modeled coverage obligations covered": a run that is reported
\* complete has no open obligation and no test left to revise.
CompleteIsCovered ==
  phase = "done" /\ status = "complete" =>
    /\ Open = {}
    /\ Found("invalid") = {} /\ Found("needs_revision") = {}

\* A test that must not be edited is never rewritten beyond the reviewer's
\* whitespace corrections, nor retired; it leaves the suite only for one
\* that says the same, or unpublished when a run is resumed without it.
DoNotEditRespected ==
  [][\A t \in DoNotEdit \intersect Present :
       /\ t \notin retired'
       /\ content'[t] \in {content[t], Corrected[content[t]], NoTest}
       /\ content'[t] = NoTest =>
            \/ phase = "done"
            \/ \E u \in Present' : <<content'[u], content[t]>> \in Alike]_vars

\* If only equal texts are alike, and neither correction nor hardening changes
\* a sound test, no round of a rule-based run loses an obligation that was
\* covered, whatever it rewrites, retires, creates and drops; nor does its end,
\* unless two tests say the same by then: the hardening after the loop drops
\* no duplicate, and the rules call both invalid.
CoverageKept ==
  [][phase # "done" =>
       \/ covered \subseteq covered'
       \/ phase = "gate" /\ \E t, u \in Active : t # u /\ content[t] = content[u]]_vars

\* Every run comes to its report.
RunsEnd == phase = "review" ~> phase = "done"

-----------------------------------------------------------------------------
(* The inductive invariants behind CompleteIsCovered for a rule-based run:  *)
(* the final review of a run that succeeded sees what the last review of    *)
(* the loop saw, and so it finds the same.                                  *)

CoverageInv ==
  phase \in {"decide", "final", "done"} => covered = CoveredBy(content, verdict)

VerdictInv ==
  phase \in {"decide", "final", "gate"} =>
    \A t \in Active : verdict[t] \in Judgements(content, t, TRUE)

SuccessInv ==
  status = "complete" =>
    /\ phase \in {"final", "gate", "done"}
    /\ phase \in {"final", "done"} => GatesMet(content, verdict, covered)
    /\ phase = "gate" =>
         GatesMet(content, verdict, CoveredBy(content, verdict))
=============================================================================
