---------------------------- MODULE TestLibrary ----------------------------
(***************************************************************************)
(* The test library of one project: the test cases the store keeps, the    *)
(* verdicts of the latest analysis, and the humans' corrections of both.   *)
(*                                                                         *)
(* Analysis runs (backend/app/agents/orchestrator.py) generate or load     *)
(* tests, review them and publish an analysis; the routes of               *)
(* backend/app/api/routes.py create, edit and delete tests, override a     *)
(* verdict or delete the project meanwhile.  Each call of a store method   *)
(* is one step, as its lock makes it; everything between two calls may be  *)
(* interleaved with other requests.  What the steps of one store method    *)
(* are is the subject of MongoStore.                                       *)
(***************************************************************************)
EXTENDS Naturals, Sequences, FiniteSets

CONSTANTS
  Threads,     \* request threads
  Ids,         \* test_case_ids; new_id never draws one twice
  Numbered,    \* those generation gives out, TC-001, TC-002, ... in every run
  Texts,       \* what a test can say
  NoText,      \* text of an id without a test
  Features,    \* names of feature stories
  Kinds,       \* the requests the clients of this instance send
  Refined,     \* kinds of run whose tests go through the refinement loop
  Forcing,     \* values of force and force_overwrite_generated they send
  Formats,     \* subset of BOOLEAN: whether a run renders BDD scenarios
  MaxAnalyses, \* bound: analyses published
  Given        \* tests of the library when the instance starts

RunKinds == {"generate", "review", "resume"}
AllKinds == RunKinds \union {"override", "edit", "create", "delete", "drop"}

\* needs_revision and insufficient_evidence count as invalid here: a run
\* treats the three alike.
Validities == {"valid", "invalid"}
Unreviewed == "unreviewed"
Verdicts   == [Ids -> Validities \union {Unreviewed}]

\* A test case record: its text, human_edited, and the text its BDD scenario
\* was rendered from.
Test  == [text : Texts \union {NoText}, manual : BOOLEAN,
          scenario : Texts \union {NoText}]
Blank == [text |-> NoText, manual |-> FALSE, scenario |-> NoText]
Suite == [Ids -> Test]
NoSuite == [i \in Ids |-> Blank]
Here(suite) == {i \in Ids : suite[i].text # NoText}
NoVerdicts == [i \in Ids |-> Unreviewed]

ASSUME LibraryAssumption ==
  /\ NoText \notin Texts
  /\ Numbered \subseteq Ids
  /\ Kinds \subseteq AllKinds
  /\ Refined \subseteq RunKinds
  /\ Forcing \subseteq BOOLEAN
  /\ Formats \subseteq BOOLEAN
  /\ MaxAnalyses \in Nat
  /\ Given \in Suite
  /\ \A i \in Ids : Given[i].manual => Given[i].scenario = Given[i].text

\* An analysis: the tests it publishes, and the verdict of every test it
\* reviewed.
Analysis == [tests : Suite, verdict : Verdicts]

VARIABLES
  present,    \* the project exists
  tests,      \* store.test_cases
  overrides,  \* store.test_review_overrides: the verdict a human set
  reviews,    \* ids with a row in store.test_reviews
  stories,    \* feature_stories of the project
  analyses,   \* every analysis object made so far, oldest first
  latest,     \* the one in store.latest_analyses, 0 for none
  drawn,      \* ids drawn so far
  pc, req,    \* where each thread is, and the request it serves
  work,       \* the local variables of each thread
  edited      \* history: text of the last human edit of a test

library == <<present, tests, overrides, reviews, stories, analyses, latest, drawn>>
vars    == <<library, pc, req, work, edited>>

Request ==
  {r \in [kind : RunKinds, bdd : Formats]
           \union
         [kind : {"override"}, id : Ids, validity : Validities]
           \union
         [kind : {"edit"}, id : Ids, text : Texts, force : Forcing]
           \union
         [kind : {"create"}, ids : SUBSET Ids \ {{}}, text : Texts, force : Forcing,
          feature : Features]
           \union
         [kind : {"delete"}, id : Ids, force : Forcing]
           \union
         [kind : {"drop"}] : r.kind \in Kinds}
NoRequest == [kind |-> "none"]

\* suite: tests at hand; verdict: their review; seen: overrides read;
\* todo: ids still to write; at: the id being written, with found, the record
\* read of it; ref: an analysis read; known: stories read.
Work == [suite : Suite, verdict : Verdicts, seen : Verdicts, todo : SUBSET Ids,
         at : SUBSET Ids, found : Test, ref : Nat, known : SUBSET Features]
NoWork == [suite |-> NoSuite, verdict |-> NoVerdicts, seen |-> NoVerdicts,
           todo |-> {}, at |-> {}, found |-> Blank, ref |-> 0, known |-> {}]

Places == {"idle", "check", "generate", "load", "refine", "snapshot", "review",
           "record", "render", "sidecar", "publish", "override", "patch",
           "republish", "look", "save", "remove", "search", "insert", "story",
           "tell", "drop"}

TypeOK ==
  /\ present \in BOOLEAN
  /\ tests \in Suite
  /\ overrides \in Verdicts
  /\ reviews \subseteq Ids
  /\ stories \subseteq Features
  /\ analyses \in Seq(Analysis)
  /\ latest \in 0..Len(analyses)
  /\ Here(tests) \subseteq drawn
  /\ drawn \subseteq Ids
  /\ pc \in [Threads -> Places]
  /\ req \in [Threads -> Request \union {NoRequest}]
  /\ work \in [Threads -> Work]
  /\ edited \in [Ids -> Texts \union {NoText}]

-----------------------------------------------------------------------------
\* Tests a run shows its user: the valid ones, or all if the review failed.
Shown(suite, verdict) ==
  [i \in Ids |-> IF verdict = NoVerdicts \/ verdict[i] = "valid"
                 THEN suite[i] ELSE Blank]

\* The latest analysis' tests, none if there is no analysis.
Published == IF latest = 0 THEN NoSuite ELSE analyses[latest].tests

\* What a reviewed suite may say: tests a human edited keep their text.
Rewritings(suite, ids) ==
  {s \in [Ids -> Test] :
     \A i \in Ids :
       IF i \notin ids THEN s[i] = Blank
       ELSE /\ s[i].text # NoText
            /\ s[i].manual = suite[i].manual
            /\ s[i].manual => s[i].text = suite[i].text
            /\ s[i].scenario = NoText}

\* A review of the tests of a suite, whatever the reviewer says of them.
ReviewsOf(ids) ==
  {v \in Verdicts : \A i \in Ids : v[i] = Unreviewed <=> i \notin ids}

\* apply_human_override: the human's verdict replaces the reviewer's.
Overridden(verdict, by) ==
  [i \in Ids |-> IF verdict[i] # Unreviewed /\ by[i] # Unreviewed
                 THEN by[i] ELSE verdict[i]]

Goto(t, place) == pc' = [pc EXCEPT ![t] = place]
Return(t) ==
  /\ pc' = [pc EXCEPT ![t] = "idle"]
  /\ req' = [req EXCEPT ![t] = NoRequest]
  /\ work' = [work EXCEPT ![t] = NoWork]

Init ==
  /\ present = TRUE
  /\ tests = Given
  /\ overrides = NoVerdicts
  /\ reviews = {}
  /\ stories = {}
  /\ analyses = <<>>
  /\ latest = 0
  /\ drawn = Here(Given)
  /\ pc = [t \in Threads |-> "idle"]
  /\ req = [t \in Threads |-> NoRequest]
  /\ work = [t \in Threads |-> NoWork]
  /\ edited = [i \in Ids |-> NoText]

\* A request arrives; a client can only name a test it has seen.
Begin(t, r) ==
  /\ pc[t] = "idle"
  /\ r.kind \in {"override", "edit", "delete"} => r.id \in drawn
  /\ r.kind \in RunKinds =>
       Len(analyses) + Cardinality({u \in Threads : req[u].kind \in RunKinds})
         < MaxAnalyses
  /\ req' = [req EXCEPT ![t] = r]
  /\ Goto(t, IF r.kind \in {"edit", "delete"} THEN "look" ELSE "check")
  /\ UNCHANGED <<library, work, edited>>

\* What a request for a known project does first.
FirstPlace(kind) ==
  IF kind = "review" THEN "load"
  ELSE IF kind \in {"generate", "resume"} THEN "generate"
  ELSE IF kind = "create" THEN "search"
  ELSE kind

\* get_project: an unknown project is answered at once, nothing is stored;
\* nor is there anything to resume without an analysis.
CheckProject(t) ==
  /\ pc[t] = "check"
  /\ IF present /\ (req[t].kind = "resume" => latest # 0)
     THEN /\ Goto(t, FirstPlace(req[t].kind))
          /\ work' = IF req[t].kind = "create"
                     THEN [work EXCEPT ![t].todo = req[t].ids] ELSE work
          /\ UNCHANGED req
     ELSE Return(t)
  /\ UNCHANGED <<library, edited>>

-----------------------------------------------------------------------------
(* Analysis runs.                                                          *)

AfterTests(t) == IF req[t].kind \in Refined THEN "refine" ELSE "snapshot"

\* Generated tests are numbered from TC-001 in every run and stored at once,
\* before any review, over the tests that had those ids; generation may fail
\* or find nothing to test.
Generate(t) ==
  /\ pc[t] = "generate"
  /\ \E new \in SUBSET Numbered, x \in Texts :
       LET made == [text |-> x, manual |-> FALSE, scenario |-> NoText] IN
       /\ Cardinality(new) <= 1
       /\ tests' = [i \in Ids |-> IF i \in new THEN made ELSE tests[i]]
       /\ drawn' = drawn \union new
       /\ work' = [work EXCEPT ![t].suite =
                     [i \in Ids |-> IF i \in new THEN made ELSE Blank]]
       /\ Goto(t, IF new = {} THEN "publish" ELSE AfterTests(t))
  /\ UNCHANGED <<present, overrides, reviews, stories, analyses, latest, req,
                 edited>>

\* A review-only run takes the stored tests, else those last published.
Load(t) ==
  LET stored == [i \in Ids |-> [tests[i] EXCEPT !.scenario = NoText]]
      loaded == IF Here(tests) # {} THEN stored ELSE Published
  IN
  /\ pc[t] = "load"
  /\ work' = [work EXCEPT ![t].suite = loaded]
  /\ Goto(t, IF Here(loaded) = {} THEN "publish" ELSE AfterTests(t))
  /\ UNCHANGED <<library, req, edited>>

\* A resumed run drops the tests it has just generated for those of the
\* latest analysis, if there are any.
ToRefine(t) ==
  IF req[t].kind = "resume" /\ Here(Published) # {} THEN Published
  ELSE work[t].suite

RefineReusesIds(t) ==
  /\ pc[t] = "refine"
  /\ \E ids \in SUBSET Ids :
       /\ Cardinality(ids \ Here(ToRefine(t))) <= 1
       /\ \E s \in Rewritings(ToRefine(t), ids), v \in ReviewsOf(ids) :
            work' = [work EXCEPT ![t].suite = s, ![t].verdict = v]
  /\ Goto(t, "record")
  /\ UNCHANGED <<library, req, edited>>

\* The refinement loop (RefinementLoop) rewrites, drops and adds tests and
\* reviews them, without touching the store; no override reaches it.
Refine(t) ==
  /\ pc[t] = "refine"
  /\ \E ids \in SUBSET Ids :
       LET added == ids \ Here(ToRefine(t)) IN
       /\ added \intersect (drawn \union Numbered) = {}
       /\ Cardinality(added) <= 1
       /\ drawn' = drawn \union added
       /\ \E s \in Rewritings(ToRefine(t), ids), v \in ReviewsOf(ids) :
            work' = [work EXCEPT ![t].suite = s, ![t].verdict = v]
  /\ Goto(t, "record")
  /\ UNCHANGED <<present, tests, overrides, reviews, stories, analyses, latest,
                 req, edited>>

\* When the loop raises, the tests are reviewed once instead.
RefineFails(t) ==
  /\ pc[t] = "refine"
  /\ work' = [work EXCEPT ![t].suite = ToRefine(t)]
  /\ Goto(t, "snapshot")
  /\ UNCHANGED <<library, req, edited>>

SnapshotForgotten(t) ==
  /\ pc[t] = "snapshot"
  /\ Goto(t, "review")
  /\ UNCHANGED <<library, req, work, edited>>

\* list_test_review_overrides.
Snapshot(t) ==
  /\ pc[t] = "snapshot"
  /\ work' = [work EXCEPT ![t].seen = overrides]
  /\ Goto(t, "review")
  /\ UNCHANGED <<library, req, edited>>

\* The review, with its hardening pass; the human's verdicts win.
Review(t) ==
  LET ids == Here(work[t].suite) IN
  /\ pc[t] = "review"
  /\ \E s \in Rewritings(work[t].suite, ids), v \in ReviewsOf(ids) :
       work' = [work EXCEPT ![t].suite = s,
                            ![t].verdict = Overridden(v, work[t].seen)]
  /\ Goto(t, "record")
  /\ UNCHANGED <<library, req, edited>>

\* A review that raises leaves the suite as it is, unreviewed.
ReviewFails(t) ==
  /\ pc[t] = "review"
  /\ Goto(t, "render")
  /\ UNCHANGED <<library, req, work, edited>>

\* bulk_set_test_reviews skips every item that has no test_case_id of its
\* own, and the dump of a ReviewedTestCase has none: only test_case.
HasOwnId(i) == FALSE

Record(t) ==
  /\ pc[t] = "record"
  /\ reviews' = reviews \union
       {i \in Ids : work[t].verdict[i] # Unreviewed /\ HasOwnId(i)}
  /\ Goto(t, "render")
  /\ UNCHANGED <<present, tests, overrides, stories, analyses, latest, drawn,
                 req, work, edited>>

\* build_generated_artifacts: a BDD scenario for each test to publish, as
\* far as the conversion succeeds.
Render(t) ==
  LET shown == Shown(work[t].suite, work[t].verdict) IN
  /\ pc[t] = "render"
  /\ \E todo \in SUBSET Here(shown) :
       /\ ~req[t].bdd => todo = {}
       /\ work' = [work EXCEPT ![t].todo = todo]
  /\ Goto(t, "publish")
  /\ UNCHANGED <<library, req, edited>>

SideCarReadAny(t, i) ==
  /\ pc[t] = "publish"
  /\ i \in work[t].todo
  /\ work' = [work EXCEPT ![t].todo = @ \ {i}, ![t].at = {i}, ![t].found = tests[i]]
  /\ Goto(t, "sidecar")
  /\ UNCHANGED <<library, req, edited>>

\* The side-car reads the stored record, passing over human-edited ones ...
SideCarRead(t, i) ==
  /\ pc[t] = "publish"
  /\ i \in work[t].todo
  /\ IF tests[i].manual
     THEN /\ work' = [work EXCEPT ![t].todo = @ \ {i}]
          /\ UNCHANGED pc
     ELSE /\ work' = [work EXCEPT ![t].todo = @ \ {i}, ![t].at = {i},
                                  ![t].found = tests[i]]
          /\ Goto(t, "sidecar")
  /\ UNCHANGED <<library, req, edited>>

\* ... and writes it back with the scenario, or the whole test if there was
\* no record.
SideCarWrite(t) ==
  LET rendered(i) ==
        LET case == work[t].suite[i]
        IN IF work[t].found.text # NoText
           THEN [work[t].found EXCEPT !.scenario = case.text]
           ELSE [case EXCEPT !.scenario = case.text]
  IN
  /\ pc[t] = "sidecar"
  /\ tests' = [i \in Ids |-> IF i \in work[t].at THEN rendered(i) ELSE tests[i]]
  /\ work' = [work EXCEPT ![t].at = {}, ![t].found = Blank]
  /\ Goto(t, "publish")
  /\ UNCHANGED <<present, overrides, reviews, stories, analyses, latest, drawn,
                 req, edited>>

\* set_latest_analysis, whatever happened to the project meanwhile.
Publish(t) ==
  /\ pc[t] = "publish"
  /\ work[t].todo = {}
  /\ analyses' = Append(analyses,
       [tests   |-> Shown(work[t].suite, work[t].verdict),
        verdict |-> work[t].verdict])
  /\ latest' = Len(analyses) + 1
  /\ Return(t)
  /\ UNCHANGED <<present, tests, overrides, reviews, stories, drawn, edited>>

\* Another thread resizes the dictionary a loop is walking (RuntimeError).
WalkFails(t) ==
  /\ pc[t] \in {"load", "search"}
  /\ \E u \in Threads \ {t} : pc[u] # "idle"
  /\ Return(t)
  /\ UNCHANGED <<library, edited>>

-----------------------------------------------------------------------------
(* Overriding a verdict.                                                   *)

Override(t) ==
  /\ pc[t] = "override"
  /\ overrides' = [overrides EXCEPT ![req[t].id] = req[t].validity]
  /\ Goto(t, "patch")
  /\ UNCHANGED <<present, tests, reviews, stories, analyses, latest, drawn, req,
                 work, edited>>

Reviewed(n, i) == n # 0 /\ analyses[n].verdict[i] # Unreviewed

\* get_latest_analysis returns the stored object itself, so patching the
\* verdict in it changes what every holder of that object sees ...
Patch(t) ==
  LET i == req[t].id IN
  /\ pc[t] = "patch"
  /\ IF Reviewed(latest, i)
     THEN /\ analyses' = [analyses EXCEPT ![latest].verdict[i] = req[t].validity]
          /\ work' = [work EXCEPT ![t].ref = latest]
          /\ Goto(t, "republish")
          /\ UNCHANGED req
     ELSE Return(t) /\ UNCHANGED analyses
  /\ UNCHANGED <<present, tests, overrides, reviews, stories, latest, drawn, edited>>

\* ... and then it is stored as the latest one again.
Republish(t) ==
  /\ pc[t] = "republish"
  /\ latest' = work[t].ref
  /\ Return(t)
  /\ UNCHANGED <<present, tests, overrides, reviews, stories, analyses, drawn, edited>>

-----------------------------------------------------------------------------
(* Manual tests.                                                           *)

\* 404 for an unknown test, 409 for a generated one unless forced.
Look(t) ==
  LET case == tests[req[t].id] IN
  /\ pc[t] = "look"
  /\ IF case.text = NoText \/ ~(case.manual \/ req[t].force)
     THEN Return(t)
     ELSE /\ Goto(t, IF req[t].kind = "edit" THEN "save" ELSE "remove")
          /\ UNCHANGED <<req, work>>
  /\ UNCHANGED <<library, edited>>

\* scenario_to_test_case renders the scenario from the text it is given; the
\* conversion may fail and leave none.
ByHand(text) ==
  {[text |-> text, manual |-> TRUE, scenario |-> s] : s \in {text, NoText}}

\* Ids ids become a test saying text, saved by a human.
SaveByHand(ids, text) ==
  /\ \E case \in ByHand(text) :
       tests' = [i \in Ids |-> IF i \in ids THEN case ELSE tests[i]]
  /\ edited' = [i \in Ids |-> IF i \in ids THEN text ELSE edited[i]]

Save(t) ==
  /\ pc[t] = "save"
  /\ SaveByHand({req[t].id}, req[t].text)
  /\ Return(t)
  /\ UNCHANGED <<present, overrides, reviews, stories, analyses, latest, drawn>>

\* delete_test_case removes the row and nothing else.
Remove(t) ==
  LET i == req[t].id IN
  /\ pc[t] = "remove"
  /\ tests' = [tests EXCEPT ![i] = Blank]
  /\ edited' = [edited EXCEPT ![i] = NoText]
  /\ Return(t)
  /\ UNCHANGED <<present, overrides, reviews, stories, analyses, latest, drawn>>

SearchAnything(t, i) ==
  /\ pc[t] = "search"
  /\ i \in work[t].todo
  /\ Goto(t, "insert")
  /\ work' = [work EXCEPT ![t].todo = @ \ {i}, ![t].at = {i}]
  /\ UNCHANGED <<library, req, edited>>

\* create_manual_feature_tests takes the scenarios one by one; a scenario
\* with the id of a generated test is refused unless forced, and with it
\* those after it, not those before.
Search(t, i) ==
  /\ pc[t] = "search"
  /\ i \in work[t].todo
  /\ IF tests[i].text # NoText /\ ~tests[i].manual /\ ~req[t].force
     THEN Return(t)
     ELSE /\ Goto(t, "insert")
          /\ work' = [work EXCEPT ![t].todo = @ \ {i}, ![t].at = {i}]
          /\ UNCHANGED req
  /\ UNCHANGED <<library, edited>>

Insert(t) ==
  /\ pc[t] = "insert"
  /\ SaveByHand(work[t].at, req[t].text)
  /\ drawn' = drawn \union work[t].at
  /\ work' = [work EXCEPT ![t].at = {}]
  /\ Goto(t, "search")
  /\ UNCHANGED <<present, overrides, reviews, stories, analyses, latest, req>>

\* The feature's story is added to those read from the project ...
Story(t) ==
  /\ pc[t] = "search"
  /\ work[t].todo = {}
  /\ work' = [work EXCEPT ![t].known = stories]
  /\ Goto(t, "tell")
  /\ UNCHANGED <<library, req, edited>>

\* ... and all of them are written back, if the project still exists.
Tell(t) ==
  /\ pc[t] = "tell"
  /\ stories' = IF present THEN work[t].known \union {req[t].feature} ELSE stories
  /\ Return(t)
  /\ UNCHANGED <<present, tests, overrides, reviews, analyses, latest, drawn, edited>>

Drop(t) ==
  /\ pc[t] = "drop"
  /\ present' = FALSE
  /\ tests' = NoSuite
  /\ overrides' = NoVerdicts
  /\ reviews' = {}
  /\ stories' = {}
  /\ latest' = 0
  /\ edited' = [i \in Ids |-> NoText]
  /\ Return(t)
  /\ UNCHANGED <<analyses, drawn>>

-----------------------------------------------------------------------------
Run(t) ==
  \/ Generate(t) \/ Load(t) \/ Refine(t) \/ RefineFails(t)
  \/ Snapshot(t) \/ Review(t) \/ ReviewFails(t) \/ Record(t) \/ Render(t)
  \/ (\E i \in Ids : SideCarRead(t, i)) \/ SideCarWrite(t) \/ Publish(t)

Correct(t) ==
  \/ Override(t) \/ Patch(t) \/ Republish(t)
  \/ Look(t) \/ Save(t) \/ Remove(t)
  \/ (\E i \in Ids : Search(t, i)) \/ Insert(t) \/ Story(t) \/ Tell(t)
  \/ Drop(t)

Next ==
  \E t \in Threads :
    \/ \E r \in Request : Begin(t, r)
    \/ CheckProject(t) \/ WalkFails(t) \/ Run(t) \/ Correct(t)

Spec == Init /\ [][Next]_vars

-----------------------------------------------------------------------------
(* Properties.                                                             *)

Quiet == \A t \in Threads : pc[t] = "idle"

\* What a human saved stays what the test says, and stays marked as a
\* human's, until a human changes or deletes it.  Of the side-car the code
\* says that it is stored "without overwriting human edits"; but it stores
\* the record it read before, and a human may have saved the test since.
EditKept ==
  \A i \in Ids : edited[i] # NoText => tests[i].text = edited[i] /\ tests[i].manual

\* The BDD scenario stored with a test a human wrote is that test's own: no
\* run attaches the scenario of another text to it.
ScenarioMatches ==
  \A i \in Ids : tests[i].manual => tests[i].scenario \in {tests[i].text, NoText}

\* "So UI sees override immediately": the latest analysis shows, of every
\* test it reviewed, the verdict a human has set.
OverrideShown ==
  Quiet => \A i \in Ids : Reviewed(latest, i) /\ overrides[i] # Unreviewed =>
             analyses[latest].verdict[i] = overrides[i]

\* A deleted project owns nothing, whatever was running when it was deleted.
NothingLeft ==
  ~present => tests = NoSuite /\ overrides = NoVerdicts /\ latest = 0 /\ stories = {} /\ reviews = {}

\* "Generated tests are not overwritten without force": while the project
\* exists, the text of a stored generated test changes, or the test goes, only
\* as a run generates its tests anew.
GeneratedKept ==
  [][\A i \in Here(tests) :
       ~tests[i].manual /\ present' /\ tests'[i].text # tests[i].text =>
         \E t \in Threads : pc[t] = "generate" /\ pc'[t] # "generate"]_vars
=============================================================================
