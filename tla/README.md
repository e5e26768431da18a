# Verification of the QA Copilot

The QA Copilot turns a project's user flow into a graph, generates manual test
cases for it, reviews and refines them until the flow is covered, and lets
testers correct what it produced. A FastAPI back end (`backend/app`) keeps
everything of a project in one in-process store that is written through to
Mongo; a Next.js front end (`frontend/src`) calls it over HTTP and server-sent
events.

This directory holds TLA+ models of the parts of that program in which the
order of events matters, the TLC runs that check them and the TLAPS proofs.

## Inventory

| Component | State it keeps | Operations | Talks to |
|---|---|---|---|
| Graph store, `graph/store.py`, `db/mongo.py` | dictionaries of projects, nodes, edges, documents, tests, reviews, overrides, analyses, graph versions; an `RLock`; the Mongo collections | setters, `create_project`, `delete_project`, `get_project`/`list_projects` (refresh), `_persist_mongo`, `_load` | every route, run and ingester, on the request threads of the pool; seed scripts write beside it |
| Refinement loop, `agents/coverage_closure` | the suite of one run, verdicts, covered obligations, iteration history, counters | review, decide, revise, final review, harden, gate; resume | called by a run; the reviewer may be a language model |
| Analysis runs, `agents/orchestrator.py` | the local variables of a run | generate or load, refine, review, record, render BDD, side-car, publish | store, specialists, refinement loop, model |
| Test library routes, `api/routes.py`, `agents/manual_tests.py` | none of their own: tests, overrides, feature stories in the store | create, edit, delete a manual test, override a verdict, delete a project | store, concurrently with runs |
| Accounts, `services/auth_service.py`, `repositories` | users, refresh tokens in Mongo | invite, accept, login, refresh, logout, reset, change password, deactivate, delete | Mongo (one atomic call at a time), mail |
| Client session, `lib/auth-session.ts`, `auth-context.tsx`, `api.ts` | session in memory and in local storage, pending refresh | hydrate, login, call with one retry after a 401, refresh, logout | the account routes; other tabs through local storage |
| Gap regeneration, `agents/coverage_gaps.py` | suite, gaps and report of a run; stored tests | generate, find gaps, select, ask for tests (two rounds), deduplicate, report | run, store, model |
| Flow graph, `save_project_graph`, `graph/ingestion.py`, `graph/extraction.py` | nodes, edges, version number and last twenty versions of a project | save, import (JSON or prose), attach statistics, extract entities | store; the page that edits a copy |
| Traversal, `graph/traversal.py` | none | path enumeration, impact of a change, coverage | graph |
| Model routing, `services` | models found unavailable and the record of calls, both shared by all runs | choose, call, escalate, fall back | model API |
| Documents and retrieval, `rag` | documents, chunks, vector collection | ingest, index, delete, retrieve | store (without its lock), Chroma |
| Atlassian, `integrations/atlassian` | the connection with its tokens, OAuth states, imported sources | consent, call, refresh, choose a site, disconnect; import, sync, remove | Mongo, Atlassian, documents |
| Progress streams, `routes.py`, `api.ts` | a queue and a worker thread per request | progress, complete, error, time-out | run, browser |
| Flow page, `HomePageClient.tsx`, `FlowBuilder.tsx` | the chosen project, the graph shown, answers on their way | select, edit, save, import | flow routes |
| Other user interface | forms, workflow step | - | API |

`PROJECT.json` lists them with their files; `hazards` there names, line by
line, what in this code is hard to test. The behaviours that make it hard:

* request threads share one object whose mutators mostly, but not always, take
  the lock, and whose project cache is replaced without it;
* every write rewrites all of Mongo from memory, row after row, and may be cut
  short by a crash or an error at any of them;
* runs take minutes, read the library at several moments and store results at
  several others, while testers edit, delete, override and delete projects;
* the refinement loop decides with the answers of a reviewer that need not be
  consistent from one call to the next;
* the page, the tab and the connection to Atlassian work on copies, and write
  back what they read before somebody else wrote;
* documents live in the store and in the vector collection, pages at Atlassian
  and in the sources, and each call between the two may fail.

What makes the components correct is stated as properties in the modules, each
under a comment that says what it means for the code.

## Modules

`X.tla` models a component, `MCX.tla` and `X_*.cfg` instantiate it for TLC,
`XProofs.tla` proves theorems about it. An operator whose name is that of a
definition followed by words for what goes wrong (`PruneNothing`,
`SnapshotForgotten`) is a fault variant: it shows in `PROJECT.json` (`mutants`)
that a property notices that fault. No specification uses it.

### MongoStore

A thread (`pc`, `req`) serves one request at a time. `Begin` receives it;
`RefreshRead`, `RefreshFails`, `RefreshAssign`, `CheckEnds` and `CheckPasses`
are the `get_project` that starts each route, which replaces the project
dictionary without the lock; `Acquire`, `Mutate` and `MutateNothing` are the
locked mutators (`create` and `ingest` skip `Acquire`, as in the code); `Build`,
`UpsertRow`, `UpsertsDone` and `Prune` are `_sync_collection` for one
collection, repeated in the order of `_persist_mongo` (`SyncOrder`); `Finish`
answers and `WriteFails` is the exception that leaves the `with` block.
`Crash` restarts the process and loads Mongo, `BlindRestart` does so when Mongo
cannot be reached, `Seed` is a script that writes a project beside the API.

A project has one representative row per collection, with an opaque value: keys
are namespaced by project, so two rows of a project are two copies of it. The
history variables `owed`, `promised` and `gone` record what has been
acknowledged and not been touched since; a restart without Mongo voids every
promise, because the next write-back deletes what memory does not hold.

`WriteThroughStore` is what such a store promises, without threads, lock, copies
or collections: `Write` takes effect on all its rows at once, `Store` brings rows
to the stable copy later and only as the cache has them by then, `Acknowledge`
answers for rows whose two copies agree, `Restart` goes on with what is stable,
`RestartEmpty` with nothing, `Import` is a write from outside. MongoStore
implements it (`WritesThrough`) as long as all requests take the lock; the
refinement mapping takes the artifacts of `mem`, `db` and `promised` for the
abstract `row`, `stable` and `acked`. `Mutate` is a `Write`, `UpsertRow` and
`Prune` are a `Store` of one row, `Finish` acknowledges, and everything else is a
stutter or a restart.

Runs:

* `MongoStore_locked`: two threads, one project with two possible contents,
  locked requests and reads, crashes, restarts without Mongo and Mongo errors.
  `AckedDurable`: what a client was told is stored is in
  Mongo at every later moment, in the middle of other requests' write-backs and
  of their failures; `DeleteSweepsArtifacts`: an acknowledged deletion leaves
  no artifact; `LockReleased`: every held lock is released; `WritesThrough`: the
  whole implements `WriteThroughStore`.
* `MongoStore_unlocked`: project creation and document ingestion, which take no
  lock, beside a locked request and external seeds: an acknowledged row is still
  served from memory (`AckedVisible`). It is not durable there: two unlocked
  write-backs can undo each other in Mongo.
* `MongoStore_resurrected` (violation): a refresh that read Mongo before a
  deletion puts the project back into memory (`DeletedStaysDeleted`).

Two threads are enough for each race, which is between a writer and a reader or
two writers; the third thread of a larger pool waits for the lock. Two
collections (three with documents) show every boundary of the write-back:
first, last and between.

Fairness (`FairSpec`): a thread that can take a step eventually does. The pool's
threads are scheduled by the operating system and no step of a write-back waits
for anything but Mongo, whose call returns or raises. Nothing is assumed of who
gets the lock.

### RefinementLoop

`Review`, `Succeed`, `StopAtLimit`, `Stagnate`, `Revise`, `FinalReview`,
`Harden` and `Gate` are the steps of `run_refinement_loop`;
`Resume` starts a run over from the suite the previous one published. A test is
an id with an opaque content; constants give what the pure functions return on
it (correction, hardening, revision, validity by the rules, obligations it
matches, duplicates). With `Deterministic` the rules review alone; without it a
language model may answer any verdict for any test.

Runs:

* `RefinementLoop_rules`: rule-based review of every suite of up to three tests
  over nine contents, one resume. One test may not be edited, one is a human's,
  and two may be rewritten, retired and hardened. A run reported complete is
  complete (`CompleteIsCovered`), the test limit holds (`SuiteBounded`), no round
  loses a covered obligation (`CoverageKept`), and every run ends (`RunsEnd`,
  under weak fairness of the loop's own steps: it is one sequential function).
  Two of the contents are vague and hardened into the same text; after the loop
  nothing drops such a duplicate and the rules call both tests invalid, so
  `CoverageKept` excepts the end of a run that has two tests of one text.
* `RefinementLoop_model`: a reviewer that answers anything, three rounds on one
  gap: never two active tests created for it (`OneTestPerGap`),
  `DoNotEditRespected`. Such a reviewer may say something else of the suite at the
  end than it said in the loop: the label "complete" then stands beside a coverage,
  computed anew, of less than 100%. `CompleteIsCovered` is therefore checked, and
  proved, for the rules only.

Deadlock is not checked: a finished run that is not resumed stops. The bounds
(`MaxIterations`, `MaxTests`, `MaxLlmCalls`, `StagnationRounds`) are settings of
the program, taken small enough that every stop reason is reached; `MaxResumes`
is a bound of the instance.

### TestLibrary

Threads serve runs (`generate`, `review`, `resume`) and corrections
(`override`, `edit`, `create`, `delete`, `drop`). Every call of a store method is
one step, because of its lock; what lies between two calls is interleaved. The
steps of a run are `Generate` or `Load`, `Refine` (or `RefineFails`), `Snapshot`
of the overrides, `Review` (or `ReviewFails`), `Record`, `Render`, `SideCarRead`
and `SideCarWrite` for each rendered test, `Publish`. Those of the routes are
`Override`, `Patch`, `Republish`; `Look`, `Save`, `Remove`; `Search`, `Insert`,
`Story`, `Tell`; `Drop`. `WalkFails` is the `RuntimeError` of a dictionary that
another thread resizes under a loop. The refinement loop appears as one step
that may rewrite, drop and add tests, which is what it does to a suite that only
its run holds. Python passes the stored analysis by reference: `latest` is an
index into `analyses`, and `Patch` changes the object all its holders see.

Runs:

* `TestLibrary_one_thread`: one request at a time. After runs outside the
  refinement loop the latest analysis shows every verdict a human has set
  (`OverrideShown`), and unforced requests leave generated tests as they are
  (`GeneratedKept`). A run
  through the refinement loop never sees overrides: with `Refined = {"review"}`
  TLC finds `OverrideShown` violated.
* `TestLibrary_two_threads`: reviews, resumed refined runs, forced edits and
  deletions side by side: a test a human wrote never carries the scenario of
  another text (`ScenarioMatches`), although the side-car may write over a human's
  edit; `TypeOK` says that stored ids are drawn ones, the tests the loop adds
  included, which only the side-car stores.
* `TestLibrary_lost_edit` (violation): the side-car reads a generated test, a
  human takes it over with `force_overwrite_generated`, and the side-car stores
  the record it read: the edit is lost, and the mark `human_edited` with it
  (`EditKept`). The comment in the orchestrator says that no human edit is
  overwritten.
* `TestLibrary_deleted_project` (violation): a run that ends after its project
  was deleted stores its tests and its analysis (`NothingLeft`).

The bounds are `MaxAnalyses` (one or two runs), two or three ids, two texts: a
run, the request it races with and the run after them.

`Numbered` is the set of ids that generation uses. Each run numbers its tests
from TC-001 again, so a later run replaces the stored tests with those numbers,
also one whose text a user has forced; and a verdict a human gave to the old
TC-001 then applies to another test. No run in `TestLibrary_lost_edit` generates:
the edit is lost to the side-car alone.

### AccountSessions

The handlers of `auth_service.py` and `user_service.py` are coroutines; every
call of a repository is one atomic step on one document, and other requests run
between two calls. An action is named after the method (`Login`, `Refresh`,
`Reset`, `Accept`, `Create`, `Patch`, `Delete`, ...) or after the call inside it
(`Owner`, `Issue`, `Rotate`, `Revoke`, `Prepare`, `Write`, `Insert`, `Revive`,
`Reinvite`, `Link`); `Fail` is a call that raises. An account is its email, which
is unique; a password is told apart only by whether its user or an admin chose
it or an invitation drew it; a link whose mail failed is one that nobody uses,
and an expired one is not found. `Patch` may also give an account a link for a
new password by hand, any one, an old one included: `UserUpdate` has
`forgotPasswordToken`. Such a link works if the account has an expiry date from
an earlier request (`dated`), since `Reset` compares it. `spent`, `given` and
`outlived` are history variables.

`AccountSessions_two_requests`: any two requests on one account, two tokens,
three links. When a change of password is done, no session that existed at the
change is left (`SessionsEnd`); a used link is dead, unless an admin gave it to an
account by hand (`SpentLinksDead`); a deleted account is inactive (`DeletedIsInactive`); a rotated token has a stored
replacement (`ReplacedBeforeRevoked`). Two requests are what each race needs; a
request that finds no token or link left to draw waits until it fails.

What the model also shows, and no text excludes: a sign-in or refresh that read
the account before the change stores a session that outlives it; a token
refreshed twice at once gives two sessions; an invitation sent while the former
one is being accepted deactivates the account again.

### ClientSession

A tab runs one task at a time, up to an `await`; an action is what it does
between two answers. `Send`, `Answer` and `Unauthorized` are `request` (and
`fetchWithAuthRetry`), `Refresh` and `Resume` the entry and the exit of
`refreshAccessToken`, `Arrive` and `Refused` the two ends of the refresh that
`refreshPromise` stands for, `Renew` and `Profile` the provider's
`refreshSession`, `LoginSend`/`LoginDone` and `LogoutSend`/`LogoutDone` sign-in
and logout, `Bootstrap` the provider's effect, and `Open` a page that is opened or
reloaded. `Grant`, `Refuse`, `Revoke`, `End` and `Expire` are the server, in the
terms of AccountSessions: `Revoke` is a logout that arrives, `End` every
revocation that no tab asked for as such (a change of the password, also from
this very tab, which keeps its pair; a reset, an invitation accepted, the expiry
of a token), and `Refuse` may refuse also a token that is still stored, whose
account was deactivated or deleted. A pair of tokens is a number; `forfeit`
records the tokens that a logout or a refresh whose answer nobody awaits may end,
and those that the server has ended or refused by itself.

`ClientSession_one_tab`: two calls at a time and three pairs, so that two calls
meet a 401 together and a pair can be rotated twice. The tab's calls share one
refresh: a refused token is one that the server was asked to forget or ended by
itself, never one that another call has just rotated (`RefusalsAreEarned`); the
storage holds what a reload can go on with, or what the server has ended
(`ReloadKeepsSession`): no pair is lost between the answer that brings it and
the storage; a retry carries another pair than the one refused
(`RetriesCarryTheNewPair`); every call ends (`CallsEnd`). Fairness: every fetch
of a browser ends, with an answer or an error; nothing is assumed of when.

Several tabs are in the model, and in the theorems, but not in the run: the two
invariants speak of the time in which one tab was open, and fail
without that condition, because a second tab goes on with the pair it read when
it was opened, is refused after the first has rotated it, and then clears the
storage of both. The model also shows that a refresh under way when the user
logs out signs the tab in again when its answer comes after the logout's.

### FlowGraph

The flow of each project in the store (`home`, `links`, `meta`, `past`), the page
on which one user edits a copy of it (`page`, `loads`, `saving`), and worker
threads (`job`). `Select`, `AnswerLoad`, `ShowLoad` and `LoseLoad` are
`selectProject` and the two ends of its load; `AddChild`, `DeleteSelected` and
`ResetRoot` are the edits; `SaveSend`, `SaveServer`, `SaveReply` and `SaveFails`
a save. `Import` is a flow read from JSON or prose, followed by `AttachStats` in
the second case and, on the page, by `Imported`; `ExtractNode` and `ExtractLink`
are one entity of an uploaded document. `SaveProjectGraph` is the store method
behind all saves: the history entry, the nodes that go, the artifacts that
stay, the edges, and the version, which counts from the client's copy.

* `NodesStayHome`: no save takes the nodes of another project along, and none
  removes an artifact. The store itself would do the former: it puts every node
  of a saved graph under the project of the URL. What prevents it are the two
  guards of the page (the token and the project of an answer), both of which are
  needed.
* `WorkRecoverable`: whatever anyone stored in a flow is there or in a kept
  version, even if stale copies are saved over it, until the history is cut.

Instance: two projects, two nodes of which one is stored and one is an artifact,
one worker, one load in flight, two saves, a history of three. A second
project is what a node can be taken to; one load and one import are what can
meet. The theorem does not depend on these numbers. A history cut at three cannot
happen with two saves, so the condition of `WorkRecoverable` is met in the run.

### FlowTraversal and CoverageGaps

`FlowTraversal` holds `discover_paths` and `impact_subgraph` as operators, and
`LongestPaths`, a definition by the paths themselves; an `ASSUME` of `MCServices`
checks that they agree on every graph of three nodes, self-loops and cycles
included, at depths one to three.

`CoverageGaps` is a run between retrieval and the reviewer: `GenerateSuite`,
`AnalyzeGaps`, and in each round `SelectGaps`, `GenerateForGap` for each chosen
gap, and `CloseRound`; then `Report`. `DeleteElsewhere` is another request that
deletes a stored test meanwhile. A test is told by its sort, the topics its title
and its text speak of, its path and its kind of steps, which is all that the
comparison of tests and gaps sees.

* `OpenGapsReported`: when the rounds of targeted tests are over, a path of the
  flow is listed as open exactly if no test of the suite they leave reaches its
  end, and every bug is listed that no test speaks of. This is the suite at
  `orchestrator.py:782`. The answer may carry another one: the reviewer may
  rename its tests, the refinement loop (on by default) replaces it, the filter
  keeps valid tests only, and the list is not made again.
* `TargetedTestsAreNew`: a targeted test is no duplicate of another, known or new,
  and shares no number with one, unless a duplicate was dropped before. In that
  case numbers are reused and the stored test with that number is replaced: that
  is what the code does (`specialists.py:722`).

Instance: three nodes, two flows (two branches; a branch that turns back), one
bug, one requirement, three drafts, suites of up to two, answers of up to two,
limits of zero and two gaps, two rounds. All kinds of gaps but that of an
external dependency occur. A limit of zero still takes one gap.

### AnalysisStream

A request's worker goes through the stages of `QAOrchestrator.run` and puts
progress into its queue (`Advance`), which its response takes out (`Yield`) until
the sentinel or `Timeout`; the tab reads until the end (`Settle`), or stops
(`Abort`). `StartCall`, `Answered`, `WrittenOff` and `CallFails` are a call of the
model service: the list of models, the model written off for all later calls of
the process, the repair of an answer, the way on without a model. `Record` is
the record of calls that all runs share, which `Identify` empties and `Publish`
reports from. `Query` may come again when the first worker still runs; whichever
finishes last is then the latest analysis.

* `OneEnding`: a response that has ended told the tab one ending, last.
* `QueriesSettle`: every query ends for the tab, even if its worker hangs.
* `AnswerNamesItsModel`: the answer names the model of the last call of its run,
  if no other run overlapped. Overlapping runs do report each other's models.

Fairness (`StreamFairness`): weak, of the response (`Respond`: the generator of the
web server, which either has an event or waits five minutes on the clock) and of
the tab's reading of an ended body (`Settle`). Nothing is assumed of workers or
models. Instance: a request and its retry, queues of one waiting event (a
longer one only delays the worker), one strong and one default model.

### KnowledgeBase

Threads upload documents (`Ingest`, `ReadChunks`, `Index`, `Answer`), import and
sync pages (`Fetch`, `Unchanged` or `Replace`, `Store`, `Embed`, `WriteRow`;
`Blame` after a failed sync), remove sources (`DropDoc`, `DropRow`) and delete
projects (`DropVectors`, `DropRows`), while `EditPage` changes a page at
Atlassian. Every call of the store, the collection or Atlassian is one step, and
those of the collection and of Atlassian may fail.

* `AckedDocumentsIndexed`: a document whose upload was answered is in the
  collection, also if an earlier upload of it stored the document and then lost
  the chunks, as long as its project is in the store and is not being deleted.
* `SourcesIndexed`: a source has its document, with the content whose hash it
  keeps, in the store and in the collection, unless two operations worked on the
  page at once (`raced`) or its last import lost the embedding (`failed`).

Both exceptions are real: there is no lock across an import, and an embedding
that fails comes after the old document was deleted, so the source points to a
document that is gone until the page changes. An import into a project that is
being deleted leaves rows nobody owns; chunks whose deletion failed stay.
Instance: one project, two threads, two documents, one page with two contents,
one source: two threads are what a race needs, and a document and its
replacement are two.

### AtlassianConnection

`Connect`, `Callback` or `Denied`, `Exchange` and `SetTokens` are a consent;
`Call`, `TakeToken`, `Send`, `PostRefresh` and `SetTokens` a call of the client
with its retries and its refresh; `SelectSite`, `FetchSites`, `Load` and
`WriteBack` the choice of a site, and of the products of a new consent;
`Disconnect` and `RevokedThere` end the connection on either side. Reading the
connection and writing it are two calls of Mongo.

`NewestPairKept`: the connection holds the pair that Atlassian refreshes, as long
as no two threads were at the connection at once and no answer of Atlassian was
lost (`crossed`). Without that condition TLC finds the loss: two threads refresh
with the same token, or the choice of a site writes the old pair back. Instance:
two states, two threads, one retry, three pairs, so that a pair is rotated twice.

### MCServices

The run `Services` checks the five modules above on these instances. They share
nothing that their properties speak of, so each behaviour is one component
(`component`) while the others stay as they began; the run is five runs in one.
Deadlock is not checked: a component whose bounds are used up stops.

## What the models leave out

* One server process. A second one would delete the rows of the first at its
  next write-back (`_sync_collection` removes what its own memory lacks); a
  restart without Mongo and the seed script show the same effect in MongoStore.
* The Neo4j mirror, profile and administration forms, the workflow steps of the
  page, undo and redo.
* In FlowGraph projects are neither created nor deleted, and typing of nodes is
  a constant. Two versions of one number are reachable and are not a property.
* In CoverageGaps the ranking of retrieval (existing tests are always in the
  context up to its limit), gaps of alternate flows (treated like other paths),
  the wording of tests, and all that changes the suite after the gaps were
  listed: the reviewer's renaming, the refinement loop, the filter for valid
  tests. A gap is never closed by its id, since
  ids are drawn again at every analysis. Without regeneration the answer lists
  gaps of high priority only.
* In AnalysisStream the escalation for complex or financial requests (that for
  security and releases is there; both choose the same model), tokens that are
  streamed, and the stream of a flow import: it has the same form, ends after
  two minutes, and its worker still saves. An unavailable default model is
  written off until the process restarts.
* In KnowledgeBase one call stands for all chunks of a document; entities of an
  uploaded document belong to FlowGraph.
* Encryption and expiry dates of tokens, hashing, mails.

Not modelled at all: text processing (the natural-language pipeline beyond its
effect on the store, techniques, taxonomy, conversion of documents, BDD wording
and export), configuration, data types without behaviour, rendering, benchmarks.
They are sequential functions of their arguments, whose correctness is about
words and layouts and for which a model would repeat the code.

## What is proved

For every value of the constants that meets the named assumptions:

* `MongoStoreProofs`. `TypeCorrect` and `LockDiscipline` (only the holder of the
  lock is at a write-back) hold for every mixture of requests. `AckedRowsAreVisible`
  (`AckedVisible`) needs no lock either, only that no crash comes between:
  `OwedVisible` says that what a thread is about to answer is in memory until a
  later request takes it over. The others need that every request takes the lock
  (`LockedOnly`: no `create`, no `ingest`): `AckedRowsAreDurable` (`AckedDurable`),
  `AckedRowsStayVisible` (`AckedVisible`, with crashes) and
  `DeletionSweepsArtifacts` (`DeleteSweepsArtifacts`). Their invariant is
  `StoreInv` of MongoStore: the one thread that may write has a copy of the
  dictionary that nobody else can change (`CopyInv`), the collections it has
  passed agree with memory (`ProgressInv`), and both agree with every promised
  row (`PromiseInv`). `AckedDurable` alone is not inductive: a write-back in
  progress could hold a copy without the promised row.
* `MongoStoreProofs!LockedStoreWritesThrough`: `Spec => WritesThrough` under
  `LockedOnly`. It rests on the same invariant, which is why each row a
  write-back touches becomes what memory has (`CopyInv`), and why all rows agree
  when it is answered (`ProgressInv`). Each action has a lemma that names the
  abstract step it maps to.

* `RefinementLoopProofs!TypeCorrect` and `RuleBasedCompleteIsCovered`
  (`CompleteIsCovered` if `Deterministic`). The
  invariants are `CoverageInv`, `VerdictInv` and `SuccessInv`: the final review
  of a run that met the gates sees the suite that the last review of the loop
  saw, and a rule-based reviewer says the same of it again.
* `RefinementLoopProofs!GapsHaveOneTest` (`OneTestPerGap`),
  `DoNotEditIsRespected` (`DoNotEditRespected`) and `SuiteStaysBounded`
  (`SuiteBounded`), for every reviewer and setting. They argue about one revision:
  a gap gets a test only if no test that stays is linked to it, and a
  revision adds no more tests than there is room for, which needs that the names
  of new tests are new (`Namings`) and that cardinalities add up.

* `TestLibraryProofs!TypeCorrect` and `HumanScenarios` (`ScenarioMatches`), for
  every mixture of requests, forced ones included. The invariant `Inv` of the
  first ties each thread's place to the request it serves (`Fits`) and says that
  suites at hand, suites published and ids on their way to the store are drawn
  (`KnownIds`). The second needs `NotAHumans`: what the side-car is about to write
  is no record it read as a human's, so even if it undoes a human's edit it
  leaves no human test with a foreign scenario.
* `TestLibraryProofs!GeneratedTestsAreKept` (`GeneratedKept`, unforced) and `OverridesAreShown` (`OverrideShown`, if no run
  goes through the refinement loop, `NoneRefined`) are about one request at a
  time (`OneThread`), with any number of tests, texts and analyses: a second
  thread may change what the first has looked at. `KeepInv` says that it has not
  changed, `ShowInv` that a run carries the human's verdicts from its review on.

* `AccountSessionsProofs!TypeCorrect`, `SessionsEndWithThePassword`
  (`SessionsEnd`), `LinksWorkOnce` (`SpentLinksDead`), `DeletionDeactivates`
  (`DeletedIsInactive`) and `RotationKeepsAToken` (`ReplacedBeforeRevoked`), for
  any number of accounts, tokens, links and requests. `Fits` ties a request's
  place to what it asks; `LinksOnce` says that a link no admin gave by hand is in
  one field of one account only; `AccountStep` reduces all actions to three ways
  of writing an account.

* `ClientSessionProofs!TypeCorrect`, `CallsShareOneRefresh` (`RefusalsAreEarned`),
  `ReloadsAreSafe` (`ReloadKeepsSession`) and `RetriesAreFresh`
  (`RetriesCarryTheNewPair`), for any number of tabs, calls and
  pairs. `OneTabInv` is the invariant: what a lone tab holds and has stored is
  good, or is what its refresh is replacing, and the pair a granted refresh
  brings is good. Either invariant alone is not inductive: what is refused
  depends on what was held when the refresh began. `Unseen` is the invariant of
  the last: nobody carries the pair of a granted refresh before it arrives.

* `FlowGraphProofs!NodesStay` (`NodesStayHome`), for any number of projects,
  nodes, loads, saves, imports and extractions. `HomeInv` is the invariant:
  whoever has a node, on the page, in an answer, in a save or in a worker, has
  it for the same project (`Has`), and every such node is a drawn one, so no new
  node gets its id. `NodesStayHome` speaks of the store only and is not
  inductive: a page that shows a foreign node breaks it two steps later.
* `FlowGraphProofs!WorkStaysRecoverable` (`WorkRecoverable`) and
  `FlowTypeCorrect`. Every step writes nothing, one graph or one node to the
  store (`StoreWrites`); a graph is put only after the one it replaces went into
  the history, which loses a version only when it is full, and then says so.

* `AtlassianProofs!ConnectionTypeCorrect` and `RotationKeepsNewestPair`
  (`NewestPairKept`), for any number of threads, consents and pairs. `PairInv`
  is the invariant: while nothing crossed, one thread is at the connection, and
  it has the newest pair in hand (`NewPairInHand`) or is about to write the pair
  that is stored (`StoredPairInHand`), or the two sides agree.
* `AtlassianProofs!KnowledgeTypeCorrect`, `AnsweredDocumentsAreIndexed`
  (`AckedDocumentsIndexed`) and `SourcesHaveTheirDocument` (`SourcesIndexed`), for
  any number of threads, projects, pages, documents and contents. `KnowledgeInv`
  is the invariant. Neither property is inductive: the first needs that a document
  is named by one scope and one file or page only, wherever it is held
  (`DocsAgree`), the second that a page nobody raced for has one operation at work
  at most (`OneAtWork`), whose row is still the stored one (`RowAsRead`), and that
  between the deletion of the old document and the update of the source the new
  document is already what the source will say (`NewDocIndexed`).

* `ServicesProofs!StreamsEndOnce` (`OneEnding`), `AnswersNameTheirModels`
  (`AnswerNamesItsModel`) and `StreamTypeCorrect`, for any number of requests,
  tasks and models. `EndingInv` says what a queue and the events before the tab
  may be together: progress while the worker runs, and afterwards an ending and
  the sentinel behind it, some of which the tab may have. `RecordInv` says that a
  run that is alone is the only one at work, so that from its first call on the
  shared record is that of its last call.
* `ServicesProofs!OpenGapsAreReported` (`OpenGapsReported`),
  `TargetedTestsStayNew` (`TargetedTestsAreNew`) and `GapsTypeCorrect`, for every
  finite flow, library, draft of a model and limit. `GapInv` is the invariant: the
  paths at hand are those of the flow (`ContextOK`), numbers count the tests until
  one is dropped (`NumbersCount`), and a targeted test is apart from every other
  (`TargetedApart`). They rest on what the recursive functions compute:
  deduplication keeps a test exactly if it is like none of the kept ones, and
  `SearchFindsLongestPaths` says that the search for paths finds `LongestPaths`,
  on every finite graph and to every depth. Both are inductions; they are done
  over a set of numbers (`SetInduction`: a set with 0 and with every successor has
  all numbers, from the well-foundedness of finite sets), which needs no theorem
  with an operator for parameter, and the functions exist because each step maps
  a fixed set into itself (`StepsExist`, `FoldExists`).
* `ServicesProofs!ServicesTypesCorrect` (`ServicesTypeOK`): a behaviour of
  `MCServices` is one of each component (`ComponentsBehave`), which therefore
  keeps its types.

Only model-checked: liveness (`LockReleased`, `RunsEnd`, `CallsEnd`,
`QueriesSettle`), which the prover does not reach; `CoverageKept`, which does not
hold for every value of the constants; and every violation. Every other property
of a passing run is a theorem. `CoverageKept` supposes, as its run has it, that
only equal texts are alike and that neither correction nor hardening changes a
sound test: corrections that do, or two tests that count as alike without
matching the same obligations, can lose one.

## Plan

Each module rests on one of the former or covers the next most important
behaviour:

1. Done: `MongoStore` and its refinement of `WriteThroughStore`,
   `RefinementLoop`, `TestLibrary`, `AccountSessions`, `ClientSession`, with their
   proofs.
2. Done: `FlowGraph`, `AnalysisStream` and `AtlassianConnection` with their
   proofs; `FlowTraversal`, `CoverageGaps`, `KnowledgeBase`.
3. Done: proofs of every safety property of the runs but `CoverageKept`.
4. Left: several server processes over one Mongo; the reviewer's renaming after
   the gaps were listed; the stages of analysis that only format.
