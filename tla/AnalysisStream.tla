---------------------------- MODULE AnalysisStream ----------------------------
(***************************************************************************)
(* An analysis as its reader sees it: a worker thread takes the request    *)
(* through the stages of the orchestrator, calls the models over a service *)
(* that all runs share, and puts its progress into a queue; the response   *)
(* streams the queue to the tab until the sentinel, or until five minutes  *)
(* pass without an event; the tab has a timer of its own and may ask again *)
(* while the first worker goes on.                                         *)
(***************************************************************************)
EXTENDS Naturals, Sequences, FiniteSetsExt

CONSTANTS
  Runs,         \* requests in the order the tab sends them: 1..n
  Tasks,        \* what a model is called for
  BaseModel,    \* model of every task, from the settings or the built-in map
  StrongModel,  \* target of escalation
  DefaultModel, \* openai_model, the last one that is tried
  DemoFallback, \* enable_demo_fallback
  Sensitive,    \* values of "this request is sensitive, complex or urgent"
  NoModel,
  MaxWaiting    \* bound: progress events in a queue before its worker goes on

ASSUME StreamAssumption ==
  /\ Runs = 1..Cardinality(Runs)
  /\ {"classify", "generate", "repair", "critic", "target", "review", "assess"} \subseteq Tasks
  /\ DemoFallback \in BOOLEAN /\ MaxWaiting \in Nat \ {0} /\ Sensitive \subseteq BOOLEAN

VARIABLES
  run,         \* what the worker thread of every request does
  queue,       \* its events that the response has not taken yet
  reader,      \* its response: "none", "open", "ended", "gone"
  seen,        \* the events the tab has got of it
  unavailable, \* _unavailable_models
  lastRoute,   \* last_routing: actual_model_used of the last call of any run
  lastModel,   \* last_chat_model
  latest,      \* the published analysis, by its request
  tab,         \* the request the tab waits for, or 0
  shown        \* the answer the tab shows, or 0

service    == <<unavailable, lastRoute, lastModel>>
streamVars == <<run, queue, reader, seen, service, latest, tab, shown>>

Models == {BaseModel[t] : t \in Tasks} \union {StrongModel, DefaultModel}
Stages == <<"identify", "classify", "fuse", "generate", "sections", "critic", "target",
            "review", "assess", "publish">>
After(s) == LET i == CHOOSE j \in DOMAIN Stages : Stages[j] = s
            IN  IF i = Len(Stages) THEN "over" ELSE Stages[i + 1]

Endings == {"complete", "error"}

StreamTypeOK ==
  /\ \A r \in Runs :
       /\ run[r].at \in {"none", "over", "end"} \union {Stages[i] : i \in DOMAIN Stages}
       /\ run[r].todo \in Seq(Models) /\ run[r].calling \in BOOLEAN
       /\ run[r].attempt \in 0..2
       /\ run[r].outcome \in Endings \union {"running"}
       /\ {run[r].reported, run[r].own} \subseteq Models \union {NoModel}
       /\ {run[r].sensitive, run[r].alone} \subseteq BOOLEAN
       /\ seen[r] \in Seq(Endings \union {"progress"})
       /\ Len(queue[r]) <= MaxWaiting + 3
  /\ reader \in [Runs -> {"none", "open", "ended", "gone"}]
  /\ unavailable \subseteq Models
  /\ {lastRoute, lastModel} \subseteq Models \union {NoModel}
  /\ {latest, tab, shown} \subseteq Runs \union {0}

Idle == [at |-> "none", todo |-> <<>>, calling |-> FALSE, attempt |-> 0, outcome |-> "running",
         sensitive |-> FALSE, reported |-> NoModel, own |-> NoModel, alone |-> TRUE]

StreamInit ==
  /\ run = [r \in Runs |-> Idle]
  /\ queue = [r \in Runs |-> <<>>]
  /\ reader = [r \in Runs |-> "none"]
  /\ seen = [r \in Runs |-> <<>>]
  /\ unavailable = {}
  /\ lastRoute = NoModel /\ lastModel = NoModel
  /\ latest = 0 /\ tab = 0 /\ shown = 0

Active(r) == run[r].at \notin {"none", "end"}

-----------------------------------------------------------------------------
(* The tab and the response. *)

\* handleQuery, or its retry: one request at a time.  A run that is there
\* already, or starts later, shares the model service with this one.
Query(r, sensitive) ==
  /\ tab = 0
  /\ run[r].at = "none"
  /\ \A s \in Runs : s < r => run[s].at # "none"
  /\ tab' = r
  /\ reader' = [reader EXCEPT ![r] = "open"]
  /\ run' = [s \in Runs |->
       IF s = r THEN [Idle EXCEPT !.at = "identify", !.sensitive = sensitive,
                                  !.alone = \A o \in Runs : ~ Active(o)]
       ELSE IF Active(s) THEN [run[s] EXCEPT !.alone = FALSE] ELSE run[s]]
  /\ UNCHANGED <<queue, seen, service, latest, shown>>

\* event_stream yields the next event; the sentinel ends it.
Yield(r) ==
  /\ reader[r] = "open"
  /\ queue[r] # <<>>
  /\ queue' = [queue EXCEPT ![r] = Tail(@)]
  /\ IF Head(queue[r]) = "end"
     THEN reader' = [reader EXCEPT ![r] = "ended"] /\ UNCHANGED seen
     ELSE seen' = [seen EXCEPT ![r] = Append(@, Head(queue[r]))] /\ UNCHANGED reader
  /\ UNCHANGED <<run, service, latest, tab, shown>>

\* Five minutes without an event end the stream.  Variants: it goes on
\* waiting; it ends without a word.
GoesOn(r)    == UNCHANGED <<seen, reader>>
EndsQuiet(r) == reader' = [reader EXCEPT ![r] = "ended"] /\ UNCHANGED seen
TimesOut(r) ==
  /\ seen' = [seen EXCEPT ![r] = Append(@, "error")]
  /\ reader' = [reader EXCEPT ![r] = "ended"]
Timeout(r) ==
  /\ reader[r] = "open"
  /\ queue[r] = <<>>
  /\ TimesOut(r)
  /\ UNCHANGED <<run, queue, service, latest, tab, shown>>

\* The events of a request that the tab is done with are kept nowhere.
Said(r) == {seen[r][i] : i \in DOMAIN seen[r]}
Forget(r) ==
  /\ reader' = [reader EXCEPT ![r] = "gone"]
  /\ queue' = [queue EXCEPT ![r] = <<>>]
  /\ seen' = [seen EXCEPT ![r] = <<>>]

\* queryStream returns when the body ends: with the result, or with the error
\* of the stream, or because it had neither.
Settle(r) ==
  /\ tab = r
  /\ reader[r] = "ended"
  /\ tab' = 0
  /\ shown' = IF "complete" \in Said(r) /\ "error" \notin Said(r) THEN r ELSE shown
  /\ Forget(r)
  /\ UNCHANGED <<run, service, latest>>

\* The timer of the tab, another project, or a lost connection.
Abort(r) ==
  /\ tab = r
  /\ reader[r] \in {"open", "ended"}
  /\ tab' = 0
  /\ Forget(r)
  /\ UNCHANGED <<run, service, latest, shown>>

-----------------------------------------------------------------------------
(* The worker: its stages, each of which reports progress. *)

\* A queue whose response is gone is read by nobody, so it is left out.
Put(r, evs) == queue' = [queue EXCEPT ![r] = IF reader[r] = "open" THEN @ \o evs ELSE <<>>]
Advance(r, rec) ==
  /\ Len(queue[r]) < MaxWaiting
  /\ run' = [run EXCEPT ![r] = [rec EXCEPT !.at = After(rec.at), !.calling = FALSE,
                                           !.attempt = 0, !.todo = <<>>]]
  /\ Put(r, <<"progress">>)

\* An exception that no stage catches ends the run.
Raise(r) ==
  /\ run' = [run EXCEPT ![r].at = "over", ![r].outcome = "error", ![r].calling = FALSE]
  /\ UNCHANGED queue

\* _run_inner: project, flow and root.  The record of the calls is emptied,
\* for all runs.
Identify(r) ==
  /\ run[r].at = "identify"
  /\ Advance(r, run[r])
  /\ lastRoute' = NoModel
  /\ UNCHANGED <<reader, seen, unavailable, lastModel, latest, tab, shown>>
NotFound(r) ==
  /\ run[r].at = "identify"
  /\ run' = [run EXCEPT ![r].at = "over", ![r].outcome = "complete"]
  /\ UNCHANGED <<queue, reader, seen, service, latest, tab, shown>>

Plain(r, stage) ==
  /\ run[r].at = stage
  /\ Advance(r, run[r])
  /\ UNCHANGED <<reader, seen, service, latest, tab, shown>>
\* Retrieval, impact, coverage, risk, and the choice of the model.
Gather(r) == Plain(r, "fuse")
\* The other sections, whose failures are caught and recorded.
Sections(r) == Plain(r, "sections")
\* Retrieval, and the storing of targeted tests, are not caught.
Breaks(r) ==
  /\ run[r].at \in {"fuse", "target"}
  /\ ~ run[r].calling
  /\ Raise(r)
  /\ UNCHANGED <<reader, seen, service, latest, tab, shown>>

-----------------------------------------------------------------------------
(* Calls of the model service. *)

TaskOf(rec) ==
  IF rec.at \in {"generate", "target"} /\ rec.attempt # 0 THEN "repair" ELSE rec.at

\* build_routing_context_from_fused: a request about security or a release, by
\* its words, escalates the tests that are written for it, but not their
\* repair, which is a task of its own.
Escalates(rec) == TaskOf(rec) \in {"generate", "target"} /\ rec.sensitive
\* resolve_model
SelectedModel(rec) == IF Escalates(rec) THEN StrongModel ELSE BaseModel[TaskOf(rec)]
\* _models_to_try: fallback_model is the default of the settings.
ModelsToTry(rec) ==
  IF SelectedModel(rec) = DefaultModel THEN <<DefaultModel>>
  ELSE <<SelectedModel(rec), DefaultModel>>
\* Models that were found unavailable are passed over, up to one that was not.
Triable(todo) ==
  LET free == {i \in DOMAIN todo : todo[i] \notin unavailable}
  IN  IF free = {} THEN <<>> ELSE SubSeq(todo, Min(free), Len(todo))

StartCall(r, stage) ==
  /\ run[r].at = stage
  /\ ~ run[r].calling
  /\ run' = [run EXCEPT ![r].calling = TRUE, ![r].todo = ModelsToTry(run[r])]
  /\ UNCHANGED <<queue, reader, seen, service, latest, tab, shown>>
Classify(r)  == StartCall(r, "classify")
Generate(r)  == StartCall(r, "generate")
Criticize(r) == StartCall(r, "critic")
Target(r)    == StartCall(r, "target")
\* decide_reviewer: the reviewer is for sensitive requests, and may be off.
MayReview(rec) == rec.sensitive
Review(r)    == MayReview(run[r]) /\ StartCall(r, "review")
Assess(r)    == StartCall(r, "assess")

\* No suite by intent or because only a review is asked for, no critic, no gap
\* to fill, no reviewer, no review of the suite by a model.
Skip(r) ==
  /\ run[r].at \in {"generate", "critic", "target", "review", "assess"}
  /\ ~ run[r].calling /\ run[r].attempt = 0
  /\ Advance(r, run[r])
  /\ UNCHANGED <<reader, seen, service, latest, tab, shown>>

\* Variant: a call that failed leaves the route of the last answer.
RecordAnswersOnly(m) == /\ lastRoute' = IF m = NoModel THEN lastRoute ELSE m
                        /\ lastModel' = m
\* _record_routing_event, for a call that model m answered, or none.
Record(m) == lastRoute' = m /\ lastModel' = m

Again(r, m, attempt) ==
  /\ run' = [run EXCEPT ![r] = [@ EXCEPT !.own = m, !.attempt = attempt,
                                         !.calling = FALSE, !.todo = <<>>]]
  /\ UNCHANGED queue

\* The model answers.  Of tests it may say what cannot be used: the first time
\* that is repaired, the second time they are written without it.  Gaps, and
\* parts of the suite under review, have calls of their own.
Answered(r) ==
  LET m == Head(Triable(run[r].todo))
  IN  /\ run[r].calling
      /\ Triable(run[r].todo) # <<>>
      /\ Record(m)
      /\ \/ Advance(r, [run[r] EXCEPT !.own = m])
         \/ /\ run[r].at \in {"generate", "target"} /\ run[r].attempt = 0
            /\ Again(r, m, 1)
         \/ /\ run[r].at \in {"target", "assess"}
            /\ Again(r, m, 0)
      /\ UNCHANGED <<reader, seen, unavailable, latest, tab, shown>>

\* It does not exist or is not ours: written off for every later call.
WrittenOff(r) ==
  /\ run[r].calling
  /\ Triable(run[r].todo) # <<>>
  /\ unavailable' = unavailable \union {Head(Triable(run[r].todo))}
  /\ run' = [run EXCEPT ![r].todo = Tail(Triable(run[r].todo))]
  /\ UNCHANGED <<queue, reader, seen, lastRoute, lastModel, latest, tab, shown>>

\* Any other failure ends the call, and so does a list without a model that
\* may be tried.  A strict caller, the generator, repairs once and then writes
\* the suite without a model; the critic and the reviewer go without notes;
\* the others get the heuristic answer of the demo mode, or fail.
CallFails(r) ==
  /\ run[r].calling
  /\ Record(NoModel)
  /\ LET rec == [run[r] EXCEPT !.own = NoModel]
     IN  \/ rec.at \in {"generate", "target"} /\ rec.attempt = 0 /\ Again(r, NoModel, 1)
         \/ rec.at \in {"target", "assess"} /\ Again(r, NoModel, 0)
         \/ /\ rec.at \in {"generate", "target"} => rec.attempt # 0
            /\ rec.at = "classify" => DemoFallback
            /\ Advance(r, rec)
         \/ rec.at = "classify" /\ ~ DemoFallback /\ Raise(r)
  /\ UNCHANGED <<reader, seen, unavailable, latest, tab, shown>>

-----------------------------------------------------------------------------
\* The answer names the model of the last call; set_latest_analysis may fail
\* and the answer is sent all the same.
ActualModel == IF lastRoute # NoModel THEN lastRoute ELSE lastModel

Publish(r, persisted) ==
  /\ run[r].at = "publish"
  /\ run' = [run EXCEPT ![r].at = "over", ![r].outcome = "complete",
                        ![r].reported = ActualModel]
  /\ Put(r, <<"progress">>)
  /\ latest' = IF persisted THEN r ELSE latest
  /\ UNCHANGED <<reader, seen, service, tab, shown>>

\* The worker's last two events, complete or error and then the sentinel, are
\* put back to back.
Finish(r) ==
  /\ run[r].at = "over"
  /\ run' = [run EXCEPT ![r] = [Idle EXCEPT !.at = "end"]]
  /\ Put(r, <<run[r].outcome, "end">>)
  /\ UNCHANGED <<reader, seen, service, latest, tab, shown>>

Respond(r) == Yield(r) \/ Timeout(r)
StreamNext ==
  \E r \in Runs :
    \/ \E sensitive \in Sensitive : Query(r, sensitive)
    \/ Yield(r) \/ Timeout(r) \/ Settle(r) \/ Abort(r)
    \/ Identify(r) \/ NotFound(r) \/ Gather(r) \/ Sections(r) \/ Breaks(r)
    \/ Classify(r) \/ Generate(r) \/ Criticize(r) \/ Target(r) \/ Review(r) \/ Assess(r)
    \/ Skip(r) \/ Answered(r) \/ WrittenOff(r) \/ CallFails(r)
    \/ \E persisted \in BOOLEAN : Publish(r, persisted)
    \/ Finish(r)

\* The response is served as long as the tab is there; whether the worker gets
\* on is up to the models, so nothing is assumed of it.
StreamFairness == \A r \in Runs : WF_streamVars(Respond(r)) /\ WF_streamVars(Settle(r))
StreamSpec == StreamInit /\ [][StreamNext]_streamVars /\ StreamFairness

-----------------------------------------------------------------------------
\* A stream that was ended, by its worker or by the clock, has told the tab
\* one ending and nothing after it; only what was complete is shown.
OneEnding ==
  \A r \in Runs :
    /\ reader[r] = "ended" => seen[r] # <<>> /\ seen[r][Len(seen[r])] \in Endings
    /\ \A i \in 1..Len(seen[r]) - 1 : seen[r][i] = "progress"

\* Every query is answered in the end, also when its worker hangs in a call
\* for ever: the response, or the tab's own timer, gives up.
QueriesSettle == tab # 0 ~> tab = 0

\* The answer names the model that made the last call of its run, or none when
\* that call failed, as long as no other run overlapped it.
AnswerNamesItsModel ==
  \A r \in Runs : run[r].outcome = "complete" /\ run[r].alone => run[r].reported = run[r].own

-----------------------------------------------------------------------------
(* Why there is one ending: while a worker runs there is progress only, in   *)
(* its queue and before the tab; once it has ended, the ending and the       *)
(* sentinel are at the end of what is on its way.                            *)
Clean(s)   == \A i \in DOMAIN s : s[i] = "progress"
Closed(s)  == s # <<>> /\ s[Len(s)] \in Endings /\ \A i \in 1..Len(s) - 1 : s[i] = "progress"
Closing(q) == /\ Len(q) >= 2 /\ q[Len(q)] = "end" /\ q[Len(q) - 1] \in Endings
              /\ \A i \in 1..Len(q) - 2 : q[i] = "progress"
Told(r) ==
  /\ run[r].at = "none" => reader[r] = "none"
  /\ reader[r] \in {"none", "gone"} => seen[r] = <<>> /\ queue[r] = <<>>
  /\ reader[r] = "ended" => Closed(seen[r])
  /\ reader[r] = "open" /\ run[r].at # "end" => Clean(seen[r]) /\ Clean(queue[r])
  /\ reader[r] = "open" /\ run[r].at = "end" =>
       \/ Clean(seen[r]) /\ Closing(queue[r])
       \/ Closed(seen[r]) /\ queue[r] = <<"end">>
Working(r) ==
  /\ run[r].at = "over" => run[r].outcome \in Endings
  /\ run[r].calling => run[r].at \in {"classify", "generate", "critic", "target", "review", "assess"}
EndingInv == \A r \in Runs : Told(r) /\ Working(r)
(* Why the answer names its model: a run that is alone is the only one that  *)
(* touches the record of calls, from its first call on.                      *)
Called == {"fuse", "generate", "sections", "critic", "target", "review", "assess", "publish"}
OnlyRun(r) ==
  Active(r) /\ run[r].alone => \A o \in Runs \ {r} : ~ Active(o)
Attributed(r) ==
  /\ run[r].at \in {"identify", "classify"} => run[r].own = NoModel
  /\ run[r].at = "identify" => run[r].reported = NoModel
  /\ run[r].outcome = "complete" => run[r].at = "over"
  /\ run[r].outcome = "complete" /\ run[r].alone => run[r].reported = run[r].own
  /\ run[r].at \in Called /\ run[r].alone => lastRoute = run[r].own /\ lastModel = run[r].own
RecordInv == \A r \in Runs : OnlyRun(r) /\ Attributed(r)
=============================================================================
