------------------------- MODULE TestLibraryProofs -------------------------
(***************************************************************************)
(* What TestLibrary keeps for every set of threads, ids and texts.  For    *)
(* every kind of request: types, and that no test a human wrote carries    *)
(* the scenario of another text.  For runs, overrides and edits by any     *)
(* number of threads: what a human saved.  For one request at a time:      *)
(* generated tests, and that overrides are shown.                          *)
(***************************************************************************)
EXTENDS TestLibrary, TLAPS

\* A thread is at a step of the request it serves, and its locals fit it.
Fits(t) ==
  /\ pc[t] = "check" => req[t].kind \in AllKinds \ {"edit", "delete"}
  /\ pc[t] = "look" => req[t].kind \in {"edit", "delete"}
  /\ pc[t] = "save" => req[t].kind = "edit"
  /\ pc[t] \in {"override", "patch", "republish"} => req[t].kind = "override"
  /\ pc[t] \in {"search", "insert", "tell"} => req[t].kind = "create"
  /\ req[t].kind \in {"edit", "override", "delete"} => req[t].id \in drawn
  /\ work[t].ref <= Len(analyses)

Creating == {"search", "insert", "tell"}

\* Only ids drawn before are at hand, on their way to the store or published.
KnownIds ==
  /\ \A t \in Threads : Here(work[t].suite) \subseteq drawn
  /\ \A t \in Threads : pc[t] \notin Creating =>
                          work[t].todo \subseteq drawn /\ work[t].at \subseteq drawn
  /\ \A n \in 1..Len(analyses) : Here(analyses[n].tests) \subseteq drawn

\* The side-car is about to write no record it read as a human's.
NotAHumans == \A t \in Threads : pc[t] = "sidecar" => ~work[t].found.manual

Inv == TypeOK /\ (\A t \in Threads : Fits(t)) /\ KnownIds

-----------------------------------------------------------------------------
(* Operators.                                                              *)

LEMMA BlankIsTest == Blank \in Test /\ NoSuite \in Suite /\ NoVerdicts \in Verdicts
  BY DEF Blank, Test, NoSuite, Suite, NoVerdicts, Verdicts

LEMMA NoWorkIsWork == NoWork \in Work
  BY BlankIsTest DEF NoWork, Work

LEMMA ShownIsSuite ==
  ASSUME NEW s \in Suite, NEW v \in Verdicts
  PROVE  Shown(s, v) \in Suite
  BY BlankIsTest DEF Shown, Suite

LEMMA PublishedIsSuite == TypeOK => Published \in Suite
<1> SUFFICES ASSUME TypeOK PROVE Published \in Suite
  OBVIOUS
<1>1. CASE latest = 0
  BY <1>1, BlankIsTest DEF Published
<1>2. CASE latest # 0
  <2>1. latest \in 1..Len(analyses) /\ analyses \in Seq(Analysis)
    BY <1>2 DEF TypeOK
  <2>2. analyses[latest] \in Analysis
    BY <2>1
  <2> QED
    BY <1>2, <2>2 DEF Published, Analysis
<1> QED
  BY <1>1, <1>2

LEMMA ToRefineIsSuite ==
  ASSUME Inv, NEW t \in Threads
  PROVE  ToRefine(t) \in Suite /\ Here(ToRefine(t)) \subseteq drawn
<1>1. work[t].suite \in Suite /\ Here(work[t].suite) \subseteq drawn
  BY DEF Inv, TypeOK, Work, KnownIds
<1>2. Published \in Suite
  BY PublishedIsSuite DEF Inv
<1>3. CASE latest = 0
  BY <1>1, <1>2, <1>3 DEF ToRefine, Published, NoSuite, Blank, Here
<1>4. CASE latest # 0
  <2>1. latest \in 1..Len(analyses)
    BY <1>4 DEF Inv, TypeOK
  <2>2. Here(Published) \subseteq drawn
    BY <1>4, <2>1 DEF Inv, KnownIds, Published
  <2> QED
    BY <1>1, <1>2, <2>2 DEF ToRefine
<1> QED
  BY <1>3, <1>4

LEMMA PublishedIsKnown == Inv => Here(Published) \subseteq drawn
<1> SUFFICES ASSUME Inv PROVE Here(Published) \subseteq drawn
  OBVIOUS
<1>1. CASE latest = 0
  BY <1>1 DEF Published, NoSuite, Blank, Here
<1>2. CASE latest # 0
  <2>1. latest \in 1..Len(analyses)
    BY <1>2 DEF Inv, TypeOK
  <2> QED
    BY <1>2, <2>1 DEF Inv, KnownIds, Published
<1> QED
  BY <1>1, <1>2

\* A rewritten suite has the tests it was asked for, and no other.
LEMMA RewritingIsSuite ==
  ASSUME NEW s, NEW ids \in SUBSET Ids, NEW new \in Rewritings(s, ids)
  PROVE  new \in Suite /\ Here(new) = ids
BY DEF Rewritings, Suite, Here, Blank

LEMMA OverriddenIsVerdicts ==
  ASSUME NEW v \in Verdicts, NEW by \in Verdicts
  PROVE  Overridden(v, by) \in Verdicts
BY DEF Verdicts, Overridden

-----------------------------------------------------------------------------
(* Every step is the step of one thread: it moves that thread, and may     *)
(* change the library, in which ids and analyses never get fewer.          *)

LibraryTyped ==
  /\ present \in BOOLEAN
  /\ tests \in Suite
  /\ overrides \in Verdicts
  /\ reviews \subseteq Ids
  /\ stories \subseteq Features
  /\ analyses \in Seq(Analysis)
  /\ latest \in 0..Len(analyses)
  /\ Here(tests) \subseteq drawn
  /\ drawn \subseteq Ids
  /\ edited \in [Ids -> Texts \union {NoText}]
  /\ \A n \in 1..Len(analyses) : Here(analyses[n].tests) \subseteq drawn

LEMMA InvTypesLibrary == Inv => LibraryTyped
  BY DEF Inv, TypeOK, KnownIds, LibraryTyped

LEMMA ThreadStep ==
  ASSUME Inv, NEW t \in Threads,
         NEW p \in Places, NEW r \in Request \union {NoRequest}, NEW w \in Work,
         pc' = [pc EXCEPT ![t] = p], req' = [req EXCEPT ![t] = r],
         work' = [work EXCEPT ![t] = w],
         LibraryTyped', drawn \subseteq drawn', Len(analyses) <= Len(analyses'),
         Fits(t)', Here(w.suite) \subseteq drawn',
         p \notin Creating => w.todo \subseteq drawn' /\ w.at \subseteq drawn'
  PROVE  Inv'
<1>0. Len(analyses) \in Nat /\ Len(analyses') \in Nat
  BY DEF Inv, TypeOK, LibraryTyped
<1>1. TypeOK'
  BY DEF Inv, TypeOK, LibraryTyped
<1>2. (\A u \in Threads : Fits(u))'
  <2> SUFFICES ASSUME NEW u \in Threads PROVE Fits(u)'
    OBVIOUS
  <2>1. CASE u = t
    BY <2>1
  <2>2. CASE u # t
    <3>1. pc'[u] = pc[u] /\ req'[u] = req[u] /\ work'[u] = work[u]
      BY <2>2 DEF Inv, TypeOK
    <3>2. Fits(u) /\ work[u].ref \in Nat
      BY DEF Inv, TypeOK, Work
    <3> QED
      BY <1>0, <3>1, <3>2 DEF Fits
  <2> QED
    BY <2>1, <2>2
<1>3. KnownIds'
  <2>1. \A u \in Threads \ {t} : pc'[u] = pc[u] /\ work'[u] = work[u]
    BY DEF Inv, TypeOK
  <2>2. pc'[t] = p /\ work'[t] = w
    BY DEF Inv, TypeOK
  <2>3. KnownIds
    BY DEF Inv
  <2>4. \A s \in Suite : Here(s)' = Here(s)
    BY DEF Here
  <2> QED
    BY SMTT(30), <2>1, <2>2, <2>3 DEF KnownIds, LibraryTyped, Here
<1> QED
  BY <1>1, <1>2, <1>3 DEF Inv

\* A step in which one thread moves and the library stays.
LEMMA LocalStep ==
  ASSUME Inv, UNCHANGED <<library, edited>>, NEW t \in Threads,
         NEW p \in Places, NEW r \in Request \union {NoRequest}, NEW w \in Work,
         pc' = [pc EXCEPT ![t] = p], req' = [req EXCEPT ![t] = r],
         work' = [work EXCEPT ![t] = w],
         Fits(t)', Here(w.suite) \subseteq drawn,
         p \notin Creating => w.todo \subseteq drawn /\ w.at \subseteq drawn
  PROVE  Inv'
<1>1. LibraryTyped'
  BY InvTypesLibrary DEF LibraryTyped, library, Here
<1>2. drawn \subseteq drawn' /\ Len(analyses) <= Len(analyses')
  BY DEF library, Inv, TypeOK
<1> HIDE DEF Inv
<1>3. drawn' = drawn
  BY DEF library
<1> QED
  BY <1>1, <1>2, <1>3, ThreadStep

\* A thread that returns leaves nothing behind.
LEMMA ReturnKeeps ==
  ASSUME Inv, NEW t \in Threads, Return(t),
         LibraryTyped', drawn \subseteq drawn', Len(analyses) <= Len(analyses')
  PROVE  Inv'
<1>1. Here(NoWork.suite) = {}
  BY DEF NoWork, NoSuite, Here, Blank
<1>2. Fits(t)'
  <2>1. pc'[t] = "idle" /\ req'[t] = NoRequest /\ work'[t] = NoWork
    BY DEF Return, Inv, TypeOK
  <2>2. Len(analyses') \in Nat
    BY DEF LibraryTyped
  <2> QED
    BY <2>1, <2>2 DEF Fits, NoRequest, NoWork
<1> QED
  BY <1>1, <1>2, ThreadStep, NoWorkIsWork DEF Return, Places, NoWork

-----------------------------------------------------------------------------
(* Initially, and at the steps of any request.                             *)

LEMMA InvInit == Init => Inv
<1> SUFFICES ASSUME Init PROVE Inv
  OBVIOUS
<1>1. TypeOK
  BY BlankIsTest, NoWorkIsWork, LibraryAssumption
  DEF Init, TypeOK, Suite, Places, Here, Test
<1>2. \A t \in Threads : Fits(t)
  BY DEF Init, Fits, NoRequest, NoWork
<1>3. KnownIds
  BY DEF Init, KnownIds, NoWork, NoSuite, Blank, Here
<1> QED
  BY <1>1, <1>2, <1>3 DEF Inv

LEMMA RequestFields ==
  ASSUME NEW r \in Request
  PROVE  /\ r.kind \in AllKinds
         /\ r.kind = "override" => r.id \in Ids /\ r.validity \in Validities
         /\ r.kind = "edit" => r.id \in Ids /\ r.text \in Texts
         /\ r.kind = "delete" => r.id \in Ids
         /\ r.kind = "create" => r.ids \subseteq Ids /\ r.text \in Texts
                                   /\ r.feature \in Features
BY DEF Request, AllKinds, RunKinds

-----------------------------------------------------------------------------
(* One lemma per group of steps.                                           *)

\* What is known of the thread that moves.
LEMMA OfThread ==
  ASSUME Inv, NEW t \in Threads
  PROVE  /\ work[t] \in Work /\ req[t] \in Request \union {NoRequest}
         /\ Here(work[t].suite) \subseteq drawn
         /\ Fits(t) /\ work[t].ref \in Nat
         /\ pc = [pc EXCEPT ![t] = pc[t]]
         /\ req = [req EXCEPT ![t] = req[t]]
         /\ work = [work EXCEPT ![t] = work[t]]
         /\ pc[t] \notin Creating =>
              work[t].todo \subseteq drawn /\ work[t].at \subseteq drawn
         /\ Len(analyses) \in Nat
         /\ drawn \subseteq Ids
BY DEF Inv, TypeOK, KnownIds, Work

LEMMA ReturnLocally ==
  ASSUME Inv, NEW t \in Threads, Return(t), UNCHANGED <<library, edited>>
  PROVE  Inv'
<1>1. LibraryTyped'
  BY InvTypesLibrary DEF LibraryTyped, library, Here
<1>2. drawn \subseteq drawn' /\ Len(analyses) <= Len(analyses')
  BY DEF library, Inv, TypeOK
<1> QED
  BY <1>1, <1>2, ReturnKeeps

LEMMA Arrivals ==
  ASSUME Inv, NEW t \in Threads
  PROVE  /\ \A r \in Request : Begin(t, r) => Inv'
         /\ CheckProject(t) => Inv'
         /\ WalkFails(t) => Inv'
<1> USE OfThread
<1>1. ASSUME NEW r \in Request, Begin(t, r) PROVE Inv'
  <2> DEFINE p == IF r.kind \in {"edit", "delete"} THEN "look" ELSE "check"
  <2>1. pc'[t] = p /\ req'[t] = r /\ work'[t] = work[t]
    BY <1>1 DEF Begin, Goto, Inv, TypeOK
  <2>2. Fits(t)'
    BY <1>1, <2>1, RequestFields DEF Begin, Fits, AllKinds, library
  <2>3. p \in Places /\ pc' = [pc EXCEPT ![t] = p] /\ req' = [req EXCEPT ![t] = r]
        /\ work' = [work EXCEPT ![t] = work[t]] /\ UNCHANGED <<library, edited>>
    BY <1>1 DEF Begin, Goto, Places
  <2>4. work[t].todo \subseteq drawn /\ work[t].at \subseteq drawn
    BY <1>1 DEF Begin, Creating
  <2> HIDE DEF p
  <2> QED
    BY <2>2, <2>3, <2>4, LocalStep
<1>2. ASSUME CheckProject(t) PROVE Inv'
  <2>1. CASE Return(t)
    BY <1>2, <2>1, ReturnLocally DEF CheckProject
  <2>2. CASE ~Return(t)
    <3> DEFINE p == FirstPlace(req[t].kind)
               w == IF req[t].kind = "create"
                    THEN [work[t] EXCEPT !.todo = req[t].ids] ELSE work[t]
    <3>1. /\ pc' = [pc EXCEPT ![t] = p] /\ req' = [req EXCEPT ![t] = req[t]]
          /\ work' = [work EXCEPT ![t] = w]
          /\ UNCHANGED <<library, edited>> /\ pc[t] = "check"
      BY <1>2, <2>2 DEF CheckProject, Goto, Inv, TypeOK
    <3>2. req[t] \in Request /\ req[t].kind \in AllKinds \ {"edit", "delete"}
      BY <3>1 DEF Fits, NoRequest, AllKinds, RunKinds
    <3>3. p \in Places \ {"check", "look", "save", "publish", "sidecar"}
      BY <3>2 DEF FirstPlace, Places, AllKinds, RunKinds
    <3>4. w \in Work /\ w.suite = work[t].suite /\ w.ref = work[t].ref
      BY <3>2, RequestFields DEF Work
    <3>5. pc'[t] = p /\ req'[t] = req[t] /\ work'[t] = w
      BY <3>1 DEF Inv, TypeOK
    <3>6. Fits(t)'
      BY <3>1, <3>2, <3>3, <3>4, <3>5 DEF Fits, library, FirstPlace, AllKinds, RunKinds
    <3>7. p \notin Creating => w.todo \subseteq drawn /\ w.at \subseteq drawn
      BY <3>1 DEF FirstPlace, Creating, RunKinds
    <3> HIDE DEF p, w
    <3>8. Here(w.suite) \subseteq drawn
      BY <3>4
    <3> QED
      BY <3>1, <3>3, <3>4, <3>6, <3>7, <3>8, LocalStep
  <2> QED
    BY <2>1, <2>2
<1>3. ASSUME WalkFails(t) PROVE Inv'
  BY <1>3, ReturnLocally DEF WalkFails
<1> QED
  BY <1>1, <1>2, <1>3

\* Steps of a run that move only its thread.
LEMMA RunLocals ==
  ASSUME Inv, NEW t \in Threads
  PROVE  /\ Load(t) => Inv'
         /\ RefineFails(t) => Inv'
         /\ Snapshot(t) => Inv'
         /\ Review(t) => Inv'
         /\ ReviewFails(t) => Inv'
         /\ Render(t) => Inv'
<1> USE OfThread
<1> DEFINE Known(w) == /\ w \in Work /\ Here(w.suite) \subseteq drawn
                       /\ w.ref = work[t].ref
                       /\ w.todo \subseteq drawn /\ w.at \subseteq drawn
           Free == {"refine", "snapshot", "review", "record", "render", "publish"}
\* It goes to a step that asks nothing of the request.
<1>0. ASSUME NEW p \in Free, NEW w, Known(w),
             UNCHANGED <<library, req, edited>>, pc' = [pc EXCEPT ![t] = p],
             work' = [work EXCEPT ![t] = w]
      PROVE  Inv'
  <2>1. pc'[t] = p /\ req'[t] = req[t] /\ work'[t] = w /\ Len(analyses') = Len(analyses)
    BY <1>0 DEF Inv, TypeOK, library
  <2>2. Fits(t)'
    BY <1>0, <2>1 DEF Fits, library
  <2>3. req' = [req EXCEPT ![t] = req[t]] /\ p \in Places
    BY <1>0 DEF Places
  <2> QED
    BY <1>0, <2>2, <2>3, LocalStep
<1>1. ASSUME Load(t) PROVE Inv'
  <2> DEFINE stored == [i \in Ids |-> [tests[i] EXCEPT !.scenario = NoText]]
             loaded == IF Here(tests) # {} THEN stored ELSE Published
  <2>1. stored \in Suite /\ Here(stored) \subseteq drawn
    BY DEF Inv, TypeOK, Suite, Test, Here
  <2>2. loaded \in Suite /\ Here(loaded) \subseteq drawn
    BY <2>1, PublishedIsSuite, PublishedIsKnown DEF Inv
  <2> HIDE DEF loaded
  <2>3. Known([work[t] EXCEPT !.suite = loaded])
    BY <1>1, <2>2 DEF Work, Load, Creating
  <2>4. \E p \in Free : pc' = [pc EXCEPT ![t] = p]
    BY <1>1 DEF Load, AfterTests, Goto
  <2>5. work' = [work EXCEPT ![t] = [work[t] EXCEPT !.suite = loaded]]
    BY <1>1 DEF Load, loaded
  <2>6. UNCHANGED <<library, req, edited>>
    BY <1>1 DEF Load
  <2> HIDE DEF Known, Free
  <2> QED
    BY <1>0, <2>3, <2>4, <2>5, <2>6
<1>2. ASSUME RefineFails(t) PROVE Inv'
  <2>1. Known([work[t] EXCEPT !.suite = ToRefine(t)])
    BY <1>2, ToRefineIsSuite DEF Work, RefineFails, Creating
  <2>2. work' = [work EXCEPT ![t] = [work[t] EXCEPT !.suite = ToRefine(t)]]
    BY <1>2 DEF RefineFails
  <2> QED
    BY <1>0, <1>2, <2>1, <2>2 DEF RefineFails, Goto
<1>3. ASSUME Snapshot(t) PROVE Inv'
  <2>1. Known([work[t] EXCEPT !.seen = overrides])
    BY ZenonT(60), <1>3 DEF Work, Snapshot, Creating, Inv, TypeOK
  <2>2. work' = [work EXCEPT ![t] = [work[t] EXCEPT !.seen = overrides]]
    BY <1>3 DEF Snapshot
  <2> QED
    BY <1>0, <1>3, <2>1, <2>2 DEF Snapshot, Goto
<1>4. ASSUME Review(t) PROVE Inv'
  <2>1. PICK s \in Rewritings(work[t].suite, Here(work[t].suite)),
             v \in ReviewsOf(Here(work[t].suite)) :
          work' = [work EXCEPT ![t].suite = s,
                               ![t].verdict = Overridden(v, work[t].seen)]
    BY <1>4 DEF Review
  <2> DEFINE w == [work[t] EXCEPT !.suite = s, !.verdict = Overridden(v, work[t].seen)]
  <2>2. Here(work[t].suite) \subseteq Ids
    BY DEF Here
  <2>3. s \in Suite /\ Here(s) = Here(work[t].suite)
    BY <2>2, RewritingIsSuite
  <2>4. Overridden(v, work[t].seen) \in Verdicts
    BY OverriddenIsVerdicts DEF ReviewsOf, Work
  <2>5. Known(w)
    BY <1>4, <2>3, <2>4 DEF Work, Review, Creating
  <2>6. work' = [work EXCEPT ![t] = w]
    BY <2>1
  <2> HIDE DEF w
  <2> QED
    BY <1>0, <1>4, <2>5, <2>6 DEF Review, Goto
<1>5. ASSUME ReviewFails(t) PROVE Inv'
  <2>1. Known(work[t]) /\ work' = [work EXCEPT ![t] = work[t]]
    BY <1>5 DEF ReviewFails, Creating
  <2> QED
    BY <1>0, <1>5, <2>1 DEF ReviewFails, Goto
<1>6. ASSUME Render(t) PROVE Inv'
  <2>1. PICK todo \in SUBSET Here(Shown(work[t].suite, work[t].verdict)) :
          work' = [work EXCEPT ![t].todo = todo]
    BY <1>6 DEF Render
  <2>2. todo \subseteq drawn
    BY DEF Here, Shown, Blank
  <2>3. Known([work[t] EXCEPT !.todo = todo])
    BY <1>6, <2>2 DEF Work, Render, Creating
  <2>4. work' = [work EXCEPT ![t] = [work[t] EXCEPT !.todo = todo]]
    BY <2>1
  <2> QED
    BY <1>0, <1>6, <2>3, <2>4 DEF Render, Goto
<1> QED
  BY <1>1, <1>2, <1>3, <1>4, <1>5, <1>6

-----------------------------------------------------------------------------
(* Steps that change the library.                                          *)

\* A step of a run that goes on with the locals w.
LEMMA RunStep ==
  ASSUME Inv, NEW t \in Threads,
         NEW p \in {"refine", "snapshot", "render", "record", "sidecar", "publish"},
         NEW w \in Work,
         pc' = [pc EXCEPT ![t] = p], req' = req, work' = [work EXCEPT ![t] = w],
         LibraryTyped', drawn \subseteq drawn', Len(analyses) <= Len(analyses'),
         w.ref = work[t].ref, Here(w.suite) \subseteq drawn',
         w.todo \subseteq drawn', w.at \subseteq drawn'
  PROVE  Inv'
<1> USE OfThread
<1>1. req' = [req EXCEPT ![t] = req[t]] /\ Len(analyses') \in Nat
  BY DEF LibraryTyped
<1>2. pc'[t] = p /\ req'[t] = req[t] /\ work'[t] = w
  BY DEF Inv, TypeOK
<1>3. Fits(t)'
  BY <1>1, <1>2 DEF Fits
<1>4. p \in Places
  BY DEF Places
<1> QED
  BY <1>1, <1>3, <1>4, ThreadStep

LEMMA Storing ==
  ASSUME Inv, NEW t \in Threads
  PROVE  /\ Generate(t) => Inv'
         /\ Refine(t) => Inv'
         /\ Record(t) => Inv'
<1>0. work[t] \in Work /\ Here(work[t].suite) \subseteq drawn
      /\ Len(analyses) <= Len(analyses) /\ drawn \subseteq Ids
      /\ (pc[t] \notin Creating => work[t].todo \subseteq drawn /\ work[t].at \subseteq drawn)
  BY OfThread
<1>1. ASSUME Generate(t) PROVE Inv'
  <2>1. PICK new \in SUBSET Numbered, x \in Texts :
          LET made == [text |-> x, manual |-> FALSE, scenario |-> NoText] IN
          /\ tests' = [i \in Ids |-> IF i \in new THEN made ELSE tests[i]]
          /\ drawn' = drawn \union new
          /\ work' = [work EXCEPT ![t].suite =
                        [i \in Ids |-> IF i \in new THEN made ELSE Blank]]
          /\ Goto(t, IF new = {} THEN "publish" ELSE AfterTests(t))
    BY <1>1 DEF Generate
  <2> DEFINE made == [text |-> x, manual |-> FALSE, scenario |-> NoText]
             fresh == [i \in Ids |-> IF i \in new THEN made ELSE Blank]
             w == [work[t] EXCEPT !.suite = fresh]
             p == IF new = {} THEN "publish" ELSE AfterTests(t)
  <2>2. made \in Test
    BY DEF Test
  <2>3. tests' \in Suite /\ Here(tests') \subseteq drawn'
    BY <2>1, <2>2 DEF Suite, Here, Inv, TypeOK
  <2>4. fresh \in Suite /\ Here(fresh) \subseteq drawn'
    BY <2>1, <2>2, BlankIsTest DEF Suite, Here, Blank
  <2>5. /\ UNCHANGED <<present, overrides, reviews, stories, analyses, latest, req,
                       edited>>
        /\ pc[t] = "generate" /\ drawn' = drawn \union new
    BY <1>1, <2>1 DEF Generate
  <2>6. LibraryTyped'
    <3>1. LibraryTyped
      BY InvTypesLibrary
    <3>2. Here(tests)' = Here(tests')
      BY DEF Here
    <3>3. \A n \in 1..Len(analyses') : Here(analyses'[n].tests) \subseteq drawn'
      BY <2>5, <3>1 DEF LibraryTyped
    <3>4. drawn' \subseteq Ids
      BY <1>0, <2>5, LibraryAssumption DEF LibraryAssumption
    <3> QED
      BY <2>3, <2>5, <3>1, <3>2, <3>3, <3>4 DEF LibraryTyped, Here
  <2> HIDE DEF fresh
  <2>7. w \in Work /\ Here(w.suite) \subseteq drawn' /\ w.ref = work[t].ref
        /\ w.todo \subseteq drawn' /\ w.at \subseteq drawn'
    BY <1>0, <2>4, <2>5 DEF Work, Creating
  <2>8. p \in {"publish", "refine", "snapshot"}
    BY DEF AfterTests
  <2>9. pc' = [pc EXCEPT ![t] = p] /\ work' = [work EXCEPT ![t] = w]
    BY <2>1 DEF Goto, fresh
  <2> HIDE DEF p, w
  <2> QED
    BY <1>0, <2>5, <2>6, <2>7, <2>8, <2>9, RunStep
<1>2. ASSUME Refine(t) PROVE Inv'
  <2>1. PICK ids \in SUBSET Ids :
          /\ drawn' = drawn \union (ids \ Here(ToRefine(t)))
          /\ \E s \in Rewritings(ToRefine(t), ids), v \in ReviewsOf(ids) :
               work' = [work EXCEPT ![t].suite = s, ![t].verdict = v]
    BY <1>2 DEF Refine
  <2>2. PICK s \in Rewritings(ToRefine(t), ids), v \in ReviewsOf(ids) :
          work' = [work EXCEPT ![t].suite = s, ![t].verdict = v]
    BY <2>1
  <2> DEFINE w == [work[t] EXCEPT !.suite = s, !.verdict = v]
  <2>3. s \in Suite /\ Here(s) = ids /\ v \in Verdicts
    BY RewritingIsSuite DEF ReviewsOf
  <2>4. Here(s) \subseteq drawn'
    BY <2>1, <2>3, ToRefineIsSuite
  <2>5. /\ UNCHANGED <<present, tests, overrides, reviews, stories, analyses,
                       latest, req, edited>>
        /\ pc[t] = "refine" /\ drawn \subseteq drawn' /\ drawn' \subseteq Ids
    BY <1>0, <1>2, <2>1 DEF Refine
  <2>6. LibraryTyped'
    BY <1>0, <2>5, InvTypesLibrary DEF LibraryTyped, Here
  <2>7. w \in Work /\ Here(w.suite) \subseteq drawn' /\ w.ref = work[t].ref
        /\ w.todo \subseteq drawn' /\ w.at \subseteq drawn'
    BY <1>0, <2>3, <2>4, <2>5 DEF Work, Creating
  <2>8. pc' = [pc EXCEPT ![t] = "record"] /\ work' = [work EXCEPT ![t] = w]
    <3>1. work' = [work EXCEPT ![t] = w]
      BY <2>2
    <3> QED
      BY <1>2, <3>1 DEF Refine, Goto
  <2> HIDE DEF w
  <2> QED
    BY <1>0, <2>5, <2>6, <2>7, <2>8, RunStep
<1>3. ASSUME Record(t) PROVE Inv'
  <2>1. LibraryTyped'
    BY <1>3, InvTypesLibrary DEF Record, LibraryTyped, Here
  <2>2. work' = [work EXCEPT ![t] = work[t]] /\ pc' = [pc EXCEPT ![t] = "render"]
        /\ pc[t] = "record" /\ UNCHANGED <<req, drawn, analyses>>
    BY <1>3, OfThread DEF Record, Goto
  <2>3. work[t].todo \subseteq drawn'
        /\ work[t].at \subseteq drawn' /\ Here(work[t].suite) \subseteq drawn'
    BY <1>0, <2>2 DEF Creating
  <2> QED
    BY <1>0, <2>1, <2>2, <2>3, RunStep
<1> QED
  BY <1>1, <1>2, <1>3

\* What the side-car writes is a test.
LEMMA RenderedIsTest ==
  ASSUME NEW case \in Test, NEW found \in Test
  PROVE  /\ [found EXCEPT !.scenario = case.text] \in Test
         /\ [case EXCEPT !.scenario = case.text] \in Test
BY DEF Test

\* Rows of known ids are written, nothing else changes.
LEMMA RowsWritten ==
  ASSUME Inv, tests' \in Suite, Here(tests') \subseteq drawn',
         drawn \subseteq drawn', drawn' \subseteq Ids,
         edited' \in [Ids -> Texts \union {NoText}],
         UNCHANGED <<present, overrides, reviews, stories, analyses, latest>>
  PROVE  LibraryTyped' /\ Len(analyses) <= Len(analyses')
<1>1. LibraryTyped
  BY InvTypesLibrary
<1>2. Here(tests)' = Here(tests')
  BY DEF Here
<1>3. \A n \in 1..Len(analyses') : Here(analyses'[n].tests) \subseteq drawn'
  BY <1>1 DEF LibraryTyped
<1>4. (\A n \in 1..Len(analyses) : Here(analyses[n].tests) \subseteq drawn)'
  BY <1>3 DEF Here
<1>5. Len(analyses) \in Nat
  BY <1>1 DEF LibraryTyped
<1> QED
  BY <1>1, <1>2, <1>4, <1>5 DEF LibraryTyped

LEMMA Publishing ==
  ASSUME Inv, NEW t \in Threads
  PROVE  /\ \A i \in Ids : SideCarRead(t, i) => Inv'
         /\ SideCarWrite(t) => Inv'
         /\ Publish(t) => Inv'
<1>0. work[t] \in Work /\ Here(work[t].suite) \subseteq drawn
      /\ (pc[t] \notin Creating => work[t].todo \subseteq drawn /\ work[t].at \subseteq drawn)
      /\ Len(analyses) \in Nat
  BY OfThread
<1>1. ASSUME NEW i \in Ids, SideCarRead(t, i) PROVE Inv'
  <2> DEFINE w1 == [work[t] EXCEPT !.todo = @ \ {i}]
             w2 == [work[t] EXCEPT !.todo = @ \ {i}, !.at = {i}, !.found = tests[i]]
  <2>1. pc[t] = "publish" /\ i \in work[t].todo /\ tests[i] \in Test
        /\ UNCHANGED <<library, req, edited>>
    BY <1>1 DEF SideCarRead, Inv, TypeOK, Suite
  <2>2. LibraryTyped' /\ drawn' = drawn /\ Len(analyses) <= Len(analyses')
    BY <1>0, <2>1, InvTypesLibrary DEF LibraryTyped, library, Here
  <2>3. w1 \in Work /\ w1.suite = work[t].suite /\ w1.ref = work[t].ref
        /\ w1.todo \subseteq drawn /\ w1.at \subseteq drawn
    BY <1>0, <2>1 DEF Work, Creating
  <2>4. w2 \in Work /\ w2.suite = work[t].suite /\ w2.ref = work[t].ref
        /\ w2.todo \subseteq drawn /\ w2.at \subseteq drawn
    BY <1>0, <2>1 DEF Work, Creating
  <2>5. CASE work' = [work EXCEPT ![t] = w1] /\ pc' = [pc EXCEPT ![t] = "publish"]
    <3> HIDE DEF w1, w2
    <3> QED
      BY <1>0, <2>1, <2>2, <2>3, <2>5, RunStep
  <2>6. CASE work' = [work EXCEPT ![t] = w2] /\ pc' = [pc EXCEPT ![t] = "sidecar"]
    <3> HIDE DEF w1, w2
    <3> QED
      BY <1>0, <2>1, <2>2, <2>4, <2>6, RunStep
  <2>7. pc = [pc EXCEPT ![t] = pc[t]]
    BY OfThread
  <2> QED
    BY <1>1, <2>1, <2>5, <2>6, <2>7 DEF SideCarRead, Goto
<1>2. ASSUME SideCarWrite(t) PROVE Inv'
  <2> DEFINE w == [work[t] EXCEPT !.at = {}, !.found = Blank]
  <2>1. /\ pc[t] = "sidecar" /\ work[t].at \subseteq drawn
        /\ work' = [work EXCEPT ![t] = w] /\ pc' = [pc EXCEPT ![t] = "publish"]
        /\ UNCHANGED <<present, overrides, reviews, stories, analyses, latest, drawn,
                       req, edited>>
    BY <1>0, <1>2 DEF SideCarWrite, Goto, Creating
  <2>2. w \in Work /\ w.suite = work[t].suite /\ w.ref = work[t].ref
        /\ w.todo \subseteq drawn /\ w.at \subseteq drawn
    BY <1>0, <2>1, BlankIsTest DEF Work, Creating
  <2>3. tests \in Suite /\ Here(tests) \subseteq drawn /\ drawn \subseteq Ids
        /\ edited' \in [Ids -> Texts \union {NoText}]
    BY <2>1 DEF Inv, TypeOK
  <2>4. \A i \in Ids : tests'[i] \in Test /\ (i \notin work[t].at => tests'[i] = tests[i])
    <3> TAKE i \in Ids
    <3>1. work[t].suite[i] \in Test /\ work[t].found \in Test /\ tests[i] \in Test
      BY <1>0, <2>3 DEF Work, Suite
    <3> QED
      BY <1>2, <3>1, RenderedIsTest DEF SideCarWrite
  <2>5. tests' \in Suite
    <3>1. tests' = [i \in Ids |-> tests'[i]]
      BY <1>2 DEF SideCarWrite
    <3> QED
      BY <2>4, <3>1 DEF Suite
  <2>6. Here(tests') \subseteq drawn
    BY <2>1, <2>3, <2>4 DEF Here
  <2>7. LibraryTyped' /\ Len(analyses) <= Len(analyses')
    BY <2>1, <2>3, <2>5, <2>6, RowsWritten
  <2> HIDE DEF w
  <2> QED
    BY <1>0, <2>1, <2>2, <2>7, RunStep
<1>3. ASSUME Publish(t) PROVE Inv'
  <2> DEFINE new == [tests   |-> Shown(work[t].suite, work[t].verdict),
                     verdict |-> work[t].verdict]
  <2>1. /\ analyses' = Append(analyses, new) /\ latest' = Len(analyses) + 1 /\ Return(t)
        /\ UNCHANGED <<present, tests, overrides, reviews, stories, drawn, edited>>
    BY <1>3 DEF Publish
  <2>2. new \in Analysis /\ Here(new.tests) \subseteq drawn
    <3>1. Shown(work[t].suite, work[t].verdict) \in Suite
      BY <1>0, ShownIsSuite DEF Work
    <3>2. Here(Shown(work[t].suite, work[t].verdict)) \subseteq Here(work[t].suite)
      BY DEF Shown, Here, Blank
    <3> QED
      BY <1>0, <3>1, <3>2 DEF Analysis, Work
  <2> HIDE DEF new
  <2>3. LibraryTyped
    BY InvTypesLibrary
  <2>4. /\ analyses' \in Seq(Analysis) /\ Len(analyses') = Len(analyses) + 1
        /\ \A n \in 1..Len(analyses') :
             analyses'[n] = IF n = Len(analyses') THEN new ELSE analyses[n]
    BY <2>1, <2>2, <2>3 DEF LibraryTyped
  <2>5. \A n \in 1..Len(analyses') : Here(analyses'[n].tests) \subseteq drawn
    BY <1>0, <2>2, <2>3, <2>4 DEF LibraryTyped
  <2>6. LibraryTyped'
    BY <1>0, <2>1, <2>3, <2>4, <2>5 DEF LibraryTyped, Here
  <2> QED
    BY <1>0, <2>1, <2>4, <2>6, ReturnKeeps
<1> QED
  BY <1>1, <1>2, <1>3

\* Whatever a human writes is a test, marked as a human's.
LEMMA ByHandIsTest ==
  ASSUME NEW text \in Texts, NEW case \in ByHand(text)
  PROVE  case \in Test /\ case.manual /\ case.scenario \in {case.text, NoText}
<1>1. PICK s \in {text, NoText} : case = [text |-> text, manual |-> TRUE, scenario |-> s]
  BY DEF ByHand
<1> QED
  BY <1>1 DEF Test

LEMMA SavedByHand ==
  ASSUME Inv, NEW ids \in SUBSET Ids, NEW text \in Texts, SaveByHand(ids, text),
         drawn' = drawn \union ids,
         UNCHANGED <<present, overrides, reviews, stories, analyses, latest>>
  PROVE  LibraryTyped' /\ Len(analyses) <= Len(analyses') /\ drawn \subseteq drawn'
<1>1. PICK case \in ByHand(text) :
        tests' = [i \in Ids |-> IF i \in ids THEN case ELSE tests[i]]
  BY DEF SaveByHand
<1>2. tests \in Suite /\ Here(tests) \subseteq drawn /\ drawn \subseteq Ids
      /\ edited \in [Ids -> Texts \union {NoText}] /\ case \in Test
  BY ByHandIsTest DEF Inv, TypeOK
<1>3. tests' \in Suite /\ Here(tests') \subseteq drawn'
  BY <1>1, <1>2 DEF Suite, Here
<1>4. edited' \in [Ids -> Texts \union {NoText}]
  BY <1>2 DEF SaveByHand
<1> QED
  BY <1>2, <1>3, <1>4, RowsWritten

LEMMA Overriding ==
  ASSUME Inv, NEW t \in Threads
  PROVE  /\ Override(t) => Inv'
         /\ Patch(t) => Inv'
         /\ Republish(t) => Inv'
<1>0. work[t] \in Work /\ Here(work[t].suite) \subseteq drawn /\ Fits(t)
      /\ (pc[t] \notin Creating => work[t].todo \subseteq drawn /\ work[t].at \subseteq drawn)
      /\ Len(analyses) \in Nat /\ req[t] \in Request \union {NoRequest}
      /\ req = [req EXCEPT ![t] = req[t]] /\ work = [work EXCEPT ![t] = work[t]]
  BY OfThread
<1>1. LibraryTyped
  BY InvTypesLibrary
<1>2. pc[t] \in {"override", "patch"} =>
        req[t] \in Request /\ req[t].kind = "override" /\ req[t].id \in Ids
        /\ req[t].validity \in Validities
  BY <1>0, RequestFields DEF Fits, NoRequest
<1>3. ASSUME Override(t) PROVE Inv'
  <2>1. pc[t] = "override" /\ pc' = [pc EXCEPT ![t] = "patch"] /\ UNCHANGED <<req, work>>
        /\ UNCHANGED <<present, tests, reviews, stories, analyses, latest, drawn, edited>>
        /\ overrides' = [overrides EXCEPT ![req[t].id] = req[t].validity]
    BY <1>3 DEF Override, Goto
  <2>2. LibraryTyped'
    BY <1>1, <1>2, <2>1 DEF LibraryTyped, Verdicts, Here
  <2>3. pc'[t] = "patch" /\ req'[t] = req[t] /\ work'[t] = work[t]
    BY <2>1 DEF Inv, TypeOK
  <2>4. Fits(t)' /\ "patch" \in Places
    BY <1>0, <1>2, <2>1, <2>3 DEF Fits, Places
  <2>5. work[t].todo \subseteq drawn /\ work[t].at \subseteq drawn
    BY <1>0, <2>1 DEF Creating
  <2>6. req' = [req EXCEPT ![t] = req[t]] /\ work' = [work EXCEPT ![t] = work[t]]
        /\ drawn' = drawn /\ Len(analyses) <= Len(analyses')
        /\ pc' = [pc EXCEPT ![t] = "patch"]
    BY <1>0, <2>1
  <2> QED
    BY <1>0, <2>2, <2>4, <2>5, <2>6, ThreadStep
<1>4. ASSUME Patch(t) PROVE Inv'
  <2>1. CASE ~Reviewed(latest, req[t].id)
    <3>1. Return(t) /\ UNCHANGED <<library, edited>>
      BY <1>4, <2>1 DEF Patch, library
    <3> QED
      BY <3>1, ReturnLocally
  <2>2. CASE Reviewed(latest, req[t].id)
    <3> DEFINE w == [work[t] EXCEPT !.ref = latest]
    <3>1. /\ pc[t] = "patch" /\ pc' = [pc EXCEPT ![t] = "republish"] /\ req' = req
          /\ work' = [work EXCEPT ![t] = w]
          /\ analyses' = [analyses EXCEPT ![latest].verdict[req[t].id] = req[t].validity]
          /\ UNCHANGED <<present, tests, overrides, reviews, stories, latest, drawn, edited>>
      BY <1>4, <2>2 DEF Patch, Goto
    <3>2. latest \in 1..Len(analyses)
      BY <1>1, <2>2 DEF LibraryTyped, Reviewed
    <3> DEFINE new == [analyses[latest] EXCEPT
                         !.verdict = [@ EXCEPT ![req[t].id] = req[t].validity]]
    <3>3. analyses[latest] \in Analysis /\ \A n \in 1..Len(analyses) : analyses[n] \in Analysis
      BY <1>1, <3>2 DEF LibraryTyped
    <3>4. new \in Analysis /\ new.tests = analyses[latest].tests
      BY <1>2, <3>1, <3>3 DEF Analysis, Verdicts
    <3>5. analyses' = [analyses EXCEPT ![latest] = new]
      BY <3>1
    <3> HIDE DEF new
    <3>6. analyses' \in Seq(Analysis) /\ Len(analyses') = Len(analyses)
          /\ \A n \in 1..Len(analyses) : analyses'[n] = IF n = latest THEN new ELSE analyses[n]
      BY <1>1, <3>2, <3>4, <3>5 DEF LibraryTyped
    <3>7. \A n \in 1..Len(analyses') : Here(analyses'[n].tests) \subseteq drawn
      BY <1>1, <3>4, <3>6 DEF LibraryTyped
    <3>8. LibraryTyped'
      BY <1>1, <3>1, <3>6, <3>7 DEF LibraryTyped, Here
    <3>9. w \in Work /\ w.suite = work[t].suite /\ w.ref = latest
          /\ w.todo \subseteq drawn /\ w.at \subseteq drawn
      <4>1. latest \in Nat /\ pc[t] \notin Creating
        BY <1>0, <3>1, <3>2 DEF Creating
      <4> QED
        BY <1>0, <4>1 DEF Work
    <3>10. pc'[t] = "republish" /\ req'[t] = req[t] /\ work'[t] = w
      BY <3>1 DEF Inv, TypeOK
    <3> HIDE DEF w
    <3>11. Fits(t)' /\ "republish" \in Places
      BY <1>0, <1>2, <3>1, <3>2, <3>6, <3>9, <3>10 DEF Fits, Places
    <3>12. req' = [req EXCEPT ![t] = req[t]] /\ Len(analyses) <= Len(analyses')
           /\ drawn \subseteq drawn'
      BY <1>0, <3>1, <3>6
    <3> QED
      BY <1>0, <3>1, <3>8, <3>9, <3>11, <3>12, ThreadStep
  <2> QED
    BY <2>1, <2>2
<1>5. ASSUME Republish(t) PROVE Inv'
  <2>1. latest' = work[t].ref /\ Return(t)
        /\ UNCHANGED <<present, tests, overrides, reviews, stories, analyses, drawn, edited>>
    BY <1>5 DEF Republish
  <2>2. work[t].ref \in 0..Len(analyses)
    BY <1>0 DEF Work, Fits
  <2>3. LibraryTyped'
    BY <1>1, <2>1, <2>2 DEF LibraryTyped, Here
  <2> QED
    BY <1>0, <2>1, <2>3, ReturnKeeps
<1> QED
  BY <1>3, <1>4, <1>5

LEMMA Editing ==
  ASSUME Inv, NEW t \in Threads
  PROVE  /\ Look(t) => Inv'
         /\ Save(t) => Inv'
         /\ Remove(t) => Inv'
         /\ Drop(t) => Inv'
<1>0. work[t] \in Work /\ Here(work[t].suite) \subseteq drawn /\ Fits(t)
      /\ (pc[t] \notin Creating => work[t].todo \subseteq drawn /\ work[t].at \subseteq drawn)
      /\ Len(analyses) \in Nat /\ req[t] \in Request \union {NoRequest}
      /\ req = [req EXCEPT ![t] = req[t]] /\ work = [work EXCEPT ![t] = work[t]]
  BY OfThread
<1>1. LibraryTyped
  BY InvTypesLibrary
<1>2. ASSUME Look(t) PROVE Inv'
  <2>1. CASE Return(t)
    BY <1>2, <2>1, ReturnLocally DEF Look
  <2>2. CASE ~Return(t)
    <3> DEFINE p == IF req[t].kind = "edit" THEN "save" ELSE "remove"
    <3>1. pc[t] = "look" /\ pc' = [pc EXCEPT ![t] = p] /\ UNCHANGED <<req, work>>
          /\ UNCHANGED <<library, edited>>
      BY <1>2, <2>2 DEF Look, Goto
    <3>2. req' = [req EXCEPT ![t] = req[t]] /\ work' = [work EXCEPT ![t] = work[t]]
          /\ work[t].todo \subseteq drawn /\ work[t].at \subseteq drawn /\ p \in Places
      BY <1>0, <3>1 DEF Places, Creating
    <3>3. pc'[t] = p /\ req'[t] = req[t] /\ work'[t] = work[t]
      BY <3>1 DEF Inv, TypeOK
    <3>4. Fits(t)'
      BY <1>0, <3>1, <3>3 DEF Fits, library
    <3> HIDE DEF p
    <3> QED
      BY <1>0, <3>1, <3>2, <3>4, LocalStep
  <2> QED
    BY <2>1, <2>2
<1>3. ASSUME Save(t) PROVE Inv'
  <2>1. pc[t] = "save" /\ SaveByHand({req[t].id}, req[t].text) /\ Return(t)
        /\ UNCHANGED <<present, overrides, reviews, stories, analyses, latest, drawn>>
    BY <1>3 DEF Save
  <2>2. req[t].id \in Ids /\ req[t].text \in Texts /\ req[t].id \in drawn
    BY <1>0, <2>1, RequestFields DEF Fits, NoRequest
  <2>3. drawn' = drawn \union {req[t].id}
    BY <2>1, <2>2
  <2>4. LibraryTyped' /\ Len(analyses) <= Len(analyses') /\ drawn \subseteq drawn'
    BY <2>1, <2>2, <2>3, SavedByHand
  <2> QED
    BY <2>1, <2>4, ReturnKeeps
<1>4. ASSUME Remove(t) PROVE Inv'
  <2>1. /\ Return(t)
        /\ tests' = [tests EXCEPT ![req[t].id] = Blank]
        /\ edited' = [edited EXCEPT ![req[t].id] = NoText]
        /\ UNCHANGED <<present, overrides, reviews, stories, analyses, latest, drawn>>
    BY <1>4 DEF Remove
  <2>2. tests' \in Suite /\ Here(tests') \subseteq drawn' /\ drawn' \subseteq Ids
        /\ edited' \in [Ids -> Texts \union {NoText}] /\ drawn \subseteq drawn'
    BY <1>1, <2>1, BlankIsTest DEF LibraryTyped, Suite, Here, Blank
  <2>3. LibraryTyped' /\ Len(analyses) <= Len(analyses')
    BY <2>1, <2>2, RowsWritten
  <2> QED
    BY <2>1, <2>2, <2>3, ReturnKeeps
<1>5. ASSUME Drop(t) PROVE Inv'
  <2>1. Return(t) /\ UNCHANGED <<analyses, drawn>> /\ Len(analyses) <= Len(analyses')
    BY <1>0, <1>5 DEF Drop
  <2>2. Here(NoSuite) = {}
    BY DEF Here, NoSuite, Blank
  <2>3. present' = FALSE /\ tests' = NoSuite /\ overrides' = NoVerdicts /\ reviews' = {}
        /\ stories' = {} /\ latest' = 0 /\ edited' = [i \in Ids |-> NoText]
    BY <1>5 DEF Drop
  <2>4. Here(tests)' = {}
    BY <2>2, <2>3 DEF Here
  <2>5. (\A n \in 1..Len(analyses) : Here(analyses[n].tests) \subseteq drawn)'
    BY <1>1, <2>1 DEF LibraryTyped, Here
  <2>6. latest' \in 0..Len(analyses') /\ edited' \in [Ids -> Texts \union {NoText}]
        /\ analyses' \in Seq(Analysis) /\ drawn' \subseteq Ids
    BY <1>0, <1>1, <2>1, <2>3 DEF LibraryTyped
  <2>7. LibraryTyped'
    BY <2>3, <2>4, <2>5, <2>6, BlankIsTest DEF LibraryTyped
  <2> QED
    BY <2>1, <2>7, ReturnKeeps
<1> QED
  BY <1>2, <1>3, <1>4, <1>5

LEMMA CreatingByHand ==
  ASSUME Inv, NEW t \in Threads
  PROVE  /\ \A i \in Ids : Search(t, i) => Inv'
         /\ Insert(t) => Inv'
         /\ Story(t) => Inv'
         /\ Tell(t) => Inv'
<1>0. work[t] \in Work /\ Here(work[t].suite) \subseteq drawn /\ Fits(t)
      /\ Len(analyses) \in Nat /\ req[t] \in Request \union {NoRequest}
      /\ req = [req EXCEPT ![t] = req[t]]
  BY OfThread
<1>1. LibraryTyped
  BY InvTypesLibrary
<1>2. pc[t] \in Creating => req[t] \in Request /\ req[t].kind = "create"
        /\ req[t].text \in Texts /\ req[t].feature \in Features
  BY <1>0, RequestFields DEF Fits, Creating, NoRequest
\* It goes on creating, with the locals w.
<1>3. ASSUME NEW p \in Creating, NEW w \in Work, pc[t] \in Creating, req' = req,
             pc' = [pc EXCEPT ![t] = p], work' = [work EXCEPT ![t] = w],
             w.suite = work[t].suite, w.ref = work[t].ref,
             LibraryTyped', drawn \subseteq drawn', Len(analyses) <= Len(analyses')
      PROVE  Inv'
  <2>1. pc'[t] = p /\ req'[t] = req[t] /\ work'[t] = w
    BY <1>3 DEF Inv, TypeOK
  <2>2. Len(analyses') \in Nat /\ w.ref \in Nat
    BY <1>3 DEF LibraryTyped, Work
  <2>3. Fits(t)'
    BY <1>0, <1>2, <1>3, <2>1, <2>2 DEF Fits, Creating
  <2>4. p \in Places /\ req' = [req EXCEPT ![t] = req[t]]
    BY <1>0, <1>3 DEF Creating, Places
  <2> QED
    BY <1>0, <1>3, <2>3, <2>4, ThreadStep
<1>4. ASSUME UNCHANGED <<library, edited>>
      PROVE  LibraryTyped' /\ drawn \subseteq drawn' /\ Len(analyses) <= Len(analyses')
  BY <1>0, <1>1, <1>4 DEF LibraryTyped, library, Here
<1>5. ASSUME NEW i \in Ids, Search(t, i) PROVE Inv'
  <2>1. CASE Return(t)
    BY <1>5, <2>1, ReturnLocally DEF Search
  <2>2. CASE ~Return(t)
    <3> DEFINE w == [work[t] EXCEPT !.todo = @ \ {i}, !.at = {i}]
    <3>1. pc[t] \in Creating /\ req' = req /\ pc' = [pc EXCEPT ![t] = "insert"]
          /\ work' = [work EXCEPT ![t] = w] /\ UNCHANGED <<library, edited>>
      BY <1>5, <2>2 DEF Search, Goto, Creating
    <3>2. w \in Work /\ w.suite = work[t].suite /\ w.ref = work[t].ref
      BY <1>0 DEF Work
    <3> HIDE DEF w
    <3>3. "insert" \in Creating
      BY DEF Creating
    <3> QED
      BY <1>3, <1>4, <3>1, <3>2, <3>3
  <2> QED
    BY <2>1, <2>2
<1>6. ASSUME Insert(t) PROVE Inv'
  <2> DEFINE w == [work[t] EXCEPT !.at = {}]
  <2>1. pc[t] \in Creating /\ "search" \in Creating /\ req' = req
        /\ pc' = [pc EXCEPT ![t] = "search"] /\ work' = [work EXCEPT ![t] = w]
        /\ SaveByHand(work[t].at, req[t].text) /\ drawn' = drawn \union work[t].at
        /\ UNCHANGED <<present, overrides, reviews, stories, analyses, latest>>
    BY <1>6 DEF Insert, Goto, Creating
  <2>2. w \in Work /\ w.suite = work[t].suite /\ w.ref = work[t].ref
        /\ work[t].at \in SUBSET Ids
    BY <1>0 DEF Work
  <2>3. LibraryTyped' /\ drawn \subseteq drawn' /\ Len(analyses) <= Len(analyses')
    BY <1>2, <2>1, <2>2, SavedByHand
  <2> HIDE DEF w
  <2> QED
    BY <1>3, <2>1, <2>2, <2>3
<1>7. ASSUME Story(t) PROVE Inv'
  <2> DEFINE w == [work[t] EXCEPT !.known = stories]
  <2>1. pc[t] \in Creating /\ "tell" \in Creating /\ req' = req
        /\ pc' = [pc EXCEPT ![t] = "tell"] /\ work' = [work EXCEPT ![t] = w]
        /\ UNCHANGED <<library, edited>>
    BY <1>7 DEF Story, Goto, Creating
  <2>2. w \in Work /\ w.suite = work[t].suite /\ w.ref = work[t].ref
    BY <1>0, <1>1 DEF Work, LibraryTyped
  <2> HIDE DEF w
  <2> QED
    BY <1>3, <1>4, <2>1, <2>2
<1>8. ASSUME Tell(t) PROVE Inv'
  <2>1. pc[t] \in Creating /\ Return(t)
        /\ UNCHANGED <<present, tests, overrides, reviews, analyses, latest, drawn, edited>>
        /\ stories' \subseteq Features
    BY <1>0, <1>1, <1>2, <1>8 DEF Tell, Creating, Work, LibraryTyped
  <2>2. LibraryTyped' /\ drawn \subseteq drawn' /\ Len(analyses) <= Len(analyses')
    BY <1>0, <1>1, <2>1 DEF LibraryTyped, Here
  <2> QED
    BY <2>1, <2>2, ReturnKeeps
<1> QED
  BY <1>5, <1>6, <1>7, <1>8

\* Every step keeps the invariant.
LEMMA InvStep == Inv /\ [Next]_vars => Inv'
<1> SUFFICES ASSUME Inv, [Next]_vars PROVE Inv'
  OBVIOUS
<1>1. CASE UNCHANGED vars
  BY <1>1 DEF vars, library, Inv, TypeOK, Fits, KnownIds, Here
<1>2. CASE Next
  <2>1. PICK t \in Threads :
          \/ \E r \in Request : Begin(t, r)
          \/ CheckProject(t) \/ WalkFails(t) \/ Run(t) \/ Correct(t)
    BY <1>2 DEF Next
  <2>2. CASE Run(t)
    BY <2>2, RunLocals, Storing, Publishing DEF Run
  <2>3. CASE Correct(t)
    BY <2>3, Overriding, Editing, CreatingByHand DEF Correct
  <2> QED
    BY <2>1, <2>2, <2>3, Arrivals
<1> QED
  BY <1>1, <1>2

THEOREM InvHolds == Spec => []Inv
BY InvInit, InvStep, PTL DEF Spec

\* Every request, and every mixture of requests of any number of threads,
\* keeps the library and the threads' locals well formed; in particular no
\* row is ever stored under an id that was not drawn.
THEOREM TypeCorrect == Spec => []TypeOK
<1>1. Inv => TypeOK
  BY DEF Inv
<1> QED
  BY <1>1, InvHolds, PTL

-----------------------------------------------------------------------------
(* A test a human wrote has no scenario but its own.                       *)

HumanInv == ScenarioMatches /\ NotAHumans

LEMMA HumanInit == Init => HumanInv
<1> SUFFICES ASSUME Init PROVE HumanInv
  OBVIOUS
<1>1. ScenarioMatches
  BY LibraryAssumption DEF Init, ScenarioMatches
<1>2. NotAHumans
  BY DEF Init, NotAHumans
<1> QED
  BY <1>1, <1>2 DEF HumanInv

\* A thread that does not come to the side-car's write.
LEMMA NotToSideCar ==
  ASSUME NotAHumans, NEW t \in Threads, pc'[t] # "sidecar",
         \A u \in Threads \ {t} : pc'[u] = pc[u] /\ work'[u] = work[u]
  PROVE  NotAHumans'
BY DEF NotAHumans

\* A step that leaves the tests alone, other than the side-car's read.
LEMMA HumanLocal ==
  ASSUME HumanInv, tests' = tests, NEW t \in Threads, pc'[t] # "sidecar",
         \A u \in Threads \ {t} : pc'[u] = pc[u] /\ work'[u] = work[u]
  PROVE  HumanInv'
BY NotToSideCar DEF HumanInv, ScenarioMatches

LEMMA HumanArrivals ==
  ASSUME Inv, HumanInv, NEW t \in Threads
  PROVE  /\ \A r \in Request : Begin(t, r) => HumanInv'
         /\ CheckProject(t) => HumanInv'
         /\ WalkFails(t) => HumanInv'
<1> USE DEF Inv, TypeOK, library, Goto, Return
<1>1. ASSUME NEW r \in Request, Begin(t, r) PROVE HumanInv'
  BY <1>1, HumanLocal DEF Begin
<1>2. ASSUME CheckProject(t) PROVE HumanInv'
  BY <1>2, HumanLocal DEF CheckProject, FirstPlace, Fits, AllKinds, RunKinds
<1>3. ASSUME WalkFails(t) PROVE HumanInv'
  BY <1>3, HumanLocal DEF WalkFails
<1> QED
  BY <1>1, <1>2, <1>3

LEMMA HumanRun ==
  ASSUME Inv, HumanInv, NEW t \in Threads, Run(t)
  PROVE  HumanInv'
<1> USE DEF Inv, TypeOK, library, Goto, Return
<1>1. CASE Generate(t)
  <2>1. NotAHumans'
    BY <1>1, NotToSideCar DEF Generate, AfterTests, HumanInv
  <2>2. \A i \in Ids : tests'[i] = tests[i]
                        \/ (tests'[i].manual = FALSE /\ tests'[i].scenario = NoText)
    BY <1>1 DEF Generate
  <2>3. ScenarioMatches'
    BY <2>2 DEF ScenarioMatches, HumanInv
  <2> QED
    BY <2>1, <2>3 DEF HumanInv
<1>2. CASE Load(t)
  BY <1>2, HumanLocal DEF Load, AfterTests
<1>3. CASE Refine(t)
  <2>1. pc' = [pc EXCEPT ![t] = "record"] /\ tests' = tests
        /\ \E w : work' = [work EXCEPT ![t] = w]
    <3>1. \E ids \in SUBSET Ids :
            \E s \in Rewritings(ToRefine(t), ids), v \in ReviewsOf(ids) :
               work' = [work EXCEPT ![t].suite = s, ![t].verdict = v]
      BY <1>3 DEF Refine
    <3>2. \E s, v : work' = [work EXCEPT ![t].suite = s, ![t].verdict = v]
      BY <3>1
    <3> QED
      BY <1>3, <3>2 DEF Refine
  <2> QED
    BY <2>1, HumanLocal
<1>4. CASE RefineFails(t) \/ Snapshot(t) \/ ReviewFails(t) \/ Record(t)
  BY <1>4, HumanLocal DEF RefineFails, Snapshot, ReviewFails, Record
<1>5. CASE Review(t)
  <2>1. \E s, v : work' = [work EXCEPT ![t].suite = s, ![t].verdict = v]
    BY <1>5 DEF Review
  <2> QED
    BY <1>5, <2>1, HumanLocal DEF Review
<1>6. CASE Render(t)
  BY <1>6, HumanLocal DEF Render
<1>7. ASSUME NEW i \in Ids, SideCarRead(t, i) PROVE HumanInv'
  <2>1. CASE tests[i].manual
    BY <1>7, <2>1, HumanLocal DEF SideCarRead
  <2>2. CASE ~tests[i].manual
    <3>1. work'[t].found = tests[i] /\ tests' = tests
          /\ \A u \in Threads \ {t} : pc'[u] = pc[u] /\ work'[u] = work[u]
      BY <1>7, <2>2 DEF SideCarRead, Work
    <3> QED
      BY <2>2, <3>1 DEF HumanInv, NotAHumans, ScenarioMatches
  <2> QED
    BY <2>1, <2>2
<1>8. CASE SideCarWrite(t)
  <2>1. NotAHumans'
    BY <1>8, NotToSideCar DEF SideCarWrite, HumanInv
  <2>2. ~work[t].found.manual
    BY <1>8 DEF HumanInv, NotAHumans, SideCarWrite
  <2>3. work[t].suite \in Suite /\ work[t].found \in Test
    BY DEF Work
  <2>4. \A i \in Ids : \/ tests'[i] = tests[i]
                       \/ tests'[i].manual = FALSE
                       \/ tests'[i].scenario = tests'[i].text
    <3> TAKE i \in Ids
    <3> DEFINE case == work[t].suite[i]
    <3>1. case \in Test
      BY <2>3 DEF Suite
    <3>2. [work[t].found EXCEPT !.scenario = case.text].manual = FALSE
      BY <2>2, <2>3 DEF Test
    <3>3. [case EXCEPT !.scenario = case.text].scenario
            = [case EXCEPT !.scenario = case.text].text
      BY <3>1 DEF Test
    <3>4. tests'[i] \in {tests[i], [work[t].found EXCEPT !.scenario = case.text],
                         [case EXCEPT !.scenario = case.text]}
      BY <1>8 DEF SideCarWrite
    <3> HIDE DEF case
    <3> QED
      BY <3>2, <3>3, <3>4
  <2>5. ScenarioMatches'
    BY <2>4 DEF ScenarioMatches, HumanInv
  <2> QED
    BY <2>1, <2>5 DEF HumanInv
<1>9. CASE Publish(t)
  BY <1>9, HumanLocal DEF Publish
<1> QED
  BY <1>1, <1>2, <1>3, <1>4, <1>5, <1>6, <1>7, <1>8, <1>9 DEF Run

\* Saving by hand renders the scenario from the text it saves.
LEMMA HumanSave ==
  ASSUME HumanInv, NEW ids, NEW text \in Texts, SaveByHand(ids, text)
  PROVE  ScenarioMatches'
<1>1. PICK case \in ByHand(text) :
        tests' = [i \in Ids |-> IF i \in ids THEN case ELSE tests[i]]
  BY DEF SaveByHand
<1>2. case.scenario \in {case.text, NoText}
  BY ByHandIsTest
<1> QED
  BY <1>1, <1>2 DEF HumanInv, ScenarioMatches

LEMMA HumanCorrect ==
  ASSUME Inv, HumanInv, NEW t \in Threads, Correct(t)
  PROVE  HumanInv'
<1> USE DEF Inv, TypeOK, library, Goto, Return
<1>0. (pc[t] = "save" \/ pc[t] \in Creating) => req[t].text \in Texts
  BY OfThread, RequestFields DEF Fits, Creating, NoRequest
<1>1. CASE Override(t) \/ Patch(t) \/ Republish(t)
  BY <1>1, HumanLocal DEF Override, Patch, Republish
<1>2. CASE Look(t)
  BY <1>2, HumanLocal DEF Look
<1>3. CASE Save(t)
  <2>1. NotAHumans'
    BY <1>3, NotToSideCar DEF Save, HumanInv
  <2>2. ScenarioMatches'
    BY <1>0, <1>3, HumanSave DEF Save
  <2> QED
    BY <2>1, <2>2 DEF HumanInv
<1>4. CASE Remove(t)
  <2>1. NotAHumans'
    BY <1>4, NotToSideCar DEF Remove, HumanInv
  <2>2. ScenarioMatches'
    BY <1>4 DEF Remove, Blank, ScenarioMatches, HumanInv, Suite
  <2> QED
    BY <2>1, <2>2 DEF HumanInv
<1>5. ASSUME NEW i \in Ids, Search(t, i) PROVE HumanInv'
  BY <1>5, HumanLocal DEF Search
<1>6. CASE Insert(t)
  <2>1. NotAHumans'
    BY <1>6, NotToSideCar DEF Insert, HumanInv
  <2>2. ScenarioMatches'
    BY <1>0, <1>6, HumanSave DEF Insert, Creating
  <2> QED
    BY <2>1, <2>2 DEF HumanInv
<1>7. CASE Story(t) \/ Tell(t)
  BY <1>7, HumanLocal DEF Story, Tell
<1>8. CASE Drop(t)
  <2>1. NotAHumans'
    BY <1>8, NotToSideCar DEF Drop, HumanInv
  <2>2. ScenarioMatches'
    BY <1>8 DEF Drop, NoSuite, Blank, ScenarioMatches
  <2> QED
    BY <2>1, <2>2 DEF HumanInv
<1> QED
  BY <1>1, <1>2, <1>3, <1>4, <1>5, <1>6, <1>7, <1>8 DEF Correct

\* A test a human wrote keeps the scenario rendered from its own text, or
\* none, whatever runs and corrections are under way: a run may have read the
\* record before the human saved it, but then it writes a record that is not
\* the human's.
THEOREM HumanScenarios == Spec => []ScenarioMatches
<1>1. Inv /\ HumanInv /\ [Next]_vars => HumanInv'
  <2> SUFFICES ASSUME Inv, HumanInv, [Next]_vars PROVE HumanInv'
    OBVIOUS
  <2>1. CASE UNCHANGED vars
    BY <2>1 DEF vars, library, HumanInv, ScenarioMatches, NotAHumans
  <2>2. CASE Next
    BY <2>2, HumanArrivals, HumanRun, HumanCorrect DEF Next
  <2> QED
    BY <2>1, <2>2
<1>2. HumanInv => ScenarioMatches
  BY DEF HumanInv
<1> QED
  BY <1>1, <1>2, HumanInit, InvHolds, PTL DEF Spec


-----------------------------------------------------------------------------
(* One request at a time.                                                  *)

\* One request is served at a time.
OneThread == \A t, u \in Threads : t = u

\* What a thread found when it looked is still so when it writes.
KeepThread(t) ==
  /\ pc[t] = "sidecar" => \A i \in work[t].at : tests[i] = work[t].found
  /\ pc[t] \in {"save", "remove"} => tests[req[t].id].manual
  /\ pc[t] = "insert" =>
       \A i \in work[t].at : tests[i].manual \/ tests[i].text = NoText

KeepInv == \A t \in Threads : KeepThread(t)

\* What GeneratedKept asks of a step.
Kept ==
  \A i \in Here(tests) :
    ~tests[i].manual /\ present' /\ tests'[i].text # tests[i].text =>
      \E t \in Threads : pc[t] = "generate" /\ pc'[t] # "generate"

\* Away from its writes a thread relies on nothing.
LEMMA KeepElsewhere ==
  ASSUME OneThread, NEW t \in Threads,
         pc'[t] \notin {"sidecar", "save", "remove", "insert"}
  PROVE  KeepInv'
<1>1. \A u \in Threads : u = t
  BY DEF OneThread
<1> QED
  BY <1>1 DEF KeepInv, KeepThread

\* No step leaves a generated test unasked that leaves the tests alone.
LEMMA KeptLocally == tests' = tests => Kept
  BY DEF Kept

\* Unforced requests for a test are for one a human wrote.
LEMMA Unforced ==
  ASSUME TRUE \notin Forcing, NEW r \in Request, r.kind \in {"edit", "delete", "create"}
  PROVE  r.force = FALSE
<1>1. r.force \in Forcing
  BY DEF Request, RunKinds
<1> QED
  BY <1>1, LibraryAssumption DEF LibraryAssumption

LEMMA KeepArrivals ==
  ASSUME OneThread, Inv, NEW t \in Threads
  PROVE  /\ \A r \in Request : Begin(t, r) => KeepInv' /\ Kept
         /\ CheckProject(t) => KeepInv' /\ Kept
         /\ WalkFails(t) => KeepInv' /\ Kept
<1> USE DEF Inv, TypeOK, library, Goto, Return
<1>1. ASSUME NEW r \in Request, Begin(t, r) PROVE KeepInv' /\ Kept
  BY <1>1, KeepElsewhere, KeptLocally DEF Begin
<1>2. ASSUME CheckProject(t) PROVE KeepInv' /\ Kept
  BY <1>2, KeepElsewhere, KeptLocally DEF CheckProject, FirstPlace, Fits, AllKinds, RunKinds
<1>3. ASSUME WalkFails(t) PROVE KeepInv' /\ Kept
  BY <1>3, KeepElsewhere, KeptLocally DEF WalkFails
<1> QED
  BY <1>1, <1>2, <1>3

LEMMA KeepRun ==
  ASSUME OneThread, Inv, KeepInv, NEW t \in Threads, Run(t)
  PROVE  KeepInv' /\ Kept
<1> USE DEF Inv, TypeOK, library, Goto, Return
<1>1. CASE Generate(t)
  <2>1. pc[t] = "generate" /\ pc'[t] \in {"publish", "refine", "snapshot"}
    BY <1>1 DEF Generate, AfterTests
  <2> QED
    BY <2>1, KeepElsewhere DEF Kept
<1>2. CASE Load(t) \/ RefineFails(t) \/ Snapshot(t) \/ ReviewFails(t) \/ Record(t) \/ Render(t)
  <2>1. tests' = tests /\ pc'[t] \notin {"sidecar", "save", "remove", "insert"}
    BY <1>2 DEF Load, RefineFails, Snapshot, ReviewFails, Record, Render, AfterTests
  <2> QED
    BY <2>1, KeepElsewhere, KeptLocally
<1>3. CASE Refine(t) \/ Review(t) \/ Publish(t)
  <2>1. tests' = tests /\ pc'[t] \notin {"sidecar", "save", "remove", "insert"}
    BY <1>3 DEF Refine, Review, Publish
  <2> QED
    BY <2>1, KeepElsewhere, KeptLocally
<1>4. ASSUME NEW i \in Ids, SideCarRead(t, i) PROVE KeepInv' /\ Kept
  <2>1. CASE tests[i].manual
    BY <1>4, <2>1, KeepElsewhere, KeptLocally DEF SideCarRead
  <2>2. CASE ~tests[i].manual
    <3>1. pc'[t] = "sidecar" /\ work'[t].at = {i} /\ work'[t].found = tests[i] /\ tests' = tests
      BY <1>4, <2>2 DEF SideCarRead, Work
    <3>2. KeepThread(t)'
      BY <3>1 DEF KeepThread
    <3> QED
      BY <3>1, <3>2, KeptLocally DEF OneThread, KeepInv
  <2> QED
    BY <2>1, <2>2
<1>5. CASE SideCarWrite(t)
  <2>1. pc[t] = "sidecar" /\ pc'[t] = "publish"
    BY <1>5 DEF SideCarWrite
  <2>2. \A i \in work[t].at : tests[i] = work[t].found
    BY <2>1 DEF KeepInv, KeepThread
  <2>3. ASSUME NEW i \in Here(tests) PROVE tests'[i].text = tests[i].text
    <3>1. i \in Ids /\ tests[i] \in Test /\ tests[i].text # NoText
      BY <2>3 DEF Here, Suite
    <3>2. CASE i \in work[t].at
      <4>1. tests'[i] = [tests[i] EXCEPT !.scenario = work[t].suite[i].text]
        BY <1>5, <2>2, <3>1, <3>2 DEF SideCarWrite
      <4> QED
        BY <3>1, <4>1 DEF Test
    <3>3. CASE i \notin work[t].at
      BY <1>5, <3>1, <3>3 DEF SideCarWrite
    <3> QED
      BY <3>2, <3>3
  <2> QED
    BY <2>1, <2>3, KeepElsewhere DEF Kept
<1> QED
  BY <1>1, <1>2, <1>3, <1>4, <1>5 DEF Run

LEMMA KeepCorrect ==
  ASSUME OneThread, TRUE \notin Forcing, Inv, KeepInv, NEW t \in Threads, Correct(t)
  PROVE  KeepInv' /\ Kept
<1> USE DEF Inv, TypeOK, library, Goto, Return
<1>1. CASE Override(t) \/ Patch(t) \/ Republish(t) \/ Story(t) \/ Tell(t)
  <2>1. tests' = tests /\ pc'[t] \notin {"sidecar", "save", "remove", "insert"}
    BY <1>1 DEF Override, Patch, Republish, Story, Tell
  <2> QED
    BY <2>1, KeepElsewhere, KeptLocally
<1>2. CASE Look(t)
  <2>1. CASE Return(t)
    BY <1>2, <2>1, KeepElsewhere, KeptLocally DEF Look
  <2>2. CASE ~Return(t)
    <3>1. /\ pc[t] = "look" /\ UNCHANGED <<req, tests>> /\ pc'[t] \in {"save", "remove"}
          /\ tests[req[t].id].manual \/ req[t].force
      BY <1>2, <2>2 DEF Look
    <3>2. req[t] \in Request /\ req[t].kind \in {"edit", "delete"}
      BY <3>1, OfThread DEF Fits, NoRequest
    <3>3. req[t].force = FALSE
      BY <3>2, Unforced
    <3>4. KeepThread(t)'
      BY <3>1, <3>3 DEF KeepThread
    <3> QED
      BY <3>1, <3>4, KeptLocally DEF OneThread, KeepInv
  <2> QED
    BY <2>1, <2>2
<1>3. CASE Save(t)
  <2>1. pc[t] = "save" /\ pc'[t] = "idle" /\ \A i \in Ids \ {req[t].id} : tests'[i] = tests[i]
    BY <1>3 DEF Save, SaveByHand
  <2>2. tests[req[t].id].manual
    BY <2>1 DEF KeepInv, KeepThread
  <2> QED
    BY <2>1, <2>2, KeepElsewhere DEF Kept, Here
<1>4. CASE Remove(t)
  <2>1. pc[t] = "remove" /\ pc'[t] = "idle" /\ \A i \in Ids \ {req[t].id} : tests'[i] = tests[i]
    BY <1>4 DEF Remove, Suite
  <2>2. tests[req[t].id].manual
    BY <2>1 DEF KeepInv, KeepThread
  <2> QED
    BY <2>1, <2>2, KeepElsewhere DEF Kept, Here
<1>5. ASSUME NEW i \in Ids, Search(t, i) PROVE KeepInv' /\ Kept
  <2>1. CASE Return(t)
    BY <1>5, <2>1, KeepElsewhere, KeptLocally DEF Search
  <2>2. CASE ~Return(t)
    <3>1. /\ pc[t] = "search" /\ UNCHANGED <<req, tests>> /\ pc'[t] = "insert"
          /\ work'[t].at = {i}
          /\ tests[i].text = NoText \/ tests[i].manual \/ req[t].force
      BY <1>5, <2>2 DEF Search, Work
    <3>2. req[t] \in Request /\ req[t].kind = "create"
      BY <3>1, OfThread DEF Fits, NoRequest
    <3>3. req[t].force = FALSE
      BY <3>2, Unforced
    <3>4. KeepThread(t)'
      BY <3>1, <3>3 DEF KeepThread
    <3> QED
      BY <3>1, <3>4, KeptLocally DEF OneThread, KeepInv
  <2> QED
    BY <2>1, <2>2
<1>6. CASE Insert(t)
  <2>1. pc[t] = "insert" /\ pc'[t] = "search" /\ \A i \in Ids \ work[t].at : tests'[i] = tests[i]
    BY <1>6 DEF Insert, SaveByHand
  <2>2. \A i \in work[t].at : tests[i].manual \/ tests[i].text = NoText
    BY <2>1 DEF KeepInv, KeepThread
  <2> QED
    BY <2>1, <2>2, KeepElsewhere DEF Kept, Here
<1>7. CASE Drop(t)
  BY <1>7, KeepElsewhere DEF Drop, Kept
<1> QED
  BY <1>1, <1>2, <1>3, <1>4, <1>5, <1>6, <1>7 DEF Correct

\* While requests are served one at a time and none is forced, a stored
\* generated test keeps its text and its place until its project goes or a
\* run generates anew: what an edit, a deletion or a creation by hand found
\* before it writes is still there when it does.
THEOREM GeneratedTestsAreKept ==
  ASSUME OneThread, TRUE \notin Forcing
  PROVE  Spec => GeneratedKept
<1>1. Init => KeepInv
  BY DEF Init, KeepInv, KeepThread
<1>2. Inv /\ KeepInv /\ [Next]_vars => KeepInv' /\ [Kept]_vars
  <2> SUFFICES ASSUME Inv, KeepInv, [Next]_vars PROVE KeepInv' /\ [Kept]_vars
    OBVIOUS
  <2>1. CASE UNCHANGED vars
    BY <2>1 DEF vars, library, KeepInv, KeepThread
  <2>2. CASE Next
    <3>1. PICK t \in Threads :
            \/ \E r \in Request : Begin(t, r)
            \/ CheckProject(t) \/ WalkFails(t) \/ Run(t) \/ Correct(t)
      BY <2>2 DEF Next
    <3> QED
      BY <3>1, KeepArrivals, KeepRun, KeepCorrect
  <2> QED
    BY <2>1, <2>2
<1> QED
  BY <1>1, <1>2, InvHolds, PTL DEF Spec, GeneratedKept, Kept

-----------------------------------------------------------------------------
(* The latest analysis shows the verdicts a human set.                     *)

\* The refinement loop applies no override, so that no run goes through it
\* here.
NoneRefined == Refined = {}

Shows(i) ==
  Reviewed(latest, i) /\ overrides[i] # Unreviewed =>
    analyses[latest].verdict[i] = overrides[i]

Reviewing == {"record", "render", "sidecar", "publish"}

\* A run carries the human's verdicts from its review on and none before, and
\* an override patches the analysis that is the latest.
ShowThread(t) ==
  /\ pc[t] = "patch" => overrides[req[t].id] = req[t].validity
  /\ pc[t] = "republish" => work[t].ref = latest
  /\ pc[t] = "review" => work[t].seen = overrides
  /\ pc[t] \in Reviewing =>
       \A i \in Ids : work[t].verdict[i] # Unreviewed /\ overrides[i] # Unreviewed =>
                        work[t].verdict[i] = overrides[i]
  /\ pc[t] \notin Reviewing => work[t].verdict = NoVerdicts
  /\ pc[t] # "refine"

\* Only of the test whose override is under way may the analysis show another.
ShowInv ==
  /\ \A i \in Ids : Shows(i) \/ \E t \in Threads : pc[t] = "patch" /\ req[t].id = i
  /\ \A t \in Threads : ShowThread(t)

\* Nothing is patched, the library stays.
LEMMA ShowLocal ==
  ASSUME OneThread, ShowInv, NEW t \in Threads, pc[t] # "patch",
         UNCHANGED <<overrides, analyses, latest>>, ShowThread(t)'
  PROVE  ShowInv'
<1>1. \A u \in Threads : u = t
  BY DEF OneThread
<1>2. \A i \in Ids : Shows(i)'
  BY <1>1 DEF ShowInv, Shows, Reviewed
<1> QED
  BY <1>1, <1>2 DEF ShowInv

\* A thread that returns has nothing left to show.
LEMMA ShowReturn ==
  ASSUME Inv, OneThread, NEW t \in Threads, Return(t), \A i \in Ids : Shows(i)'
  PROVE  ShowInv'
<1>1. \A u \in Threads : u = t
  BY DEF OneThread
<1>2. pc'[t] = "idle" /\ work'[t].verdict = NoVerdicts
  BY DEF Return, Inv, TypeOK, NoWork
<1>3. ShowThread(t)'
  BY <1>2 DEF ShowThread, Reviewing
<1> QED
  BY <1>1, <1>3 DEF ShowInv

LEMMA ShowReturnLocally ==
  ASSUME Inv, OneThread, ShowInv, NEW t \in Threads, Return(t), pc[t] # "patch",
         UNCHANGED <<overrides, analyses, latest>>
  PROVE  ShowInv'
<1>1. \A i \in Ids : Shows(i)
  BY DEF OneThread, ShowInv
<1>2. \A i \in Ids : Shows(i)'
  BY <1>1 DEF Shows, Reviewed
<1> QED
  BY <1>2, ShowReturn

LEMMA ShowArrivals ==
  ASSUME OneThread, Inv, ShowInv, NEW t \in Threads
  PROVE  /\ \A r \in Request : Begin(t, r) => ShowInv'
         /\ CheckProject(t) => ShowInv'
         /\ WalkFails(t) => ShowInv'
<1> USE DEF Inv, TypeOK, library, Goto
<1>0. ShowThread(t)
  BY DEF ShowInv
<1>1. ASSUME NEW r \in Request, Begin(t, r) PROVE ShowInv'
  <2>1. pc[t] = "idle" /\ pc'[t] \in {"look", "check"} /\ work' = work
        /\ UNCHANGED <<overrides, analyses, latest>>
    BY <1>1 DEF Begin
  <2>2. ShowThread(t)'
    BY <1>0, <2>1 DEF ShowThread, Reviewing
  <2> QED
    BY <2>1, <2>2, ShowLocal
<1>2. ASSUME CheckProject(t) PROVE ShowInv'
  <2>0. pc[t] = "check" /\ UNCHANGED <<overrides, analyses, latest>>
    BY <1>2 DEF CheckProject
  <2>1. CASE Return(t)
    BY <2>0, <2>1, ShowReturnLocally
  <2>2. CASE ~Return(t)
    <3>1. pc'[t] \in {"load", "generate", "search", "override", "drop"}
      BY <1>2, <2>0, <2>2 DEF CheckProject, FirstPlace, Fits, AllKinds, RunKinds
    <3>2. work'[t].verdict = work[t].verdict
      BY <1>2, <2>2 DEF CheckProject, Work
    <3>3. ShowThread(t)'
      BY <1>0, <2>0, <3>1, <3>2 DEF ShowThread, Reviewing
    <3> QED
      BY <2>0, <3>3, ShowLocal
  <2> QED
    BY <2>1, <2>2
<1>3. ASSUME WalkFails(t) PROVE ShowInv'
  BY <1>3, ShowReturnLocally DEF WalkFails
<1> QED
  BY <1>1, <1>2, <1>3

LEMMA ShowRun ==
  ASSUME OneThread, NoneRefined, Inv, ShowInv, NEW t \in Threads, Run(t)
  PROVE  ShowInv'
<1> USE DEF Inv, TypeOK, library, Goto
<1>0. ShowThread(t)
  BY DEF ShowInv
\* The step leaves what overrides and analyses say.
<1>1. ASSUME pc[t] # "patch", UNCHANGED <<overrides, analyses, latest>>,
             pc'[t] \in Reviewing, work'[t].verdict = work[t].verdict
      PROVE  ShowInv'
  <2>1. ShowThread(t)'
    BY <1>0, <1>1 DEF ShowThread, Reviewing, NoVerdicts
  <2> QED
    BY <1>1, <2>1, ShowLocal
<1>2. CASE Generate(t) \/ Load(t)
  <2>1. pc[t] \in {"generate", "load"} /\ UNCHANGED <<overrides, analyses, latest>>
        /\ pc'[t] \in {"publish", "snapshot"}
    BY <1>2 DEF Generate, Load, AfterTests, NoneRefined
  <2>2. work'[t].verdict = NoVerdicts
    <3>1. work[t].verdict = NoVerdicts /\ work[t] \in Work
      BY <1>0, <2>1 DEF ShowThread, Reviewing
    <3>2. \E s : work' = [work EXCEPT ![t].suite = s]
      BY <1>2 DEF Generate, Load
    <3> QED
      BY <3>1, <3>2 DEF Work
  <2>3. ShowThread(t)'
    BY <2>1, <2>2 DEF ShowThread, Reviewing, NoVerdicts
  <2> QED
    BY <2>1, <2>3, ShowLocal
<1>3. CASE Refine(t) \/ RefineFails(t)
  BY <1>0, <1>3 DEF Refine, RefineFails, ShowThread
<1>4. CASE Snapshot(t)
  <2>1. pc[t] = "snapshot" /\ pc'[t] = "review" /\ UNCHANGED <<overrides, analyses, latest>>
        /\ work'[t].seen = overrides' /\ work'[t].verdict = work[t].verdict
    BY <1>4 DEF Snapshot, Work
  <2>2. ShowThread(t)'
    BY <1>0, <2>1 DEF ShowThread, Reviewing
  <2> QED
    BY <2>1, <2>2, ShowLocal
<1>5. CASE Review(t)
  <2>1. PICK s \in Rewritings(work[t].suite, Here(work[t].suite)),
             v \in ReviewsOf(Here(work[t].suite)) :
          work' = [work EXCEPT ![t].suite = s, ![t].verdict = Overridden(v, work[t].seen)]
    BY <1>5 DEF Review
  <2>2. pc[t] = "review" /\ pc'[t] = "record" /\ UNCHANGED <<overrides, analyses, latest>>
        /\ work[t].seen = overrides
    BY <1>0, <1>5 DEF Review, ShowThread
  <2>3. work'[t].verdict = Overridden(v, overrides)
    BY <2>1, <2>2 DEF Work
  <2>4. \A i \in Ids : work'[t].verdict[i] # Unreviewed /\ overrides[i] # Unreviewed =>
                         work'[t].verdict[i] = overrides[i]
    BY <2>3 DEF Overridden
  <2>5. ShowThread(t)'
    BY <2>2, <2>4 DEF ShowThread, Reviewing
  <2> QED
    BY <2>2, <2>5, ShowLocal
<1>6. CASE ReviewFails(t) \/ Record(t)
  <2>1. pc[t] # "patch" /\ pc'[t] = "render" /\ UNCHANGED <<overrides, analyses, latest, work>>
    BY <1>6 DEF ReviewFails, Record
  <2> QED
    BY <1>1, <2>1 DEF Reviewing
<1>7. CASE Render(t)
  <2>1. \E todo : work' = [work EXCEPT ![t].todo = todo]
    BY <1>7 DEF Render
  <2>2. work'[t].verdict = work[t].verdict
    BY <2>1 DEF Work
  <2> QED
    BY <1>1, <1>7, <2>2 DEF Render, Reviewing
<1>8. ASSUME NEW i \in Ids, SideCarRead(t, i) PROVE ShowInv'
  <2>1. pc[t] = "publish" /\ pc'[t] \in Reviewing /\ UNCHANGED <<overrides, analyses, latest>>
    BY <1>8 DEF SideCarRead, Reviewing
  <2>2. work'[t].verdict = work[t].verdict
    BY <1>8 DEF SideCarRead, Work
  <2> QED
    BY <1>1, <2>1, <2>2
<1>9. CASE SideCarWrite(t)
  <2>1. pc[t] = "sidecar" /\ pc'[t] \in Reviewing /\ UNCHANGED <<overrides, analyses, latest>>
    BY <1>9 DEF SideCarWrite, Reviewing
  <2>2. work'[t].verdict = work[t].verdict
    BY <1>9 DEF SideCarWrite, Work
  <2> QED
    BY <1>1, <2>1, <2>2
<1>10. CASE Publish(t)
  <2> DEFINE new == [tests   |-> Shown(work[t].suite, work[t].verdict),
                     verdict |-> work[t].verdict]
  <2>1. /\ analyses' = Append(analyses, new) /\ latest' = Len(analyses) + 1 /\ Return(t)
        /\ overrides' = overrides /\ pc[t] = "publish"
    BY <1>10 DEF Publish
  <2>2. analyses'[latest'] = new
    BY <2>1
  <2>3. \A i \in Ids : Shows(i)'
    BY <1>0, <2>1, <2>2 DEF Shows, Reviewed, ShowThread, Reviewing
  <2> QED
    BY <2>1, <2>3, ShowReturn
<1> QED
  BY <1>2, <1>3, <1>4, <1>5, <1>6, <1>7, <1>8, <1>9, <1>10 DEF Run

LEMMA ShowOverride ==
  ASSUME OneThread, Inv, ShowInv, NEW t \in Threads
  PROVE  /\ Override(t) => ShowInv'
         /\ Patch(t) => ShowInv'
         /\ Republish(t) => ShowInv'
<1> USE DEF Inv, TypeOK, library, Goto
<1>0. ShowThread(t) /\ \A u \in Threads : u = t
  BY DEF ShowInv, OneThread
<1>1. ASSUME Override(t) PROVE ShowInv'
  <2>1. /\ pc[t] = "override" /\ pc'[t] = "patch" /\ UNCHANGED <<req, work, analyses, latest>>
        /\ overrides' = [overrides EXCEPT ![req[t].id] = req[t].validity]
    BY <1>1 DEF Override
  <2>2. req[t].id \in Ids
    BY <2>1, OfThread, RequestFields DEF Fits, NoRequest
  <2>3. \A i \in Ids : Shows(i)
    BY <1>0, <2>1 DEF ShowInv
  <2>4. overrides'[req[t].id] = req[t].validity
        /\ \A i \in Ids \ {req[t].id} : overrides'[i] = overrides[i]
    BY <2>1, <2>2 DEF Verdicts
  <2>5. \A i \in Ids \ {req[t].id} : Shows(i)'
    BY <2>1, <2>3, <2>4 DEF Shows, Reviewed
  <2>6. ShowThread(t)'
    BY <1>0, <2>1, <2>4 DEF ShowThread, Reviewing
  <2> QED
    BY <1>0, <2>1, <2>5, <2>6 DEF ShowInv
<1>2. ASSUME Patch(t) PROVE ShowInv'
  <2> DEFINE i == req[t].id
  <2>1. pc[t] = "patch" /\ UNCHANGED <<overrides, latest>> /\ overrides[i] = req[t].validity
    BY <1>0, <1>2 DEF Patch, ShowThread
  <2>2. i \in Ids /\ req[t].validity # Unreviewed /\ req[t].validity \in Validities
    BY <2>1, OfThread, RequestFields DEF Fits, NoRequest, Validities, Unreviewed
  <2>3. \A j \in Ids \ {i} : Shows(j)
    BY <1>0 DEF ShowInv
  <2>4. CASE ~Reviewed(latest, i)
    <3>1. Return(t) /\ UNCHANGED analyses
      BY <1>2, <2>4 DEF Patch
    <3>2. \A j \in Ids : Shows(j)'
      BY <2>1, <2>3, <2>4, <3>1 DEF Shows, Reviewed
    <3> QED
      BY <3>1, <3>2, ShowReturn
  <2>5. CASE Reviewed(latest, i)
    <3>1. /\ pc'[t] = "republish" /\ UNCHANGED req
          /\ work' = [work EXCEPT ![t].ref = latest]
          /\ analyses' = [analyses EXCEPT ![latest].verdict[i] = req[t].validity]
      BY <1>2, <2>5 DEF Patch
    <3>2. latest \in 1..Len(analyses) /\ analyses[latest] \in Analysis
      BY <2>5 DEF Reviewed
    <3>3. analyses'[latest].verdict = [analyses[latest].verdict EXCEPT ![i] = req[t].validity]
      BY <3>1, <3>2 DEF Analysis
    <3>4. \A j \in Ids : Shows(j)'
      BY <2>1, <2>2, <2>3, <3>2, <3>3 DEF Shows, Reviewed, Analysis, Verdicts
    <3>5. work'[t].ref = latest /\ work'[t].verdict = work[t].verdict
      BY <3>1 DEF Work
    <3>6. ShowThread(t)'
      BY <1>0, <2>1, <3>1, <3>5 DEF ShowThread, Reviewing
    <3> QED
      BY <1>0, <3>4, <3>6 DEF ShowInv
  <2> QED
    BY <2>4, <2>5
<1>3. ASSUME Republish(t) PROVE ShowInv'
  <2>1. latest' = latest /\ Return(t) /\ UNCHANGED <<overrides, analyses>> /\ pc[t] # "patch"
    BY <1>0, <1>3 DEF Republish, ShowThread
  <2> QED
    BY <2>1, ShowReturnLocally
<1> QED
  BY <1>1, <1>2, <1>3

LEMMA ShowManual ==
  ASSUME OneThread, Inv, ShowInv, NEW t \in Threads
  PROVE  /\ Look(t) \/ Save(t) \/ Remove(t) => ShowInv'
         /\ (\E i \in Ids : Search(t, i)) \/ Insert(t) \/ Story(t) \/ Tell(t) => ShowInv'
         /\ Drop(t) => ShowInv'
<1> USE DEF Inv, TypeOK, library, Goto
<1>0. ShowThread(t) /\ \A u \in Threads : u = t
  BY DEF ShowInv, OneThread
\* The request is for tests or stories, and goes on.
<1>1. ASSUME pc[t] \in {"look", "search", "insert"},
             UNCHANGED <<overrides, analyses, latest>>,
             pc'[t] \in {"save", "remove", "search", "insert", "tell"},
             work'[t].verdict = work[t].verdict
      PROVE  ShowInv'
  <2>1. ShowThread(t)'
    BY <1>0, <1>1 DEF ShowThread, Reviewing
  <2> QED
    BY <1>1, <2>1, ShowLocal
<1>2. ASSUME Look(t) \/ Save(t) \/ Remove(t) PROVE ShowInv'
  <2>0. pc[t] # "patch" /\ UNCHANGED <<overrides, analyses, latest>>
    BY <1>2 DEF Look, Save, Remove
  <2>1. CASE Return(t)
    BY <2>0, <2>1, ShowReturnLocally
  <2>2. CASE ~Return(t)
    <3>1. pc[t] = "look" /\ work' = work /\ pc'[t] \in {"save", "remove"}
      BY <1>2, <2>2 DEF Look, Save, Remove
    <3> QED
      BY <1>1, <2>0, <3>1
  <2> QED
    BY <2>1, <2>2
<1>3. ASSUME (\E i \in Ids : Search(t, i)) \/ Insert(t) \/ Story(t) \/ Tell(t) PROVE ShowInv'
  <2>0. pc[t] # "patch" /\ UNCHANGED <<overrides, analyses, latest>>
    BY <1>3 DEF Search, Insert, Story, Tell
  <2>1. CASE Return(t)
    BY <2>0, <2>1, ShowReturnLocally
  <2>2. CASE ~Return(t)
    <3>1. pc[t] \in {"search", "insert"} /\ pc'[t] \in {"insert", "search", "tell"}
      BY <1>3, <2>2 DEF Search, Insert, Story, Tell
    <3>2. work'[t].verdict = work[t].verdict
      <4>1. CASE \E i \in Ids : Search(t, i)
        BY <2>2, <4>1 DEF Search, Work
      <4>2. CASE Insert(t) \/ Story(t)
        BY <4>2 DEF Insert, Story, Work
      <4> QED
        BY <1>3, <2>2, <4>1, <4>2 DEF Tell
    <3> QED
      BY <1>1, <2>0, <3>1, <3>2
  <2> QED
    BY <2>1, <2>2
<1>4. ASSUME Drop(t) PROVE ShowInv'
  <2>1. latest' = 0 /\ Return(t)
    BY <1>4 DEF Drop
  <2>2. \A i \in Ids : Shows(i)'
    BY <2>1 DEF Shows, Reviewed
  <2> QED
    BY <2>1, <2>2, ShowReturn
<1> QED
  BY <1>2, <1>3, <1>4

\* While requests are served one at a time and no run goes through the
\* refinement loop, the latest analysis shows, of every test it reviewed, the
\* verdict a human set: a run reads the overrides before its review and
\* publishes under them, an override patches what is the latest analysis.
THEOREM OverridesAreShown ==
  ASSUME OneThread, NoneRefined
  PROVE  Spec => []OverrideShown
<1>1. Init => ShowInv
  BY DEF Init, ShowInv, ShowThread, Shows, Reviewed, Reviewing, NoWork
<1>2. Inv /\ ShowInv /\ [Next]_vars => ShowInv'
  <2> SUFFICES ASSUME Inv, ShowInv, [Next]_vars PROVE ShowInv'
    OBVIOUS
  <2>1. CASE UNCHANGED vars
    BY <2>1 DEF vars, library, ShowInv, ShowThread, Shows, Reviewed
  <2>2. CASE Next
    <3>1. PICK t \in Threads :
            \/ \E r \in Request : Begin(t, r)
            \/ CheckProject(t) \/ WalkFails(t) \/ Run(t) \/ Correct(t)
      BY <2>2 DEF Next
    <3>2. CASE Correct(t)
      BY <3>2, ShowOverride, ShowManual DEF Correct
    <3> QED
      BY <3>1, <3>2, ShowArrivals, ShowRun
  <2> QED
    BY <2>1, <2>2
<1>3. ShowInv => OverrideShown
  BY DEF ShowInv, OverrideShown, Quiet, Shows
<1> QED
  BY <1>1, <1>2, <1>3, InvHolds, PTL DEF Spec
=============================================================================
