------------------------ MODULE RefinementLoopProofs ------------------------
(***************************************************************************)
(* What holds of the coverage closure loop for every suite, set of         *)
(* obligations, reviewer and setting of the limits.                        *)
(***************************************************************************)
EXTENDS RefinementLoop, FiniteSetTheorems, TLAPS

\* A review judges the active tests, and only those.
LEMMA ReviewsAreVerdicts ==
  ASSUME NEW says, NEW byRules, NEW v \in Reviews(says, byRules)
  PROVE  /\ v \in [Ids -> Validities \union {Unreviewed}]
         /\ \A t \in Active : v[t] \in Judgements(says, t, byRules)
<1>1. PICK w \in [Active -> Validities] :
        /\ v = [t \in Ids |-> IF t \in Active THEN w[t] ELSE Unreviewed]
        /\ \A t \in Active : w[t] \in Judgements(says, t, byRules)
  BY DEF Reviews
<1>2. Active \subseteq Ids  BY DEF Active, Present
<1> QED  BY <1>1, <1>2

\* What a snapshot counts is finite.
LEMMA CountsAreNumbers ==
  ASSUME NEW says, NEW v, NEW validity
  PROVE  /\ CoveredBy(says, v) \subseteq Obligations
         /\ Cardinality(CoveredBy(says, v)) \in Nat
         /\ Count(v, validity) \in Nat
<1>1. CoveredBy(says, v) \subseteq Obligations  BY DEF CoveredBy
<1>2. IsFiniteSet(CoveredBy(says, v))  BY <1>1, IdAssumption, FS_Subset
<1>3. {t \in Ids : v[t] = validity} \subseteq Ids  OBVIOUS
<1>4. IsFiniteSet({t \in Ids : v[t] = validity})  BY <1>3, IdAssumption, FS_Subset
<1> QED  BY <1>1, <1>2, <1>4, FS_CardinalityType DEF Count

\* Rewriting leaves every test in the suite, and every gap a gap.
LEMMA RewritingsAreSuites ==
  ASSUME TypeOK, NEW says \in Rewritings
  PROVE  /\ says \in [Ids -> Contents \union {NoTest}]
         /\ \A t \in Ids : says[t] = NoTest <=> content[t] = NoTest
<1>1. PICK r \in [ToRevise -> Contents] :
        says = [t \in Ids |-> IF t \in ToRevise THEN r[t] ELSE content[t]]
  BY DEF Rewritings
<1>2. ToRevise \subseteq Present  BY DEF ToRevise, Found, Active
<1> QED  BY <1>1, <1>2, IdAssumption DEF TypeOK, Present

\* A revision yields a suite, in which what is retired is present.
LEMMA ReviseType ==
  ASSUME TypeOK, Revise
  PROVE  /\ content' \in [Ids -> Contents \union {NoTest}]
         /\ link' \in [Ids -> Obligations \union {NoLink}]
         /\ retired' \subseteq {t \in Ids : content'[t] # NoTest}
<1> DEFINE Outcome(says, plan, new, ids) ==
             \E kept \in SUBSET Living(new, ids) :
               LET dropped == Living(new, ids) \ kept IN
               /\ AreNovel(new, Unserved(plan), says)
               /\ IsDeduplicated(kept, Extended(says, new, ids), Living(new, ids))
               /\ content' = [t \in Ids |-> IF t \in dropped THEN NoTest
                                            ELSE Extended(says, new, ids)[t]]
               /\ link' = [t \in Ids |->
                             IF t \in dropped THEN NoLink
                             ELSE IF MadeAs(t, new, ids) = {} THEN link[t]
                             ELSE CHOOSE o \in MadeAs(t, new, ids) : TRUE]
<1>a. \E says \in Rewritings, plan \in Planned :
        \E new \in SUBSET Unserved(plan) :
        \E ids \in Namings(new) : Outcome(says, plan, new, ids)
  BY Zenon DEF Revise
<1> HIDE DEF Outcome
<1>b. PICK says \in Rewritings, plan \in Planned :
        \E new \in SUBSET Unserved(plan) :
        \E ids \in Namings(new) : Outcome(says, plan, new, ids)
  BY <1>a
<1>c. PICK new \in SUBSET Unserved(plan) :
        \E ids \in Namings(new) : Outcome(says, plan, new, ids)
  BY <1>b
<1>d. PICK ids \in Namings(new) : Outcome(says, plan, new, ids)
  BY <1>c
<1> DEFINE all == Extended(says, new, ids)
           living == Living(new, ids)
           made(t) == MadeAs(t, new, ids)
<1>2. PICK kept \in SUBSET living :
        /\ content' = [t \in Ids |-> IF t \in living \ kept THEN NoTest ELSE all[t]]
        /\ link' = [t \in Ids |-> IF t \in living \ kept THEN NoLink
                                  ELSE IF made(t) = {} THEN link[t]
                                  ELSE CHOOSE o \in made(t) : TRUE]
  BY <1>d DEF Outcome
<1>3. new \subseteq Obligations
  BY DEF Unserved, Planned, Open
<1>4. \A t \in Ids : made(t) # {} => (CHOOSE o \in made(t) : TRUE) \in Obligations
  BY <1>3 DEF MadeAs
<1>5. /\ says \in [Ids -> Contents \union {NoTest}]
      /\ \A t \in Ids : says[t] = NoTest <=> content[t] = NoTest
  BY RewritingsAreSuites
<1>6. \A o \in new : ids[o] \in Ids \ Present
  BY DEF Namings
<1>7. all \in [Ids -> Contents \union {NoTest}]
  BY <1>4, <1>5, ContentAssumption DEF Extended
<1>8. content' \in [Ids -> Contents \union {NoTest}]
  BY <1>2, <1>7
<1>9. link' \in [Ids -> Obligations \union {NoLink}]
  BY <1>2, <1>4 DEF TypeOK
<1>10. ASSUME NEW t \in retired'  PROVE t \in Ids /\ content'[t] # NoTest
  <2>1. t \in retired \union Rejected /\ t \in Present
    BY <1>10 DEF Revise, TypeOK, Rejected, Found, Spare, Active, Present
  <2>2. t \in Ids /\ t \notin living
    BY <2>1, <1>6 DEF Present, Active, Living
  <2>3. made(t) = {}
    BY <2>1, <1>6 DEF MadeAs
  <2>4. content'[t] = says[t]
    BY <1>2, <2>2, <2>3 DEF Extended
  <2> QED  BY <2>1, <2>2, <2>4, <1>5 DEF Present
<1> QED  BY <1>8, <1>9, <1>10

\* The suite, the report and the counters keep their shape.
THEOREM TypeCorrect == Spec => []TypeOK
<1>1. Init => TypeOK
  <2> SUFFICES ASSUME Init PROVE TypeOK  OBVIOUS
  <2>1. content \in [Ids -> Contents \union {NoTest}]  BY IdAssumption DEF Init
  <2>2. initial \in Nat
    <3>1. {t \in Ids : content[t] # NoTest} \subseteq Ids  OBVIOUS
    <3>2. IsFiniteSet({t \in Ids : content[t] # NoTest})
      BY <3>1, IdAssumption, FS_Subset
    <3> QED  BY <3>2, FS_CardinalityType DEF Init
  <2> QED
    BY <2>1, <2>2, LimitAssumption
    DEF Init, TypeOK, Phases, Statuses, Snapshot
<1>2. TypeOK /\ [Next]_vars => TypeOK'
  <2> SUFFICES ASSUME TypeOK, [Next]_vars PROVE TypeOK'  OBVIOUS
  <2>1. CASE Review
    <3> DEFINE says == [t \in Ids |-> IF t \in Active THEN Corrected[content[t]]
                                      ELSE content[t]]
    <3>1. /\ says \in [Ids -> Contents \union {NoTest}]
          /\ \A t \in Ids : content[t] # NoTest => says[t] # NoTest
      BY ContentAssumption, IdAssumption DEF TypeOK, Active, Present
    <3>2. PICK v \in Reviews(says, Deterministic) :
            /\ verdict' = v
            /\ covered' = CoveredBy(says, v)
            /\ history' = Append(history,
                 [covered |-> Cardinality(CoveredBy(says, v)),
                  invalid |-> Count(v, "invalid"),
                  needs   |-> Count(v, "needs_revision")])
      BY <2>1 DEF Review
    <3>3. history' \in Seq(Snapshot) /\ covered' \subseteq Obligations
      BY <3>2, CountsAreNumbers DEF TypeOK, Snapshot
    <3>4. verdict' \in [Ids -> Validities \union {Unreviewed}]
      BY <3>2, ReviewsAreVerdicts
    <3> QED
      BY <2>1, <3>1, <3>3, <3>4, LimitAssumption DEF Review, TypeOK, Phases
  <2>2. CASE Succeed \/ StopAtLimit \/ Stagnate
    BY <2>2
    DEF Succeed, StopAtLimit, Stagnate, Stop, suite, TypeOK, Phases, Statuses
  <2>3. CASE Revise
    <3>1. round + 1 \in 1..MaxIterations
      BY <2>3, LimitAssumption DEF Revise, AtLimit, TypeOK
    <3> QED
      BY <2>3, <3>1, ReviseType DEF Revise, TypeOK, Phases
  <2>4. CASE FinalReview
    <3>1. verdict' \in [Ids -> Validities \union {Unreviewed}]
      BY <2>4, ReviewsAreVerdicts DEF FinalReview
    <3> QED  BY <2>4, <3>1 DEF FinalReview, suite, TypeOK, Phases
  <2>6. CASE Harden
    <3>1. verdict' \in [Ids -> Validities \union {Unreviewed}]
      BY <2>6, ReviewsAreVerdicts DEF Harden
    <3>2. /\ content' \in [Ids -> Contents \union {NoTest}]
          /\ \A t \in Ids : content[t] # NoTest => content'[t] # NoTest
      <4>1. content' = [t \in Ids |->
                          IF t \in Active \ (DoNotEdit \union HumanEdited)
                          THEN Hardened[content[t]] ELSE content[t]]
        BY <2>6 DEF Harden
      <4>2. /\ Hardened \in [Contents -> Contents]
            /\ NoTest \notin Contents
            /\ content \in [Ids -> Contents \union {NoTest}]
        BY ContentAssumption, IdAssumption DEF TypeOK
      <4> QED  BY <4>1, <4>2 DEF Active, Present
    <3>3. retired' \subseteq {t \in Ids : content'[t] # NoTest}
      BY <2>6, <3>2 DEF Harden, TypeOK
    <3>4. /\ phase' = "gate"
          /\ UNCHANGED <<link, covered, round, llmCalls, history, initial,
                         status, resumes>>
      BY <2>6 DEF Harden
    <3> QED  BY <3>1, <3>2, <3>3, <3>4 DEF TypeOK, Phases
  <2>7. CASE Gate
    <3>1. covered' \subseteq Obligations  BY <2>7, CountsAreNumbers DEF Gate
    <3> QED  BY <2>7, <3>1 DEF Gate, suite, TypeOK, Phases, Statuses
  <2>8. CASE Resume
    <3>1. PICK kept \in SUBSET Found("valid") :
            /\ content' = [t \in Ids |-> IF t \in kept THEN content[t] ELSE NoTest]
            /\ link' = [t \in Ids |-> IF t \in kept THEN link[t] ELSE NoLink]
            /\ initial' = Cardinality(kept)
      BY <2>8 DEF Resume
    <3>2. kept \subseteq Ids  BY DEF Found, Active, Present
    <3>3. initial' \in Nat
      BY <3>1, <3>2, IdAssumption, FS_Subset, FS_CardinalityType
    <3> QED
      BY <2>8, <3>1, <3>3, LimitAssumption DEF Resume, TypeOK, Phases, Statuses
  <2>9. CASE UNCHANGED vars
    BY <2>9 DEF vars, suite, TypeOK
  <2> QED
    BY <2>1, <2>2, <2>3, <2>4, <2>6, <2>7, <2>8, <2>9 DEF Next, Step
<1> QED  BY <1>1, <1>2, PTL DEF Spec

-----------------------------------------------------------------------------
\* A review corrects what tests say, and leaves the same tests active.
LEMMA ReviewKeepsTests ==
  ASSUME TypeOK, Review
  PROVE  /\ Active' = Active
         /\ covered' = CoveredBy(content', verdict')
         /\ verdict' \in Reviews(content', Deterministic)
<1> DEFINE says == [t \in Ids |-> IF t \in Active THEN Corrected[content[t]]
                                  ELSE content[t]]
<1>1. /\ content' = says
      /\ \E v \in Reviews(says, Deterministic) :
           verdict' = v /\ covered' = CoveredBy(says, v)
  BY DEF Review
<1>2. \A t \in Ids : says[t] # NoTest <=> content[t] # NoTest
  <2>1. /\ Corrected \in [Contents -> Contents]
        /\ NoTest \notin Contents
        /\ content \in [Ids -> Contents \union {NoTest}]
    BY ContentAssumption, IdAssumption DEF TypeOK
  <2> QED  BY <2>1 DEF Active, Present
<1>3. Active' = Active
  BY <1>1, <1>2 DEF Active, Present, Review
<1> QED  BY <1>1, <1>3

\* The same of hardening.
LEMMA HardenKeepsTests ==
  ASSUME TypeOK, Harden
  PROVE  Active' = Active /\ verdict' \in Reviews(content', TRUE)
<1>1. /\ content' = [t \in Ids |->
                       IF t \in Active \ (DoNotEdit \union HumanEdited)
                       THEN Hardened[content[t]] ELSE content[t]]
      /\ retired' = retired
      /\ verdict' \in Reviews(content', TRUE)
  BY DEF Harden
<1>2. /\ Hardened \in [Contents -> Contents]
      /\ NoTest \notin Contents
      /\ content \in [Ids -> Contents \union {NoTest}]
  BY ContentAssumption, IdAssumption DEF TypeOK
<1> QED  BY <1>1, <1>2 DEF Active, Present

\* Coverage is known whenever the loop decides and whenever it has ended.
LEMMA CoverageStep ==
  ASSUME TypeOK, CoverageInv, [Next]_vars
  PROVE  CoverageInv'
<1>1. CASE Review
  <2>1. CoveredBy(content, verdict)' = CoveredBy(content', verdict')
    BY <1>1, ReviewKeepsTests DEF CoveredBy
  <2> QED  BY <1>1, <2>1, ReviewKeepsTests DEF CoverageInv
<1>2. CASE Succeed \/ StopAtLimit \/ Stagnate
  BY <1>2 DEF Succeed, StopAtLimit, Stagnate, Stop, suite, CoverageInv,
              CoveredBy, Active, Present
<1>3. CASE Revise
  BY <1>3 DEF Revise, CoverageInv
<1>4. CASE FinalReview
  BY <1>4 DEF FinalReview, CoverageInv
<1>6. CASE Harden
  BY <1>6 DEF Harden, CoverageInv
<1>7. CASE Gate
  BY <1>7 DEF Gate, suite, CoverageInv, CoveredBy, Active, Present
<1>8. CASE Resume
  BY <1>8 DEF Resume, CoverageInv
<1>9. CASE UNCHANGED vars
  BY <1>9 DEF vars, suite, CoverageInv, CoveredBy, Active, Present
<1> QED
  BY <1>1, <1>2, <1>3, <1>4, <1>6, <1>7, <1>8, <1>9 DEF Next, Step

-----------------------------------------------------------------------------
\* In a suite without alike tests the rules give every test its grade.
LEMMA GradedAlone ==
  ASSUME TypeOK, Spare(content, Active) = {}, NEW t \in Active,
         NEW v \in Judgements(content, t, TRUE)
  PROVE  v = Grade[Corrected[content[t]]]
<1>1. \A u \in Active \ {t} : <<content[u], content[t]>> \notin Alike
  <2> SUFFICES ASSUME NEW u \in Active \ {t}, <<content[u], content[t]>> \in Alike
               PROVE  FALSE
    OBVIOUS
  <2>1. u \in Nat /\ t \in Nat /\ content[u] \in Contents /\ content[t] \in Contents
    BY IdAssumption DEF Active, Present, TypeOK
  <2>2. u < t \/ t < u  BY <2>1
  <2>3. <<content[t], content[u]>> \in Alike  BY <2>1, ContentAssumption
  <2> QED  BY <2>2, <2>3 DEF Spare
<1>2. content[t] \in Contents  BY DEF Active, Present, TypeOK
<1>3. content[t] \notin {content[u] : u \in Active \ {t}}
  BY <1>1, <1>2, ContentAssumption
<1>4. {c \in {content[u] : u \in Active \ {t}} : <<c, content[t]>> \in Alike} = {}
  BY <1>1
<1> QED  BY <1>3, <1>4 DEF Judgements

\* What a review may answer depends on the active tests and what they say.
LEMMA SameJudgements ==
  ASSUME Active' = Active, NEW t
  PROVE  Judgements(content, t, TRUE)' = Judgements(content', t, TRUE)
BY DEF Judgements

LEMMA SameCoverage ==
  ASSUME Active' = Active
  PROVE  CoveredBy(content, verdict)' = CoveredBy(content', verdict')
BY DEF CoveredBy

\* The rules said so of every test, whenever a run is about to be decided.
LEMMA VerdictStep ==
  ASSUME Deterministic, TypeOK, VerdictInv, [Next]_vars
  PROVE  VerdictInv'
<1>1. CASE Review
  <2>1. Deterministic = TRUE  BY LimitAssumption
  <2>2. Active' = Active /\ verdict' \in Reviews(content', TRUE)
    BY <1>1, <2>1, ReviewKeepsTests
  <2>3. \A t \in Active : verdict'[t] \in Judgements(content', t, TRUE)
    BY <2>2, ReviewsAreVerdicts
  <2>4. \A t \in Active' : verdict'[t] \in Judgements(content, t, TRUE)'
    BY <2>2, <2>3, SameJudgements
  <2> QED  BY <2>4 DEF VerdictInv
<1>2. CASE Succeed \/ StopAtLimit \/ Stagnate
  <2>1. /\ phase = "decide"
        /\ Active' = Active /\ content' = content /\ verdict' = verdict
    BY <1>2 DEF Succeed, StopAtLimit, Stagnate, Stop, suite, Active, Present
  <2>2. \A t \in Active : verdict'[t] \in Judgements(content', t, TRUE)
    BY <2>1 DEF VerdictInv
  <2>3. \A t \in Active' : verdict'[t] \in Judgements(content, t, TRUE)'
    BY <2>1, <2>2, SameJudgements
  <2> QED  BY <2>3 DEF VerdictInv
<1>3. CASE Revise
  BY <1>3 DEF Revise, VerdictInv
<1>4. CASE FinalReview
  <2>1. /\ Active' = Active
        /\ content' = content
        /\ verdict' \in Reviews(content, TRUE)
    BY <1>4, LimitAssumption DEF FinalReview, suite, Active, Present
  <2>2. \A t \in Active : verdict'[t] \in Judgements(content, t, TRUE)
    BY <2>1, ReviewsAreVerdicts
  <2>3. \A t \in Active' : verdict'[t] \in Judgements(content, t, TRUE)'
    BY <2>1, <2>2, SameJudgements
  <2> QED  BY <2>3 DEF VerdictInv
<1>6. CASE Harden
  <2>1. Active' = Active /\ verdict' \in Reviews(content', TRUE)
    BY <1>6, HardenKeepsTests
  <2>2. \A t \in Active : verdict'[t] \in Judgements(content', t, TRUE)
    BY <2>1, ReviewsAreVerdicts
  <2>3. \A t \in Active' : verdict'[t] \in Judgements(content, t, TRUE)'
    BY <2>1, <2>2, SameJudgements
  <2> QED  BY <2>3 DEF VerdictInv
<1>7. CASE Gate
  BY <1>7 DEF Gate, VerdictInv
<1>8. CASE Resume
  BY <1>8 DEF Resume, VerdictInv
<1>9. CASE UNCHANGED vars
  <2>1. /\ phase' = phase
        /\ Active' = Active /\ content' = content /\ verdict' = verdict
    BY <1>9 DEF vars, suite, Active, Present
  <2>2. ASSUME phase \in {"decide", "final", "gate"}
        PROVE  \A t \in Active : verdict'[t] \in Judgements(content', t, TRUE)
    BY <2>1, <2>2 DEF VerdictInv
  <2>3. ASSUME phase \in {"decide", "final", "gate"}
        PROVE  \A t \in Active' : verdict'[t] \in Judgements(content, t, TRUE)'
    BY <2>1, <2>2, <2>3, SameJudgements
  <2> QED  BY <2>1, <2>3 DEF VerdictInv
<1> QED
  BY <1>1, <1>2, <1>3, <1>4, <1>6, <1>7, <1>8, <1>9 DEF Next, Step

\* The final review of a successful run repeats the verdicts of the review
\* the loop stopped at, as no two of its tests are alike.
LEMMA FinalReviewAgrees ==
  ASSUME Deterministic, TypeOK, VerdictInv, FinalReview,
         Spare(content, Active) = {}
  PROVE  /\ Active' = Active
         /\ \A t \in Active : verdict'[t] = verdict[t]
         /\ CoveredBy(content, verdict)' = CoveredBy(content, verdict)
<1>1. /\ Active' = Active
      /\ content' = content
      /\ verdict' \in Reviews(content, TRUE)
  BY LimitAssumption DEF FinalReview, suite, Active, Present
<1>2. \A t \in Active : verdict'[t] = verdict[t]
  <2>1. \A t \in Active : verdict'[t] \in Judgements(content, t, TRUE)
    BY <1>1, ReviewsAreVerdicts
  <2>2. \A t \in Active : verdict[t] \in Judgements(content, t, TRUE)
    BY DEF VerdictInv, FinalReview
  <2> QED  BY <2>1, <2>2, GradedAlone
<1>3. CoveredBy(content, verdict)' = CoveredBy(content', verdict')
  BY <1>1, SameCoverage
<1>4. CoveredBy(content', verdict') = CoveredBy(content, verdict)
  BY <1>1, <1>2 DEF CoveredBy
<1> QED  BY <1>1, <1>2, <1>3, <1>4

\* A run once found successful keeps meeting its gates until it is done.
LEMMA SuccessStep ==
  ASSUME Deterministic, TypeOK, CoverageInv, VerdictInv, SuccessInv, [Next]_vars
  PROVE  SuccessInv'
<1>1. CASE Review
  BY <1>1 DEF Review, SuccessInv
<1>2. CASE Succeed
  <2>1. GatesMet(content, verdict, covered)'
    BY <1>2 DEF Succeed, Stop, Satisfied, suite, GatesMet, Spare, Active, Present
  <2> QED  BY <1>2, <2>1 DEF Succeed, Stop, SuccessInv
<1>3. CASE StopAtLimit \/ Stagnate
  BY <1>3 DEF StopAtLimit, Stagnate, Stop, SuccessInv
<1>4. CASE Revise
  BY <1>4 DEF Revise, SuccessInv
<1>5. CASE FinalReview
  <2> SUFFICES ASSUME status = "complete"
               PROVE  /\ phase' = "gate"
                      /\ GatesMet(content, verdict, CoveredBy(content, verdict))'
    BY <1>5 DEF FinalReview, SuccessInv
  <2>1. GatesMet(content, verdict, covered) /\ covered = CoveredBy(content, verdict)
    BY <1>5 DEF FinalReview, SuccessInv, CoverageInv
  <2>2. Spare(content, Active) = {}
    BY <2>1 DEF GatesMet
  <2>3. /\ Active' = Active
        /\ \A t \in Active : verdict'[t] = verdict[t]
        /\ CoveredBy(content, verdict)' = CoveredBy(content, verdict)
    BY <1>5, <2>2, FinalReviewAgrees
  <2>4. content' = content
    BY <1>5 DEF FinalReview, suite
  <2>5. \A t \in Active : verdict'[t] \notin {"invalid", "needs_revision"}
    BY <2>1, <2>3 DEF GatesMet
  <2>6. phase' = "gate"
    BY <1>5, <2>5 DEF FinalReview
  <2>7. Spare(content, Active)' = {}
    BY <2>2, <2>3, <2>4 DEF Spare
  <2>8. GatesMet(content, verdict, CoveredBy(content, verdict))'
    BY <2>1, <2>3, <2>5, <2>7 DEF GatesMet
  <2> QED  BY <2>6, <2>8
<1>7. CASE Harden
  BY <1>7 DEF Harden, SuccessInv
<1>8. CASE Gate
  <2> SUFFICES ASSUME status' = "complete"
               PROVE  GatesMet(content, verdict, covered)'
    BY <1>8 DEF Gate, SuccessInv
  <2>1. GatesMet(content, verdict, CoveredBy(content, verdict))
    BY <1>8 DEF Gate, SuccessInv
  <2>2. covered' = CoveredBy(content, verdict)
    BY <1>8 DEF Gate
  <2> QED  BY <1>8, <2>1, <2>2 DEF Gate, suite, GatesMet, Spare, Active, Present
<1>9. CASE Resume
  BY <1>9 DEF Resume, SuccessInv
<1>10. CASE UNCHANGED vars
  BY <1>10 DEF vars, suite, SuccessInv, GatesMet, CoveredBy, Spare, Active, Present
<1> QED
  BY <1>1, <1>2, <1>3, <1>4, <1>5, <1>7, <1>8, <1>9, <1>10 DEF Next, Step

\* When the rules review alone, a run that is reported complete covers every
\* obligation and has no test left to revise, whatever the tests, the rules
\* and the limits are.
THEOREM RuleBasedCompleteIsCovered ==
  ASSUME Deterministic
  PROVE  Spec => []CompleteIsCovered
<1>1. Init => VerdictInv /\ SuccessInv
  BY DEF Init, VerdictInv, SuccessInv
<1>2. Init => CoverageInv  BY DEF Init, CoverageInv
<1>3. TypeOK /\ CoverageInv /\ VerdictInv /\ SuccessInv /\ [Next]_vars
        => CoverageInv' /\ VerdictInv' /\ SuccessInv'
  BY CoverageStep, VerdictStep, SuccessStep
<1>4. TypeOK /\ SuccessInv => CompleteIsCovered
  BY DEF SuccessInv, CompleteIsCovered, GatesMet, Open, Found, Active, Present, TypeOK
<1> QED  BY <1>1, <1>2, <1>3, <1>4, TypeCorrect, PTL DEF Spec

-----------------------------------------------------------------------------
(* What a revision leaves behind: who is active, and what for.             *)

\* A revision with these rewritten tests, created tests and kept tests.
RevisedTo(says, plan, new, ids, kept) ==
  /\ IsDeduplicated(kept, Extended(says, new, ids), Living(new, ids))
  /\ content' = [t \in Ids |-> IF t \in Living(new, ids) \ kept THEN NoTest
                               ELSE Extended(says, new, ids)[t]]
  /\ link' = [t \in Ids |->
                IF t \in Living(new, ids) \ kept THEN NoLink
                ELSE IF MadeAs(t, new, ids) = {} THEN link[t]
                ELSE CHOOSE o \in MadeAs(t, new, ids) : TRUE]

\* Every revision is one of these.
LEMMA RevisionIsSome ==
  ASSUME Revise
  PROVE  \E says \in Rewritings, plan \in Planned :
         \E new \in SUBSET Unserved(plan) :
         \E ids \in Namings(new) :
         \E kept \in SUBSET Living(new, ids) : RevisedTo(says, plan, new, ids, kept)
<1> DEFINE Outcome(says, plan, new, ids, kept) ==
             LET dropped == Living(new, ids) \ kept IN
             /\ AreNovel(new, Unserved(plan), says)
             /\ IsDeduplicated(kept, Extended(says, new, ids), Living(new, ids))
             /\ content' = [t \in Ids |-> IF t \in dropped THEN NoTest
                                          ELSE Extended(says, new, ids)[t]]
             /\ link' = [t \in Ids |->
                           IF t \in dropped THEN NoLink
                           ELSE IF MadeAs(t, new, ids) = {} THEN link[t]
                           ELSE CHOOSE o \in MadeAs(t, new, ids) : TRUE]
<1>1. \A says, plan, new, ids, kept :
        Outcome(says, plan, new, ids, kept) => RevisedTo(says, plan, new, ids, kept)
  BY ZenonT(60) DEF RevisedTo
<1>2. \E says \in Rewritings, plan \in Planned :
      \E new \in SUBSET Unserved(plan) :
      \E ids \in Namings(new) :
      \E kept \in SUBSET Living(new, ids) : Outcome(says, plan, new, ids, kept)
  BY Zenon DEF Revise
<1> HIDE DEF Outcome
<1> QED  BY <1>1, <1>2

\* The tests active after a revision are the kept ones.  Each was active, and
\* says what it was rewritten to, or was created for a planned obligation
\* that no remaining test was linked to.
LEMMA RevisionKeeps ==
  ASSUME TypeOK, Revise,
         NEW says \in Rewritings, NEW plan \in Planned,
         NEW new \in SUBSET Unserved(plan), NEW ids \in Namings(new),
         NEW kept \in SUBSET Living(new, ids),
         RevisedTo(says, plan, new, ids, kept)
  PROVE  /\ Active' = kept
         /\ \A t \in Ids \ Living(new, ids) : content'[t] = says[t]
         /\ \A t \in Living(new, ids) \ kept : content'[t] = NoTest
         /\ \A t \in kept :
              /\ content'[t] = Extended(says, new, ids)[t]
              /\ \/ t \in Active \ Rejected /\ link'[t] = link[t]
                 \/ link'[t] \in new /\ t = ids[link'[t]]
         /\ \A t \in Present : Extended(says, new, ids)[t] = says[t]
<1> DEFINE all == Extended(says, new, ids)
           living == Living(new, ids)
           made(t) == MadeAs(t, new, ids)
<1>1. /\ content' = [t \in Ids |-> IF t \in living \ kept THEN NoTest ELSE all[t]]
      /\ link' = [t \in Ids |-> IF t \in living \ kept THEN NoLink
                                ELSE IF made(t) = {} THEN link[t]
                                ELSE CHOOSE o \in made(t) : TRUE]
  BY DEF RevisedTo
<1>2. /\ says \in [Ids -> Contents \union {NoTest}]
      /\ \A t \in Ids : says[t] = NoTest <=> content[t] = NoTest
  BY RewritingsAreSuites
<1>3. /\ new \subseteq Obligations
      /\ \A o \in new : ids[o] \in Ids \ Present
      /\ \A o, p \in new : ids[o] = ids[p] => o = p
  BY DEF Unserved, Planned, Open, Namings
<1>4. \A t \in Present : made(t) = {}
  BY <1>3 DEF MadeAs
<1>5. \A t \in Present : all[t] = says[t]
  BY <1>4 DEF Extended, Present
<1>6. living \subseteq Ids
  BY <1>3 DEF Living, Active, Present
<1>7. \A t \in Ids \ living : made(t) = {} /\ all[t] = says[t]
  BY DEF MadeAs, Living, Extended
<1>8. \A o \in new : made(ids[o]) = {o}
  BY <1>3 DEF MadeAs
<1>9. \A o \in new : all[ids[o]] = Made[o]
  <2> TAKE o \in new
  <2>1. (CHOOSE p \in made(ids[o]) : TRUE) = o  BY <1>8
  <2> QED  BY <1>3, <1>8, <2>1 DEF Extended
<1>10. \A t \in living : all[t] # NoTest
  <2>1. ASSUME NEW t \in Active \ Rejected  PROVE all[t] # NoTest
    BY <2>1, <1>2, <1>5 DEF Active, Present
  <2>2. ASSUME NEW o \in new  PROVE all[ids[o]] # NoTest
    BY <2>2, <1>3, <1>9, ContentAssumption, IdAssumption
  <2> QED  BY <2>1, <2>2 DEF Living
<1>11. retired' = retired \union Rejected  BY DEF Revise
<1>12. living \intersect (retired \union Rejected) = {}
  <2>1. retired \union Rejected \subseteq Present
    BY DEF TypeOK, Rejected, Found, Spare, Active, Present
  <2> QED  BY <2>1, <1>3 DEF Living, Active
<1>13. kept \subseteq Active'
  BY <1>1, <1>6, <1>10, <1>11, <1>12 DEF Active, Present
<1>14. Active' \subseteq kept
  <2> SUFFICES ASSUME NEW t \in Active', t \notin kept  PROVE FALSE
    OBVIOUS
  <2>1. t \in Ids /\ content'[t] # NoTest /\ t \notin retired /\ t \notin Rejected
    BY <1>11 DEF Active, Present
  <2>2. t \notin living  BY <1>1, <2>1
  <2>3. says[t] # NoTest  BY <1>1, <1>7, <2>1, <2>2
  <2>4. t \in Active  BY <1>2, <2>1, <2>3 DEF Active, Present
  <2> QED  BY <2>1, <2>2, <2>4 DEF Living
<1>15. ASSUME NEW t \in kept
       PROVE  \/ t \in Active \ Rejected /\ link'[t] = link[t]
              \/ link'[t] \in new /\ t = ids[link'[t]]
  <2>1. CASE t \in Active \ Rejected
    BY <1>1, <1>4, <1>6, <2>1 DEF Active
  <2>2. CASE t \notin Active \ Rejected
    <3>1. PICK o \in new : t = ids[o]  BY <2>2 DEF Living
    <3>2. (CHOOSE p \in made(t) : TRUE) = o /\ made(t) # {}  BY <1>8, <3>1
    <3>3. link'[t] = o  BY <1>1, <1>6, <3>2
    <3> QED  BY <3>1, <3>3
  <2> QED  BY <2>1, <2>2
<1>16. /\ \A t \in Ids \ Living(new, ids) : content'[t] = says[t]
       /\ \A t \in Living(new, ids) \ kept : content'[t] = NoTest
       /\ \A t \in kept : content'[t] = Extended(says, new, ids)[t]
  BY <1>1, <1>6, <1>7
<1>17. Active' = kept  BY <1>13, <1>14
<1>18. \A t \in Present : Extended(says, new, ids)[t] = says[t]  BY <1>5
<1> HIDE DEF all, living, made
<1> QED  BY <1>15, <1>16, <1>17, <1>18

-----------------------------------------------------------------------------
\* A gap has at most one test after any step, if it had before.
LEMMA OneTestPerGapStep ==
  ASSUME TypeOK, OneTestPerGap, [Next]_vars
  PROVE  OneTestPerGap'
<1>1. CASE Review
  <2>1. Active' = Active /\ link' = link
    BY <1>1, ReviewKeepsTests DEF Review
  <2> QED  BY <2>1 DEF OneTestPerGap
<1>2. CASE Succeed \/ StopAtLimit \/ Stagnate \/ FinalReview \/ Gate
  <2>1. Active' = Active /\ link' = link
    BY <1>2 DEF Succeed, StopAtLimit, Stagnate, Stop, FinalReview, Gate, suite,
                Active, Present
  <2> QED  BY <2>1 DEF OneTestPerGap
<1>3. CASE Revise
  <2>1. PICK says \in Rewritings, plan \in Planned :
        \E new \in SUBSET Unserved(plan) :
        \E ids \in Namings(new) :
        \E kept \in SUBSET Living(new, ids) : RevisedTo(says, plan, new, ids, kept)
    BY <1>3, RevisionIsSome
  <2>2. PICK new \in SUBSET Unserved(plan) :
        \E ids \in Namings(new) :
        \E kept \in SUBSET Living(new, ids) : RevisedTo(says, plan, new, ids, kept)
    BY <2>1
  <2>3. PICK ids \in Namings(new) :
        \E kept \in SUBSET Living(new, ids) : RevisedTo(says, plan, new, ids, kept)
    BY <2>2
  <2>4. PICK kept \in SUBSET Living(new, ids) : RevisedTo(says, plan, new, ids, kept)
    BY <2>3
  <2>5. /\ Active' = kept
        /\ \A t \in kept : \/ t \in Active \ Rejected /\ link'[t] = link[t]
                           \/ link'[t] \in new /\ t = ids[link'[t]]
    BY <1>3, <2>4, RevisionKeeps
  <2>6. \A o \in new, t \in Active \ Rejected : link[t] # o
    BY DEF Unserved
  <2> QED  BY <2>5, <2>6 DEF OneTestPerGap
<1>4. CASE Harden
  <2>1. Active' = Active /\ link' = link
    BY <1>4, HardenKeepsTests DEF Harden
  <2> QED  BY <2>1 DEF OneTestPerGap
<1>5. CASE Resume
  <2>1. PICK kept \in SUBSET Found("valid") :
          /\ content' = [t \in Ids |-> IF t \in kept THEN content[t] ELSE NoTest]
          /\ link' = [t \in Ids |-> IF t \in kept THEN link[t] ELSE NoLink]
    BY <1>5 DEF Resume
  <2>2. Active' \subseteq kept /\ kept \subseteq Active
    BY <2>1 DEF Found, Active, Present
  <2>3. \A t \in kept : link'[t] = link[t]
    BY <2>1, <2>2 DEF Active, Present
  <2> QED  BY <2>2, <2>3 DEF OneTestPerGap
<1>6. CASE UNCHANGED vars
  <2>1. Active' = Active /\ link' = link
    BY <1>6 DEF vars, suite, Active, Present
  <2> QED  BY <2>1 DEF OneTestPerGap
<1> QED  BY <1>1, <1>2, <1>3, <1>4, <1>5, <1>6 DEF Next, Step

\* However many rounds and resumed runs plan for a gap, it never has two
\* active tests of its own: gap_generation skips the obligations that a
\* remaining test is linked to.
THEOREM GapsHaveOneTest == Spec => []OneTestPerGap
<1>1. Init => OneTestPerGap
  BY DEF Init, OneTestPerGap, Active, Present
<1>2. TypeOK /\ OneTestPerGap /\ [Next]_vars => OneTestPerGap'
  BY OneTestPerGapStep
<1> QED  BY <1>1, <1>2, TypeCorrect, PTL DEF Spec

-----------------------------------------------------------------------------
(* What may become of a test that must not be edited.                      *)

\* No such test is ever retired.
NoneRetired == retired \intersect DoNotEdit = {}

\* What DoNotEditRespected says of a step.
LeavesUnedited ==
  \A t \in DoNotEdit \intersect Present :
    /\ t \notin retired'
    /\ content'[t] \in {content[t], Corrected[content[t]], NoTest}
    /\ content'[t] = NoTest =>
         \/ phase = "done"
         \/ \E u \in Present' : <<content'[u], content[t]>> \in Alike

\* Only a revision retires tests, and it passes these by.
LEMMA NoneRetiredStep ==
  ASSUME NoneRetired, [Next]_vars
  PROVE  NoneRetired'
<1>1. retired' \in {retired, retired \union Rejected, {}}
  BY DEF Next, Step, Review, Succeed, StopAtLimit, Stagnate, Stop, Revise,
         FinalReview, Harden, Gate, Resume, vars, suite
<1> QED  BY <1>1 DEF NoneRetired, Rejected

\* A revision rewrites none of them, and drops one only for an earlier test
\* that says the same.
LEMMA RevisionLeavesUnedited ==
  ASSUME TypeOK, NoneRetired, Revise, NEW t \in DoNotEdit \intersect Present
  PROVE  /\ content'[t] \in {content[t], NoTest}
         /\ content'[t] = NoTest =>
              \E u \in Present' : <<content'[u], content[t]>> \in Alike
<1>1. PICK says \in Rewritings, plan \in Planned :
      \E new \in SUBSET Unserved(plan) :
      \E ids \in Namings(new) :
      \E kept \in SUBSET Living(new, ids) : RevisedTo(says, plan, new, ids, kept)
  BY RevisionIsSome
<1>2. PICK new \in SUBSET Unserved(plan) :
      \E ids \in Namings(new) :
      \E kept \in SUBSET Living(new, ids) : RevisedTo(says, plan, new, ids, kept)
  BY <1>1
<1>3. PICK ids \in Namings(new) :
      \E kept \in SUBSET Living(new, ids) : RevisedTo(says, plan, new, ids, kept)
  BY <1>2
<1>4. PICK kept \in SUBSET Living(new, ids) : RevisedTo(says, plan, new, ids, kept)
  BY <1>3
<1> DEFINE all == Extended(says, new, ids)
<1>5. /\ Active' = kept
      /\ \A u \in Living(new, ids) \ kept : content'[u] = NoTest
      /\ \A u \in kept : content'[u] = all[u]
      /\ all[t] = says[t]
  BY <1>4, RevisionKeeps
<1>6. t \in Active \ Rejected /\ t \in Living(new, ids)
  BY DEF NoneRetired, Active, Rejected, Living
<1>7. says[t] = content[t]
  <2>1. PICK r : says = [u \in Ids |-> IF u \in ToRevise THEN r[u] ELSE content[u]]
    BY DEF Rewritings
  <2> QED  BY <2>1 DEF ToRevise, Present
<1>8. CASE t \in kept
  BY <1>5, <1>7, <1>8 DEF Present
<1>9. CASE t \notin kept
  <2>1. PICK u \in kept : <<all[u], all[t]>> \in Alike
    BY <1>4, <1>6, <1>9 DEF RevisedTo, IsDeduplicated
  <2>2. u \in Present'
    BY <1>5 DEF Active
  <2> QED  BY <1>5, <1>6, <1>7, <1>9, <2>1, <2>2
<1> QED  BY <1>8, <1>9

\* do_not_edit binds every step of the loop: the reviewer corrects at most
\* the white space, the planner neither retires nor rewrites, hardening
\* passes the test by, and pruning drops it only for one that says the same.
THEOREM DoNotEditIsRespected == Spec => DoNotEditRespected
<1>1. Init => NoneRetired  BY DEF Init, NoneRetired
<1>2. NoneRetired /\ [Next]_vars => NoneRetired'  BY NoneRetiredStep
<1>3. TypeOK /\ NoneRetired /\ [Next]_vars => [LeavesUnedited]_vars
  <2> SUFFICES ASSUME TypeOK, NoneRetired, Next,
                      NEW t \in DoNotEdit \intersect Present
               PROVE  /\ content'[t] \in {content[t], Corrected[content[t]], NoTest}
                      /\ content'[t] = NoTest =>
                           \/ phase = "done"
                           \/ \E u \in Present' : <<content'[u], content[t]>> \in Alike
    BY <1>2 DEF LeavesUnedited, NoneRetired
  <2>1. t \in Ids /\ content[t] \in Contents /\ content[t] # NoTest
    BY DEF Present, TypeOK
  <2>2. CASE Review
    <3>1. content'[t] \in {content[t], Corrected[content[t]]}
      BY <2>1, <2>2 DEF Review
    <3> QED  BY <2>1, <3>1, ContentAssumption, IdAssumption
  <2>3. CASE Succeed \/ StopAtLimit \/ Stagnate \/ FinalReview \/ Gate
    BY <2>1, <2>3
    DEF Succeed, StopAtLimit, Stagnate, Stop, FinalReview, Gate, suite
  <2>4. CASE Revise
    BY <2>4, RevisionLeavesUnedited
  <2>5. CASE Harden
    <3>1. content'[t] = content[t]  BY <2>1, <2>5 DEF Harden
    <3> QED  BY <2>1, <3>1
  <2>6. CASE Resume
    <3>1. PICK kept \in SUBSET Found("valid") :
            content' = [u \in Ids |-> IF u \in kept THEN content[u] ELSE NoTest]
      BY <2>6 DEF Resume
    <3> QED  BY <2>1, <2>6, <3>1 DEF Resume
  <2> QED  BY <2>2, <2>3, <2>4, <2>5, <2>6 DEF Next, Step
<1> QED
  BY <1>1, <1>2, <1>3, TypeCorrect, PTL DEF Spec, DoNotEditRespected, LeavesUnedited

-----------------------------------------------------------------------------
(* How large the suite becomes.                                            *)

\* The numbers of tests and of obligations are natural numbers.
LEMMA SuiteIsFinite ==
  /\ \A tests \in SUBSET Ids : IsFiniteSet(tests) /\ Cardinality(tests) \in Nat
  /\ \A gaps \in SUBSET Obligations : IsFiniteSet(gaps) /\ Cardinality(gaps) \in Nat
BY IdAssumption, FS_Subset, FS_CardinalityType

\* No more ids are named than tests are created.
LEMMA NamesOfTheNew ==
  ASSUME NEW new \in SUBSET Obligations, NEW ids \in [new -> Ids]
  PROVE  Cardinality({ids[o] : o \in new}) <= Cardinality(new)
<1>1. IsFiniteSet(new)  BY SuiteIsFinite
<1>2. ids \in Surjection(new, {ids[o] : o \in new})
  BY DEF Surjection
<1> QED  BY <1>1, <1>2, FS_Surjection

\* A revision creates at most the tests that the limit leaves room for.
LEMMA RevisionFits ==
  ASSUME TypeOK, Revise
  PROVE  Cardinality(Active') <= MaxTests
<1>1. PICK says \in Rewritings, plan \in Planned :
      \E new \in SUBSET Unserved(plan) :
      \E ids \in Namings(new) :
      \E kept \in SUBSET Living(new, ids) : RevisedTo(says, plan, new, ids, kept)
  BY RevisionIsSome
<1>2. PICK new \in SUBSET Unserved(plan) :
      \E ids \in Namings(new) :
      \E kept \in SUBSET Living(new, ids) : RevisedTo(says, plan, new, ids, kept)
  BY <1>1
<1>3. PICK ids \in Namings(new) :
      \E kept \in SUBSET Living(new, ids) : RevisedTo(says, plan, new, ids, kept)
  BY <1>2
<1>4. PICK kept \in SUBSET Living(new, ids) : RevisedTo(says, plan, new, ids, kept)
  BY <1>3
<1> DEFINE old   == Active \ Rejected
           named == {ids[o] : o \in new}
<1>5. /\ Active \subseteq Ids /\ old \subseteq Active
      /\ new \subseteq plan /\ plan \subseteq Obligations
      /\ ids \in [new -> Ids]
  BY DEF Active, Present, Unserved, Planned, Open, Namings
<1>6. /\ Cardinality(Active) \in Nat /\ Cardinality(old) <= Cardinality(Active)
      /\ Cardinality(plan) \in Nat /\ Cardinality(new) <= Cardinality(plan)
      /\ Cardinality(old) \in Nat /\ Cardinality(new) \in Nat
  BY <1>5, SuiteIsFinite, FS_Subset
<1>7. Cardinality(plan) <= MaxTests - Cardinality(Active)
  <2>1. Cardinality(Active) < MaxTests
    BY <1>6, LimitAssumption DEF Revise, AtLimit
  <2>2. MaxNew = MaxTests - Cardinality(Active)  BY <2>1 DEF MaxNew
  <2>3. Cardinality(Open) \in Nat
    BY SuiteIsFinite DEF Open
  <2> QED  BY <2>1, <2>2, <2>3, <1>6, LimitAssumption DEF Planned
<1>8. /\ named \subseteq Ids
      /\ Cardinality(named) \in Nat /\ Cardinality(named) <= Cardinality(new)
  <2>1. named \subseteq Ids  BY <1>5
  <2>2. Cardinality(named) <= Cardinality(new)  BY <1>5, NamesOfTheNew
  <2> QED  BY <2>1, <2>2, SuiteIsFinite
<1>9. Cardinality(old \union named) <= Cardinality(old) + Cardinality(named)
  <2>1. IsFiniteSet(old) /\ IsFiniteSet(named)
    BY <1>5, <1>8, SuiteIsFinite
  <2>2. Cardinality(old \intersect named) \in Nat
    BY <1>8, SuiteIsFinite
  <2>3. Cardinality(old \union named)
          = Cardinality(old) + Cardinality(named) - Cardinality(old \intersect named)
    BY <2>1, FS_Union
  <2> QED  BY <2>2, <2>3, <1>6, <1>8
<1>10. Cardinality(Active') <= Cardinality(old \union named)
  <2>1. Active' = kept  BY <1>4, RevisionKeeps
  <2>2. kept \subseteq old \union named  BY DEF Living
  <2>3. IsFiniteSet(old \union named)  BY <1>5, <1>8, SuiteIsFinite
  <2> QED  BY <2>1, <2>2, <2>3, FS_Subset
<1>11. Cardinality(Active') \in Nat /\ Cardinality(old \union named) \in Nat
  <2>1. Active' \subseteq Ids  BY DEF Active, Present
  <2>2. old \union named \subseteq Ids  BY <1>5, <1>8
  <2> QED  BY <2>1, <2>2, SuiteIsFinite
<1> QED
  BY <1>6, <1>7, <1>8, <1>9, <1>10, <1>11, LimitAssumption

\* Whatever is planned round after round, the suite stays within the test
\* limit, or within the size the run began with where that was larger.
THEOREM SuiteStaysBounded == Spec => []SuiteBounded
<1>1. Init => SuiteBounded
  <2> SUFFICES ASSUME Init PROVE SuiteBounded  OBVIOUS
  <2>1. Active = {t \in Ids : content[t] # NoTest}
    BY DEF Init, Active, Present
  <2>2. initial = Cardinality(Active)  BY <2>1 DEF Init
  <2>3. Cardinality(Active) \in Nat  BY <2>1, SuiteIsFinite
  <2> QED  BY <2>2, <2>3, LimitAssumption DEF SuiteBounded
<1>2. TypeOK /\ SuiteBounded /\ [Next]_vars => SuiteBounded'
  <2> SUFFICES ASSUME TypeOK, SuiteBounded, [Next]_vars PROVE SuiteBounded'
    OBVIOUS
  <2>1. CASE Review \/ Harden
    BY <2>1, ReviewKeepsTests, HardenKeepsTests DEF Review, Harden, SuiteBounded
  <2>2. CASE Succeed \/ StopAtLimit \/ Stagnate \/ FinalReview \/ Gate \/ UNCHANGED vars
    <3>1. Active' = Active /\ initial' = initial
      BY <2>2 DEF Succeed, StopAtLimit, Stagnate, Stop, FinalReview, Gate, vars,
                  suite, Active, Present
    <3> QED  BY <3>1 DEF SuiteBounded
  <2>3. CASE Revise
    <3>1. Cardinality(Active') <= MaxTests  BY <2>3, RevisionFits
    <3>2. Active' \subseteq Ids  BY DEF Active, Present
    <3>3. Cardinality(Active') \in Nat  BY <3>2, SuiteIsFinite
    <3>4. initial' = initial /\ initial \in Nat  BY <2>3 DEF Revise, TypeOK
    <3> QED  BY <3>1, <3>3, <3>4, LimitAssumption DEF SuiteBounded
  <2>4. CASE Resume
    <3>1. PICK kept \in SUBSET Found("valid") :
            /\ content' = [t \in Ids |-> IF t \in kept THEN content[t] ELSE NoTest]
            /\ initial' = Cardinality(kept)
      BY <2>4 DEF Resume
    <3>2. Active' = kept
      BY <2>4, <3>1 DEF Resume, Found, Active, Present
    <3>3. kept \subseteq Ids  BY DEF Found, Active, Present
    <3>4. Cardinality(kept) \in Nat  BY <3>3, SuiteIsFinite
    <3> QED  BY <3>1, <3>2, <3>4, LimitAssumption DEF SuiteBounded
  <2> QED  BY <2>1, <2>2, <2>3, <2>4 DEF Next, Step
<1> QED  BY <1>1, <1>2, TypeCorrect, PTL DEF Spec
=============================================================================
