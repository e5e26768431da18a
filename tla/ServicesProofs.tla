---------------------------- MODULE ServicesProofs ----------------------------
(***************************************************************************)
(* The theorems about one analysis and about the components that are       *)
(* checked together.  For any number of requests, tasks and models: a      *)
(* stream that has ended told the tab one ending, an answer names the      *)
(* model of its run.  For any flow, any drafts of a model and any limits:  *)
(* the search for paths finds the simple paths that cannot be made longer, *)
(* the gaps that stay open are reported, and the tests written for gaps    *)
(* are new in the library.  Last, every component keeps its types when the *)
(* five take turns.                                                        *)
(***************************************************************************)
EXTENDS MCServices, FlowGraphProofs, AtlassianProofs, FiniteSetTheorems, TLAPS

-----------------------------------------------------------------------------
(* Induction and recursion, over sets and functions.                       *)

\* A set with 0 that has with every number the next one has them all: of the
\* numbers missing one would be the least.
LEMMA SetInduction ==
  ASSUME NEW S, 0 \in S, \A n \in Nat : n \in S => n + 1 \in S
  PROVE  \A n \in Nat : n \in S
<1> SUFFICES ASSUME NEW m \in Nat, m \notin S PROVE FALSE
  OBVIOUS
<1> DEFINE T == {1..n : n \in Nat \ S}
           R == StrictSubsetOrdering(Nat)
<1>1. IsWellFoundedOn(R, FiniteSubsetsOf(Nat))
  BY FS_StrictSubsetOrderingWellFounded
<1>2. T \subseteq FiniteSubsetsOf(Nat) /\ T # {}
  <2>1. \A n \in Nat : IsFiniteSet(1..n) /\ 1..n \subseteq Nat
    BY FS_Interval
  <2> QED
    BY <2>1 DEF FiniteSubsetsOf
<1>3. PICK I \in T : \A J \in T : ~ (<<J, I>> \in R)
  <2> HIDE DEF T, R
  <2> QED
    BY <1>1, <1>2, WFMin
<1>4. PICK x \in Nat \ S : I = 1..x
  BY <1>3
<1>5. x - 1 \in Nat \ S
  BY <1>4
<1>6. 1..(x - 1) \in T
  BY <1>5
<1>7. <<1..(x - 1), 1..x>> \in R
  BY <1>5 DEF StrictSubsetOrdering
<1> QED
  BY <1>3, <1>4, <1>6, <1>7

\* A function defined by its value at 0 and by a step exists.
LEMMA StepsExist ==
  ASSUME NEW D, NEW b \in D, NEW step \in [D -> D]
  PROVE  \A n \in Nat : \E f \in [0..n -> D] :
           f = [k \in 0..n |-> IF k = 0 THEN b ELSE step[f[k - 1]]]
<1> DEFINE Made(n, f) == \A k \in 0..n : f[k] = IF k = 0 THEN b ELSE step[f[k - 1]]
           Have(n) == \E f \in [0..n -> D] : Made(n, f)
           S == {n \in Nat : Have(n)}
<1>1. Have(0)
  <2> DEFINE f == [k \in 0..0 |-> b]
  <2>1. f \in [0..0 -> D] /\ Made(0, f)
    OBVIOUS
  <2> QED
    BY <2>1
<1>2. ASSUME NEW n \in Nat, Have(n) PROVE Have(n + 1)
  <2>1. PICK f \in [0..n -> D] : Made(n, f)
    BY <1>2
  <2> DEFINE g == [k \in 0..(n + 1) |-> IF k = n + 1 THEN step[f[n]] ELSE f[k]]
  <2>2. g \in [0..(n + 1) -> D]
    OBVIOUS
  <2>3. ASSUME NEW k \in 0..(n + 1)
        PROVE  g[k] = IF k = 0 THEN b ELSE step[g[k - 1]]
    <3>1. CASE k = n + 1
      BY <3>1
    <3>2. CASE k # n + 1
      <4>1. k \in 0..n /\ (k # 0 => k - 1 \in 0..n)
        BY <3>2
      <4>2. g[k] = f[k] /\ (k # 0 => g[k - 1] = f[k - 1])
        BY <4>1
      <4> QED
        BY <2>1, <4>1, <4>2
    <3> QED
      BY <3>1, <3>2
  <2> HIDE DEF g
  <2> QED
    BY <2>2, <2>3
<1>3. \A n \in Nat : Have(n)
  <2> HIDE DEF Have
  <2>1. 0 \in S /\ \A n \in Nat : n \in S => n + 1 \in S
    BY <1>1, <1>2
  <2>2. \A n \in Nat : n \in S
    <3> HIDE DEF S
    <3> QED
      BY <2>1, SetInduction
  <2> QED
    BY <2>2
<1>4. ASSUME NEW n \in Nat
      PROVE  \E f \in [0..n -> D] : f = [k \in 0..n |-> IF k = 0 THEN b ELSE step[f[k - 1]]]
  <2>1. PICK f \in [0..n -> D] : Made(n, f)
    BY <1>3
  <2>2. f = [k \in 0..n |-> IF k = 0 THEN b ELSE step[f[k - 1]]]
    BY <2>1
  <2> QED
    BY <2>2
<1> QED
  BY <1>4

\* A set of numbers up to a bound has a largest one.
LEMMA LargestExists ==
  ASSUME NEW n \in Nat, NEW s \in SUBSET (1..n), s # {}
  PROVE  Max(s) \in s /\ \A y \in s : Max(s) >= y
<1> DEFINE HasLargest(t) == \E x \in t : \A y \in t : x >= y
           S == {k \in Nat : \A t \in SUBSET (1..k) : t # {} => HasLargest(t)}
<1>1. \A t \in SUBSET (1..0) : t = {}
  OBVIOUS
<1>2. ASSUME NEW k \in Nat, k \in S PROVE k + 1 \in S
  <2>1. ASSUME NEW t \in SUBSET (1..(k + 1)), t # {} PROVE HasLargest(t)
    <3>1. CASE k + 1 \in t
      BY <3>1
    <3>2. CASE k + 1 \notin t
      <4>1. t \in SUBSET (1..k)
        BY <3>2
      <4> QED
        BY <1>2, <2>1, <4>1
    <3> QED
      BY <3>1, <3>2
  <2> QED
    BY <2>1
<1>3. \A k \in Nat : k \in S
  <2>1. 0 \in S
    BY <1>1
  <2> HIDE DEF S
  <2> QED
    BY <1>2, <2>1, SetInduction
<1>4. HasLargest(s)
  BY <1>3
<1> QED
  BY <1>4 DEF Max

\* The largest number of an interval from 1, and of what ends with it.
LEMMA MaxIsLast ==
  ASSUME NEW n \in Nat, NEW s \in SUBSET (1..(n + 1)), n + 1 \in s
  PROVE  Max(s) = n + 1
<1>1. /\ \A y \in s : n + 1 >= y
      /\ \A x \in s : (\A y \in s : x >= y) => x = n + 1
  OBVIOUS
<1> QED
  BY <1>1 DEF Max

\* f is what FoldLeft defines on the sets of positions, from b by step.
IsFold(D, b, m, step, f) ==
  /\ f \in [SUBSET (1..m) -> D]
  /\ f = [s \in SUBSET (1..m) |-> IF s = {} THEN b ELSE step[<<f[s \ {Max(s)}], Max(s)>>]]

\* A function that FoldLeft defines on sets of positions exists.
LEMMA FoldExists ==
  ASSUME NEW D, NEW b \in D, NEW m \in Nat, NEW step \in [D \X (1..m) -> D]
  PROVE  \E f : IsFold(D, b, m, step, f)
<1> DEFINE Made(n, f) ==
             \A s \in SUBSET (1..n) :
               f[s] = IF s = {} THEN b ELSE step[<<f[s \ {Max(s)}], Max(s)>>]
           Have(n) == \E f \in [SUBSET (1..n) -> D] : Made(n, f)
           S == {n \in Nat : n <= m => Have(n)}
<1>1. Have(0)
  <2> DEFINE f == [s \in SUBSET (1..0) |-> b]
  <2>1. \A s \in SUBSET (1..0) : s = {}
    OBVIOUS
  <2>2. f \in [SUBSET (1..0) -> D]
    OBVIOUS
  <2>3. Made(0, f)
    BY <2>1
  <2> QED
    BY <2>2, <2>3
<1>2. ASSUME NEW n \in Nat, n + 1 <= m, Have(n) PROVE Have(n + 1)
  <2>1. PICK f \in [SUBSET (1..n) -> D] : Made(n, f)
    BY <1>2
  <2> DEFINE g == [s \in SUBSET (1..(n + 1)) |->
                     IF n + 1 \in s THEN step[<<f[s \ {n + 1}], n + 1>>] ELSE f[s]]
  <2>2. ASSUME NEW s \in SUBSET (1..(n + 1))
        PROVE  /\ n + 1 \in s => s \ {n + 1} \in SUBSET (1..n)
               /\ n + 1 \notin s => s \in SUBSET (1..n)
    OBVIOUS
  <2>3. g \in [SUBSET (1..(n + 1)) -> D]
    <3>1. ASSUME NEW s \in SUBSET (1..(n + 1)) PROVE g[s] \in D
      <4>1. CASE n + 1 \in s
        <5>1. f[s \ {n + 1}] \in D /\ n + 1 \in 1..m
          BY <1>2, <2>2, <4>1
        <5>2. <<f[s \ {n + 1}], n + 1>> \in D \X (1..m)
          BY <5>1
        <5>3. step[<<f[s \ {n + 1}], n + 1>>] \in D
          BY <5>2
        <5> QED
          BY <4>1, <5>3
      <4>2. CASE n + 1 \notin s
        BY <2>2, <4>2
      <4> QED
        BY <4>1, <4>2
    <3> QED
      BY <3>1
  <2>4. ASSUME NEW s \in SUBSET (1..(n + 1))
        PROVE  g[s] = IF s = {} THEN b ELSE step[<<g[s \ {Max(s)}], Max(s)>>]
    <3>1. CASE n + 1 \in s
      <4>1. Max(s) = n + 1
        BY <3>1, MaxIsLast
      <4>2. g[s \ {n + 1}] = f[s \ {n + 1}]
        BY <2>2, <3>1
      <4> QED
        BY <3>1, <4>1, <4>2
    <3>2. CASE n + 1 \notin s
      <4>1. s \in SUBSET (1..n) /\ s \ {Max(s)} \in SUBSET (1..n)
            /\ s \ {Max(s)} \in SUBSET (1..(n + 1)) /\ n + 1 \notin s \ {Max(s)}
        BY <2>2, <3>2
      <4>2. g[s] = f[s] /\ g[s \ {Max(s)}] = f[s \ {Max(s)}]
        BY <3>2, <4>1
      <4> QED
        BY <2>1, <4>1, <4>2
    <3> QED
      BY <3>1, <3>2
  <2> HIDE DEF g
  <2> QED
    BY <2>3, <2>4
<1>3. Have(m)
  <2> HIDE DEF Have
  <2>1. 0 \in S /\ \A n \in Nat : n \in S => n + 1 \in S
    BY <1>1, <1>2
  <2>2. m \in S
    <3> HIDE DEF S
    <3> QED
      BY <2>1, SetInduction
  <2> QED
    BY <2>2
<1>4. PICK f \in [SUBSET (1..m) -> D] : Made(m, f)
  BY <1>3
<1>5. f = [s \in SUBSET (1..m) |->
             IF s = {} THEN b ELSE step[<<f[s \ {Max(s)}], Max(s)>>]]
  BY <1>4
<1> QED
  BY <1>5 DEF IsFold

\* A set of numbers up to a bound has a least one.
LEMMA LeastExists ==
  ASSUME NEW n \in Nat, NEW s \in SUBSET (1..n), s # {}
  PROVE  Min(s) \in s /\ \A y \in s : Min(s) <= y
<1> DEFINE S == {k \in Nat : k <= n => \/ \E x \in s : \A y \in s : x <= y
                                       \/ \A y \in s : k < y}
<1>1. 0 \in S
  OBVIOUS
<1>2. ASSUME NEW k \in Nat, k \in S PROVE k + 1 \in S
  BY <1>2
<1>3. \A k \in Nat : k \in S
  <2> HIDE DEF S
  <2> QED
    BY <1>1, <1>2, SetInduction
<1>4. n \in S
  BY <1>3
<1>5. ~ \A y \in s : n < y
  <2>1. PICK y \in s : y \in 1..n
    OBVIOUS
  <2>2. y <= n /\ y \in Nat
    BY <2>1
  <2>3. ~ (n < y)
    BY <2>2
  <2> QED
    BY <2>1, <2>3
<1>6. \E x \in s : \A y \in s : x <= y
  BY <1>4, <1>5
<1> QED
  BY <1>6 DEF Min

-----------------------------------------------------------------------------
(* The streams of analyses: endings and names.                             *)

Events == Endings \union {"progress", "end"}

\* What a worker must have for its fields to be told apart.
Fields == {"at", "todo", "calling", "attempt", "outcome", "sensitive", "reported", "own", "alone"}

\* As much of the types as the theorem needs.
StreamShape ==
  /\ DOMAIN run = Runs /\ run = [r \in Runs |-> run[r]]
  /\ \A r \in Runs : DOMAIN run[r] = Fields
  /\ queue \in [Runs -> Seq(Events)]
  /\ seen \in [Runs -> Seq(Events)]
  /\ reader \in [Runs -> {"none", "open", "ended", "gone"}]

Calling == {"classify", "generate", "critic", "target", "review", "assess"}

-----------------------------------------------------------------------------
(* The stages. *)

\* The stage after one that is not the last is a stage.
LEMMA NextStage ==
  ASSUME NEW s \in {"identify", "fuse", "sections"} \union Calling
  PROVE  After(s) \notin {"none", "end", "over"}
<1>1. Len(Stages) = 10 /\ DOMAIN Stages = 1..10
  BY DEF Stages
<1>2. \A j \in 1..10 : Stages[j] \notin {"none", "end", "over"}
  BY DEF Stages
<1>3. \E j \in DOMAIN Stages : Stages[j] = s
  BY DEF Stages, Calling
<1> DEFINE i == CHOOSE j \in DOMAIN Stages : Stages[j] = s
<1>4. i \in 1..10 /\ Stages[i] = s
  BY <1>1, <1>3
<1>5. After(s) = IF i = Len(Stages) THEN "over" ELSE Stages[i + 1]
  BY DEF After
<1> HIDE DEF i
<1>6. i # 10
  BY <1>4 DEF Stages, Calling
<1> QED
  BY <1>1, <1>2, <1>4, <1>5, <1>6

-----------------------------------------------------------------------------
(* Sequences of events. *)

\* Progress after progress.
LEMMA CleanAppend ==
  ASSUME NEW s \in Seq(Events), Clean(s)
  PROVE  Clean(s \o <<"progress">>) /\ s \o <<"progress">> \in Seq(Events)
  BY DEF Clean, Events

\* An ending and the sentinel after progress.
LEMMA CleanCloses ==
  ASSUME NEW s \in Seq(Events), Clean(s), NEW e \in Endings
  PROVE  Closing(s \o <<e, "end">>) /\ s \o <<e, "end">> \in Seq(Events)
  BY DEF Clean, Closing, Events

\* The tab gets an ending after progress.
LEMMA CloseSeen ==
  ASSUME NEW s \in Seq(Events), Clean(s), NEW e \in Endings
  PROVE  Closed(Append(s, e)) /\ Append(s, e) \in Seq(Events)
<1>1. Len(Append(s, e)) = Len(s) + 1 /\ Append(s, e) \in Seq(Events)
  BY DEF Events
<1> QED
  BY <1>1 DEF Clean, Closed, Events

\* The first event of a queue that holds progress only.
LEMMA CleanTail ==
  ASSUME NEW q \in Seq(Events), q # <<>>, Clean(q)
  PROVE  Head(q) = "progress" /\ Clean(Tail(q)) /\ Tail(q) \in Seq(Events)
<1>1. Len(q) \in Nat \ {0} /\ Tail(q) \in Seq(Events) /\ Len(Tail(q)) = Len(q) - 1
  OBVIOUS
<1>2. \A i \in 1..Len(q) - 1 : Tail(q)[i] = q[i + 1]
  OBVIOUS
<1> QED
  BY <1>1, <1>2 DEF Clean

\* A queue of one event.
LEMMA OnlyOne ==
  ASSUME NEW q \in Seq(Events), Len(q) = 1, NEW e, q[1] = e
  PROVE  q = <<e>>
  OBVIOUS

\* The first event of a queue that holds the ending, too.
LEMMA ClosingTail ==
  ASSUME NEW q \in Seq(Events), Closing(q)
  PROVE  /\ Tail(q) \in Seq(Events)
         /\ \/ Head(q) = "progress" /\ Closing(Tail(q))
            \/ Head(q) \in Endings /\ Tail(q) = <<"end">>
<1>1. Len(q) \in Nat /\ Len(q) >= 2 /\ q # <<>>
  BY DEF Closing
<1>2. Tail(q) \in Seq(Events) /\ Len(Tail(q)) = Len(q) - 1 /\ Head(q) = q[1]
  BY <1>1
<1>3. \A i \in 1..Len(q) - 1 : Tail(q)[i] = q[i + 1]
  BY <1>1
<1>4. CASE Len(q) = 2
  <2>1. Head(q) \in Endings
    BY <1>2, <1>4 DEF Closing
  <2>2. Tail(q)[1] = "end"
    BY <1>3, <1>4 DEF Closing
  <2>3. Len(Tail(q)) = 1
    BY <1>2, <1>4
  <2>4. Tail(q) = <<"end">>
    BY <1>2, <2>2, <2>3, OnlyOne
  <2> QED
    BY <1>2, <2>1, <2>4
<1>5. CASE Len(q) > 2
  <2>1. Head(q) = "progress"
    BY <1>1, <1>2, <1>5 DEF Closing
  <2>2. Tail(q)[Len(q) - 1] = "end" /\ Tail(q)[Len(q) - 2] \in Endings
    BY <1>1, <1>3, <1>5 DEF Closing
  <2>3. \A i \in 1..Len(q) - 3 : Tail(q)[i] = "progress"
    BY <1>1, <1>3, <1>5 DEF Closing
  <2> QED
    BY <1>1, <1>2, <1>5, <2>1, <2>2, <2>3 DEF Closing
<1> QED
  BY <1>1, <1>4, <1>5, <1>2
-----------------------------------------------------------------------------
(* Steps of a worker. *)

\* Put leaves other queues alone, and its own empty when nobody reads it.
LEMMA PutShape ==
  ASSUME StreamShape, NEW r \in Runs, NEW evs, Put(r, evs),
         reader[r] = "open" => queue[r] \o evs \in Seq(Events)
  PROVE  /\ queue' \in [Runs -> Seq(Events)]
         /\ queue'[r] = IF reader[r] = "open" THEN queue[r] \o evs ELSE <<>>
         /\ \A o \in Runs \ {r} : queue'[o] = queue[o]
  BY DEF Put, StreamShape

\* A worker that goes on, with or without a word.
LEMMA WorkerStep ==
  ASSUME StreamShape, EndingInv, NEW r \in Runs, NEW rec,
         run' = [run EXCEPT ![r] = rec], DOMAIN rec = Fields,
         run[r].at \notin {"none", "end"}, rec.at \notin {"none", "end"},
         rec.at = "over" => rec.outcome \in Endings,
         rec.calling => rec.at \in Calling,
         queue' = queue \/ Put(r, <<"progress">>),
         UNCHANGED <<reader, seen>>
  PROVE  StreamShape' /\ EndingInv'
<1>1. \A o \in Runs : run'[o] = IF o = r THEN rec ELSE run[o]
  BY DEF StreamShape
<1>2. DOMAIN run' = Runs /\ run' = [o \in Runs |-> run'[o]]
  BY DEF StreamShape
<1>3. reader[r] = "open" => Clean(queue[r]) /\ Clean(seen[r])
  BY DEF EndingInv, Told
<1>4. /\ queue' \in [Runs -> Seq(Events)]
      /\ \A o \in Runs \ {r} : queue'[o] = queue[o]
      /\ reader[r] = "open" => Clean(queue'[r])
      /\ reader[r] \in {"none", "gone"} => queue'[r] = <<>>
  <2>1. CASE queue' = queue
    BY <2>1, <1>3 DEF StreamShape, EndingInv, Told
  <2>2. CASE Put(r, <<"progress">>)
    <3>1. queue[r] \in Seq(Events)
      BY DEF StreamShape
    <3>2. reader[r] = "open" => /\ queue[r] \o <<"progress">> \in Seq(Events)
                               /\ Clean(queue[r] \o <<"progress">>)
      BY <1>3, <3>1, CleanAppend
    <3> QED
      BY <2>2, <3>2, PutShape
  <2> QED
    BY <2>1, <2>2
<1>5. StreamShape'
  BY <1>1, <1>2, <1>4 DEF StreamShape
<1>6. Told(r)'
  BY <1>1, <1>3, <1>4 DEF Told, EndingInv
<1>7. Working(r)'
  BY <1>1 DEF Working, Calling
<1>8. ASSUME NEW o \in Runs \ {r}
      PROVE  Told(o)' /\ Working(o)'
  BY <1>1, <1>4 DEF Told, Working, EndingInv
<1> QED
  BY <1>5, <1>6, <1>7, <1>8 DEF EndingInv

\* A stage is over.
LEMMA AdvanceStep ==
  ASSUME StreamShape, EndingInv, NEW r \in Runs, NEW rec, Advance(r, rec),
         DOMAIN rec = Fields, rec.at = run[r].at,
         rec.at \in {"identify", "fuse", "sections"} \union Calling,
         UNCHANGED <<reader, seen>>
  PROVE  StreamShape' /\ EndingInv'
<1> DEFINE new == [rec EXCEPT !.at = After(rec.at), !.calling = FALSE, !.attempt = 0, !.todo = <<>>]
<1>1. DOMAIN new = Fields /\ new.at = After(rec.at) /\ ~ new.calling
  BY DEF Fields
<1>2. After(rec.at) \notin {"none", "end", "over"}
  BY NextStage
<1>3. run' = [run EXCEPT ![r] = new] /\ Put(r, <<"progress">>)
  BY DEF Advance
<1> HIDE DEF new
<1> QED
  BY <1>1, <1>2, <1>3, WorkerStep DEF Calling
\* Stages without a call.
LEMMA StageStep ==
  ASSUME StreamShape, EndingInv, NEW r \in Runs,
         Identify(r) \/ Gather(r) \/ Sections(r) \/ Skip(r)
  PROVE  StreamShape' /\ EndingInv'
<1>1. Advance(r, run[r]) /\ UNCHANGED <<reader, seen>>
  BY DEF Identify, Gather, Sections, Plain, Skip
<1>2. run[r].at \in {"identify", "fuse", "sections"} \union Calling
  BY DEF Identify, Gather, Sections, Plain, Skip, Calling
<1>3. DOMAIN run[r] = Fields
  BY DEF StreamShape
<1> QED
  BY <1>1, <1>2, <1>3, AdvanceStep

\* A run that ends, by an exception, without a project, or with its answer.
LEMMA OverStep ==
  ASSUME StreamShape, EndingInv, NEW r \in Runs,
         \/ NotFound(r) \/ Breaks(r)
         \/ \E persisted \in BOOLEAN : Publish(r, persisted)
  PROVE  StreamShape' /\ EndingInv'
<1>1. /\ run[r].at \notin {"none", "end"} /\ DOMAIN run[r] = Fields
      /\ UNCHANGED <<reader, seen>>
  BY DEF StreamShape, NotFound, Breaks, Publish
<1>2. ~ run[r].calling \/ Breaks(r)
  BY DEF EndingInv, Working, NotFound, Publish
<1>3. CASE NotFound(r)
  <2> DEFINE rec == [run[r] EXCEPT !.at = "over", !.outcome = "complete"]
  <2>1. run' = [run EXCEPT ![r] = rec] /\ queue' = queue
    BY <1>3 DEF NotFound
  <2>2. DOMAIN rec = Fields /\ rec.at = "over" /\ rec.outcome \in Endings /\ ~ rec.calling
    BY <1>1, <1>2, <1>3 DEF Fields, Endings, NotFound, Breaks
  <2> HIDE DEF rec
  <2> QED
    BY <1>1, <2>1, <2>2, WorkerStep
<1>4. CASE Breaks(r)
  <2> DEFINE rec == [run[r] EXCEPT !.at = "over", !.outcome = "error", !.calling = FALSE]
  <2>1. run' = [run EXCEPT ![r] = rec] /\ queue' = queue
    BY <1>4 DEF Breaks, Raise
  <2>2. DOMAIN rec = Fields /\ rec.at = "over" /\ rec.outcome \in Endings /\ ~ rec.calling
    BY <1>1 DEF Fields, Endings
  <2> HIDE DEF rec
  <2> QED
    BY <1>1, <2>1, <2>2, WorkerStep
<1>5. CASE \E persisted \in BOOLEAN : Publish(r, persisted)
  <2> DEFINE rec == [run[r] EXCEPT !.at = "over", !.outcome = "complete",
                                   !.reported = ActualModel]
  <2>1. run' = [run EXCEPT ![r] = rec] /\ Put(r, <<"progress">>)
    BY <1>5 DEF Publish
  <2>2. DOMAIN rec = Fields /\ rec.at = "over" /\ rec.outcome \in Endings /\ ~ rec.calling
    BY <1>1, <1>2, <1>5 DEF Fields, Endings, Publish, Breaks
  <2> HIDE DEF rec
  <2> QED
    BY <1>1, <2>1, <2>2, WorkerStep
<1> QED
  BY <1>3, <1>4, <1>5

\* The beginning of a call.
LEMMA StartStep ==
  ASSUME StreamShape, EndingInv, NEW r \in Runs,
         \/ Classify(r) \/ Generate(r) \/ Criticize(r)
         \/ Target(r) \/ Review(r) \/ Assess(r)
  PROVE  StreamShape' /\ EndingInv'
<1> PICK stage \in Calling : StartCall(r, stage)
  BY DEF Classify, Generate, Criticize, Target, Review, Assess, Calling
<1> DEFINE rec == [run[r] EXCEPT !.calling = TRUE, !.todo = ModelsToTry(run[r])]
<1>1. /\ run' = [run EXCEPT ![r] = rec] /\ queue' = queue
      /\ UNCHANGED <<reader, seen>> /\ run[r].at = stage
  BY DEF StartCall
<1>2. DOMAIN rec = Fields /\ rec.at = stage
  BY <1>1 DEF StreamShape, Fields
<1>3. stage \notin {"none", "end", "over"}
  BY DEF Calling
<1> HIDE DEF rec
<1> QED
  BY <1>1, <1>2, <1>3, WorkerStep

\* A call that is made again.
LEMMA AgainStep ==
  ASSUME StreamShape, EndingInv, NEW r \in Runs, NEW model, NEW attempt,
         Again(r, model, attempt), run[r].at \in Calling, UNCHANGED <<reader, seen>>
  PROVE  StreamShape' /\ EndingInv'
<1> DEFINE rec == [run[r] EXCEPT !.own = model, !.attempt = attempt, !.calling = FALSE, !.todo = <<>>]
<1>1. run' = [run EXCEPT ![r] = rec] /\ queue' = queue
  BY DEF Again
<1>2. DOMAIN rec = Fields /\ rec.at = run[r].at
  BY DEF StreamShape, Fields
<1>3. run[r].at \notin {"none", "end", "over"}
  BY DEF Calling
<1> HIDE DEF rec
<1> QED
  BY <1>1, <1>2, <1>3, WorkerStep

\* The end of a call, or of one of its tries.
LEMMA CallStep ==
  ASSUME StreamShape, EndingInv, NEW r \in Runs,
         Answered(r) \/ WrittenOff(r) \/ CallFails(r)
  PROVE  StreamShape' /\ EndingInv'
<1>1. run[r].at \in Calling /\ DOMAIN run[r] = Fields /\ UNCHANGED <<reader, seen>>
  BY DEF EndingInv, Working, StreamShape, Calling, Answered, WrittenOff, CallFails
<1>2. ASSUME NEW model, Advance(r, [run[r] EXCEPT !.own = model])
      PROVE  StreamShape' /\ EndingInv'
  <2> DEFINE rec == [run[r] EXCEPT !.own = model]
  <2>1. DOMAIN rec = Fields /\ rec.at = run[r].at
    BY <1>1 DEF Fields
  <2>2. Advance(r, rec)
    BY <1>2
  <2> HIDE DEF rec
  <2> QED
    BY <1>1, <2>1, <2>2, AdvanceStep
<1>3. CASE Answered(r)
  <2> DEFINE m == Head(Triable(run[r].todo))
  <2>1. Advance(r, [run[r] EXCEPT !.own = m]) \/ Again(r, m, 1) \/ Again(r, m, 0)
    BY <1>3 DEF Answered
  <2> HIDE DEF m
  <2> QED
    BY <1>1, <1>2, <2>1, AgainStep
<1>4. CASE WrittenOff(r)
  <2> DEFINE rec == [run[r] EXCEPT !.todo = Tail(Triable(run[r].todo))]
  <2>1. run' = [run EXCEPT ![r] = rec] /\ queue' = queue
    BY <1>4 DEF WrittenOff
  <2>2. DOMAIN rec = Fields /\ rec.at = run[r].at
    BY <1>1 DEF Fields
  <2>3. run[r].at \notin {"none", "end", "over"}
    BY <1>1 DEF Calling
  <2> HIDE DEF rec
  <2> QED
    BY <1>1, <2>1, <2>2, <2>3, WorkerStep
<1>5. CASE CallFails(r)
  <2>1. \/ Advance(r, [run[r] EXCEPT !.own = NoModel])
        \/ Again(r, NoModel, 1) \/ Again(r, NoModel, 0) \/ Raise(r)
    BY <1>5 DEF CallFails
  <2>2. CASE Raise(r)
    <3> DEFINE rec == [run[r] EXCEPT !.at = "over", !.outcome = "error", !.calling = FALSE]
    <3>1. run' = [run EXCEPT ![r] = rec] /\ queue' = queue
      BY <2>2 DEF Raise
    <3>2. DOMAIN rec = Fields /\ rec.at = "over" /\ rec.outcome \in Endings /\ ~ rec.calling
      BY <1>1 DEF Fields, Endings
    <3>3. run[r].at \notin {"none", "end"}
      BY <1>1 DEF Calling
    <3> HIDE DEF rec
    <3> QED
      BY <1>1, <3>1, <3>2, <3>3, WorkerStep
  <2> QED
    BY <1>1, <1>2, <2>1, <2>2, AgainStep
<1> QED
  BY <1>3, <1>4, <1>5
\* The last two events of a worker.
LEMMA FinishStep ==
  ASSUME StreamShape, EndingInv, NEW r \in Runs, Finish(r)
  PROVE  StreamShape' /\ EndingInv'
<1> DEFINE rec == [Idle EXCEPT !.at = "end"]
           e   == run[r].outcome
<1>1. DOMAIN rec = Fields /\ rec.at = "end" /\ ~ rec.calling
  BY DEF Idle, Fields
<1>2. e \in Endings /\ run[r].at = "over"
  BY DEF Finish, EndingInv, Working
<1>3. run' = [run EXCEPT ![r] = rec] /\ Put(r, <<e, "end">>) /\ UNCHANGED <<reader, seen>>
  BY DEF Finish
<1> HIDE DEF rec, e
<1>4. \A o \in Runs : run'[o] = IF o = r THEN rec ELSE run[o]
  BY <1>3 DEF StreamShape
<1>5. reader[r] = "open" => Clean(queue[r]) /\ Clean(seen[r])
  BY <1>2 DEF EndingInv, Told
<1>6. queue[r] \in Seq(Events)
  BY DEF StreamShape
<1>7. reader[r] = "open" => /\ queue[r] \o <<e, "end">> \in Seq(Events)
                           /\ Closing(queue[r] \o <<e, "end">>)
  BY <1>2, <1>5, <1>6, CleanCloses
<1>8. /\ queue' \in [Runs -> Seq(Events)]
      /\ queue'[r] = IF reader[r] = "open" THEN queue[r] \o <<e, "end">> ELSE <<>>
      /\ \A o \in Runs \ {r} : queue'[o] = queue[o]
  BY <1>3, <1>7, PutShape
<1>9. DOMAIN run' = Runs /\ run' = [o \in Runs |-> run'[o]]
  BY <1>3 DEF StreamShape
<1>10. StreamShape'
  BY <1>1, <1>3, <1>4, <1>8, <1>9 DEF StreamShape
<1>11. Told(r)' /\ Working(r)'
  BY <1>1, <1>2, <1>3, <1>4, <1>5, <1>7, <1>8 DEF Told, Working, EndingInv
<1>12. ASSUME NEW o \in Runs \ {r}
       PROVE  Told(o)' /\ Working(o)'
  BY <1>3, <1>4, <1>8 DEF Told, Working, EndingInv
<1> QED
  BY <1>10, <1>11, <1>12 DEF EndingInv

-----------------------------------------------------------------------------
(* Steps of the tab and of the response. *)

\* A request of the tab.
LEMMA QueryStep ==
  ASSUME StreamShape, EndingInv, NEW r \in Runs, NEW sensitive, Query(r, sensitive)
  PROVE  StreamShape' /\ EndingInv'
<1> DEFINE rec  == [Idle EXCEPT !.at = "identify", !.sensitive = sensitive,
                                !.alone = \A o \in Runs : ~ Active(o)]
           Left(o) == [run[o] EXCEPT !.alone = FALSE]
<1>1. DOMAIN rec = Fields /\ rec.at = "identify" /\ ~ rec.calling
  BY DEF Idle, Fields
<1>2. ASSUME NEW o \in Runs
      PROVE  /\ DOMAIN Left(o) = Fields /\ Left(o).at = run[o].at
             /\ Left(o).calling = run[o].calling /\ Left(o).outcome = run[o].outcome
  BY DEF StreamShape, Fields
<1>3. run' = [o \in Runs |-> IF o = r THEN rec ELSE IF Active(o) THEN Left(o) ELSE run[o]]
  BY DEF Query
<1>4. /\ run[r].at = "none" /\ UNCHANGED <<queue, seen>>
      /\ reader' = [reader EXCEPT ![r] = "open"]
  BY DEF Query
<1> HIDE DEF rec, Left
<1>5. /\ DOMAIN run'[r] = Fields /\ run'[r].at = "identify" /\ ~ run'[r].calling
      /\ \A o \in Runs \ {r} : /\ DOMAIN run'[o] = Fields /\ run'[o].at = run[o].at
                               /\ run'[o].calling = run[o].calling
                               /\ run'[o].outcome = run[o].outcome
  BY <1>1, <1>2, <1>3 DEF StreamShape
<1>6. DOMAIN run' = Runs /\ run' = [o \in Runs |-> run'[o]]
  BY <1>3
<1>7. StreamShape'
  BY <1>4, <1>5, <1>6 DEF StreamShape
<1>8. seen'[r] = <<>> /\ queue'[r] = <<>> /\ reader'[r] = "open"
  BY <1>4 DEF EndingInv, Told, StreamShape
<1>9. Told(r)' /\ Working(r)'
  BY <1>5, <1>8 DEF Told, Working, Clean
<1>10. ASSUME NEW o \in Runs \ {r}
       PROVE  Told(o)' /\ Working(o)'
  BY SMTT(60), <1>4, <1>5 DEF Told, Working, EndingInv, StreamShape
<1> QED
  BY <1>7, <1>9, <1>10 DEF EndingInv

\* The tab is done with a request.
LEMMA ForgetStep ==
  ASSUME StreamShape, EndingInv, NEW r \in Runs, Settle(r) \/ Abort(r)
  PROVE  StreamShape' /\ EndingInv'
<1>1. Forget(r) /\ run' = run /\ reader[r] # "none"
  BY DEF Settle, Abort
<1>2. StreamShape'
  BY <1>1 DEF Forget, StreamShape, Events
<1>3. ASSUME NEW o \in Runs
      PROVE  Told(o)' /\ Working(o)'
  BY <1>1 DEF Forget, Told, Working, EndingInv, StreamShape
<1> QED
  BY <1>2, <1>3 DEF EndingInv

\* The clock ends a stream that has nothing to say.
LEMMA TimeoutStep ==
  ASSUME StreamShape, EndingInv, NEW r \in Runs, Timeout(r)
  PROVE  StreamShape' /\ EndingInv'
<1>1. reader[r] = "open" /\ queue[r] = <<>> /\ UNCHANGED <<run, queue>>
  BY DEF Timeout
<1>2. Clean(seen[r]) /\ seen[r] \in Seq(Events)
  <2>1. ~ Closing(<<>>) /\ <<>> # <<"end">>
    BY DEF Closing
  <2> QED
    BY <1>1, <2>1 DEF EndingInv, Told, StreamShape
<1>3. /\ seen' = [seen EXCEPT ![r] = Append(@, "error")]
      /\ reader' = [reader EXCEPT ![r] = "ended"]
  BY DEF Timeout, TimesOut
<1>4. Closed(Append(seen[r], "error")) /\ Append(seen[r], "error") \in Seq(Events)
  BY <1>2, CloseSeen DEF Endings
<1>5. StreamShape'
  BY <1>1, <1>3, <1>4 DEF StreamShape
<1>6. run[r].at # "none"
  BY <1>1 DEF EndingInv, Told
<1>7. ASSUME NEW o \in Runs
      PROVE  Told(o)' /\ Working(o)'
  BY <1>1, <1>3, <1>4, <1>6 DEF Told, Working, EndingInv, StreamShape
<1> QED
  BY <1>5, <1>7 DEF EndingInv

\* The tab gets the next event, or the stream ends.
LEMMA YieldStep ==
  ASSUME StreamShape, EndingInv, NEW r \in Runs, Yield(r)
  PROVE  StreamShape' /\ EndingInv'
<1> DEFINE q == queue[r]
           s == seen[r]
<1>1. /\ reader[r] = "open" /\ q # <<>> /\ run' = run
      /\ queue' = [queue EXCEPT ![r] = Tail(q)]
  BY DEF Yield
<1>2. q \in Seq(Events) /\ s \in Seq(Events) /\ run[r].at # "none"
  BY <1>1 DEF StreamShape, EndingInv, Told
<1>3. \A o \in Runs \ {r} : Told(o) /\ Working(o)
  BY DEF EndingInv
<1>4. CASE Head(q) = "end"
  <2>1. Closed(s) /\ q = <<"end">>
    BY <1>1, <1>2, <1>4, CleanTail, ClosingTail DEF EndingInv, Told, Endings
  <2>2. seen' = seen /\ reader' = [reader EXCEPT ![r] = "ended"]
    BY <1>4 DEF Yield
  <2>3. Tail(q) \in Seq(Events)
    BY <1>1, <1>2
  <2>4. StreamShape'
    BY <1>1, <2>2, <2>3 DEF StreamShape
  <2>5. Told(r)' /\ Working(r)'
    BY <1>1, <1>2, <2>1, <2>2 DEF Told, Working, EndingInv, StreamShape
  <2>6. ASSUME NEW o \in Runs \ {r}
        PROVE  Told(o)' /\ Working(o)'
    BY <1>1, <1>3, <2>2 DEF Told, Working, StreamShape
  <2> QED
    BY <2>4, <2>5, <2>6 DEF EndingInv
<1>5. CASE Head(q) # "end"
  <2>1. reader' = reader /\ seen' = [seen EXCEPT ![r] = Append(s, Head(q))]
    BY <1>5 DEF Yield
  <2>2. Clean(s)
    BY <1>1, <1>2, <1>5 DEF EndingInv, Told
  <2>3. \/ /\ Head(q) = "progress"
           /\ IF run[r].at = "end" THEN Closing(Tail(q)) ELSE Clean(Tail(q))
        \/ Head(q) \in Endings /\ Tail(q) = <<"end">> /\ run[r].at = "end"
    <3>1. CASE run[r].at # "end"
      <4>1. Clean(q)
        BY <1>1, <3>1 DEF EndingInv, Told
      <4> HIDE DEF q
      <4> QED
        BY <1>1, <1>2, <3>1, <4>1, CleanTail
    <3>2. CASE run[r].at = "end"
      <4>1. Closing(q)
        BY <1>1, <1>5, <3>2 DEF EndingInv, Told
      <4> HIDE DEF q
      <4> QED
        BY <1>2, <3>2, <4>1, ClosingTail
    <3> QED
      BY <3>1, <3>2
  <2>4. Append(s, "progress") \in Seq(Events) /\ Clean(Append(s, "progress"))
    BY <1>2, <2>2 DEF Clean, Events
  <2>5. \A e \in Endings : Append(s, e) \in Seq(Events) /\ Closed(Append(s, e))
    BY <1>2, <2>2, CloseSeen
  <2>6. Tail(q) \in Seq(Events)
    BY <1>1, <1>2
  <2>7. Append(s, Head(q)) \in Seq(Events)
    BY <2>3, <2>4, <2>5
  <2>8. StreamShape'
    BY <1>1, <2>1, <2>6, <2>7 DEF StreamShape
  <2>9. seen'[r] = Append(s, Head(q)) /\ queue'[r] = Tail(q) /\ reader'[r] = "open"
    BY <1>1, <2>1 DEF StreamShape
  <2> HIDE DEF q, s
  <2>10. Told(r)' /\ Working(r)'
    BY <1>1, <1>2, <2>3, <2>4, <2>5, <2>9 DEF Told, Working, EndingInv
  <2>11. ASSUME NEW o \in Runs \ {r}
         PROVE  Told(o)' /\ Working(o)'
    BY <1>1, <1>3, <2>1 DEF Told, Working, StreamShape
  <2> QED
    BY <2>8, <2>10, <2>11 DEF EndingInv
<1> QED
  BY <1>4, <1>5

-----------------------------------------------------------------------------
(* One ending. *)

\* In the beginning no worker runs and nothing was said.
LEMMA InitEnding == StreamInit => StreamShape /\ EndingInv
<1> SUFFICES ASSUME StreamInit
             PROVE  StreamShape /\ EndingInv
  OBVIOUS
<1>1. Idle.at = "none" /\ ~ Idle.calling /\ DOMAIN Idle = Fields
  BY DEF Idle, Fields
<1>2. \A r \in Runs : run[r] = Idle /\ reader[r] = "none" /\ seen[r] = <<>> /\ queue[r] = <<>>
  BY DEF StreamInit
<1>3. DOMAIN run = Runs /\ run = [r \in Runs |-> run[r]]
  BY DEF StreamInit
<1>4. StreamShape
  BY <1>1, <1>2, <1>3 DEF StreamInit, StreamShape
<1> QED
  BY <1>1, <1>2, <1>4 DEF EndingInv, Told, Working

\* Every step keeps the invariant.
LEMMA EndingStep ==
  ASSUME StreamShape, EndingInv, [StreamNext]_streamVars
  PROVE  StreamShape' /\ EndingInv'
<1>1. CASE UNCHANGED streamVars
  BY <1>1 DEF streamVars, StreamShape, EndingInv, Told, Working
<1>2. CASE StreamNext
  <2> PICK r \in Runs :
        \/ \E sensitive \in Sensitive : Query(r, sensitive)
        \/ Yield(r) \/ Timeout(r) \/ Settle(r) \/ Abort(r)
        \/ Identify(r) \/ NotFound(r) \/ Gather(r) \/ Sections(r) \/ Breaks(r)
        \/ Classify(r) \/ Generate(r) \/ Criticize(r) \/ Target(r) \/ Review(r) \/ Assess(r)
        \/ Skip(r) \/ Answered(r) \/ WrittenOff(r) \/ CallFails(r)
        \/ \E persisted \in BOOLEAN : Publish(r, persisted)
        \/ Finish(r)
    BY <1>2 DEF StreamNext
  <2> QED
    BY QueryStep, YieldStep, TimeoutStep, ForgetStep, StageStep, OverStep, StartStep, CallStep,
       FinishStep
<1> QED
  BY <1>1, <1>2

\* For any number of requests, tasks and models: a stream that has ended told
\* the tab one ending, and nothing after it, whatever timed out, was retried
\* or failed.
THEOREM StreamsEndOnce == StreamSpec => []OneEnding
<1>1. StreamShape /\ EndingInv => OneEnding
  <2> SUFFICES ASSUME StreamShape, EndingInv, NEW r \in Runs
               PROVE  /\ reader[r] = "ended" => seen[r] # <<>> /\ seen[r][Len(seen[r])] \in Endings
                      /\ \A i \in 1..Len(seen[r]) - 1 : seen[r][i] = "progress"
    BY DEF OneEnding
  <2>1. seen[r] \in Seq(Events) /\ Told(r)
    BY DEF StreamShape, EndingInv
  <2>2. Clean(seen[r]) \/ Closed(seen[r])
    BY <2>1 DEF Told, Clean, StreamShape
  <2> QED
    BY <2>1, <2>2 DEF Told, Clean, Closed
<1> QED
  BY <1>1, InitEnding, EndingStep, PTL DEF StreamSpec
-----------------------------------------------------------------------------
(* The record of calls. *)

\* The first call is the second stage; the stages after it are in Called.
LEMMA StageOrder ==
  /\ After("identify") = "classify"
  /\ \A s \in {"fuse", "sections"} \union Calling : After(s) \in Called
<1>1. Len(Stages) = 10 /\ DOMAIN Stages = 1..10
  BY DEF Stages
<1>2. ASSUME NEW s \in {"identify", "fuse", "sections"} \union Calling
      PROVE  \E i \in 1..9 : Stages[i] = s /\ After(s) = Stages[i + 1]
  <2> DEFINE i == CHOOSE j \in DOMAIN Stages : Stages[j] = s
  <2>1. \E j \in DOMAIN Stages : Stages[j] = s
    BY DEF Stages, Calling
  <2>2. i \in 1..10 /\ Stages[i] = s
    BY <1>1, <2>1
  <2>3. After(s) = IF i = Len(Stages) THEN "over" ELSE Stages[i + 1]
    BY DEF After
  <2> HIDE DEF i
  <2>4. i # 10
    BY <2>2 DEF Stages, Calling
  <2> QED
    BY <1>1, <2>2, <2>3, <2>4
<1>3. After("identify") = "classify"
  <2> PICK i \in 1..9 : Stages[i] = "identify" /\ After("identify") = Stages[i + 1]
    BY <1>2
  <2>1. i = 1
    BY DEF Stages
  <2> QED
    BY <2>1 DEF Stages
<1>4. ASSUME NEW s \in {"fuse", "sections"} \union Calling
      PROVE  After(s) \in Called
  <2> PICK i \in 1..9 : Stages[i] = s /\ After(s) = Stages[i + 1]
    BY <1>2
  <2>1. i # 1
    BY DEF Stages, Calling
  <2>2. \A j \in 3..10 : Stages[j] \in Called
    BY DEF Stages, Called
  <2> QED
    BY <2>1, <2>2
<1> QED
  BY <1>3, <1>4

\* A worker may do what it likes with the record, as far as others go.
LEMMA RecordStep ==
  ASSUME StreamShape, RecordInv, NEW r \in Runs, Active(r), NEW rec,
         run' = [run EXCEPT ![r] = rec], DOMAIN rec = Fields,
         rec.at = "end" \/ rec.alone = run[r].alone,
         Attributed(r)'
  PROVE  RecordInv'
<1>1. \A o \in Runs : run'[o] = IF o = r THEN rec ELSE run[o]
  BY DEF StreamShape
<1>2. ASSUME NEW o \in Runs \ {r}
      PROVE  OnlyRun(o)' /\ Attributed(o)'
  <2>1. Active(o) => ~ run[o].alone
    BY DEF RecordInv, OnlyRun
  <2>2. run[o].at \in Called \union {"over"} => Active(o)
    BY DEF Active, Called
  <2>3. OnlyRun(o)'
    BY <1>1, <2>1 DEF OnlyRun, Active
  <2>4. Attributed(o)'
    BY <1>1, <2>1, <2>2 DEF Attributed, RecordInv
  <2> QED
    BY <2>3, <2>4
<1>3. OnlyRun(r)'
  BY <1>1 DEF OnlyRun, Active, RecordInv
<1> QED
  BY <1>2, <1>3 DEF RecordInv

\* A stage that is over and has left the record to the last call.
LEMMA AdvanceRecord ==
  ASSUME StreamShape, RecordInv, NEW r \in Runs, NEW rec, Advance(r, rec),
         DOMAIN rec = Fields, rec.at = run[r].at, rec.alone = run[r].alone,
         rec.outcome = run[r].outcome, rec.at # "over",
         \/ rec.at = "identify" /\ rec.own = NoModel
         \/ /\ rec.at \in {"fuse", "sections"} \union Calling
            /\ rec.alone => lastRoute' = rec.own /\ lastModel' = rec.own
  PROVE  RecordInv'
<1> DEFINE new == [rec EXCEPT !.at = After(rec.at), !.calling = FALSE, !.attempt = 0, !.todo = <<>>]
<1>1. /\ DOMAIN new = Fields /\ new.at = After(rec.at) /\ new.own = rec.own
      /\ new.alone = rec.alone /\ new.outcome = rec.outcome
  BY DEF Fields
<1>2. run' = [run EXCEPT ![r] = new]
  BY DEF Advance
<1> HIDE DEF new
<1>3. run'[r] = new
  BY <1>2 DEF StreamShape
<1>4. run[r].outcome # "complete" /\ Active(r)
  BY DEF RecordInv, Attributed, Active, Calling
<1>5. \/ new.at = "classify" /\ new.own = NoModel
      \/ new.at \in Called /\ (new.alone => lastRoute' = new.own /\ lastModel' = new.own)
  BY <1>1, StageOrder
<1>6. Attributed(r)'
  BY <1>1, <1>3, <1>4, <1>5 DEF Attributed, Called
<1> QED
  BY <1>1, <1>2, <1>4, <1>6, RecordStep

\* A call that is made again has recorded the former one.
LEMMA AgainRecord ==
  ASSUME StreamShape, RecordInv, NEW r \in Runs, NEW model, NEW attempt,
         Again(r, model, attempt), run[r].at \in {"generate", "target", "assess"},
         lastRoute' = model, lastModel' = model
  PROVE  RecordInv'
<1> DEFINE rec == [run[r] EXCEPT !.own = model, !.attempt = attempt, !.calling = FALSE, !.todo = <<>>]
<1>1. /\ DOMAIN rec = Fields /\ rec.at = run[r].at /\ rec.own = model
      /\ rec.alone = run[r].alone /\ rec.outcome = run[r].outcome
  BY DEF StreamShape, Fields
<1>2. run' = [run EXCEPT ![r] = rec] /\ Active(r)
  BY DEF Again, Active
<1> HIDE DEF rec
<1>3. run'[r] = rec
  BY <1>2 DEF StreamShape
<1>4. Attributed(r)'
  BY <1>1, <1>3 DEF Attributed, RecordInv
<1> QED
  BY <1>1, <1>2, <1>4, RecordStep

\* A run that fails reports nothing.
LEMMA RaiseRecord ==
  ASSUME StreamShape, RecordInv, NEW r \in Runs, Raise(r), Active(r)
  PROVE  RecordInv'
<1> DEFINE rec == [run[r] EXCEPT !.at = "over", !.outcome = "error", !.calling = FALSE]
<1>1. DOMAIN rec = Fields /\ rec.at = "over" /\ rec.alone = run[r].alone /\ rec.outcome = "error"
  BY DEF StreamShape, Fields
<1>2. run' = [run EXCEPT ![r] = rec]
  BY DEF Raise
<1> HIDE DEF rec
<1>3. run'[r] = rec
  BY <1>2 DEF StreamShape
<1>4. Attributed(r)'
  BY <1>1, <1>3 DEF Attributed, Called
<1> QED
  BY <1>1, <1>2, <1>4, RecordStep

\* Every step of a worker keeps the record true.
LEMMA WorkerRecord ==
  ASSUME StreamShape, EndingInv, RecordInv, NEW r \in Runs,
         \/ Identify(r) \/ NotFound(r) \/ Gather(r) \/ Sections(r) \/ Breaks(r)
         \/ Classify(r) \/ Generate(r) \/ Criticize(r) \/ Target(r) \/ Review(r) \/ Assess(r)
         \/ Skip(r) \/ Answered(r) \/ WrittenOff(r) \/ CallFails(r)
         \/ \E persisted \in BOOLEAN : Publish(r, persisted)
         \/ Finish(r)
  PROVE  RecordInv'
<1>1. DOMAIN run[r] = Fields /\ Attributed(r)
  BY DEF StreamShape, RecordInv
<1>2. CASE Identify(r)
  <2>1. run[r].at = "identify" /\ run[r].own = NoModel /\ Advance(r, run[r])
    BY <1>1, <1>2 DEF Identify, Attributed
  <2> QED
    BY <1>1, <2>1, AdvanceRecord
<1>3. CASE Gather(r) \/ Sections(r) \/ Skip(r)
  <2>1. /\ Advance(r, run[r]) /\ UNCHANGED <<lastRoute, lastModel>>
        /\ run[r].at \in {"fuse", "sections", "generate", "critic", "target", "review", "assess"}
    BY <1>3 DEF Gather, Sections, Skip, Plain, service
  <2>2. run[r].alone => lastRoute' = run[r].own /\ lastModel' = run[r].own
    BY <1>1, <2>1 DEF Attributed, Called
  <2> QED
    BY <1>1, <2>1, <2>2, AdvanceRecord DEF Calling
<1>4. CASE Answered(r) \/ WrittenOff(r) \/ CallFails(r)
  <2>1. run[r].at \in Calling
    BY <1>4 DEF EndingInv, Working, Calling, Answered, WrittenOff, CallFails
  <2>2. ASSUME NEW model, Record(model), Advance(r, [run[r] EXCEPT !.own = model])
        PROVE  RecordInv'
    <3> DEFINE rec == [run[r] EXCEPT !.own = model]
    <3>1. /\ DOMAIN rec = Fields /\ rec.at = run[r].at /\ rec.own = model
          /\ rec.alone = run[r].alone /\ rec.outcome = run[r].outcome
      BY <1>1 DEF Fields
    <3>2. Advance(r, rec) /\ lastRoute' = model /\ lastModel' = model
      BY <2>2 DEF Record
    <3> HIDE DEF rec
    <3> QED
      BY <2>1, <3>1, <3>2, AdvanceRecord DEF Calling
  <2>3. CASE Answered(r)
    <3> DEFINE m == Head(Triable(run[r].todo))
    <3>1. /\ Record(m)
          /\ \/ Advance(r, [run[r] EXCEPT !.own = m])
             \/ /\ run[r].at \in {"generate", "target", "assess"}
                /\ Again(r, m, 1) \/ Again(r, m, 0)
      BY <2>3 DEF Answered
    <3> HIDE DEF m
    <3> QED
      BY <2>2, <3>1, AgainRecord DEF Record
  <2>4. CASE WrittenOff(r)
    <3> DEFINE rec == [run[r] EXCEPT !.todo = Tail(Triable(run[r].todo))]
    <3>1. run' = [run EXCEPT ![r] = rec] /\ UNCHANGED <<lastRoute, lastModel>>
      BY <2>4 DEF WrittenOff
    <3>2. /\ DOMAIN rec = Fields /\ rec.at = run[r].at /\ rec.own = run[r].own
          /\ rec.alone = run[r].alone /\ rec.outcome = run[r].outcome
          /\ rec.reported = run[r].reported
      BY <1>1 DEF Fields
    <3> HIDE DEF rec
    <3>3. run'[r] = rec
      BY <3>1 DEF StreamShape
    <3>4. Attributed(r)' /\ Active(r)
      BY <1>1, <2>1, <3>1, <3>2, <3>3 DEF Attributed, Active, Calling
    <3> QED
      BY <3>1, <3>2, <3>4, RecordStep
  <2>5. CASE CallFails(r)
    <3>1. Record(NoModel) /\ Active(r)
      BY <2>1, <2>5 DEF CallFails, Active, Calling
    <3>2. \/ Advance(r, [run[r] EXCEPT !.own = NoModel])
          \/ /\ run[r].at \in {"generate", "target", "assess"}
             /\ Again(r, NoModel, 1) \/ Again(r, NoModel, 0)
          \/ Raise(r)
      BY <2>5 DEF CallFails
    <3> QED
      BY <2>2, <3>1, <3>2, AgainRecord, RaiseRecord DEF Record
  <2> QED
    BY <1>4, <2>3, <2>4, <2>5
<1>5. CASE \/ Classify(r) \/ Generate(r) \/ Criticize(r) \/ Target(r) \/ Review(r) \/ Assess(r)
  <2> DEFINE rec == [run[r] EXCEPT !.calling = TRUE, !.todo = ModelsToTry(run[r])]
  <2>1. /\ run' = [run EXCEPT ![r] = rec] /\ UNCHANGED <<lastRoute, lastModel>> /\ Active(r)
    BY <1>5 DEF Classify, Generate, Criticize, Target, Review, Assess, StartCall, service, Active
  <2>2. /\ DOMAIN rec = Fields /\ rec.at = run[r].at /\ rec.own = run[r].own
        /\ rec.alone = run[r].alone /\ rec.outcome = run[r].outcome
        /\ rec.reported = run[r].reported
    BY <1>1 DEF Fields
  <2> HIDE DEF rec
  <2>3. run'[r] = rec
    BY <2>1 DEF StreamShape
  <2>4. Attributed(r)'
    BY <1>1, <2>1, <2>2, <2>3 DEF Attributed
  <2> QED
    BY <2>1, <2>2, <2>4, RecordStep
<1>6. CASE Breaks(r)
  BY <1>6, RaiseRecord DEF Breaks, Active
<1>7. CASE NotFound(r)
  <2> DEFINE rec == [run[r] EXCEPT !.at = "over", !.outcome = "complete"]
  <2>1. run' = [run EXCEPT ![r] = rec] /\ Active(r) /\ run[r].at = "identify"
    BY <1>7 DEF NotFound, Active
  <2>2. /\ DOMAIN rec = Fields /\ rec.at = "over" /\ rec.own = run[r].own
        /\ rec.alone = run[r].alone /\ rec.reported = run[r].reported
    BY <1>1 DEF Fields
  <2> HIDE DEF rec
  <2>3. run'[r] = rec
    BY <2>1 DEF StreamShape
  <2>4. Attributed(r)'
    BY <1>1, <2>1, <2>2, <2>3 DEF Attributed, Called
  <2> QED
    BY <2>1, <2>2, <2>4, RecordStep
<1>8. CASE \E persisted \in BOOLEAN : Publish(r, persisted)
  <2> DEFINE rec == [run[r] EXCEPT !.at = "over", !.outcome = "complete",
                                   !.reported = ActualModel]
  <2>1. run' = [run EXCEPT ![r] = rec] /\ Active(r) /\ run[r].at = "publish"
    BY <1>8 DEF Publish, Active
  <2>2. /\ DOMAIN rec = Fields /\ rec.at = "over" /\ rec.own = run[r].own
        /\ rec.alone = run[r].alone /\ rec.reported = ActualModel
    BY <1>1 DEF Fields
  <2>3. run[r].alone => ActualModel = run[r].own
    BY <1>1, <2>1 DEF Attributed, Called, ActualModel
  <2> HIDE DEF rec
  <2>4. run'[r] = rec
    BY <2>1 DEF StreamShape
  <2>5. Attributed(r)'
    BY <2>2, <2>3, <2>4 DEF Attributed, Called
  <2> QED
    BY <2>1, <2>2, <2>5, RecordStep
<1>9. CASE Finish(r)
  <2> DEFINE rec == [Idle EXCEPT !.at = "end"]
  <2>1. run' = [run EXCEPT ![r] = rec] /\ Active(r)
    BY <1>9 DEF Finish, Active
  <2>2. DOMAIN rec = Fields /\ rec.at = "end" /\ rec.outcome = "running"
    BY DEF Idle, Fields
  <2> HIDE DEF rec
  <2>3. run'[r] = rec
    BY <2>1 DEF StreamShape
  <2>4. Attributed(r)'
    BY <2>2, <2>3 DEF Attributed, Called
  <2> QED
    BY <2>1, <2>2, <2>4, RecordStep
<1> QED
  BY <1>2, <1>3, <1>4, <1>5, <1>6, <1>7, <1>8, <1>9

\* A new run is alone only if no other is under way, and no other is then.
LEMMA QueryRecord ==
  ASSUME StreamShape, RecordInv, NEW r \in Runs, NEW sensitive, Query(r, sensitive)
  PROVE  RecordInv'
<1> DEFINE rec  == [Idle EXCEPT !.at = "identify", !.sensitive = sensitive,
                                !.alone = \A o \in Runs : ~ Active(o)]
           Left(o) == [run[o] EXCEPT !.alone = FALSE]
<1>1. /\ rec.at = "identify" /\ rec.outcome = "running"
      /\ rec.own = NoModel /\ rec.reported = NoModel
  BY DEF Idle
<1>2. rec.alone => \A o \in Runs : ~ Active(o)
  BY DEF Idle
<1>3. ASSUME NEW o \in Runs
      PROVE  /\ Left(o).at = run[o].at /\ ~ Left(o).alone
             /\ Left(o).outcome = run[o].outcome /\ Left(o).own = run[o].own
             /\ Left(o).reported = run[o].reported
  BY DEF StreamShape, Fields
<1>4. run' = [o \in Runs |-> IF o = r THEN rec ELSE IF Active(o) THEN Left(o) ELSE run[o]]
  BY DEF Query
<1>5. UNCHANGED <<lastRoute, lastModel>>
  BY DEF Query, service
<1> HIDE DEF rec, Left
<1>6. run'[r] = rec /\ \A o \in Runs \ {r} : run'[o] = IF Active(o) THEN Left(o) ELSE run[o]
  BY <1>4
<1>7. \A o \in Runs \ {r} : Active(o)' => Active(o) /\ ~ run'[o].alone
  BY <1>3, <1>6 DEF Active
<1>8. OnlyRun(r)' /\ Attributed(r)'
  BY <1>1, <1>2, <1>6, <1>7 DEF OnlyRun, Attributed, Called
<1>9. ASSUME NEW o \in Runs \ {r}
      PROVE  OnlyRun(o)' /\ Attributed(o)'
  <2>1. OnlyRun(o)'
    BY <1>7 DEF OnlyRun
  <2>2. Attributed(o)'
    BY <1>3, <1>5, <1>6 DEF Attributed, RecordInv
  <2> QED
    BY <2>1, <2>2
<1> QED
  BY <1>8, <1>9 DEF RecordInv

\* The tab and the response leave workers and the record alone.
LEMMA TabRecord ==
  ASSUME RecordInv, UNCHANGED <<run, lastRoute, lastModel>>
  PROVE  RecordInv'
  BY DEF RecordInv, OnlyRun, Attributed, Active

\* Every step keeps the record true.
LEMMA RecordNext ==
  ASSUME StreamShape, EndingInv, RecordInv, [StreamNext]_streamVars
  PROVE  RecordInv'
<1>1. CASE UNCHANGED streamVars
  BY <1>1, TabRecord DEF streamVars, service
<1>2. CASE StreamNext
  <2> PICK r \in Runs :
        \/ \E sensitive \in Sensitive : Query(r, sensitive)
        \/ Yield(r) \/ Timeout(r) \/ Settle(r) \/ Abort(r)
        \/ Identify(r) \/ NotFound(r) \/ Gather(r) \/ Sections(r) \/ Breaks(r)
        \/ Classify(r) \/ Generate(r) \/ Criticize(r) \/ Target(r) \/ Review(r) \/ Assess(r)
        \/ Skip(r) \/ Answered(r) \/ WrittenOff(r) \/ CallFails(r)
        \/ \E persisted \in BOOLEAN : Publish(r, persisted)
        \/ Finish(r)
    BY <1>2 DEF StreamNext
  <2>1. CASE Yield(r) \/ Timeout(r) \/ Settle(r) \/ Abort(r)
    BY <2>1, TabRecord DEF Yield, Timeout, Settle, Abort, service
  <2> QED
    BY <2>1, QueryRecord, WorkerRecord
<1> QED
  BY <1>1, <1>2

\* For any number of requests, tasks and models: the answer of a run that no
\* other overlapped names the model of its last call, or none if that failed.
THEOREM AnswersNameTheirModels == StreamSpec => []AnswerNamesItsModel
<1>1. StreamInit => RecordInv
  <2> SUFFICES ASSUME StreamInit
               PROVE  RecordInv
    OBVIOUS
  <2>1. \A r \in Runs : run[r] = Idle
    BY DEF StreamInit
  <2>2. Idle.at = "none" /\ Idle.outcome = "running"
    BY DEF Idle
  <2> QED
    BY <2>1, <2>2 DEF RecordInv, OnlyRun, Attributed, Active, Called
<1>2. RecordInv => AnswerNamesItsModel
  BY DEF RecordInv, Attributed, AnswerNamesItsModel
<1> QED
  BY <1>1, <1>2, InitEnding, EndingStep, RecordNext, PTL DEF StreamSpec

-----------------------------------------------------------------------------
(* The types of a stream.                                                  *)

Reached == {"none", "over", "end"} \union {Stages[i] : i \in DOMAIN Stages}
\* A worker, and how many events may be in its queue.
WorkerOK(rec) ==
  /\ rec.at \in Reached
  /\ rec.todo \in Seq(Models) /\ rec.calling \in BOOLEAN /\ rec.attempt \in 0..2
  /\ rec.outcome \in Endings \union {"running"}
  /\ rec.reported \in Models \union {NoModel} /\ rec.own \in Models \union {NoModel}
  /\ rec.sensitive \in BOOLEAN /\ rec.alone \in BOOLEAN
Room(at) == IF at = "end" THEN MaxWaiting + 3 ELSE IF at = "over" THEN MaxWaiting + 1 ELSE MaxWaiting

WorkersOK == \A r \in Runs : WorkerOK(run[r]) /\ Len(queue[r]) <= Room(run[r].at)
ServiceOK == /\ unavailable \subseteq Models
             /\ lastRoute \in Models \union {NoModel} /\ lastModel \in Models \union {NoModel}
TabOK == latest \in Runs \union {0} /\ tab \in Runs \union {0} /\ shown \in Runs \union {0}
StreamTypes == WorkersOK /\ ServiceOK /\ TabOK

\* Ten stages, and what follows one.
LEMMA StagesReached ==
  /\ \A i \in 1..10 : Stages[i] \in Reached
  /\ \A s \in {"identify", "fuse", "sections"} \union Calling :
       After(s) \in Reached /\ s \in Reached
<1>1. Len(Stages) = 10 /\ DOMAIN Stages = 1..10
  BY DEF Stages
<1>2. \A i \in 1..10 : Stages[i] \in Reached
  BY <1>1 DEF Reached
<1>3. ASSUME NEW s \in {"identify", "fuse", "sections"} \union Calling
      PROVE  After(s) \in Reached /\ s \in Reached
  <2>1. \E j \in DOMAIN Stages : Stages[j] = s
    BY DEF Stages, Calling
  <2> DEFINE i == CHOOSE j \in DOMAIN Stages : Stages[j] = s
  <2>2. i \in 1..10 /\ Stages[i] = s
    BY <1>1, <2>1
  <2>3. After(s) = IF i = Len(Stages) THEN "over" ELSE Stages[i + 1]
    BY DEF After
  <2> HIDE DEF i
  <2>4. i # 10
    BY <2>2 DEF Stages, Calling
  <2>5. i + 1 \in 1..10 /\ After(s) = Stages[i + 1]
    BY <1>1, <2>2, <2>3, <2>4
  <2> QED
    BY <1>2, <2>2, <2>5
<1> QED
  BY <1>2, <1>3

\* The models a call may go to.
LEMMA CallsModels ==
  ASSUME NEW rec, rec.at \in Calling
  PROVE  ModelsToTry(rec) \in Seq(Models)
<1>1. TaskOf(rec) \in Tasks
  BY StreamAssumption DEF TaskOf, Calling
<1>2. SelectedModel(rec) \in Models /\ DefaultModel \in Models
  BY <1>1 DEF SelectedModel, Models
<1> QED
  BY <1>2 DEF ModelsToTry

\* The models that are left to try.
LEMMA TriableModels ==
  ASSUME NEW todo \in Seq(Models)
  PROVE  /\ Triable(todo) \in Seq(Models)
         /\ Triable(todo) # <<>> => /\ Head(Triable(todo)) \in Models
                                    /\ Tail(Triable(todo)) \in Seq(Models)
<1> DEFINE free == {i \in DOMAIN todo : todo[i] \notin unavailable}
<1>1. Triable(todo) = IF free = {} THEN <<>> ELSE SubSeq(todo, Min(free), Len(todo))
  BY DEF Triable
<1>2. ASSUME free # {} PROVE Min(free) \in 1..Len(todo)
  <2>1. free \in SUBSET (1..Len(todo)) /\ Len(todo) \in Nat
    OBVIOUS
  <2>2. Min(free) \in free
    <3> HIDE DEF free
    <3> QED
      BY <1>2, <2>1, LeastExists
  <2> QED
    BY <2>1, <2>2
<1> HIDE DEF free
<1>3. Triable(todo) \in Seq(Models)
  <2>1. CASE free = {}
    BY <1>1, <2>1
  <2>2. CASE free # {}
    BY <1>1, <1>2, <2>2
  <2> QED
    BY <2>1, <2>2
<1> QED
  BY <1>3

\* A worker's step that leaves the other workers alone.
LEMMA WorkerTypes ==
  ASSUME StreamShape, StreamTypes, NEW r \in Runs, NEW rec,
         run' = [run EXCEPT ![r] = rec], WorkerOK(rec),
         Len(queue'[r]) <= Room(rec.at), \A o \in Runs \ {r} : queue'[o] = queue[o],
         ServiceOK', latest' \in Runs \union {0}, UNCHANGED <<tab, shown>>
  PROVE  StreamTypes'
<1>1. \A o \in Runs : run'[o] = IF o = r THEN rec ELSE run[o]
  BY DEF StreamShape
<1>2. WorkersOK'
  BY <1>1 DEF WorkersOK, WorkerOK, StreamTypes
<1>3. TabOK'
  BY DEF TabOK, StreamTypes
<1> QED
  BY <1>2, <1>3 DEF StreamTypes

\* The next stage.
LEMMA AdvanceTypes ==
  ASSUME StreamShape, StreamTypes, NEW r \in Runs, NEW rec, Advance(r, rec), WorkerOK(rec),
         DOMAIN rec = Fields, rec.at \in {"identify", "fuse", "sections"} \union Calling,
         ServiceOK', UNCHANGED <<latest, tab, shown>>
  PROVE  StreamTypes'
<1> DEFINE new == [rec EXCEPT !.at = After(rec.at), !.calling = FALSE, !.attempt = 0, !.todo = <<>>]
<1>1. After(rec.at) \in Reached /\ After(rec.at) \notin {"over", "end"}
  BY StagesReached, NextStage
<1>2. WorkerOK(new) /\ new.at = After(rec.at)
  BY <1>1 DEF WorkerOK, Fields
<1>3. /\ run' = [run EXCEPT ![r] = new] /\ Put(r, <<"progress">>)
      /\ Len(queue[r]) < MaxWaiting
  BY DEF Advance
<1> HIDE DEF new
<1>4. MaxWaiting \in Nat /\ queue[r] \in Seq(Events) /\ queue[r] \o <<"progress">> \in Seq(Events)
      /\ Len(queue[r] \o <<"progress">>) = Len(queue[r]) + 1
  BY StreamAssumption DEF StreamShape, Events
<1>5. Len(queue'[r]) <= Room(new.at) /\ \A o \in Runs \ {r} : queue'[o] = queue[o]
  <2>1. Room(new.at) = MaxWaiting
    BY <1>1, <1>2 DEF Room
  <2>2. /\ queue'[r] = IF reader[r] = "open" THEN queue[r] \o <<"progress">> ELSE <<>>
        /\ \A o \in Runs \ {r} : queue'[o] = queue[o]
    BY <1>3, <1>4, PutShape
  <2>3. CASE reader[r] = "open"
    BY <1>3, <1>4, <2>1, <2>2, <2>3
  <2>4. CASE reader[r] # "open"
    <3>1. Len(queue'[r]) = 0
      BY <2>2, <2>4
    <3> QED
      BY <1>4, <2>1, <2>2, <3>1
  <2> QED
    BY <2>3, <2>4
<1>6. latest' \in Runs \union {0}
  BY DEF StreamTypes, TabOK
<1> QED
  BY <1>2, <1>3, <1>5, <1>6, WorkerTypes

\* A worker's step that says nothing.
LEMMA SilentTypes ==
  ASSUME StreamShape, StreamTypes, NEW r \in Runs, NEW rec,
         run' = [run EXCEPT ![r] = rec], WorkerOK(rec), queue' = queue,
         rec.at = run[r].at \/ (rec.at = "over" /\ run[r].at # "end"),
         ServiceOK', UNCHANGED <<latest, tab, shown>>
  PROVE  StreamTypes'
<1>1. MaxWaiting \in Nat /\ Len(queue[r]) \in Nat
  BY StreamAssumption DEF StreamShape
<1>2. Len(queue'[r]) <= Room(rec.at)
  BY <1>1 DEF StreamTypes, WorkersOK, Room
<1>3. latest' \in Runs \union {0}
  BY DEF StreamTypes, TabOK
<1> QED
  BY <1>2, <1>3, WorkerTypes

\* A stage without a model: identification, gathering, the other sections,
\* what may be skipped, and what may break.
LEMMA StageTypes ==
  ASSUME StreamShape, EndingInv, StreamTypes, NEW r \in Runs,
         \/ Identify(r) \/ NotFound(r) \/ Gather(r) \/ Sections(r) \/ Breaks(r) \/ Skip(r)
  PROVE  StreamTypes'
<1>1. WorkerOK(run[r]) /\ DOMAIN run[r] = Fields
  BY DEF StreamTypes, WorkersOK, StreamShape
<1>2. ServiceOK' /\ UNCHANGED <<latest, tab, shown>>
  <2>1. /\ unavailable' = unavailable /\ lastModel' = lastModel
        /\ lastRoute' \in {lastRoute, NoModel}
        /\ UNCHANGED <<latest, tab, shown>>
    BY DEF Identify, NotFound, Gather, Sections, Breaks, Skip, Plain, service
  <2> QED
    BY <2>1 DEF StreamTypes, ServiceOK
<1>3. CASE Identify(r) \/ Gather(r) \/ Sections(r) \/ Skip(r)
  <2>1. Advance(r, run[r]) /\ run[r].at \in {"identify", "fuse", "sections"} \union Calling
    BY <1>3 DEF Identify, Gather, Sections, Skip, Plain, Calling
  <2> QED
    BY <1>1, <1>2, <2>1, AdvanceTypes
<1>4. CASE NotFound(r)
  <2> DEFINE rec == [run[r] EXCEPT !.at = "over", !.outcome = "complete"]
  <2>1. run' = [run EXCEPT ![r] = rec] /\ queue' = queue /\ run[r].at # "end"
    BY <1>4 DEF NotFound
  <2>2. WorkerOK(rec) /\ rec.at = "over"
    BY <1>1 DEF WorkerOK, Fields, Endings, Reached
  <2> HIDE DEF rec
  <2> QED
    BY <1>2, <2>1, <2>2, SilentTypes
<1>5. CASE Breaks(r)
  <2> DEFINE rec == [run[r] EXCEPT !.at = "over", !.outcome = "error", !.calling = FALSE]
  <2>1. run' = [run EXCEPT ![r] = rec] /\ queue' = queue /\ run[r].at # "end"
    BY <1>5 DEF Breaks, Raise
  <2>2. WorkerOK(rec) /\ rec.at = "over"
    BY <1>1 DEF WorkerOK, Fields, Endings, Reached
  <2> HIDE DEF rec
  <2> QED
    BY <1>2, <2>1, <2>2, SilentTypes
<1> QED
  BY <1>3, <1>4, <1>5

\* A call: an answer, a model that is written off, a failure.
LEMMA CallTypes ==
  ASSUME StreamShape, EndingInv, StreamTypes, NEW r \in Runs,
         \/ Classify(r) \/ Generate(r) \/ Criticize(r) \/ Target(r) \/ Review(r) \/ Assess(r)
         \/ Answered(r) \/ WrittenOff(r) \/ CallFails(r)
  PROVE  StreamTypes'
<1>1. WorkerOK(run[r]) /\ DOMAIN run[r] = Fields
  BY DEF StreamTypes, WorkersOK, StreamShape
<1>2. UNCHANGED <<latest, tab, shown>>
  BY DEF Classify, Generate, Criticize, Target, Review, Assess, StartCall, Answered, WrittenOff,
         CallFails
<1>3. ASSUME NEW m \in Models \union {NoModel}, Record(m), unavailable' = unavailable
      PROVE  ServiceOK'
  BY <1>3 DEF Record, StreamTypes, ServiceOK
<1>4. ASSUME NEW m \in Models \union {NoModel}, ServiceOK', run[r].at \in Calling,
             Advance(r, [run[r] EXCEPT !.own = m])
      PROVE  StreamTypes'
  <2> DEFINE rec == [run[r] EXCEPT !.own = m]
  <2>1. WorkerOK(rec) /\ DOMAIN rec = Fields /\ rec.at = run[r].at
    BY <1>1 DEF WorkerOK, Fields
  <2>2. Advance(r, rec)
    BY <1>4
  <2> HIDE DEF rec
  <2> QED
    BY <1>2, <1>4, <2>1, <2>2, AdvanceTypes
<1>5. ASSUME NEW m \in Models \union {NoModel}, NEW attempt \in 0..1, ServiceOK', Again(r, m, attempt)
      PROVE  StreamTypes'
  <2> DEFINE rec == [run[r] EXCEPT !.own = m, !.attempt = attempt, !.calling = FALSE, !.todo = <<>>]
  <2>1. WorkerOK(rec) /\ rec.at = run[r].at
    BY <1>1 DEF WorkerOK, Fields
  <2>2. run' = [run EXCEPT ![r] = rec] /\ queue' = queue
    BY <1>5 DEF Again
  <2> HIDE DEF rec
  <2> QED
    BY <1>2, <1>5, <2>1, <2>2, SilentTypes
<1>6. CASE \/ Classify(r) \/ Generate(r) \/ Criticize(r) \/ Target(r) \/ Review(r) \/ Assess(r)
  <2> DEFINE rec == [run[r] EXCEPT !.calling = TRUE, !.todo = ModelsToTry(run[r])]
  <2>1. /\ run' = [run EXCEPT ![r] = rec] /\ queue' = queue /\ run[r].at \in Calling
        /\ UNCHANGED <<unavailable, lastRoute, lastModel>>
    BY <1>6 DEF Classify, Generate, Criticize, Target, Review, Assess, StartCall, Calling, service
  <2>2. WorkerOK(rec) /\ rec.at = run[r].at
    BY <1>1, <2>1, CallsModels DEF WorkerOK, Fields
  <2>3. ServiceOK'
    BY <2>1 DEF StreamTypes, ServiceOK
  <2> HIDE DEF rec
  <2> QED
    BY <1>2, <2>1, <2>2, <2>3, SilentTypes
<1>7. CASE Answered(r)
  <2> DEFINE m == Head(Triable(run[r].todo))
  <2>1. m \in Models \union {NoModel}
    BY <1>1, <1>7, TriableModels DEF WorkerOK, Answered
  <2>2. /\ Record(m) /\ unavailable' = unavailable /\ run[r].calling
        /\ Advance(r, [run[r] EXCEPT !.own = m]) \/ Again(r, m, 1) \/ Again(r, m, 0)
    BY <1>7 DEF Answered
  <2>3. run[r].at \in Calling
    BY <2>2 DEF EndingInv, Working, Calling
  <2> HIDE DEF m
  <2> QED
    BY <1>3, <1>4, <1>5, <2>1, <2>2, <2>3
<1>8. CASE WrittenOff(r)
  <2> DEFINE rec == [run[r] EXCEPT !.todo = Tail(Triable(run[r].todo))]
  <2>1. /\ Head(Triable(run[r].todo)) \in Models /\ Tail(Triable(run[r].todo)) \in Seq(Models)
    BY <1>1, <1>8, TriableModels DEF WorkerOK, WrittenOff
  <2>2. /\ run' = [run EXCEPT ![r] = rec] /\ queue' = queue
        /\ unavailable' = unavailable \union {Head(Triable(run[r].todo))}
        /\ UNCHANGED <<lastRoute, lastModel>>
    BY <1>8 DEF WrittenOff
  <2>3. WorkerOK(rec) /\ rec.at = run[r].at
    BY <1>1, <2>1 DEF WorkerOK, Fields
  <2>4. ServiceOK'
    BY <2>1, <2>2 DEF StreamTypes, ServiceOK
  <2> HIDE DEF rec
  <2> QED
    BY <1>2, <2>2, <2>3, <2>4, SilentTypes
<1>9. CASE CallFails(r)
  <2>1. /\ Record(NoModel) /\ unavailable' = unavailable /\ run[r].calling
        /\ \/ Advance(r, [run[r] EXCEPT !.own = NoModel])
           \/ Again(r, NoModel, 1) \/ Again(r, NoModel, 0) \/ Raise(r)
    BY <1>9 DEF CallFails
  <2>2. run[r].at \in Calling
    BY <2>1 DEF EndingInv, Working, Calling
  <2>3. ServiceOK'
    BY <1>3, <2>1
  <2>4. CASE Raise(r)
    <3> DEFINE rec == [run[r] EXCEPT !.at = "over", !.outcome = "error", !.calling = FALSE]
    <3>1. run' = [run EXCEPT ![r] = rec] /\ queue' = queue /\ run[r].at # "end"
      BY <2>2, <2>4 DEF Raise, Calling
    <3>2. WorkerOK(rec) /\ rec.at = "over"
      BY <1>1 DEF WorkerOK, Fields, Endings, Reached
    <3> HIDE DEF rec
    <3> QED
      BY <1>2, <2>3, <3>1, <3>2, SilentTypes
  <2> QED
    BY <1>4, <1>5, <2>1, <2>2, <2>3, <2>4
<1> QED
  BY <1>6, <1>7, <1>8, <1>9

\* The result is published, and the last two events are put.
LEMMA EndTypes ==
  ASSUME StreamShape, StreamTypes, NEW r \in Runs,
         Finish(r) \/ \E persisted \in BOOLEAN : Publish(r, persisted)
  PROVE  StreamTypes'
<1>1. /\ WorkerOK(run[r]) /\ DOMAIN run[r] = Fields /\ queue[r] \in Seq(Events)
      /\ Len(queue[r]) <= Room(run[r].at) /\ MaxWaiting \in Nat
  BY StreamAssumption DEF StreamTypes, WorkersOK, StreamShape
<1>2. ServiceOK' /\ UNCHANGED <<tab, shown>>
  BY DEF Finish, Publish, service, StreamTypes, ServiceOK
<1>3. latest' \in Runs \union {0}
  BY DEF Finish, Publish, StreamTypes, TabOK
<1>4. CASE Finish(r)
  <2> DEFINE rec == [Idle EXCEPT !.at = "end"]
             evs == <<run[r].outcome, "end">>
  <2>1. run' = [run EXCEPT ![r] = rec] /\ run[r].at = "over" /\ Put(r, evs)
    BY <1>4 DEF Finish
  <2>2. WorkerOK(rec) /\ rec.at = "end"
    BY DEF WorkerOK, Idle, Reached, Endings
  <2>3. queue' = [queue EXCEPT ![r] = IF reader[r] = "open" THEN queue[r] \o evs ELSE <<>>]
    BY <2>1 DEF Put
  <2>4. Len(queue[r] \o evs) = Len(queue[r]) + 2 /\ Len(queue[r]) \in Nat
    <3>1. /\ evs \in Seq({run[r].outcome, "end"} \union Events) /\ Len(evs) = 2
          /\ queue[r] \in Seq({run[r].outcome, "end"} \union Events)
      BY <1>1
    <3> QED
      BY <3>1
  <2>5. Len(queue'[r]) <= Room(rec.at) /\ \A o \in Runs \ {r} : queue'[o] = queue[o]
    BY <1>1, <2>1, <2>2, <2>3, <2>4 DEF Room, StreamShape
  <2> HIDE DEF rec
  <2> QED
    BY <1>2, <1>3, <2>1, <2>2, <2>5, WorkerTypes
<1>5. CASE \E persisted \in BOOLEAN : Publish(r, persisted)
  <2> DEFINE rec == [run[r] EXCEPT !.at = "over", !.outcome = "complete",
                                   !.reported = ActualModel]
  <2>1. run' = [run EXCEPT ![r] = rec] /\ run[r].at = "publish" /\ Put(r, <<"progress">>)
    BY <1>5 DEF Publish
  <2>2. WorkerOK(rec) /\ rec.at = "over"
    BY <1>1 DEF WorkerOK, Fields, Endings, Reached, ActualModel, StreamTypes, ServiceOK
  <2>3. queue[r] \o <<"progress">> \in Seq(Events)
        /\ Len(queue[r] \o <<"progress">>) = Len(queue[r]) + 1 /\ Len(queue[r]) \in Nat
    BY <1>1 DEF Events
  <2>4. Len(queue'[r]) <= Room(rec.at) /\ \A o \in Runs \ {r} : queue'[o] = queue[o]
    <3>1. Room(rec.at) = MaxWaiting + 1 /\ Room(run[r].at) = MaxWaiting
      BY <2>1, <2>2 DEF Room
    <3>2. /\ queue'[r] = IF reader[r] = "open" THEN queue[r] \o <<"progress">> ELSE <<>>
          /\ \A o \in Runs \ {r} : queue'[o] = queue[o]
      BY <2>1, <2>3, PutShape
    <3>3. CASE reader[r] = "open"
      BY <1>1, <2>3, <3>1, <3>2, <3>3
    <3>4. CASE reader[r] # "open"
      <4>1. Len(queue'[r]) = 0
        BY <3>2, <3>4
      <4> QED
        BY <1>1, <3>1, <3>2, <4>1
    <3> QED
      BY <3>3, <3>4
  <2> HIDE DEF rec
  <2> QED
    BY <1>2, <1>3, <2>1, <2>2, <2>4, WorkerTypes
<1> QED
  BY <1>4, <1>5

\* The response and the tab only take events away.
LEMMA TabTypes ==
  ASSUME StreamShape, StreamTypes, NEW r \in Runs,
         Yield(r) \/ Timeout(r) \/ Settle(r) \/ Abort(r)
  PROVE  StreamTypes'
<1>1. run' = run /\ UNCHANGED <<unavailable, lastRoute, lastModel, latest>>
  BY DEF Yield, Timeout, Settle, Abort, service
<1>2. tab' \in {tab, 0} /\ shown' \in {shown, r}
  BY DEF Yield, Timeout, Settle, Abort
<1>3. ASSUME NEW o \in Runs PROVE Len(queue'[o]) <= Room(run[o].at)
  <2>1. /\ queue[o] \in Seq(Events) /\ Len(queue[o]) <= Room(run[o].at)
        /\ MaxWaiting \in Nat /\ Room(run[o].at) \in Nat
    BY StreamAssumption DEF StreamTypes, WorkersOK, StreamShape, Room
  <2>2. \/ queue'[o] = queue[o] \/ queue'[o] = <<>>
        \/ queue[o] # <<>> /\ queue'[o] = Tail(queue[o])
    BY DEF Yield, Timeout, Settle, Abort, Forget, StreamShape
  <2>3. CASE queue'[o] = <<>>
    <3>1. Len(queue'[o]) = 0
      BY <2>3
    <3> QED
      BY <2>1, <3>1
  <2>4. CASE queue[o] # <<>> /\ queue'[o] = Tail(queue[o])
    <3>1. Len(Tail(queue[o])) = Len(queue[o]) - 1
      BY <2>1, <2>4
    <3>2. Len(queue[o]) \in Nat
      BY <2>1
    <3> QED
      BY <2>1, <2>4, <3>1, <3>2
  <2> QED
    BY <2>1, <2>2, <2>3, <2>4
<1>4. WorkersOK'
  BY <1>1, <1>3 DEF WorkersOK, WorkerOK, StreamTypes
<1>5. ServiceOK' /\ TabOK'
  BY <1>1, <1>2 DEF ServiceOK, TabOK, StreamTypes
<1> QED
  BY <1>4, <1>5 DEF StreamTypes

\* A query starts one worker and marks those it is not alone with.
LEMMA QueryTypes ==
  ASSUME StreamShape, StreamTypes, NEW r \in Runs, NEW sensitive \in Sensitive, Query(r, sensitive)
  PROVE  StreamTypes'
<1> DEFINE others == \A o \in Runs : ~ Active(o)
           rec == [Idle EXCEPT !.at = "identify", !.sensitive = sensitive, !.alone = others]
           Marked(o) == [run[o] EXCEPT !.alone = FALSE]
<1>1. run' = [o \in Runs |-> IF o = r THEN rec ELSE IF Active(o) THEN Marked(o) ELSE run[o]]
  BY DEF Query
<1>2. /\ tab' = r /\ queue' = queue /\ UNCHANGED <<unavailable, lastRoute, lastModel, latest, shown>>
      /\ run[r].at = "none"
  BY DEF Query, service
<1>3. others \in BOOLEAN /\ sensitive \in BOOLEAN
  BY StreamAssumption
<1>4. WorkerOK(rec) /\ rec.at = "identify"
  <2> HIDE DEF others
  <2>1. "identify" \in Reached
    BY StagesReached
  <2> QED
    BY <1>3, <2>1 DEF WorkerOK, Idle
<1>5. ASSUME NEW o \in Runs PROVE WorkerOK(Marked(o)) /\ Marked(o).at = run[o].at
  BY DEF StreamTypes, WorkersOK, WorkerOK, StreamShape, Fields
<1> HIDE DEF rec, Marked, others
<1>6. ASSUME NEW o \in Runs PROVE WorkerOK(run'[o]) /\ Room(run'[o].at) = Room(run[o].at)
  <2>1. CASE o = r
    BY <1>1, <1>2, <1>4, <2>1 DEF Room
  <2>2. CASE o # r
    BY <1>1, <1>5, <2>2 DEF StreamTypes, WorkersOK
  <2> QED
    BY <2>1, <2>2
<1>7. WorkersOK'
  BY <1>2, <1>6 DEF WorkersOK, WorkerOK, Room, StreamTypes
<1>8. ServiceOK' /\ TabOK'
  BY <1>2 DEF ServiceOK, TabOK, StreamTypes
<1> QED
  BY <1>7, <1>8 DEF StreamTypes

\* No step breaks the types.
LEMMA StreamTypesNext ==
  ASSUME StreamShape, EndingInv, StreamTypes, [StreamNext]_streamVars
  PROVE  StreamTypes'
<1>1. CASE UNCHANGED streamVars
  <2>1. UNCHANGED <<run, queue, unavailable, lastRoute, lastModel, latest, tab, shown>>
    BY <1>1 DEF streamVars, service
  <2> QED
    BY <2>1 DEF StreamTypes, WorkersOK, WorkerOK, Room, ServiceOK, TabOK
<1>2. CASE StreamNext
  <2> PICK r \in Runs :
        \/ \E sensitive \in Sensitive : Query(r, sensitive)
        \/ Yield(r) \/ Timeout(r) \/ Settle(r) \/ Abort(r)
        \/ Identify(r) \/ NotFound(r) \/ Gather(r) \/ Sections(r) \/ Breaks(r)
        \/ Classify(r) \/ Generate(r) \/ Criticize(r) \/ Target(r) \/ Review(r) \/ Assess(r)
        \/ Skip(r) \/ Answered(r) \/ WrittenOff(r) \/ CallFails(r)
        \/ \E persisted \in BOOLEAN : Publish(r, persisted)
        \/ Finish(r)
    BY <1>2 DEF StreamNext
  <2> QED
    BY QueryTypes, TabTypes, StageTypes, CallTypes, EndTypes
<1> QED
  BY <1>1, <1>2

\* For any number of requests, tasks and models: workers, records of calls and
\* answers keep their types, and no queue holds more than the bound, the last
\* progress and the two closing events.
THEOREM StreamTypeCorrect == StreamSpec => []StreamTypeOK
<1>1. StreamInit => StreamTypes
  <2> SUFFICES ASSUME StreamInit PROVE StreamTypes
    OBVIOUS
  <2>1. WorkerOK(Idle) /\ Idle.at = "none"
    BY DEF WorkerOK, Idle, Reached, Endings
  <2>2. \A r \in Runs : run[r] = Idle /\ queue[r] = <<>>
    BY DEF StreamInit
  <2>3. WorkersOK
    BY <2>1, <2>2, StreamAssumption DEF WorkersOK, Room
  <2>4. ServiceOK /\ TabOK
    BY DEF StreamInit, ServiceOK, TabOK
  <2> QED
    BY <2>3, <2>4 DEF StreamTypes
<1>2. ASSUME StreamShape, EndingInv, StreamTypes PROVE StreamTypeOK
  <2>1. ASSUME NEW r \in Runs
        PROVE  /\ WorkerOK(run[r]) /\ Len(queue[r]) <= MaxWaiting + 3
               /\ seen[r] \in Seq(Endings \union {"progress"})
    <3>1. WorkerOK(run[r]) /\ Len(queue[r]) <= MaxWaiting + 3
      <4>1. Len(queue[r]) \in Nat /\ Len(queue[r]) <= Room(run[r].at) /\ MaxWaiting \in Nat
        BY <1>2, StreamAssumption DEF StreamShape, StreamTypes, WorkersOK
      <4> QED
        BY <1>2, <4>1 DEF Room, StreamTypes, WorkersOK
    <3>2. seen[r] \in Seq(Events) /\ Told(r) /\ reader[r] \in {"none", "open", "ended", "gone"}
      BY <1>2 DEF StreamShape, EndingInv
    <3>3. seen[r] = <<>> \/ Clean(seen[r]) \/ Closed(seen[r])
      BY <3>2 DEF Told
    <3>4. \A i \in 1..Len(seen[r]) : seen[r][i] \in Endings \union {"progress"}
      BY <3>2, <3>3 DEF Clean, Closed
    <3>5. seen[r] \in Seq(Endings \union {"progress"})
      BY <3>2, <3>4
    <3> QED
      BY <3>1, <3>5
  <2>2. ServiceOK /\ TabOK /\ reader \in [Runs -> {"none", "open", "ended", "gone"}]
    BY <1>2 DEF StreamTypes, StreamShape
  <2>3. \A r \in Runs :
          /\ run[r].at \in Reached
          /\ run[r].todo \in Seq(Models) /\ run[r].calling \in BOOLEAN
          /\ run[r].attempt \in 0..2
          /\ run[r].outcome \in Endings \union {"running"}
          /\ {run[r].reported, run[r].own} \subseteq Models \union {NoModel}
          /\ {run[r].sensitive, run[r].alone} \subseteq BOOLEAN
    BY <2>1 DEF WorkerOK
  <2> QED
    BY <2>1, <2>2, <2>3 DEF StreamTypeOK, ServiceOK, TabOK, Reached
<1>3. StreamShape /\ EndingInv /\ StreamTypes => StreamTypeOK
  BY <1>2
<1>4. StreamShape /\ EndingInv /\ StreamTypes /\ [StreamNext]_streamVars => StreamTypes'
  BY StreamTypesNext
<1> QED
  BY <1>1, <1>3, <1>4, InitEnding, EndingStep, PTL DEF StreamSpec

-----------------------------------------------------------------------------
(* The paths of a flow.                                                    *)

\* One level of discover_paths from the one before.
Longer(arrows, V) == UNION {{Append(w, n) : n \in Unvisited(arrows, w)} : w \in V}

\* The walks of discover_paths, level by level.
WalksFrom(arrows, root, depth) ==
  LET walks[k \in 0..depth] ==
        IF k = 0 THEN {<<root>>} ELSE Longer(arrows, walks[k - 1])
  IN  walks

\* A walk along the arrows that meets no node twice.
IsWalk(arrows, nodes, root, w) ==
  /\ w \in Seq(nodes) /\ w # <<>> /\ w[1] = root
  /\ \A i, j \in 1..Len(w) : w[i] = w[j] => i = j
  /\ \A i \in 1..Len(w) - 1 : <<w[i], w[i + 1]>> \in arrows

AreLevels(arrows, nodes, root, depth, W) ==
  /\ W[0] = {<<root>>}
  /\ \A k \in 1..depth : W[k] = Longer(arrows, W[k - 1])
  /\ \A k \in 0..depth : W[k] \in SUBSET Seq(nodes)

AllWalks(arrows, nodes, root, depth, W) ==
  \A k \in 0..depth : \A w : w \in W[k] <=> IsWalk(arrows, nodes, root, w) /\ Len(w) = k + 1

\* What a walk may go on to are nodes.
LEMMA UnvisitedAreNodes ==
  ASSUME NEW nodes, NEW arrows \in SUBSET (nodes \X nodes), NEW w
  PROVE  /\ Unvisited(arrows, w) \subseteq nodes
         /\ \A n \in nodes : n \in Unvisited(arrows, w) <=> <<Leaf(w), n>> \in arrows /\ n \notin NamesOn(w)
<1>1. \A l \in arrows : l[2] \in nodes /\ l = <<l[1], l[2]>>
  OBVIOUS
<1>2. \A n : n \in Outgoing(arrows, Leaf(w)) <=> \E l \in arrows : l[1] = Leaf(w) /\ l[2] = n
  BY DEF Outgoing
<1> QED
  BY <1>1, <1>2 DEF Unvisited

\* A walk and a node make a sequence again.
LEMMA LongerAreSequences ==
  ASSUME NEW nodes, NEW arrows \in SUBSET (nodes \X nodes), NEW V \in SUBSET Seq(nodes)
  PROVE  Longer(arrows, V) \in SUBSET Seq(nodes)
<1>1. ASSUME NEW w \in V, NEW n \in Unvisited(arrows, w) PROVE Append(w, n) \in Seq(nodes)
  <2>1. n \in nodes /\ w \in Seq(nodes)
    BY UnvisitedAreNodes
  <2> QED
    BY <2>1
<1> QED
  BY <1>1 DEF Longer

\* The levels: the root, and every walk of one level extended.
LEMMA WalksByLevel ==
  ASSUME NEW nodes, NEW arrows \in SUBSET (nodes \X nodes), NEW root \in nodes, NEW depth \in Nat,
         NEW W, W = WalksFrom(arrows, root, depth)
  PROVE  AreLevels(arrows, nodes, root, depth, W)
<1> DEFINE D == SUBSET Seq(nodes)
           b == {<<root>>}
           step == [V \in D |-> Longer(arrows, V)]
<1>1. b \in D
  OBVIOUS
<1>2. step \in [D -> D]
  <2> HIDE DEF D
  <2>1. ASSUME NEW V \in D PROVE Longer(arrows, V) \in D
    BY LongerAreSequences DEF D
  <2> QED
    BY <2>1
<1> HIDE DEF D, b
<1>4. PICK f \in [0..depth -> D] :
        f = [k \in 0..depth |-> IF k = 0 THEN b ELSE step[f[k - 1]]]
  <2> HIDE DEF step
  <2> QED
    BY SMTT(60), <1>1, <1>2, StepsExist
<1>5. ASSUME NEW k \in 0..depth, k # 0 PROVE step[f[k - 1]] = Longer(arrows, f[k - 1])
  <2>1. k - 1 \in 0..depth
    BY <1>5
  <2> QED
    BY <2>1
<1>6. f = [k \in 0..depth |-> IF k = 0 THEN b ELSE Longer(arrows, f[k - 1])]
  <2> HIDE DEF step
  <2> QED
    BY <1>4, <1>5
<1>7. W = CHOOSE g : g = [k \in 0..depth |-> IF k = 0 THEN b ELSE Longer(arrows, g[k - 1])]
  BY DEF WalksFrom, b
<1>8. W = [k \in 0..depth |-> IF k = 0 THEN b ELSE Longer(arrows, W[k - 1])]
  BY <1>6, <1>7
<1>9. ASSUME NEW k \in 1..depth PROVE W[k] = Longer(arrows, W[k - 1])
  <2>1. k \in 0..depth /\ k # 0
    OBVIOUS
  <2> HIDE DEF step
  <2> QED
    BY <1>8, <2>1
<1>10. W[0] = b
  <2>1. 0 \in 0..depth
    OBVIOUS
  <2> QED
    BY <1>8, <2>1
<1>11. \A k \in Nat : k <= depth => W[k] \in D
  <2> DEFINE S == {i \in Nat : i <= depth => W[i] \in D}
  <2>1. 0 \in S
    BY <1>1, <1>10
  <2>2. ASSUME NEW k \in Nat, k \in S PROVE k + 1 \in S
    <3>1. CASE k + 1 <= depth
      <4>1. W[k] \in D /\ W[k + 1] = Longer(arrows, W[k])
        BY <2>2, <3>1, <1>9
      <4> QED
        BY <4>1, LongerAreSequences DEF D
    <3>2. CASE ~ (k + 1 <= depth)
      BY <3>2
    <3> QED
      BY <3>1, <3>2
  <2>3. \A k \in Nat : k \in S
    <3> HIDE DEF S
    <3> QED
      BY <2>1, <2>2, SetInduction
  <2> QED
    BY <2>3
<1>12. \A k \in 0..depth : W[k] \in SUBSET Seq(nodes)
  BY <1>11 DEF D
<1> QED
  BY <1>9, <1>10, <1>12 DEF b, AreLevels

\* Another node makes a walk longer exactly if the search has it still to visit.
LEMMA LongerWalk ==
  ASSUME NEW nodes, NEW arrows \in SUBSET (nodes \X nodes), NEW root,
         NEW v, IsWalk(arrows, nodes, root, v), NEW n \in nodes
  PROVE  /\ IsWalk(arrows, nodes, root, Append(v, n)) <=> n \in Unvisited(arrows, v)
         /\ Len(Append(v, n)) = Len(v) + 1
<1> DEFINE w == Append(v, n)
           k == Len(v)
<1>1. /\ v \in Seq(nodes) /\ k \in Nat /\ k >= 1
      /\ w \in Seq(nodes) /\ Len(w) = k + 1 /\ w[k + 1] = n
      /\ \A i \in 1..k : w[i] = v[i]
  BY DEF IsWalk
<1> HIDE DEF w
<1>2. ASSUME n \in Unvisited(arrows, v) PROVE IsWalk(arrows, nodes, root, w)
  <2>1. <<v[k], n>> \in arrows /\ \A i \in 1..k : v[i] # n
    BY <1>1, <1>2, UnvisitedAreNodes DEF Leaf, NamesOn
  <2>2. \A i, j \in 1..Len(w) : w[i] = w[j] => i = j
    BY <1>1, <2>1 DEF IsWalk
  <2>3. \A i \in 1..Len(w) - 1 : <<w[i], w[i + 1]>> \in arrows
    BY SMTT(60), <1>1, <2>1 DEF IsWalk
  <2>4. w # <<>> /\ w[1] = root
    BY <1>1 DEF IsWalk
  <2> QED
    BY <1>1, <2>2, <2>3, <2>4 DEF IsWalk
<1>3. ASSUME IsWalk(arrows, nodes, root, w) PROVE n \in Unvisited(arrows, v)
  <2>1. <<v[k], n>> \in arrows
    BY <1>1, <1>3 DEF IsWalk
  <2>2. \A i \in 1..k : v[i] # n
    BY <1>1, <1>3 DEF IsWalk
  <2> QED
    BY <1>1, <2>1, <2>2, UnvisitedAreNodes DEF Leaf, NamesOn
<1> QED
  BY <1>1, <1>2, <1>3 DEF w

\* The walks of level k are those of k + 1 nodes.
LEMMA WalksAreWalks ==
  ASSUME NEW nodes, NEW arrows \in SUBSET (nodes \X nodes), NEW root \in nodes, NEW depth \in Nat,
         NEW W, W = WalksFrom(arrows, root, depth)
  PROVE  AllWalks(arrows, nodes, root, depth, W)
<1>1. /\ W[0] = {<<root>>}
      /\ \A k \in 1..depth : W[k] = Longer(arrows, W[k - 1])
      /\ \A k \in 0..depth : W[k] \in SUBSET Seq(nodes)
  <2>1. AreLevels(arrows, nodes, root, depth, W)
    BY WalksByLevel, Zenon
  <2> QED
    BY <2>1 DEF AreLevels
<1> DEFINE Right(k) == \A w : w \in W[k] <=> IsWalk(arrows, nodes, root, w) /\ Len(w) = k + 1
           S == {k \in Nat : k <= depth => Right(k)}
<1>2. Right(0)
  <2>1. ASSUME NEW w, IsWalk(arrows, nodes, root, w), Len(w) = 1 PROVE w = <<root>>
    BY <2>1 DEF IsWalk
  <2>2. IsWalk(arrows, nodes, root, <<root>>) /\ Len(<<root>>) = 1
    BY DEF IsWalk
  <2> QED
    BY <1>1, <2>1, <2>2
<1>3. ASSUME NEW k \in Nat, k + 1 <= depth, Right(k) PROVE Right(k + 1)
  <2>1. W[k + 1] = Longer(arrows, W[k])
    BY <1>1, <1>3
  <2>2. ASSUME NEW v, IsWalk(arrows, nodes, root, v), Len(v) = k + 1,
               NEW n \in Unvisited(arrows, v)
        PROVE  IsWalk(arrows, nodes, root, Append(v, n)) /\ Len(Append(v, n)) = k + 1 + 1
    <3>1. n \in nodes
      BY UnvisitedAreNodes
    <3> QED
      BY <2>2, <3>1, LongerWalk
  <2>3. ASSUME NEW w, IsWalk(arrows, nodes, root, w), Len(w) = k + 1 + 1
        PROVE  \E v : /\ IsWalk(arrows, nodes, root, v) /\ Len(v) = k + 1
                      /\ w[k + 2] \in Unvisited(arrows, v) /\ w = Append(v, w[k + 2])
    <3> DEFINE v == [i \in 1..k + 1 |-> w[i]]
               n == w[k + 2]
    <3>1. /\ v \in Seq(nodes) /\ Len(v) = k + 1 /\ \A i \in 1..k + 1 : v[i] = w[i]
          /\ n \in nodes /\ w \in Seq(nodes)
      BY <2>3 DEF IsWalk
    <3>2. w = Append(v, n)
      BY <2>3, <3>1
    <3> HIDE DEF v
    <3>3. IsWalk(arrows, nodes, root, v)
      BY <2>3, <3>1 DEF IsWalk
    <3>4. n \in Unvisited(arrows, v)
      BY <2>3, <3>1, <3>2, <3>3, LongerWalk
    <3> QED
      BY <3>1, <3>2, <3>3, <3>4
  <2>4. ASSUME NEW w
        PROVE  w \in Longer(arrows, W[k])
               <=> \E v \in W[k] : \E n \in Unvisited(arrows, v) : w = Append(v, n)
    BY DEF Longer
  <2>5. ASSUME NEW w, w \in W[k + 1]
        PROVE  IsWalk(arrows, nodes, root, w) /\ Len(w) = k + 1 + 1
    <3>1. PICK v \in W[k] : \E n \in Unvisited(arrows, v) : w = Append(v, n)
      BY <2>1, <2>4, <2>5
    <3>2. IsWalk(arrows, nodes, root, v) /\ Len(v) = k + 1
      BY <1>3, <3>1
    <3> QED
      BY <2>2, <3>1, <3>2
  <2>6. ASSUME NEW w, IsWalk(arrows, nodes, root, w), Len(w) = k + 1 + 1
        PROVE  w \in W[k + 1]
    BY <1>3, <2>1, <2>3, <2>4, <2>6
  <2> QED
    BY <2>5, <2>6
<1>4. \A k \in Nat : k \in S
  <2> HIDE DEF Right
  <2>1. 0 \in S
    BY <1>2
  <2>2. \A k \in Nat : k \in S => k + 1 \in S
    BY <1>3
  <2> HIDE DEF S
  <2> QED
    BY <2>1, <2>2, SetInduction
<1> QED
  BY <1>4 DEF AllWalks

\* A walk is no longer than there are nodes.
LEMMA WalksAreShort ==
  ASSUME NEW nodes, IsFiniteSet(nodes), NEW arrows, NEW root, NEW w, IsWalk(arrows, nodes, root, w)
  PROVE  /\ Cardinality(nodes) \in Nat /\ Len(w) \in 1..Cardinality(nodes)
         /\ w \in [1..Len(w) -> nodes]
<1>1. w \in [1..Len(w) -> nodes] /\ Len(w) \in Nat /\ Len(w) # 0
  BY DEF IsWalk
<1>2. w \in Injection(1..Len(w), nodes)
  BY <1>1 DEF IsWalk, Injection, IsInjective
<1>3. IsFiniteSet(1..Len(w)) /\ Cardinality(1..Len(w)) = Len(w)
  <2>1. 1 \in Int /\ Len(w) \in Int
    BY <1>1
  <2>2. IsFiniteSet(1..Len(w)) /\ Cardinality(1..Len(w)) = IF 1 > Len(w) THEN 0 ELSE Len(w) - 1 + 1
    BY <2>1, FS_Interval
  <2> QED
    BY <1>1, <2>2
<1>4. Cardinality(1..Len(w)) <= Cardinality(nodes)
  BY <1>2, FS_Injection
<1>5. Cardinality(nodes) \in Nat
  BY FS_CardinalityType
<1> QED
  BY <1>1, <1>3, <1>4, <1>5

\* The simple paths of the reference are the walks of at most depth arrows.
LEMMA SimpleAreWalks ==
  ASSUME NEW nodes, IsFiniteSet(nodes), NEW arrows, NEW root, NEW depth \in Nat, NEW p
  PROVE  p \in SimplePaths(arrows, nodes, root, depth)
         <=> IsWalk(arrows, nodes, root, p) /\ Len(p) <= depth + 1
<1>1. ASSUME IsWalk(arrows, nodes, root, p), Len(p) <= depth + 1
      PROVE  p \in SimplePaths(arrows, nodes, root, depth)
  <2>1. Len(p) \in 1..Cardinality(nodes) /\ p \in [1..Len(p) -> nodes] /\ DOMAIN p = 1..Len(p)
    BY <1>1, WalksAreShort
  <2> QED
    BY <1>1, <2>1 DEF SimplePaths, IsWalk
<1>2. ASSUME p \in SimplePaths(arrows, nodes, root, depth)
      PROVE  IsWalk(arrows, nodes, root, p) /\ Len(p) <= depth + 1
  <2>1. PICK k \in 1..Cardinality(nodes) : p \in [1..k -> nodes]
    BY <1>2 DEF SimplePaths
  <2>2. p \in Seq(nodes) /\ Len(p) = k /\ k \in Nat /\ k >= 1 /\ DOMAIN p = 1..Len(p)
    <3>1. Cardinality(nodes) \in Nat
      BY FS_CardinalityType
    <3>2. k \in Nat /\ k >= 1
      BY <3>1
    <3> QED
      BY <2>1, <3>2
  <2>3. p # <<>>
    BY <2>2
  <2> QED
    BY <1>2, <2>2, <2>3 DEF SimplePaths, IsWalk
<1> QED
  BY <1>1, <1>2

\* What the search finds: walks that end where nothing is left to visit, or at
\* the limit.
LEMMA PathsFound ==
  ASSUME NEW nodes, NEW arrows \in SUBSET (nodes \X nodes), NEW root \in nodes,
         NEW depth \in Nat, NEW w
  PROVE  w \in DiscoverPaths(arrows, root, depth)
         <=> /\ IsWalk(arrows, nodes, root, w) /\ Len(w) <= depth + 1
             /\ Unvisited(arrows, w) = {} \/ Len(w) = depth + 1
<1>0. PICK W : W = WalksFrom(arrows, root, depth)
  OBVIOUS
<1>1. DiscoverPaths(arrows, root, depth)
      = {v \in UNION {W[k] : k \in 0..depth} : Unvisited(arrows, v) = {} \/ Len(v) = depth + 1}
  BY <1>0 DEF DiscoverPaths, WalksFrom, Longer
<1>2. \A k \in 0..depth : \A v : v \in W[k] <=> IsWalk(arrows, nodes, root, v) /\ Len(v) = k + 1
  <2>1. AllWalks(arrows, nodes, root, depth, W)
    BY <1>0, WalksAreWalks, Zenon
  <2> QED
    BY <2>1 DEF AllWalks
<1>3. w \in UNION {W[k] : k \in 0..depth}
      <=> IsWalk(arrows, nodes, root, w) /\ Len(w) <= depth + 1
  <2>1. ASSUME IsWalk(arrows, nodes, root, w), Len(w) <= depth + 1
        PROVE  w \in UNION {W[k] : k \in 0..depth}
    <3>1. Len(w) - 1 \in 0..depth /\ Len(w) - 1 + 1 = Len(w)
      BY <2>1 DEF IsWalk
    <3>2. w \in W[Len(w) - 1]
      BY <1>2, <2>1, <3>1
    <3> QED
      BY <3>1, <3>2
  <2>2. ASSUME w \in UNION {W[k] : k \in 0..depth}
        PROVE  IsWalk(arrows, nodes, root, w) /\ Len(w) <= depth + 1
    <3>1. PICK k \in 0..depth : w \in W[k]
      BY <2>2
    <3>2. IsWalk(arrows, nodes, root, w) /\ Len(w) = k + 1
      BY <1>2, <3>1
    <3> QED
      BY <3>1, <3>2
  <2> QED
    BY <2>1, <2>2
<1> QED
  BY <1>1, <1>3

\* A search along the arrows of any finite flow, which extends every path it has
\* by every node not on it, finds the simple paths that cannot be made longer,
\* and those that have as many arrows as the limit allows.
THEOREM SearchFindsLongestPaths ==
  ASSUME NEW nodes, IsFiniteSet(nodes), NEW arrows \in SUBSET (nodes \X nodes),
         NEW root \in nodes, NEW depth \in Nat
  PROVE  DiscoverPaths(arrows, root, depth) = LongestPaths(arrows, nodes, root, depth)
<1>0. \A w : w \in DiscoverPaths(arrows, root, depth)
             <=> /\ IsWalk(arrows, nodes, root, w) /\ Len(w) <= depth + 1
                 /\ Unvisited(arrows, w) = {} \/ Len(w) = depth + 1
  BY PathsFound, Zenon
<1> DEFINE Simple == SimplePaths(arrows, nodes, root, depth)
<1>4. \A w : w \in Simple <=> IsWalk(arrows, nodes, root, w) /\ Len(w) <= depth + 1
  BY SimpleAreWalks
<1>5. ASSUME NEW w, w \in Simple, Len(w) # depth + 1
      PROVE  Unvisited(arrows, w) = {} <=> \A n \in nodes : Append(w, n) \notin Simple
  <2>1. IsWalk(arrows, nodes, root, w) /\ Len(w) + 1 <= depth + 1
    <3>1. IsWalk(arrows, nodes, root, w) /\ Len(w) <= depth + 1
      BY <1>4, <1>5
    <3> QED
      BY <1>5, <3>1 DEF IsWalk
  <2>2. Unvisited(arrows, w) \subseteq nodes
    BY UnvisitedAreNodes
  <2>3. ASSUME NEW n \in nodes PROVE Append(w, n) \in Simple <=> n \in Unvisited(arrows, w)
    <3>1. /\ IsWalk(arrows, nodes, root, Append(w, n)) <=> n \in Unvisited(arrows, w)
          /\ Len(Append(w, n)) = Len(w) + 1
      BY <2>1, LongerWalk
    <3> HIDE DEF Simple
    <3> QED
      BY <1>4, <2>1, <3>1
  <2> HIDE DEF Simple
  <2> QED
    BY <2>2, <2>3
<1>6. LongestPaths(arrows, nodes, root, depth)
      = {p \in Simple : Len(p) = depth + 1 \/ \A n \in nodes : Append(p, n) \notin Simple}
  BY DEF LongestPaths
<1> HIDE DEF Simple
<1> QED
  BY <1>0, <1>4, <1>5, <1>6

\* There is always a path.
LEMMA SomePathIsFound ==
  ASSUME NEW nodes, NEW arrows \in SUBSET (nodes \X nodes), NEW root \in nodes, NEW depth \in Nat
  PROVE  DiscoverPaths(arrows, root, depth) # {}
<1> SUFFICES ASSUME DiscoverPaths(arrows, root, depth) = {} PROVE FALSE
  OBVIOUS
<1>0. \A w : w \in DiscoverPaths(arrows, root, depth)
             <=> /\ IsWalk(arrows, nodes, root, w) /\ Len(w) <= depth + 1
                 /\ Unvisited(arrows, w) = {} \/ Len(w) = depth + 1
  BY PathsFound, Zenon
<1> DEFINE Have(k) == \E w : IsWalk(arrows, nodes, root, w) /\ Len(w) = k + 1
           S == {k \in Nat : k <= depth => Have(k)}
<1>1. Have(0)
  <2>1. IsWalk(arrows, nodes, root, <<root>>) /\ Len(<<root>>) = 0 + 1
    BY DEF IsWalk
  <2> QED
    BY <2>1
<1>2. ASSUME NEW k \in Nat, k + 1 <= depth, Have(k) PROVE Have(k + 1)
  <2>1. PICK w : IsWalk(arrows, nodes, root, w) /\ Len(w) = k + 1
    BY <1>2
  <2>2. Unvisited(arrows, w) # {}
    BY <1>0, <1>2, <2>1
  <2>3. PICK n \in nodes : n \in Unvisited(arrows, w)
    BY <2>2, UnvisitedAreNodes
  <2>4. IsWalk(arrows, nodes, root, Append(w, n)) /\ Len(Append(w, n)) = k + 1 + 1
    BY <2>1, <2>3, LongerWalk
  <2> QED
    BY <2>4
<1>3. \A k \in Nat : k \in S
  <2> HIDE DEF Have
  <2>1. 0 \in S
    BY <1>1
  <2>2. \A k \in Nat : k \in S => k + 1 \in S
    BY <1>2
  <2> HIDE DEF S
  <2> QED
    BY <2>1, <2>2, SetInduction
<1>4. PICK w : IsWalk(arrows, nodes, root, w) /\ Len(w) = depth + 1
  BY <1>3
<1>5. w \in DiscoverPaths(arrows, root, depth)
  BY <1>0, <1>4
<1> QED
  BY <1>5

\* Sequences of one length over a finite set are finitely many.
LEMMA FinitelyManyTuples ==
  ASSUME NEW nodes, IsFiniteSet(nodes), NEW k \in Nat
  PROVE  IsFiniteSet([1..k -> nodes])
<1> DEFINE P == (1..k) \X nodes
           F == [f \in [1..k -> nodes] |-> {<<i, f[i]>> : i \in 1..k}]
<1>1. IsFiniteSet(SUBSET P)
  <2>1. 1 \in Int /\ k \in Int
    OBVIOUS
  <2>2. IsFiniteSet(1..k)
    BY <2>1, FS_Interval
  <2>3. IsFiniteSet(P)
    BY <2>2, FS_Product
  <2> QED
    BY <2>3, FS_SUBSET
<1>2. F \in [[1..k -> nodes] -> SUBSET P]
  OBVIOUS
<1>3. ASSUME NEW f \in [1..k -> nodes], NEW g \in [1..k -> nodes], F[f] = F[g] PROVE f = g
  <2>1. ASSUME NEW i \in 1..k PROVE f[i] = g[i]
    <3>1. <<i, f[i]>> \in F[f]
      OBVIOUS
    <3>2. <<i, f[i]>> \in {<<j, g[j]>> : j \in 1..k}
      BY <1>3, <3>1
    <3> QED
      BY <3>2
  <2> QED
    BY <2>1
<1> HIDE DEF F, P
<1>4. F \in Injection([1..k -> nodes], SUBSET P)
  BY <1>2, <1>3 DEF Injection, IsInjective
<1> QED
  BY <1>1, <1>4, FS_Injection

\* Paths are finitely many.
LEMMA PathsAreFinite ==
  IsFiniteSet(Paths)
<1>1. IsFiniteSet(Names) /\ Cardinality(Names) \in Nat
  BY GapAssumption, FS_CardinalityType
<1> DEFINE N == Cardinality(Names)
           F == [k \in 1..N |-> [1..k -> Names]]
           T == {[1..k -> Names] : k \in 1..N}
<1>2. F \in Surjection(1..N, T)
  BY DEF Surjection
<1>3. IsFiniteSet(1..N)
  <2>1. 1 \in Int /\ N \in Int
    BY <1>1
  <2> QED
    BY <2>1, FS_Interval
<1>4. IsFiniteSet(T)
  <2> HIDE DEF F, T
  <2> QED
    BY <1>2, <1>3, FS_Surjection
<1>5. \A X \in T : IsFiniteSet(X)
  BY <1>1, FinitelyManyTuples
<1>6. IsFiniteSet(UNION T)
  <2> HIDE DEF T
  <2> QED
    BY <1>4, <1>5, FS_UNION
<1> QED
  BY <1>6 DEF Paths

\* What the search finds in a flow are paths from its root.
LEMMA FoundPaths ==
  ASSUME NEW arrows \in Flows
  PROVE  /\ DiscoverPaths(arrows, Root, Depth) \subseteq Paths
         /\ DiscoverPaths(arrows, Root, Depth) # {}
         /\ \A p \in DiscoverPaths(arrows, Root, Depth) : 1 \in DOMAIN p /\ p[1] = Root
<1>1. arrows \in SUBSET (Names \X Names) /\ Root \in Names /\ IsFiniteSet(Names) /\ Depth \in Nat
  BY GapAssumption
<1>2. DiscoverPaths(arrows, Root, Depth) # {}
  BY <1>1, SomePathIsFound
<1>3. ASSUME NEW p \in DiscoverPaths(arrows, Root, Depth)
      PROVE  p \in Paths /\ 1 \in DOMAIN p /\ p[1] = Root
  <2>1. IsWalk(arrows, Names, Root, p)
    BY <1>1, PathsFound
  <2>2. Len(p) \in 1..Cardinality(Names) /\ p \in [1..Len(p) -> Names] /\ Cardinality(Names) \in Nat
    BY <1>1, <2>1, WalksAreShort
  <2> QED
    BY <2>1, <2>2 DEF IsWalk, Paths
<1> QED
  BY <1>2, <1>3

-----------------------------------------------------------------------------
(* Deduplication, test by test.                                            *)

\* What deduplicate_tests keeps once it has looked at another test.
Added(kept, c, against) ==
  IF \E o \in Tests(against \o kept) : IsDuplicate(c.test, o) THEN kept ELSE Append(kept, c)
\* What is left of those that are not known once another is looked at.
Remaining(kept, c) == IF IsKnown(c.test) THEN kept ELSE Append(kept, c)

\* The first k of some tests, or fewer of them.
Selected(new, k, q) ==
  /\ Len(q) <= k
  /\ \A i \in 1..Len(q) : \E j \in 1..k : q[i] = new[j]
  /\ Len(q) = k => \A i \in 1..k : q[i] = new[i]
\* Tests that duplicate neither others nor each other.
Apart(against, q) ==
  \A i \in 1..Len(q) :
    /\ \A j \in DOMAIN against : ~ IsDuplicate(q[i].test, against[j].test)
    /\ \A j \in 1..Len(q) : j # i => ~ IsDuplicate(q[i].test, q[j].test)
AreFresh(new, against, q) == Selected(new, Len(new), q) /\ Apart(against, q)

\* Being a duplicate goes both ways.
LEMMA DuplicatesBothWays ==
  \A t, o : IsDuplicate(t, o) <=> IsDuplicate(o, t)
  BY DEF IsDuplicate

\* The tests of two sequences, one after the other.
LEMMA JoinedTests ==
  ASSUME NEW T, NEW s \in Seq(T), NEW r \in Seq(T)
  PROVE  /\ \A i \in DOMAIN s : s[i].test \in Tests(s \o r)
         /\ \A i \in 1..Len(r) : r[i].test \in Tests(s \o r)
<1>1. /\ \A i \in DOMAIN s : i \in DOMAIN (s \o r) /\ (s \o r)[i] = s[i]
      /\ \A i \in 1..Len(r) : Len(s) + i \in DOMAIN (s \o r) /\ (s \o r)[Len(s) + i] = r[i]
  OBVIOUS
<1> QED
  BY <1>1 DEF Tests

\* Intervals, as the folds take them apart.
LEMMA Intervals ==
  ASSUME NEW k \in Nat, k # 0
  PROVE  1..k # {} /\ Max(1..k) = k /\ (1..k) \ {k} = 1..(k - 1)
<1>1. k - 1 \in Nat /\ k - 1 + 1 = k /\ k \in 1..k
  OBVIOUS
<1>2. \A n \in Nat : \A s \in SUBSET (1..(n + 1)) : n + 1 \in s => Max(s) = n + 1
  BY MaxIsLast
<1>3. Max(1..k) = k
  BY <1>1, <1>2
<1> QED
  BY <1>1, <1>3

\* Deduplication takes one test after the other.
LEMMA DeduplicateSteps ==
  ASSUME NEW T, NEW new \in Seq(T), NEW against
  PROVE  \E R : /\ R[0] = <<>>
                /\ \A k \in 1..Len(new) : R[k] = Added(R[k - 1], new[k], against)
                /\ Deduplicate(new, against) = R[Len(new)]
<1> DEFINE m == Len(new)
           D == Seq(T)
           b == <<>>
           step == [x \in D \X (1..m) |-> Added(x[1], new[x[2]], against)]
<1>1. m \in Nat /\ DOMAIN new = 1..m /\ b \in D /\ \A k \in 1..m : new[k] \in T
  OBVIOUS
<1> HIDE DEF b, m
<1>2. ASSUME NEW q \in D, NEW k \in 1..m PROVE Added(q, new[k], against) \in D
  <2>1. new[k] \in T /\ Append(q, new[k]) \in D
    BY <1>1
  <2> QED
    BY <2>1 DEF Added
<1> HIDE DEF D
<1>3. step \in [D \X (1..m) -> D]
  BY <1>2
<1>4. \A q \in D, k \in 1..m : step[<<q, k>>] = Added(q, new[k], against)
  OBVIOUS
<1> HIDE DEF step
<1>5. PICK f \in [SUBSET (1..m) -> D] :
        f = [s \in SUBSET (1..m) |-> IF s = {} THEN b ELSE step[<<f[s \ {Max(s)}], Max(s)>>]]
  <2>1. PICK f : IsFold(D, b, m, step, f)
    BY <1>1, <1>3, FoldExists
  <2> QED
    BY <2>1 DEF IsFold
<1>6. ASSUME NEW s \in SUBSET (1..m), s # {}
      PROVE  step[<<f[s \ {Max(s)}], Max(s)>>] = Added(f[s \ {Max(s)}], new[Max(s)], against)
  <2>1. s \ {Max(s)} \in SUBSET (1..m) /\ f[s \ {Max(s)}] \in D
    OBVIOUS
  <2>2. Max(s) \in 1..m
    BY <1>1, <1>6, LargestExists
  <2> QED
    BY <1>4, <2>1, <2>2
<1>7. f = [s \in SUBSET (1..m) |->
             IF s = {} THEN b ELSE Added(f[s \ {Max(s)}], new[Max(s)], against)]
  BY <1>5, <1>6
<1> DEFINE G == CHOOSE g : g = [s \in SUBSET (1..m) |->
                  IF s = {} THEN b ELSE Added(g[s \ {Max(s)}], new[Max(s)], against)]
<1>8. Deduplicate(new, against) = G[1..m]
  BY <1>1 DEF Deduplicate, FoldLeft, MapThenFoldSet, Added, b
<1>9. G = [s \in SUBSET (1..m) |->
             IF s = {} THEN b ELSE Added(G[s \ {Max(s)}], new[Max(s)], against)]
  BY <1>7
<1> HIDE DEF G
<1> DEFINE R == [k \in 0..m |-> G[1..k]]
<1>10. R[0] = b
  <2>1. 1..0 = {} /\ {} \in SUBSET (1..m) /\ 0 \in 0..m
    BY <1>1
  <2>2. G[{}] = b
    BY <1>9, <2>1
  <2> QED
    BY <2>1, <2>2
<1>11. ASSUME NEW k \in 1..m PROVE R[k] = Added(R[k - 1], new[k], against)
  <2>1. k \in Nat /\ k # 0 /\ k \in 0..m /\ k - 1 \in 0..m
    BY <1>1
  <2>2. 1..k # {} /\ Max(1..k) = k /\ (1..k) \ {k} = 1..(k - 1)
    BY <2>1, Intervals
  <2>3. 1..k \in SUBSET (1..m)
    BY <1>1
  <2>4. G[1..k] = Added(G[1..(k - 1)], new[k], against)
    BY <1>9, <2>2, <2>3
  <2>5. R[k] = G[1..k] /\ R[k - 1] = G[1..(k - 1)]
    BY <2>1
  <2> QED
    BY <2>4, <2>5
<1>12. R[m] = G[1..m]
  <2>1. m \in 0..m
    BY <1>1
  <2> QED
    BY <2>1
<1> HIDE DEF R
<1> QED
  BY <1>8, <1>10, <1>11, <1>12 DEF m, b

\* So does the search for what is not known.
LEMMA UnknownSteps ==
  ASSUME NEW T, NEW new \in Seq(T)
  PROVE  \E R : /\ R[0] = <<>>
                /\ \A k \in 1..Len(new) : R[k] = Remaining(R[k - 1], new[k])
                /\ Unknown(new) = R[Len(new)]
<1> DEFINE m == Len(new)
           D == Seq(T)
           b == <<>>
           step == [x \in D \X (1..m) |-> Remaining(x[1], new[x[2]])]
<1>1. m \in Nat /\ DOMAIN new = 1..m /\ b \in D /\ \A k \in 1..m : new[k] \in T
  OBVIOUS
<1> HIDE DEF b, m
<1>2. ASSUME NEW q \in D, NEW k \in 1..m PROVE Remaining(q, new[k]) \in D
  <2>1. new[k] \in T /\ Append(q, new[k]) \in D
    BY <1>1
  <2> QED
    BY <2>1 DEF Remaining
<1> HIDE DEF D
<1>3. step \in [D \X (1..m) -> D]
  BY <1>2
<1>4. \A q \in D, k \in 1..m : step[<<q, k>>] = Remaining(q, new[k])
  OBVIOUS
<1> HIDE DEF step
<1>5. PICK f \in [SUBSET (1..m) -> D] :
        f = [s \in SUBSET (1..m) |-> IF s = {} THEN b ELSE step[<<f[s \ {Max(s)}], Max(s)>>]]
  <2>1. PICK f : IsFold(D, b, m, step, f)
    BY <1>1, <1>3, FoldExists
  <2> QED
    BY <2>1 DEF IsFold
<1>6. ASSUME NEW s \in SUBSET (1..m), s # {}
      PROVE  step[<<f[s \ {Max(s)}], Max(s)>>] = Remaining(f[s \ {Max(s)}], new[Max(s)])
  <2>1. s \ {Max(s)} \in SUBSET (1..m) /\ f[s \ {Max(s)}] \in D
    OBVIOUS
  <2>2. Max(s) \in 1..m
    BY <1>1, <1>6, LargestExists
  <2> QED
    BY <1>4, <2>1, <2>2
<1>7. f = [s \in SUBSET (1..m) |->
             IF s = {} THEN b ELSE Remaining(f[s \ {Max(s)}], new[Max(s)])]
  BY <1>5, <1>6
<1> DEFINE G == CHOOSE g : g = [s \in SUBSET (1..m) |->
                  IF s = {} THEN b ELSE Remaining(g[s \ {Max(s)}], new[Max(s)])]
<1>8. Unknown(new) = G[1..m]
  BY <1>1 DEF Unknown, FoldLeft, MapThenFoldSet, Remaining, b
<1>9. G = [s \in SUBSET (1..m) |->
             IF s = {} THEN b ELSE Remaining(G[s \ {Max(s)}], new[Max(s)])]
  BY <1>7
<1> HIDE DEF G
<1> DEFINE R == [k \in 0..m |-> G[1..k]]
<1>10. R[0] = b
  <2>1. 1..0 = {} /\ {} \in SUBSET (1..m) /\ 0 \in 0..m
    BY <1>1
  <2>2. G[{}] = b
    BY <1>9, <2>1
  <2> QED
    BY <2>1, <2>2
<1>11. ASSUME NEW k \in 1..m PROVE R[k] = Remaining(R[k - 1], new[k])
  <2>1. k \in Nat /\ k # 0 /\ k \in 0..m /\ k - 1 \in 0..m
    BY <1>1
  <2>2. 1..k # {} /\ Max(1..k) = k /\ (1..k) \ {k} = 1..(k - 1)
    BY <2>1, Intervals
  <2>3. 1..k \in SUBSET (1..m)
    BY <1>1
  <2>4. G[1..k] = Remaining(G[1..(k - 1)], new[k])
    BY <1>9, <2>2, <2>3
  <2>5. R[k] = G[1..k] /\ R[k - 1] = G[1..(k - 1)]
    BY <2>1
  <2> QED
    BY <2>4, <2>5
<1>12. R[m] = G[1..m]
  <2>1. m \in 0..m
    BY <1>1
  <2> QED
    BY <2>1
<1> HIDE DEF R
<1> QED
  BY <1>8, <1>10, <1>11, <1>12 DEF m, b

\* What deduplicate_tests returns: tests it was given, none of which duplicates
\* a test it compared with or another one it returns; all of them if it returns
\* as many.
LEMMA DeduplicateFacts ==
  ASSUME NEW T, NEW new \in Seq(T), NEW against \in Seq(T),
         NEW kept, kept = Deduplicate(new, against)
  PROVE  AreFresh(new, against, kept) /\ kept \in Seq(T)
<1>1. PICK R : /\ R[0] = <<>>
               /\ \A k \in 1..Len(new) : R[k] = Added(R[k - 1], new[k], against)
               /\ kept = R[Len(new)]
  BY DeduplicateSteps
<1>2. Len(new) \in Nat /\ \A k \in 1..Len(new) : new[k] \in T
  OBVIOUS
<1> DEFINE Right(k) == Selected(new, k, R[k]) /\ Apart(against, R[k]) /\ R[k] \in Seq(T)
           S == {k \in Nat : k <= Len(new) => Right(k)}
<1>3. Right(0)
  BY <1>1 DEF Selected, Apart
<1>4. ASSUME NEW k \in Nat, k + 1 <= Len(new), Right(k) PROVE Right(k + 1)
  <2> DEFINE q == R[k]
             c == new[k + 1]
             r == R[k + 1]
  <2>1. r = Added(q, c, against) /\ c \in T
    BY <1>1, <1>2, <1>4
  <2>2. q \in Seq(T) /\ Selected(new, k, q) /\ Apart(against, q)
    BY <1>4
  <2> HIDE DEF q, c, r
  <2>3. CASE \E o \in Tests(against \o q) : IsDuplicate(c.test, o)
    <3>1. r = q
      BY <2>1, <2>3 DEF Added
    <3>2. Selected(new, k + 1, q)
      BY <2>2 DEF Selected
    <3> QED
      BY <2>2, <3>1, <3>2 DEF r
  <2>4. CASE ~ \E o \in Tests(against \o q) : IsDuplicate(c.test, o)
    <3>1. r = Append(q, c) /\ r \in Seq(T) /\ Len(r) = Len(q) + 1 /\ Len(q) \in Nat
          /\ r[Len(q) + 1] = c /\ \A i \in 1..Len(q) : r[i] = q[i]
      BY <2>1, <2>2, <2>4 DEF Added
    <3>2. Selected(new, k + 1, r)
      BY <2>2, <3>1 DEF Selected, c
    <3>3. /\ \A i \in DOMAIN against : ~ IsDuplicate(c.test, against[i].test)
          /\ \A i \in 1..Len(q) : ~ IsDuplicate(c.test, q[i].test)
      <4>1. /\ \A i \in DOMAIN against : against[i].test \in Tests(against \o q)
            /\ \A i \in 1..Len(q) : q[i].test \in Tests(against \o q)
        BY <2>2, JoinedTests
      <4> QED
        BY <2>4, <4>1
    <3>4. Apart(against, r)
      BY <2>2, <3>1, <3>3, DuplicatesBothWays DEF Apart
    <3> QED
      BY <3>1, <3>2, <3>4 DEF r
  <2> QED
    BY <2>3, <2>4
<1>5. \A k \in Nat : k \in S
  <2> HIDE DEF Right
  <2>1. 0 \in S
    BY <1>3
  <2>2. \A k \in Nat : k \in S => k + 1 \in S
    BY <1>4
  <2> HIDE DEF S
  <2> QED
    BY <2>1, <2>2, SetInduction
<1>6. Right(Len(new))
  <2> HIDE DEF Right
  <2> QED
    BY <1>2, <1>5
<1> QED
  BY <1>1, <1>6 DEF AreFresh

\* What is left of tests that are not known: tests that were there, not known,
\* as far apart as they were, and all of them if there are as many.
LEMMA UnknownFacts ==
  ASSUME NEW T, NEW new \in Seq(T), NEW against \in Seq(T), Apart(against, new),
         NEW kept, kept = Unknown(new)
  PROVE  /\ AreFresh(new, against, kept) /\ kept \in Seq(T)
         /\ \A i \in 1..Len(kept) : ~ IsKnown(kept[i].test)
<1>1. PICK R : /\ R[0] = <<>>
               /\ \A k \in 1..Len(new) : R[k] = Remaining(R[k - 1], new[k])
               /\ kept = R[Len(new)]
  BY UnknownSteps
<1>2. Len(new) \in Nat /\ \A k \in 1..Len(new) : new[k] \in T
  OBVIOUS
<1> DEFINE Right(k) == /\ Selected(new, k, R[k]) /\ Apart(against, R[k]) /\ R[k] \in Seq(T)
                       /\ \A i \in 1..Len(R[k]) : ~ IsKnown(R[k][i].test)
           S == {k \in Nat : k <= Len(new) => Right(k)}
<1>3. Right(0)
  BY <1>1 DEF Selected, Apart
<1>4. ASSUME NEW k \in Nat, k + 1 <= Len(new), Right(k) PROVE Right(k + 1)
  <2> DEFINE q == R[k]
             c == new[k + 1]
             r == R[k + 1]
  <2>1. r = Remaining(q, c) /\ c \in T /\ k + 1 \in 1..Len(new)
    BY SMTT(60), <1>1, <1>2, <1>4
  <2>2. q \in Seq(T) /\ Selected(new, k, q) /\ Apart(against, q)
        /\ \A i \in 1..Len(q) : ~ IsKnown(q[i].test)
    BY <1>4
  <2> HIDE DEF q, c, r
  <2>3. CASE IsKnown(c.test)
    <3>1. r = q
      BY <2>1, <2>3 DEF Remaining
    <3>2. Selected(new, k + 1, q)
      BY <2>2 DEF Selected
    <3> QED
      BY <2>2, <3>1, <3>2 DEF r
  <2>4. CASE ~ IsKnown(c.test)
    <3>1. r = Append(q, c) /\ r \in Seq(T) /\ Len(r) = Len(q) + 1 /\ Len(q) \in Nat
          /\ r[Len(q) + 1] = c /\ \A i \in 1..Len(q) : r[i] = q[i]
      BY <2>1, <2>2, <2>4 DEF Remaining
    <3>2. Selected(new, k + 1, r)
      BY <2>2, <3>1 DEF Selected, c
    <3>3. \A i \in DOMAIN against : ~ IsDuplicate(c.test, against[i].test)
      BY <2>1 DEF Apart, c
    <3>4. \A i \in 1..Len(q) : ~ IsDuplicate(c.test, q[i].test)
      <4>1. ASSUME NEW i \in 1..Len(q) PROVE \E j \in 1..k : q[i] = new[j]
        BY <2>2 DEF Selected
      <4>2. \A j \in 1..k : j \in 1..Len(new) /\ j # k + 1
        BY <2>1
      <4> QED
        BY <2>1, <4>1, <4>2 DEF Apart, c
    <3>5. Apart(against, r)
      BY <2>2, <3>1, <3>3, <3>4, DuplicatesBothWays DEF Apart
    <3>6. \A i \in 1..Len(r) : ~ IsKnown(r[i].test)
      BY <2>2, <2>4, <3>1
    <3> QED
      BY <3>1, <3>2, <3>5, <3>6 DEF r
  <2> QED
    BY <2>3, <2>4
<1>5. \A k \in Nat : k \in S
  <2> HIDE DEF Right
  <2>1. 0 \in S
    BY <1>3
  <2>2. \A k \in Nat : k \in S => k + 1 \in S
    BY <1>4
  <2> HIDE DEF S
  <2> QED
    BY <2>1, <2>2, SetInduction
<1>6. Right(Len(new))
  <2> HIDE DEF Right
  <2> QED
    BY <1>2, <1>5
<1> QED
  BY <1>1, <1>6 DEF AreFresh

-----------------------------------------------------------------------------
(* The types of tests and gaps.                                            *)

\* Paths are sequences of names that are not empty.
LEMMA PathsAreSequences ==
  /\ \A p \in Paths : /\ p \in Seq(Names) /\ Len(p) \in DOMAIN p /\ Leaf(p) \in Names
                      /\ DOMAIN p = 1..Len(p) /\ NamesOn(p) \subseteq Names
  /\ <<Root>> \in Paths
  /\ \A n \in Names \ {Root} : <<Root, n>> \in Paths
<1>1. IsFiniteSet(Names) /\ Cardinality(Names) \in Nat /\ Root \in Names
  BY GapAssumption, FS_CardinalityType
<1>2. ASSUME NEW p \in Paths
      PROVE  /\ p \in Seq(Names) /\ Len(p) \in DOMAIN p /\ Leaf(p) \in Names
             /\ DOMAIN p = 1..Len(p) /\ NamesOn(p) \subseteq Names
  <2>1. PICK k \in 1..Cardinality(Names) : p \in [1..k -> Names]
    BY DEF Paths
  <2>2. k \in Nat /\ k >= 1
    BY <1>1
  <2>3. p \in Seq(Names) /\ Len(p) = k /\ DOMAIN p = 1..k
    BY <2>1, <2>2
  <2> QED
    BY <2>1, <2>2, <2>3 DEF Leaf, NamesOn
<1>3. Cardinality(Names) >= 1
  <2>1. {Root} \in SUBSET Names /\ Cardinality({Root}) = 1
    BY <1>1, FS_Singleton
  <2> QED
    BY <1>1, <2>1, FS_Subset
<1>4. <<Root>> \in Paths
  <2>1. <<Root>> \in [1..1 -> Names] /\ 1 \in 1..Cardinality(Names)
    BY <1>1, <1>3
  <2> QED
    BY <2>1 DEF Paths
<1>5. ASSUME NEW n \in Names \ {Root} PROVE <<Root, n>> \in Paths
  <2>1. Cardinality({Root} \union {n}) = 2
    <3>1. IsFiniteSet({Root}) /\ Cardinality({Root}) = 1
      BY FS_Singleton
    <3>2. n \notin {Root}
      OBVIOUS
    <3> QED
      BY <3>1, <3>2, FS_AddElement
  <2>2. Cardinality(Names) >= 2
    <3>1. {Root} \union {n} \in SUBSET Names
      BY <1>1
    <3>2. Cardinality({Root} \union {n}) <= Cardinality(Names)
      BY <1>1, <3>1, FS_Subset
    <3> QED
      BY <1>1, <2>1, <3>2
  <2>3. <<Root, n>> \in [1..2 -> Names] /\ 2 \in 1..Cardinality(Names)
    BY <1>1, <2>2
  <2> QED
    BY <2>3 DEF Paths
<1> QED
  BY <1>2, <1>4, <1>5

\* A test that cites only what there is to cite is a test.
LEMMA SanitizedIsCase ==
  ASSUME NEW t \in Case PROVE Sanitized(t) \in Case
<1>1. PathEvidence(t.path) \in SUBSET Topics
  BY DEF PathEvidence, Topics
<1> QED
  BY <1>1 DEF Sanitized, Case

\* What the model answers, once it is parsed, are tests.
LEMMA DraftedAreCases ==
  ASSUME NEW limit \in Nat, NEW ts \in Drafted(limit)
  PROVE  ts \in Seq(Case) /\ Len(ts) <= limit
<1>1. PICK s \in UNION {[1..k -> Drafts] : k \in 1..limit} : ts = Parsed(s)
  BY DEF Drafted
<1>2. PICK k \in 1..limit : s \in [1..k -> Drafts]
  BY <1>1
<1>3. \A i \in 1..k : s[i] \in Case
  BY <1>2, GapAssumption
<1>4. ts \in [1..k -> Case]
  BY <1>1, <1>2, <1>3, SanitizedIsCase DEF Parsed
<1>5. k \in Nat /\ k <= limit
  OBVIOUS
<1> QED
  BY <1>4, <1>5

\* What the rules write for the paths of the flow are tests.
LEMMA PathTestsAreCases ==
  ASSUME fused.paths \subseteq Paths, NEW ts \in ByPaths
  PROVE  ts \in Seq(Case)
<1> DEFINE T == {PathTest(p) : p \in fused.paths}
<1>1. ASSUME NEW p \in fused.paths PROVE PathTest(p) \in Case
  <2>1. p \in Paths /\ NamesOn(p) \in SUBSET Topics
    BY PathsAreSequences DEF Topics
  <2>2. PathEvidence(p) \in SUBSET Topics
    BY DEF PathEvidence, Topics
  <2> QED
    BY <2>1, <2>2 DEF PathTest, Case
<1>2. IsFiniteSet(T)
  <2>1. IsFiniteSet(fused.paths)
    BY PathsAreFinite, FS_Subset
  <2> DEFINE F == [p \in fused.paths |-> PathTest(p)]
  <2>2. F \in Surjection(fused.paths, T)
    BY DEF Surjection
  <2> HIDE DEF F, T
  <2> QED
    BY <2>1, <2>2, FS_Surjection
<1>3. Cardinality(T) \in Nat
  BY <1>2, FS_CardinalityType
<1>4. ts \in [1..Cardinality(T) -> T]
  BY DEF ByPaths, SetToSeqs
<1>5. T \subseteq Case
  BY <1>1
<1> HIDE DEF T
<1>6. ts \in [1..Cardinality(T) -> Case]
  BY <1>4, <1>5
<1> QED
  BY <1>3, <1>6

\* The ranks of gaps.
LEMMA RankIsRank ==
  ASSUME NEW kind \in Kinds, NEW high PROVE Rank(kind, high) \in 1..332
  BY DEF Rank, Kinds

\* A gap is a gap.
LEMMA MadeGapIsGap ==
  ASSUME NEW kind \in Kinds, NEW topic \in Topics, NEW path \in Paths, NEW high
  PROVE  MakeGap(kind, topic, path, high) \in Gap
<1>1. Rank(kind, high) \in 1..332
  BY RankIsRank
<1> QED
  BY <1>1 DEF MakeGap, Gap

\* The paths of the context, as the run found them.
ContextOK ==
  /\ tree \in Flows
  /\ fused.paths = DiscoverPaths(tree, Root, Depth)

\* A path for a name is a path.
LEMMA PathForIsPath ==
  ASSUME ContextOK, NEW n \in Names PROVE PathFor(n) \in Paths
<1>1. /\ fused.paths \subseteq Paths /\ fused.paths # {}
      /\ \A p \in fused.paths : 1 \in DOMAIN p /\ p[1] = Root
  BY FoundPaths DEF ContextOK
<1>2. CASE \E p \in fused.paths : n \in NamesOn(p)
  <2>1. PathFor(n) = CHOOSE p \in fused.paths : n \in NamesOn(p)
    BY <1>2 DEF PathFor
  <2>2. PathFor(n) \in fused.paths
    BY <1>2, <2>1
  <2> QED
    BY <1>1, <2>2
<1>3. CASE ~ \E p \in fused.paths : n \in NamesOn(p)
  <2>1. n # Root
    BY <1>1, <1>3 DEF NamesOn
  <2> QED
    BY <1>3, <2>1, PathsAreSequences DEF PathFor
<1> QED
  BY <1>2, <1>3

\* What the coverage engine misses are nodes.
LEMMA AnalyzedAreNames ==
  ASSUME ContextOK, NEW tests
  PROVE  /\ Analyze(tree, tests).branches \subseteq Names
         /\ Analyze(tree, tests).failures \subseteq Names
         /\ Analyze(tree, tests).dependencies \subseteq Names
<1>1. FailureNodes \subseteq Names /\ Dependencies \subseteq Names /\ tree \subseteq Names \X Names
  BY GapAssumption DEF ContextOK
<1>2. Outgoing(tree, Root) \subseteq Names
  BY <1>1 DEF Outgoing
<1> QED
  BY <1>1, <1>2 DEF Analyze

\* build_coverage_gaps makes gaps.
LEMMA BuiltAreGaps ==
  ASSUME ContextOK, NEW tests, NEW stored
  PROVE  BuildGaps(tests, Analyze(tree, stored)) \subseteq Gap
<1>1. /\ fused.paths \subseteq Paths
      /\ BugPath \in [Bugs -> Paths]
  BY FoundPaths, GapAssumption DEF ContextOK
<1>2. Names \subseteq Topics /\ Bugs \subseteq Topics /\ Needs \subseteq Topics
  BY DEF Topics
<1>3. \A p \in fused.paths : PathGap(p) \in Gap
  <2>1. ASSUME NEW p \in fused.paths PROVE PathGap(p) \in Gap
    <3>1. p \in Paths /\ Leaf(p) \in Topics
      BY <1>1, <1>2, PathsAreSequences
    <3>2. "failing" \in Kinds /\ "path" \in Kinds
      BY DEF Kinds
    <3> QED
      BY <3>1, <3>2, MadeGapIsGap DEF PathGap
  <2> QED
    BY <2>1
<1>4. ASSUME NEW n \in Names
      PROVE  BranchGap(n) \in Gap /\ FailureGap(n) \in Gap /\ RiskGap(n) \in Gap
  <2>1. n \in Topics /\ PathFor(n) \in Paths
    BY <1>2, PathForIsPath
  <2>2. "branch" \in Kinds /\ "failure" \in Kinds /\ "risk" \in Kinds
    BY DEF Kinds
  <2> QED
    BY <2>1, <2>2, MadeGapIsGap DEF BranchGap, FailureGap, RiskGap
<1>5. ASSUME NEW b \in Bugs PROVE BugGap(b) \in Gap
  <2>1. b \in Topics /\ BugPath[b] \in Paths /\ "bug" \in Kinds
    BY <1>1, <1>2 DEF Kinds
  <2> QED
    BY <2>1, MadeGapIsGap DEF BugGap
<1>6. ASSUME NEW q \in Needs PROVE NeedGap(q) \in Gap
  <2>1. q \in Topics /\ <<Root>> \in Paths /\ "requirement" \in Kinds
    BY <1>2, PathsAreSequences DEF Kinds
  <2> QED
    BY <2>1, MadeGapIsGap DEF NeedGap
<1>7. /\ Analyze(tree, stored).branches \subseteq Names
      /\ Analyze(tree, stored).failures \subseteq Names
      /\ Analyze(tree, stored).dependencies \subseteq Names
  BY AnalyzedAreNames
<1> QED
  BY <1>3, <1>4, <1>5, <1>6, <1>7 DEF BuildGaps

\* The test that the rules write for a gap is a test.
LEMMA GapTestIsCase ==
  ASSUME NEW g \in Gap PROVE GapTest(g) \in Case
<1>1. g.path \in Paths /\ g.topic \in Topics
  BY DEF Gap
<1>2. NamesOn(g.path) \in SUBSET Topics /\ {g.topic} \in SUBSET Topics
  BY <1>1, PathsAreSequences DEF Topics
<1>3. PathEvidence(g.path) \in SUBSET Topics
  BY DEF PathEvidence, Topics
<1>4. /\ GapTest(g).path = g.path /\ GapTest(g).cites = PathEvidence(g.path)
      /\ GapTest(g).about \in {NamesOn(g.path), {g.topic}}
      /\ GapTest(g).sort \in {"renamed", "regression", "negative", "requirement", "gap"}
      /\ GapTest(g).steps \in {"fault", "walk"}
      /\ GapTest(g) = [sort |-> GapTest(g).sort, about |-> GapTest(g).about,
                       path |-> g.path, steps |-> GapTest(g).steps,
                       cites |-> PathEvidence(g.path)]
  BY DEF GapTest
<1> QED
  BY <1>1, <1>2, <1>3, <1>4 DEF Case

\* An answer to a gap is a sequence of tests.
LEMMA AnswersAreCases ==
  ASSUME NEW g \in Gap, NEW ts \in Answers(g) PROVE ts \in Seq(Case)
<1>1. CASE ts = <<GapTest(g)>>
  BY <1>1, GapTestIsCase
<1>2. CASE ts \in Drafted(PerGap)
  <2>1. PerGap \in Nat
    BY GapAssumption
  <2> QED
    BY <1>2, <2>1, DraftedAreCases
<1> QED
  BY <1>1, <1>2 DEF Answers

\* Numbered tests.
LEMMA NumberedTests ==
  ASSUME NEW ts \in Seq(Case), NEW offset \in Nat, offset + Len(ts) <= MaxCases
  PROVE  /\ Number(ts, offset) \in Seq(Numbered)
         /\ Len(Number(ts, offset)) = Len(ts)
         /\ \A i \in 1..Len(ts) : Number(ts, offset)[i].id = offset + i
<1>1. MaxCases \in Nat /\ Len(ts) \in Nat /\ DOMAIN ts = 1..Len(ts)
  BY GapAssumption
<1>2. \A i \in 1..Len(ts) : [id |-> offset + i, test |-> ts[i]] \in Numbered
  BY <1>1 DEF Numbered
<1>3. Number(ts, offset) \in [1..Len(ts) -> Numbered]
  BY <1>1, <1>2 DEF Number
<1>4. Number(ts, offset) \in Seq(Numbered) /\ Len(Number(ts, offset)) = Len(ts)
  BY <1>1, <1>3
<1>5. \A i \in 1..Len(ts) : Number(ts, offset)[i] = [id |-> offset + i, test |-> ts[i]]
  BY <1>1 DEF Number
<1>6. ASSUME NEW i \in 1..Len(ts) PROVE Number(ts, offset)[i].id = offset + i
  <2>1. Number(ts, offset)[i] = [id |-> offset + i, test |-> ts[i]]
    BY <1>5
  <2> QED
    BY <2>1
<1> QED
  BY <1>4, <1>6

\* Storing tests leaves tests.
LEMMA UpsertedAreCases ==
  ASSUME cases \in [1..MaxCases -> Case \union {NoCase}], NEW new \in Seq(Numbered)
  PROVE  Upserted(new) \in [1..MaxCases -> Case \union {NoCase}]
<1>1. ASSUME NEW n \in 1..MaxCases, \E i \in DOMAIN new : new[i].id = n
      PROVE  new[CHOOSE i \in DOMAIN new :
                   new[i].id = n /\ \A j \in DOMAIN new : new[j].id = n => j <= i].test \in Case
  <2> DEFINE s == {i \in DOMAIN new : new[i].id = n}
  <2>1. Len(new) \in Nat /\ DOMAIN new = 1..Len(new) /\ s \in SUBSET (1..Len(new)) /\ s # {}
    BY <1>1
  <2>2. Max(s) \in s /\ \A y \in s : Max(s) >= y
    <3> HIDE DEF s
    <3> QED
      BY <2>1, LargestExists
  <2>3. \E i \in DOMAIN new : new[i].id = n /\ \A j \in DOMAIN new : new[j].id = n => j <= i
    <3>1. \A j \in s : j <= Max(s)
      BY <2>1, <2>2
    <3> QED
      BY <2>2, <3>1
  <2>4. \A i \in DOMAIN new : new[i].test \in Case
    <3>1. \A i \in DOMAIN new : new[i] \in Numbered
      BY <2>1
    <3> QED
      BY <3>1 DEF Numbered
  <2> QED
    BY <2>3, <2>4
<1> QED
  BY <1>1 DEF Upserted

\* Impact is on the other nodes.
LEMMA ImpactTypes ==
  ASSUME tree \in Flows
  PROVE  /\ Impact.direct \union Impact.indirect \subseteq Names \ {Root}
         /\ Impact.tests \subseteq 1..MaxCases
<1> DEFINE D == SUBSET Names
           b == {Root}
           Wider(V) == V \union UNION {Neighbors(tree, n) : n \in V}
           step == [V \in D |-> Wider(V)]
<1>1. tree \in SUBSET (Names \X Names) /\ b \in D
  BY GapAssumption
<1>2. \A n : Neighbors(tree, n) \subseteq Names
  BY <1>1 DEF Neighbors, Outgoing, Incoming
<1>3. step \in [D -> D]
  BY <1>2
<1> HIDE DEF D, b
<1>4. PICK f \in [0..4 -> D] : f = [k \in 0..4 |-> IF k = 0 THEN b ELSE step[f[k - 1]]]
  <2> HIDE DEF step
  <2>1. \A n \in Nat : \E f \in [0..n -> D] : f = [k \in 0..n |-> IF k = 0 THEN b ELSE step[f[k - 1]]]
    BY SMTT(60), <1>1, <1>3, StepsExist
  <2>2. \E n \in Nat : n = 4
    OBVIOUS
  <2> QED
    BY <2>1, <2>2
<1>5. ASSUME NEW k \in 0..4, k # 0 PROVE step[f[k - 1]] = Wider(f[k - 1])
  <2>1. k - 1 \in 0..4
    BY <1>5
  <2> QED
    BY <2>1
<1>6. f = [k \in 0..4 |-> IF k = 0 THEN b ELSE Wider(f[k - 1])]
  <2> HIDE DEF step, Wider
  <2> QED
    BY <1>4, <1>5
<1> DEFINE G == CHOOSE g : g = [k \in 0..4 |-> IF k = 0 THEN b ELSE Wider(g[k - 1])]
<1>7. G = [k \in 0..4 |-> IF k = 0 THEN b ELSE Wider(G[k - 1])]
  <2> HIDE DEF Wider
  <2> QED
    BY <1>6
<1>8. ImpactSubgraph(tree, Root, 4) = [direct |-> G[1] \ {Root}, indirect |-> G[4] \ (G[1] \union {Root})]
  BY DEF ImpactSubgraph, b
<1> HIDE DEF G
<1>9. G[0] = b /\ \A k \in 1..4 : G[k] = Wider(G[k - 1])
  <2> HIDE DEF Wider
  <2>1. ASSUME NEW k \in 1..4 PROVE G[k] = Wider(G[k - 1])
    <3>1. k \in 0..4 /\ k # 0
      OBVIOUS
    <3> QED
      BY <1>7, <3>1
  <2>2. 0 \in 0..4
    OBVIOUS
  <2>3. G[0] = b
    BY <1>7, <2>2
  <2> QED
    BY <2>1, <2>3
<1>10. \A V \in D : Wider(V) \in D
  BY <1>2 DEF D
<1>11. G[1] \in D /\ G[4] \in D
  <2> HIDE DEF Wider
  <2>1. G[1] \in D
    BY <1>1, <1>9, <1>10
  <2>2. G[2] \in D
    BY <1>9, <1>10, <2>1
  <2>3. G[3] \in D
    BY <1>9, <1>10, <2>2
  <2> QED
    BY <1>9, <1>10, <2>1, <2>3
<1> QED
  BY <1>8, <1>11 DEF Impact, D

-----------------------------------------------------------------------------
(* The invariant of a run that closes gaps.                                *)

\* What a run knows by its phase.
PhaseOK ==
  /\ phase # "ask" => chosen = {}
  /\ phase = "generate" => suite = <<>>
  /\ phase \in {"generate", "analyze"} => roundNew = <<>>

\* Numbers count the tests as long as none was dropped.
NumbersCount ==
  ~ dropped => /\ \A i \in 1..Len(suite) : suite[i].id = i
               /\ \A i \in 1..Len(roundNew) : roundNew[i].id = Len(suite) + i

\* Targeted tests are not known and duplicate no other test.
TargetedApart ==
  \A i \in firstSuite + 1..Len(suite) :
    /\ ~ IsKnown(suite[i].test)
    /\ \A j \in 1..Len(suite) : j # i => ~ IsDuplicate(suite[i].test, suite[j].test)

\* The parts of the types that change.
SuiteOK == suite \in Seq(Numbered) /\ roundNew \in Seq(Numbered) /\ firstSuite \in 0..Len(suite)
GapsOK  == gaps \subseteq Gap /\ chosen \subseteq gaps /\ unresolved \subseteq Gap
CasesOK == cases \in [1..MaxCases -> Case \union {NoCase}]
StepOK  == /\ round \in 0..MaxRounds /\ gapLimit \in GapLimits
           /\ phase \in {"generate", "analyze", "select", "ask", "close", "report", "done"}
           /\ regen \in BOOLEAN /\ dropped \in BOOLEAN /\ meddled \in BOOLEAN
\* ... and those that do not.
FixedOK == /\ tree \in Flows /\ fused.paths \subseteq Paths /\ Cardinality(fused.known) <= KnownLimit
           /\ impact.direct \union impact.indirect \subseteq Names \ {Root}
           /\ impact.tests \subseteq 1..MaxCases

\* Once there are gaps they are those of the suite as it is.
GapsOfSuite ==
  phase \notin {"generate", "analyze"} =>
    /\ \A p \in fused.paths : PathCovered(p, Tests(suite)) \/ PathGap(p) \in gaps
    /\ \A b \in Bugs : BugCovered(b, Tests(suite)) \/ BugGap(b) \in gaps

GapInv ==
  /\ FixedOK /\ ContextOK /\ CasesOK /\ SuiteOK /\ GapsOK /\ StepOK
  /\ GapsOfSuite
  /\ PhaseOK /\ NumbersCount /\ TargetedApart /\ OpenGapsReported

\* The types of a run, part by part.
LEMMA PartsOfTypes ==
  GapTypeOK <=> FixedOK /\ CasesOK /\ SuiteOK /\ GapsOK /\ StepOK
  BY DEF GapTypeOK, FixedOK, CasesOK, SuiteOK, GapsOK, StepOK

-----------------------------------------------------------------------------
\* What a run has before it generates anything.
LEMMA KnownAreFew ==
  ASSUME CasesOK, fused \in Fused
  PROVE  Cardinality(fused.known) <= KnownLimit
<1> DEFINE F == [t \in Stored |-> [title |-> Title(t), path |-> t.path]]
           C == [n \in 1..MaxCases |-> cases[n]]
<1>1. MaxCases \in Nat /\ KnownLimit \in Nat
  BY GapAssumption
<1>2. IsFiniteSet(1..MaxCases)
  <2>1. 1 \in Int /\ MaxCases \in Int
    BY <1>1
  <2> QED
    BY <2>1, FS_Interval
<1>3. IsFiniteSet({cases[n] : n \in 1..MaxCases})
  <2>1. C \in Surjection(1..MaxCases, {cases[n] : n \in 1..MaxCases})
    BY DEF Surjection
  <2> HIDE DEF C
  <2> QED
    BY <1>2, <2>1, FS_Surjection
<1>4. IsFiniteSet(Stored)
  BY <1>3, FS_Difference DEF Stored
<1>5. IsFiniteSet(Knowns)
  <2>1. F \in Surjection(Stored, Knowns)
    BY DEF Surjection, Knowns
  <2> HIDE DEF F
  <2> QED
    BY <1>4, <2>1, FS_Surjection
<1>6. Cardinality(Knowns) \in Nat
  BY <1>5, FS_CardinalityType
<1>7. Cardinality(fused.known) = IF Cardinality(Knowns) < KnownLimit
                                 THEN Cardinality(Knowns) ELSE KnownLimit
  <2>1. PICK known \in {K \in SUBSET Knowns :
                Cardinality(K) = IF Cardinality(Knowns) < KnownLimit
                                 THEN Cardinality(Knowns) ELSE KnownLimit} :
          fused = [paths |-> DiscoverPaths(tree, Root, Depth), known |-> known]
    BY DEF Fused
  <2> QED
    BY <2>1
<1> QED
  BY <1>1, <1>6, <1>7

\* The invariant holds before the suite is generated.
LEMMA GapInitInv ==
  GapInit => GapInv
<1> SUFFICES ASSUME GapInit PROVE GapInv
  OBVIOUS
<1>1. ContextOK /\ tree \in Flows
  <2>1. fused.paths = DiscoverPaths(tree, Root, Depth)
    BY DEF GapInit, Fused
  <2> QED
    BY <2>1 DEF GapInit, ContextOK
<1>2. CasesOK
  BY GapAssumption DEF GapInit, CasesOK
<1>3. FixedOK
  <2>1. fused.paths \subseteq Paths
    BY <1>1, FoundPaths DEF ContextOK
  <2>2. Cardinality(fused.known) <= KnownLimit
    BY <1>2, KnownAreFew DEF GapInit
  <2>3. impact = Impact
    BY DEF GapInit
  <2> QED
    BY <1>1, <2>1, <2>2, <2>3, ImpactTypes DEF FixedOK
<1>4. SuiteOK /\ GapsOK /\ StepOK /\ PhaseOK
  <2>1. SuiteOK /\ PhaseOK
    BY DEF GapInit, SuiteOK, PhaseOK
  <2>2. GapsOK
    BY DEF GapInit, GapsOK
  <2>3. MaxRounds \in Nat
    BY GapAssumption
  <2>4. regen \in BOOLEAN /\ dropped \in BOOLEAN /\ meddled \in BOOLEAN
    BY DEF GapInit
  <2>5. round \in 0..MaxRounds /\ phase = "generate" /\ gapLimit \in GapLimits
    BY <2>3 DEF GapInit
  <2>6. StepOK
    BY <2>4, <2>5 DEF StepOK
  <2> QED
    BY <2>1, <2>2, <2>6
<1>5. NumbersCount /\ TargetedApart /\ OpenGapsReported /\ GapsOfSuite
  BY DEF GapInit, NumbersCount, TargetedApart, OpenGapsReported, GapsOfSuite
<1> QED
  BY <1>1, <1>2, <1>3, <1>4, <1>5 DEF GapInv

\* What most steps leave alone.
LEMMA FixedStays ==
  ASSUME FixedOK, ContextOK, UNCHANGED <<tree, fused, impact>>
  PROVE  FixedOK' /\ ContextOK'
  BY DEF FixedOK, ContextOK

\* ... and what a step that does not end the run cannot break.
LEMMA NotDoneYet ==
  ASSUME phase' # "done" PROVE OpenGapsReported'
  BY DEF OpenGapsReported

\* ... or that leaves the suite alone.
LEMMA SuiteStays ==
  ASSUME UNCHANGED <<fused, suite, firstSuite>>, TargetedApart
  PROVE  TargetedApart'
  BY DEF TargetedApart, IsKnown

\* Gaps are of the suite as long as neither changes...
LEMMA GapsStay ==
  ASSUME GapsOfSuite, UNCHANGED <<fused, suite, gaps>>,
         phase \notin {"generate", "analyze"} \/ phase' = phase
  PROVE  GapsOfSuite'
  BY DEF GapsOfSuite, Tests

\* ... and when they are built anew.
LEMMA GapsBuilt ==
  ASSUME NEW coverage, NEW tests,
         UNCHANGED fused, gaps' = BuildGaps(tests, coverage), tests = Tests(suite')
  PROVE  GapsOfSuite'
<1>1. /\ \A p \in fused.paths : PathCovered(p, tests) \/ PathGap(p) \in gaps'
      /\ \A b \in Bugs : BugCovered(b, tests) \/ BugGap(b) \in gaps'
  BY DEF BuildGaps
<1> QED
  BY <1>1 DEF GapsOfSuite

\* The suite the model or the rules wrote, cut and numbered.
LEMMA GenerateInv ==
  ASSUME GapInv, GenerateSuite PROVE GapInv'
<1> USE DEF GapInv
<1>1. PICK ts \in ByModel \union ByPaths : Len(ts) <= MaxCases /\ suite' = Number(ts, 0)
  BY DEF GenerateSuite
<1>2. ts \in Seq(Case)
  <2>1. CASE ts \in ByModel
    <3>1. MaxSuite \in Nat
      BY GapAssumption
    <3> QED
      BY <2>1, <3>1, DraftedAreCases DEF ByModel
  <2>2. CASE ts \in ByPaths
    BY <2>2, PathTestsAreCases DEF FixedOK
  <2> QED
    BY <1>1, <2>1, <2>2
<1>3. /\ suite' \in Seq(Numbered) /\ Len(suite') = Len(ts)
      /\ \A i \in 1..Len(suite') : suite'[i].id = i
  <2>1. 0 \in Nat /\ Len(ts) \in Nat /\ 0 + Len(ts) <= MaxCases
    BY <1>1, <1>2
  <2>2. /\ Number(ts, 0) \in Seq(Numbered) /\ Len(Number(ts, 0)) = Len(ts)
        /\ \A i \in 1..Len(ts) : Number(ts, 0)[i].id = 0 + i
    BY <1>2, <2>1, NumberedTests
  <2> QED
    BY <1>1, <2>2
<1>4. /\ phase = "generate" /\ phase' = "analyze" /\ firstSuite' = Len(suite')
      /\ cases' = Upserted(suite')
      /\ UNCHANGED <<tree, fused, gaps, chosen, roundNew, round, gapLimit, regen, unresolved,
                     impact, dropped, meddled>>
  BY DEF GenerateSuite
<1>5. CasesOK'
  BY <1>3, <1>4, UpsertedAreCases DEF CasesOK
<1>6. SuiteOK' /\ PhaseOK' /\ NumbersCount' /\ TargetedApart'
  <2>1. roundNew' = <<>> /\ roundNew = <<>> /\ chosen = {}
    BY <1>4 DEF PhaseOK
  <2>2. SuiteOK'
    BY <1>3, <1>4, <2>1 DEF SuiteOK
  <2>3. NumbersCount' /\ PhaseOK'
    BY <1>3, <1>4, <2>1 DEF PhaseOK, NumbersCount
  <2>4. TargetedApart'
    BY <1>3, <1>4 DEF TargetedApart
  <2> QED
    BY <2>2, <2>3, <2>4
<1>7. GapsOK' /\ StepOK' /\ GapsOfSuite'
  BY <1>4 DEF GapsOK, StepOK, GapsOfSuite
<1> QED
  BY <1>4, <1>5, <1>6, <1>7, FixedStays, NotDoneYet

\* The gaps of the suite.
LEMMA AnalyzeInv ==
  ASSUME GapInv, AnalyzeGaps PROVE GapInv'
<1> USE DEF GapInv
<1>1. /\ phase = "analyze" /\ phase' \in {"select", "report"}
      /\ gaps' = BuildGaps(Tests(suite), Analyze(tree, Stored))
      /\ UNCHANGED <<tree, cases, fused, suite, firstSuite, chosen, roundNew, round, gapLimit,
                     regen, unresolved, impact, dropped, meddled>>
  BY DEF AnalyzeGaps
<1>2. GapsOK' /\ PhaseOK'
  BY <1>1, BuiltAreGaps DEF GapsOK, PhaseOK
<1>3. CasesOK' /\ SuiteOK' /\ StepOK' /\ NumbersCount'
  BY <1>1 DEF CasesOK, SuiteOK, StepOK, NumbersCount
<1>4. GapsOfSuite'
  BY <1>1, GapsBuilt
<1> QED
  BY <1>1, <1>2, <1>3, <1>4, FixedStays, NotDoneYet, SuiteStays

\* The gaps of a round: some of those there are.
LEMMA SelectInv ==
  ASSUME GapInv, SelectGaps PROVE GapInv'
<1> USE DEF GapInv
<1>1. /\ phase = "select" /\ roundNew' = <<>>
      /\ UNCHANGED <<tree, cases, fused, suite, firstSuite, gaps, gapLimit, regen, unresolved,
                     impact, dropped, meddled>>
  BY DEF SelectGaps
<1>2. PICK S \in Selections(gaps) :
        IF round < MaxRounds /\ S # {}
        THEN round' = round + 1 /\ chosen' = S /\ phase' = "ask"
        ELSE phase' = "report" /\ UNCHANGED <<round, chosen>>
  BY DEF SelectGaps
<1>3. S \subseteq gaps
  BY DEF Selections
<1>4. MaxRounds \in Nat
  BY GapAssumption
<1>5. GapsOK' /\ PhaseOK' /\ phase' # "done"
  BY <1>1, <1>2, <1>3 DEF GapsOK, PhaseOK
<1>6. StepOK'
  BY <1>1, <1>2, <1>4 DEF StepOK
<1>7. SuiteOK' /\ NumbersCount' /\ CasesOK' /\ GapsOfSuite'
  BY <1>1, GapsStay DEF CasesOK, SuiteOK, NumbersCount
<1> QED
  BY <1>1, <1>5, <1>6, <1>7, FixedStays, NotDoneYet, SuiteStays

\* The tests of one gap, without those the suite or the round has.
LEMMA ForGapInv ==
  ASSUME GapInv, NEW g \in chosen, NEW ts \in Answers(g), GenerateForGap(g, ts) PROVE GapInv'
<1> USE DEF GapInv
<1> DEFINE us == [i \in DOMAIN ts |-> [ts[i] EXCEPT !.cites = @ \union {g.topic}]]
           new == Number(us, Offset)
           kept == Deduplicate(new, suite \o roundNew)
<1>1. /\ phase = "ask" /\ Offset + Len(ts) <= MaxCases
      /\ roundNew' = roundNew \o kept
      /\ cases' = Upserted(kept)
      /\ dropped' = (dropped \/ Len(kept) < Len(new))
      /\ chosen' = chosen \ {g}
      /\ phase' = IF chosen' = {} THEN "close" ELSE "ask"
      /\ UNCHANGED <<tree, fused, suite, firstSuite, gaps, round, gapLimit, regen, unresolved,
                     impact, meddled>>
  BY DEF GenerateForGap
<1>2. g \in Gap
  BY DEF GapsOK
<1>3. ts \in Seq(Case) /\ Len(ts) \in Nat /\ DOMAIN ts = 1..Len(ts)
  BY <1>2, AnswersAreCases
<1>4. us \in Seq(Case) /\ Len(us) = Len(ts)
  <2>1. g.topic \in Topics
    BY <1>2 DEF Gap
  <2>2. ASSUME NEW i \in 1..Len(ts) PROVE [ts[i] EXCEPT !.cites = @ \union {g.topic}] \in Case
    <3>1. ts[i] \in Case
      BY <1>3
    <3> QED
      BY <2>1, <3>1 DEF Case
  <2>3. us \in [1..Len(ts) -> Case]
    BY <1>3, <2>2
  <2> QED
    BY <1>3, <2>3
<1>5. Offset \in Nat /\ Offset = Len(suite) + Len(roundNew)
  BY DEF SuiteOK, Offset
<1> HIDE DEF us
<1>6. /\ new \in Seq(Numbered) /\ Len(new) = Len(us)
      /\ \A i \in 1..Len(us) : new[i].id = Offset + i
  BY <1>1, <1>4, <1>5, NumberedTests
<1> HIDE DEF new
<1>7. AreFresh(new, suite \o roundNew, kept) /\ kept \in Seq(Numbered)
  <2>1. suite \o roundNew \in Seq(Numbered)
    BY DEF SuiteOK
  <2> QED
    BY <1>6, <2>1, DeduplicateFacts
<1> HIDE DEF kept
<1>8. CasesOK'
  BY <1>1, <1>7, UpsertedAreCases DEF CasesOK
<1>9. SuiteOK' /\ GapsOK'
  BY <1>1, <1>7 DEF SuiteOK, GapsOK
<1>10. PhaseOK' /\ phase' \in {"close", "ask"}
  BY <1>1 DEF PhaseOK
<1>11. StepOK'
  BY <1>1, <1>10 DEF StepOK
<1>12. NumbersCount'
  <2>1. Len(kept) \in Nat /\ Len(new) \in Nat /\ Len(kept) <= Len(new)
    BY <1>6, <1>7 DEF AreFresh, Selected
  <2>2. CASE Len(kept) < Len(new)
    BY <1>1, <2>2 DEF NumbersCount
  <2>3. CASE ~ (Len(kept) < Len(new))
    <3>1. \A i \in 1..Len(kept) : kept[i].id = Offset + i
      BY <1>4, <1>6, <1>7, <2>1, <2>3 DEF AreFresh, Selected
    <3>2. SUFFICES ASSUME ~ dropped PROVE NumbersCount'
      BY <1>1, <2>3 DEF NumbersCount
    <3>3. /\ \A i \in 1..Len(suite) : suite[i].id = i
          /\ \A i \in 1..Len(roundNew) : roundNew[i].id = Len(suite) + i
      BY <3>2 DEF NumbersCount
    <3>4. ASSUME NEW i \in 1..Len(roundNew') PROVE roundNew'[i].id = Len(suite) + i
      <4>1. Len(roundNew') = Len(roundNew) + Len(kept) /\ Len(roundNew) \in Nat /\ Len(suite) \in Nat
        BY <1>1, <1>7 DEF SuiteOK
      <4>2. CASE i \in 1..Len(roundNew)
        <5>1. roundNew'[i] = roundNew[i]
          BY <1>1, <1>7, <4>2 DEF SuiteOK
        <5> QED
          BY <3>3, <4>2, <5>1
      <4>3. CASE i \notin 1..Len(roundNew)
        <5> DEFINE j == i - Len(roundNew)
        <5>1. j \in 1..Len(kept) /\ i = Len(roundNew) + j
          BY <2>1, <4>1, <4>3
        <5>2. roundNew'[i] = kept[j]
          BY <1>1, <1>7, <4>1, <4>3, <5>1 DEF SuiteOK
        <5>3. kept[j].id = Offset + j
          BY <3>1, <5>1
        <5> QED
          BY <1>5, <4>1, <5>1, <5>2, <5>3
      <4> QED
        BY <4>2, <4>3
    <3> QED
      BY <1>1, <3>3, <3>4 DEF NumbersCount
  <2> QED
    BY <2>2, <2>3
<1>13. GapsOfSuite'
  BY <1>1, GapsStay
<1> QED
  BY <1>1, <1>8, <1>9, <1>10, <1>11, <1>12, <1>13, FixedStays, NotDoneYet, SuiteStays

\* A round is closed: what the library does not know joins the suite, and the
\* gaps are built again from all of it.
LEMMA CloseInv ==
  ASSUME GapInv, CloseRound PROVE GapInv'
<1> USE DEF GapInv
<1> DEFINE fresh == Deduplicate(roundNew, suite)
           unique == UniqueNew
           left == BuildGaps(Tests(suite \o unique), Analyze(tree, Stored))
<1>1. /\ phase = "close"
      /\ suite' = suite \o unique
      /\ dropped' = (dropped \/ Len(unique) < Len(roundNew))
      /\ roundNew' = <<>>
      /\ gaps' \in {gaps, left}
      /\ phase' \in {"report", "select"}
      /\ UNCHANGED <<tree, cases, fused, firstSuite, chosen, round, gapLimit, regen,
                     unresolved, impact, meddled>>
  BY DEF CloseRound
<1>2. AreFresh(roundNew, suite, fresh) /\ fresh \in Seq(Numbered)
  BY DeduplicateFacts DEF SuiteOK
<1>3. /\ AreFresh(fresh, suite, unique) /\ unique \in Seq(Numbered)
      /\ \A i \in 1..Len(unique) : ~ IsKnown(unique[i].test)
  <2>1. unique = Unknown(fresh)
    BY DEF UniqueNew
  <2> HIDE DEF fresh, unique
  <2> QED
    BY <1>2, <2>1, UnknownFacts DEF AreFresh, SuiteOK
<1>4. left \subseteq Gap
  BY BuiltAreGaps
<1>10. IF unique = <<>> THEN gaps' = gaps ELSE gaps' = left
  BY DEF CloseRound
<1>11. GapsOfSuite'
  <2>1. CASE unique = <<>>
    <3>1. suite' = suite
      BY <1>1, <2>1 DEF SuiteOK
    <3> QED
      BY <1>1, <1>10, <2>1, <3>1, GapsStay
  <2>2. CASE unique # <<>>
    BY <1>1, <1>10, <2>2, GapsBuilt
  <2> QED
    BY <2>1, <2>2
<1> HIDE DEF left, unique, fresh
<1>5. SuiteOK' /\ CasesOK'
  <2>1. suite' \in Seq(Numbered) /\ Len(suite') = Len(suite) + Len(unique)
    BY <1>1, <1>3 DEF SuiteOK
  <2>2. Len(unique) \in Nat
    BY <1>3
  <2> QED
    BY <1>1, <2>1, <2>2 DEF SuiteOK, CasesOK
<1>6. GapsOK' /\ PhaseOK' /\ StepOK'
  BY <1>1, <1>4 DEF GapsOK, PhaseOK, StepOK
<1>7. NumbersCount'
  <2>1. Len(unique) \in Nat /\ Len(fresh) \in Nat /\ Len(roundNew) \in Nat
        /\ Len(unique) <= Len(fresh) /\ Len(fresh) <= Len(roundNew)
    BY <1>2, <1>3 DEF AreFresh, Selected, SuiteOK
  <2>2. CASE Len(unique) < Len(roundNew)
    BY <1>1, <2>2 DEF NumbersCount
  <2>3. CASE ~ (Len(unique) < Len(roundNew))
    <3>1. Len(unique) = Len(roundNew) /\ Len(unique) = Len(fresh)
      BY <2>1, <2>3
    <3>2. \A i \in 1..Len(unique) : unique[i] = roundNew[i]
      BY <1>2, <1>3, <3>1 DEF AreFresh, Selected
    <3>3. SUFFICES ASSUME ~ dropped PROVE NumbersCount'
      BY <1>1, <2>3 DEF NumbersCount
    <3>4. /\ \A i \in 1..Len(suite) : suite[i].id = i
          /\ \A i \in 1..Len(unique) : unique[i].id = Len(suite) + i
      BY <3>1, <3>2, <3>3 DEF NumbersCount
    <3>5. ASSUME NEW i \in 1..Len(suite') PROVE suite'[i].id = i
      <4>1. Len(suite') = Len(suite) + Len(unique) /\ Len(suite) \in Nat
        BY <1>1, <1>3 DEF SuiteOK
      <4>2. CASE i \in 1..Len(suite)
        <5>1. suite'[i] = suite[i]
          BY <1>1, <1>3, <4>2 DEF SuiteOK
        <5> QED
          BY <3>4, <4>2, <5>1
      <4>3. CASE i \notin 1..Len(suite)
        <5> DEFINE j == i - Len(suite)
        <5>1. j \in 1..Len(unique) /\ i = Len(suite) + j
          BY <2>1, <4>1, <4>3
        <5>2. suite'[i] = unique[j]
          BY <1>1, <1>3, <4>1, <4>3, <5>1 DEF SuiteOK
        <5> QED
          BY <3>4, <5>1, <5>2
      <4> QED
        BY <4>2, <4>3
    <3> QED
      BY <1>1, <3>5 DEF NumbersCount
  <2> QED
    BY <2>2, <2>3
<1>8. TargetedApart'
  <2> SUFFICES ASSUME NEW i \in firstSuite + 1..Len(suite')
               PROVE  /\ ~ IsKnown(suite'[i].test)
                      /\ \A j \in 1..Len(suite') : j # i => ~ IsDuplicate(suite'[i].test, suite'[j].test)
    BY <1>1 DEF TargetedApart, IsKnown
  <2>1. /\ Len(suite') = Len(suite) + Len(unique)
        /\ Len(suite) \in Nat /\ Len(unique) \in Nat /\ firstSuite \in 0..Len(suite)
        /\ \A j \in 1..Len(suite) : suite'[j] = suite[j]
        /\ \A j \in 1..Len(unique) : suite'[Len(suite) + j] = unique[j]
    BY <1>1, <1>3 DEF SuiteOK
  <2>2. ASSUME NEW j \in 1..Len(suite')
        PROVE  \/ j \in 1..Len(suite)
               \/ \E k \in 1..Len(unique) : j = Len(suite) + k
    <3>1. CASE j \in 1..Len(suite)
      BY <3>1
    <3>2. CASE j \notin 1..Len(suite)
      <4>1. j - Len(suite) \in 1..Len(unique) /\ j = Len(suite) + (j - Len(suite))
        BY <2>1, <3>2
      <4> QED
        BY <4>1
    <3> QED
      BY <3>1, <3>2
  <2>3. DOMAIN suite = 1..Len(suite)
    BY DEF SuiteOK
  <2>4. Apart(suite, unique)
    BY <1>3 DEF AreFresh
  <2>5. CASE i \in 1..Len(suite)
    <3>1. /\ ~ IsKnown(suite[i].test)
          /\ \A j \in 1..Len(suite) : j # i => ~ IsDuplicate(suite[i].test, suite[j].test)
      BY <2>1, <2>5 DEF TargetedApart
    <3>2. \A k \in 1..Len(unique) : ~ IsDuplicate(suite[i].test, unique[k].test)
      BY <2>3, <2>4, <2>5, DuplicatesBothWays DEF Apart
    <3> QED
      BY <2>1, <2>2, <2>5, <3>1, <3>2
  <2>6. CASE i \notin 1..Len(suite)
    <3>1. PICK k \in 1..Len(unique) : i = Len(suite) + k
      BY <2>1, <2>2, <2>6
    <3>2. suite'[i] = unique[k] /\ ~ IsKnown(unique[k].test)
      BY <1>3, <2>1, <3>1
    <3>3. \A j \in 1..Len(suite) : ~ IsDuplicate(unique[k].test, suite[j].test)
      BY <2>3, <2>4 DEF Apart
    <3>4. \A j \in 1..Len(unique) : j # k => ~ IsDuplicate(unique[k].test, unique[j].test)
      BY <2>4 DEF Apart
    <3> QED
      BY <2>1, <2>2, <3>1, <3>2, <3>3, <3>4
  <2> QED
    BY <2>5, <2>6
<1>9. phase' # "done"
  BY <1>1
<1> QED
  BY <1>1, <1>5, <1>6, <1>7, <1>8, <1>9, <1>11, FixedStays, NotDoneYet

\* The last gaps, and what is reported of them.
LEMMA ReportInv ==
  ASSUME GapInv, Report PROVE GapInv'
<1> USE DEF GapInv
<1> DEFINE open == StillOpen(gaps, Tests(suite))
<1>1. /\ phase = "report" /\ phase' = "done"
      /\ unresolved' = IF regen THEN open ELSE {g \in gaps : High(g)}
      /\ UNCHANGED <<tree, cases, fused, suite, firstSuite, gaps, chosen, roundNew, round, gapLimit,
                     regen, impact, dropped, meddled>>
  BY DEF Report
<1>2. GapsOfSuite'
  BY <1>1, GapsStay
<1>3. GapsOK'
  BY <1>1 DEF GapsOK, StillOpen
<1>4. CasesOK' /\ SuiteOK' /\ StepOK' /\ PhaseOK' /\ NumbersCount'
  BY <1>1 DEF CasesOK, SuiteOK, StepOK, PhaseOK, NumbersCount
<1>5. OpenGapsReported'
  <2> SUFFICES ASSUME regen, unresolved' = open
               PROVE  OpenGapsReported'
    BY <1>1 DEF OpenGapsReported
  <2>1. ASSUME NEW p \in LongestPaths(tree, Names, Root, Depth)
        PROVE  PathCovered(p, Tests(suite))
               <=> ~ \E g \in open : g.kind \in {"path", "failing"} /\ g.path = p
    <3>1. p \in fused.paths
      <4>1. tree \in SUBSET (Names \X Names) /\ Root \in Names /\ IsFiniteSet(Names) /\ Depth \in Nat
        BY GapAssumption DEF ContextOK
      <4> QED
        BY <4>1, SearchFindsLongestPaths DEF ContextOK
    <3>2. ASSUME PathCovered(p, Tests(suite)), NEW g \in open,
                 g.kind \in {"path", "failing"}, g.path = p
          PROVE  FALSE
      BY <3>2 DEF StillOpen
    <3>3. ASSUME ~ PathCovered(p, Tests(suite))
          PROVE  \E g \in open : g.kind \in {"path", "failing"} /\ g.path = p
      <4>1. PathGap(p) \in gaps
        BY <1>1, <3>1, <3>3 DEF GapsOfSuite
      <4>2. PathGap(p).kind \in {"path", "failing"} /\ PathGap(p).path = p
        BY DEF PathGap, MakeGap
      <4>3. PathGap(p) \in open
        BY <3>3, <4>1, <4>2 DEF StillOpen
      <4> QED
        BY <4>2, <4>3
    <3> QED
      BY <3>2, <3>3
  <2>2. ASSUME NEW b \in Bugs, ~ BugCovered(b, Tests(suite))
        PROVE  \E g \in open : g.kind = "bug" /\ g.topic = b
    <3>1. BugGap(b) \in gaps
      BY <1>1, <2>2 DEF GapsOfSuite
    <3>2. BugGap(b).kind = "bug" /\ BugGap(b).topic = b
      BY DEF BugGap, MakeGap
    <3>3. \A t \in Tests(suite) : b \notin Mentions(t)
      BY <2>2 DEF BugCovered
    <3>4. BugGap(b) \in open
      BY <3>1, <3>2, <3>3 DEF StillOpen
    <3> QED
      BY <3>2, <3>4
  <2> HIDE DEF open
  <2>3. OpenGapsReported' <=>
          /\ \A p \in LongestPaths(tree, Names, Root, Depth) :
               PathCovered(p, Tests(suite))
               <=> ~ \E g \in open : g.kind \in {"path", "failing"} /\ g.path = p
          /\ \A b \in Bugs : \/ BugCovered(b, Tests(suite))
                             \/ \E g \in open : g.kind = "bug" /\ g.topic = b
    BY <1>1 DEF OpenGapsReported, Tests
  <2> QED
    BY <2>1, <2>2, <2>3
<1> QED
  BY <1>1, <1>2, <1>3, <1>4, <1>5, FixedStays, SuiteStays

\* A test of the library is deleted by someone else.
LEMMA DeleteInv ==
  ASSUME GapInv, NEW n \in 1..MaxCases, DeleteElsewhere(n) PROVE GapInv'
<1> USE DEF GapInv
<1>1. /\ phase # "done" /\ cases' = [cases EXCEPT ![n] = NoCase] /\ meddled' = TRUE
      /\ UNCHANGED <<tree, fused, suite, firstSuite, gaps, chosen, roundNew, round, gapLimit,
                     regen, phase, unresolved, impact, dropped>>
  BY DEF DeleteElsewhere
<1>2. CasesOK'
  BY <1>1 DEF CasesOK
<1>3. SuiteOK' /\ GapsOK' /\ StepOK' /\ PhaseOK' /\ NumbersCount' /\ GapsOfSuite'
  BY <1>1, GapsStay DEF SuiteOK, GapsOK, StepOK, PhaseOK, NumbersCount
<1> QED
  BY <1>1, <1>2, <1>3, FixedStays, NotDoneYet, SuiteStays

\* No step breaks the invariant.
LEMMA GapStepInv ==
  GapInv /\ [GapNext]_gapVars => GapInv'
<1> SUFFICES ASSUME GapInv, [GapNext]_gapVars PROVE GapInv'
  OBVIOUS
<1>1. CASE UNCHANGED gapVars
  <2>1. UNCHANGED <<tree, cases, fused, suite, firstSuite, gaps, chosen, roundNew, round,
                    gapLimit, regen, phase, unresolved, impact, dropped, meddled>>
    BY <1>1 DEF gapVars
  <2>2. FixedOK' /\ ContextOK' /\ CasesOK' /\ SuiteOK' /\ GapsOK' /\ StepOK'
    BY <2>1 DEF GapInv, FixedOK, ContextOK, CasesOK, SuiteOK, GapsOK, StepOK
  <2>3. PhaseOK' /\ NumbersCount' /\ TargetedApart'
    BY <2>1, SuiteStays DEF GapInv, PhaseOK, NumbersCount
  <2>4. OpenGapsReported'
    BY <2>1 DEF GapInv, OpenGapsReported, Tests
  <2>5. GapsOfSuite'
    BY <2>1, GapsStay DEF GapInv
  <2> QED
    BY <2>2, <2>3, <2>4, <2>5 DEF GapInv
<1>2. CASE GenerateSuite
  BY <1>2, GenerateInv
<1>3. CASE AnalyzeGaps
  BY <1>3, AnalyzeInv
<1>4. CASE SelectGaps
  BY <1>4, SelectInv
<1>5. CASE \E g \in chosen : \E ts \in Answers(g) : GenerateForGap(g, ts)
  BY <1>5, ForGapInv
<1>6. CASE CloseRound
  BY <1>6, CloseInv
<1>7. CASE Report
  BY <1>7, ReportInv
<1>8. CASE \E n \in 1..MaxCases : DeleteElsewhere(n)
  BY <1>8, DeleteInv
<1> QED
  BY <1>1, <1>2, <1>3, <1>4, <1>5, <1>6, <1>7, <1>8 DEF GapNext

\* It holds in every state of a run.
LEMMA GapInvariant ==
  GapSpec => []GapInv
<1> QED
  BY GapInitInv, GapStepInv, PTL DEF GapSpec

\* For any flow, drafts, library and limits: gaps and tests keep their types
\* through every round, and impact is told of nodes and stored tests only.
THEOREM GapsTypeCorrect == GapSpec => []GapTypeOK
<1>1. GapInv => GapTypeOK
  BY PartsOfTypes DEF GapInv
<1> QED
  BY <1>1, GapInvariant, PTL

\* However many rounds were run, and whatever the model wrote or another user
\* deleted: a run that regenerates lists exactly the longest paths that no test
\* of the suite its rounds leave ends at, and every bug they leave uncovered.
THEOREM OpenGapsAreReported == GapSpec => []OpenGapsReported
<1>1. GapInv => OpenGapsReported
  BY DEF GapInv
<1> QED
  BY <1>1, GapInvariant, PTL

\* A test that was written for a gap is not one the library has, and no other
\* test of the suite is its duplicate.
THEOREM TargetedTestsStayNew == GapSpec => []TargetedTestsAreNew
<1>1. ASSUME GapInv PROVE TargetedTestsAreNew
  <2> SUFFICES ASSUME NEW i \in firstSuite + 1..Len(suite)
               PROVE  /\ ~ IsKnown(suite[i].test)
                      /\ \A j \in 1..Len(suite) \ {i} :
                           /\ ~ IsDuplicate(suite[i].test, suite[j].test)
                           /\ suite[i].id = suite[j].id => dropped
    BY DEF TargetedTestsAreNew
  <2>1. i \in 1..Len(suite)
    BY <1>1 DEF GapInv, SuiteOK
  <2>2. ~ IsKnown(suite[i].test)
    BY <1>1 DEF GapInv, TargetedApart
  <2>3. \A j \in 1..Len(suite) \ {i} : ~ IsDuplicate(suite[i].test, suite[j].test)
    BY <1>1 DEF GapInv, TargetedApart
  <2>4. ASSUME NEW j \in 1..Len(suite) \ {i}, suite[i].id = suite[j].id PROVE dropped
    <3>1. CASE ~ dropped
      <4>1. suite[i].id = i /\ suite[j].id = j
        BY <1>1, <2>1, <3>1 DEF GapInv, NumbersCount
      <4> QED
        BY <2>4, <4>1
    <3> QED
      BY <3>1
  <2> QED
    BY <2>2, <2>3, <2>4
<1>2. GapInv => TargetedTestsAreNew
  BY <1>1
<1> QED
  BY <1>2, GapInvariant, PTL

-----------------------------------------------------------------------------
(* The five components together.                                           *)

\* A behaviour of the five is a behaviour of each: their steps leave the
\* variables of the others alone.
LEMMA ComponentsBehave ==
  Spec => /\ FlowSpec /\ GapSpec /\ StreamSpec /\ KnowledgeSpec /\ ConnectionSpec
<1>1. Init => FlowInit /\ GapInit /\ StreamInit /\ KnowledgeInit /\ ConnectionInit
  BY DEF Init
<1>2. [Next]_vars => [FlowNext]_flowVars
  BY DEF Next, vars
<1>3. [Next]_vars => [GapNext]_gapVars
  BY DEF Next, vars
<1>4. [Next]_vars => [StreamNext]_streamVars
  BY DEF Next, vars
<1>5. [Next]_vars => [KnowledgeNext]_knowledgeVars
  BY DEF Next, vars
<1>6. [Next]_vars => [ConnectionNext]_connectionVars
  BY DEF Next, vars
<1> QED
  BY <1>1, <1>2, <1>3, <1>4, <1>5, <1>6, PTL
  DEF Spec, FlowSpec, GapSpec, StreamSpec, KnowledgeSpec, ConnectionSpec

\* Whatever the components do in turn, each of them keeps its types: nodes,
\* versions, gaps, tests, events, documents and pairs of tokens stay of their
\* kind and within their bounds.
THEOREM ServicesTypesCorrect == Spec => []ServicesTypeOK
<1>1. FlowTypeOK /\ GapTypeOK /\ StreamTypeOK /\ KnowledgeTypeOK /\ ConnectionTypeOK
        => ServicesTypeOK
  BY DEF ServicesTypeOK
<1> QED
  BY <1>1, ComponentsBehave, FlowTypeCorrect, GapsTypeCorrect, StreamTypeCorrect,
     KnowledgeTypeCorrect, ConnectionTypeCorrect, PTL
=============================================================================
