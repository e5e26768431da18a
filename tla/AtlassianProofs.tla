---------------------------- MODULE AtlassianProofs ----------------------------
(***************************************************************************)
(* The connection to Atlassian: types, and that rotation leaves it with    *)
(* the pair Atlassian refreshes (NewestPairKept), for any number of        *)
(* threads, consents and pairs of tokens. The knowledge base that is fed   *)
(* by it and by uploads: types, that a document whose upload was answered  *)
(* is indexed (AckedDocumentsIndexed), and that a source has its document  *)
(* (SourcesIndexed), for any number of threads, projects, pages, documents *)
(* and contents.                                                           *)
(***************************************************************************)
EXTENDS AtlassianConnection, KnowledgeBase, TLAPS

-----------------------------------------------------------------------------
(* Types. *)

RequestType ==
  [at : {"idle", "send", "post", "sites"} \union Touching,
   next : {"idle", "send", "post", "sites", "load"}, pair : Pairs \union {NoPair},
   tries : 0..Retries, refreshed : BOOLEAN]

\* Go puts a thread into a place it may be in.
LEMMA GoTypes ==
  ASSUME ConnectionTypeOK, NEW q \in Requests, NEW r \in RequestType, Go(q, r)
  PROVE  /\ request' \in [Requests -> RequestType]
         /\ crossed' \in BOOLEAN
  BY DEF Go, ConnectionTypeOK, RequestType

\* A thread at rest is well typed.
LEMMA RestingTypes == Resting \in RequestType
  BY ConnectionAssumption DEF ConnectionAssumption, Resting, RequestType, Touching

\* Refresh does too, from a request that has a place to go on to.
LEMMA RefreshTypes ==
  ASSUME ConnectionTypeOK, NEW q \in Requests, NEW r \in RequestType,
         NEW next \in {"idle", "send", "post", "sites", "load"}, Refresh(q, r, next)
  PROVE  /\ request' \in [Requests -> RequestType]
         /\ crossed' \in BOOLEAN
<1>1. [r EXCEPT !.at = "refresh", !.next = next, !.pair = pair] \in RequestType
  BY DEF RequestType, Touching, ConnectionTypeOK
<1> QED
  BY <1>1, GoTypes, RestingTypes DEF Refresh

\* Issue draws the next pair.
LEMMA IssueTypes ==
  ASSUME ConnectionTypeOK, NEW q \in Requests, Issue(q, Resting)
  PROVE  /\ request' \in [Requests -> RequestType]
         /\ crossed' \in BOOLEAN
         /\ pairs' \in 0..MaxPairs /\ valid' \in Pairs
<1>1. pairs + 1 \in Pairs /\ pairs' = pairs + 1 /\ valid' = pairs + 1
  BY ConnectionAssumption DEF ConnectionAssumption, Issue, Pairs, ConnectionTypeOK
<1>2. request \in [Requests -> RequestType]
  BY DEF ConnectionTypeOK, RequestType
<1>3. [request[q] EXCEPT !.at = "tokens", !.pair = pairs + 1] \in RequestType
  BY <1>1, <1>2 DEF RequestType, Touching
<1>4. CASE Go(q, [request[q] EXCEPT !.at = "tokens", !.pair = pairs + 1])
  BY <1>1, <1>3, <1>4, GoTypes DEF Pairs
<1>5. CASE request' = [request EXCEPT ![q] = Resting] /\ crossed' = TRUE
  BY <1>1, <1>2, <1>5, RestingTypes DEF Pairs
<1> QED
  BY <1>4, <1>5 DEF Issue

\* Each action keeps the types.
LEMMA ConnectionTypeStep ==
  ASSUME ConnectionTypeOK, [ConnectionNext]_connectionVars
  PROVE  ConnectionTypeOK'
<1> USE ConnectionAssumption DEF ConnectionAssumption
<1>0. request \in [Requests -> RequestType]
  BY DEF ConnectionTypeOK, RequestType
<1>1. CASE UNCHANGED connectionVars
  BY <1>1 DEF connectionVars, ConnectionTypeOK
<1>2. CASE \E s \in States : Connect(s) \/ Denied(s)
  BY <1>2 DEF Connect, Denied, Pop, ConnectionTypeOK
<1>3. CASE Disconnect \/ RevokedThere
  BY <1>3 DEF Disconnect, RevokedThere, ConnectionTypeOK
<1>4. ASSUME NEW q \in Requests, NEW s \in States, Callback(q, s)
      PROVE  ConnectionTypeOK'
  <2>1. [Resting EXCEPT !.at = "exchange", !.next = "sites"] \in RequestType
    BY RestingTypes DEF RequestType, Touching
  <2>2. request' \in [Requests -> RequestType] /\ crossed' \in BOOLEAN
    BY <1>4, <2>1, GoTypes DEF Callback
  <2> QED
    BY <1>4, <2>2 DEF Callback, Pop, ConnectionTypeOK, RequestType
<1>5. ASSUME NEW q \in Requests, Exchange(q) \/ PostRefresh(q)
      PROVE  ConnectionTypeOK'
  <2>1. [request[q] EXCEPT !.at = "load"] \in RequestType
    BY <1>0 DEF RequestType, Touching
  <2>2. /\ request' \in [Requests -> RequestType] /\ crossed' \in BOOLEAN
        /\ pairs' \in 0..MaxPairs /\ valid' \in Pairs \union {NoPair}
    <3>1. CASE Issue(q, Resting)
      BY <3>1, IssueTypes
    <3>2. CASE Go(q, Resting) /\ UNCHANGED <<valid, pairs>>
      BY <3>2, GoTypes, RestingTypes DEF ConnectionTypeOK
    <3>3. CASE Go(q, [request[q] EXCEPT !.at = "load"]) /\ UNCHANGED <<valid, pairs>>
      BY <3>3, <2>1, GoTypes DEF ConnectionTypeOK
    <3> QED
      BY <1>5, <3>1, <3>2, <3>3 DEF Exchange, PostRefresh
  <2>3. UNCHANGED <<issued, asked, pair>>
    BY <1>5 DEF Exchange, PostRefresh
  <2> QED
    BY <2>2, <2>3 DEF ConnectionTypeOK, RequestType
<1>6. ASSUME NEW q \in Requests,
             Call(q) \/ TakeToken(q) \/ Send(q) \/ SelectSite(q) \/ FetchSites(q) \/ Load(q)
      PROVE  ConnectionTypeOK'
  <2>1. \A at \in {"send", "post", "sites", "load"} :
          /\ [request[q] EXCEPT !.at = at] \in RequestType
          /\ [Resting EXCEPT !.at = at] \in RequestType
    BY <1>0, RestingTypes DEF RequestType, Touching
  <2>2. [request[q] EXCEPT !.at = "write", !.pair = pair] \in RequestType
    BY <1>0 DEF RequestType, Touching, ConnectionTypeOK
  <2>3. request' \in [Requests -> RequestType] /\ crossed' \in BOOLEAN
    <3>1. CASE Call(q) \/ SelectSite(q) \/ Load(q)
      BY <2>1, <2>2, <3>1, GoTypes DEF Call, SelectSite, Load
    <3>2. CASE TakeToken(q) \/ FetchSites(q)
      BY <1>0, <2>1, <3>2, GoTypes, RestingTypes, RefreshTypes DEF TakeToken, FetchSites
    <3>3. CASE Send(q)
      <4> DEFINE again == [request[q] EXCEPT !.tries = @ + 1]
      <4>1. TryLeft(request[q]) => again \in RequestType
        BY <1>0 DEF TryLeft, RequestType
      <4>2. TryLeft(request[q]) => /\ [again EXCEPT !.refreshed = TRUE] \in RequestType
                                   /\ [again EXCEPT !.at = "send"] \in RequestType
        BY <4>1 DEF RequestType, Touching
      <4>3. TryLeft(request[q]) <=> request[q].tries < Retries
        BY DEF TryLeft
      <4> HIDE DEF again
      <4>4. \/ /\ TryLeft(request[q])
               /\ Refresh(q, [again EXCEPT !.refreshed = TRUE], "send")
            \/ Refresh(q, request[q], "idle")
            \/ TryLeft(request[q]) /\ Go(q, [again EXCEPT !.at = "send"])
            \/ Go(q, Resting)
        BY <3>3 DEF Send, again
      <4> QED
        BY <1>0, <4>2, <4>4, GoTypes, RefreshTypes, RestingTypes
    <3> QED
      BY <1>6, <3>1, <3>2, <3>3
  <2>4. UNCHANGED <<issued, asked, pair, valid, pairs>>
    BY <1>6 DEF Call, TakeToken, Send, SelectSite, FetchSites, Load
  <2> QED
    BY <2>3, <2>4 DEF ConnectionTypeOK, RequestType
<1>7. ASSUME NEW q \in Requests, SetTokens(q) \/ WriteBack(q)
      PROVE  ConnectionTypeOK'
  <2>1. request[q].next # "idle" =>
          [request[q] EXCEPT !.at = request[q].next, !.pair = NoPair, !.next = "idle"]
            \in RequestType
    BY <1>0 DEF RequestType, Touching
  <2>2. request' \in [Requests -> RequestType] /\ crossed' \in BOOLEAN
    BY <1>7, <2>1, GoTypes, RestingTypes DEF SetTokens, WriteBack
  <2>3. pair' \in Pairs \union {NoPair} /\ UNCHANGED <<issued, asked, valid, pairs>>
    BY <1>0, <1>7 DEF SetTokens, WriteBack, Saved, RequestType
  <2> QED
    BY <2>2, <2>3 DEF ConnectionTypeOK, RequestType
<1> QED
  BY <1>1, <1>2, <1>3, <1>4, <1>5, <1>6, <1>7 DEF ConnectionNext

\* The initial state is well typed.
LEMMA InitTypes == ConnectionInit => ConnectionTypeOK
<1> SUFFICES ASSUME ConnectionInit PROVE ConnectionTypeOK
  OBVIOUS
<1>1. request \in [Requests -> RequestType]
  BY RestingTypes DEF ConnectionInit
<1>2. pairs \in 0..MaxPairs
  BY ConnectionAssumption DEF ConnectionAssumption, ConnectionInit
<1> QED
  BY <1>1, <1>2 DEF ConnectionInit, ConnectionTypeOK, RequestType

\* Types of the connection, its tokens and the threads that use it.
THEOREM ConnectionTypeCorrect == ConnectionSpec => []ConnectionTypeOK
<1> QED
  BY InitTypes, ConnectionTypeStep, PTL DEF ConnectionSpec

-----------------------------------------------------------------------------
(* The newest pair. *)

\* A thread that goes on without a new pair, and not to write one, changes
\* nothing of the invariant.
LEMMA GoKeepsPairs ==
  ASSUME ConnectionTypeOK, PairInv, NEW q \in Requests, NEW r, Go(q, r),
         request[q].at # "tokens", r.at \notin {"tokens", "write"},
         UNCHANGED <<pair, valid>>
  PROVE  PairInv'
<1> SUFFICES ASSUME ~ crossed'
             PROVE  (/\ OneAtATime /\ NewPairInHand /\ StoredPairInHand
                     /\ (\A o \in Requests : request[o].at # "tokens") => PairsAgree)'
  BY DEF PairInv
<1>1. ~ crossed /\ (r.at \in Touching => Alone(q))
  BY DEF Go
<1>2. \A o \in Requests : request'[o] = IF o = q THEN r ELSE request[o]
  BY DEF Go, ConnectionTypeOK
<1>3. OneAtATime'
  BY <1>1, <1>2 DEF PairInv, OneAtATime, Alone
<1>4. NewPairInHand' /\ StoredPairInHand'
  BY <1>1, <1>2 DEF PairInv, NewPairInHand, StoredPairInHand
<1>5. (\A o \in Requests : request'[o].at # "tokens") => PairsAgree'
  BY <1>1, <1>2 DEF PairInv, PairsAgree
<1> QED
  BY <1>3, <1>4, <1>5

\* A thread that takes the stored pair to refresh it, when no other is at work.
LEMMA RefreshKeepsPairs ==
  ASSUME ConnectionTypeOK, PairInv, NEW q \in Requests, NEW r \in RequestType, NEW next,
         Refresh(q, r, next), request[q].at # "tokens", UNCHANGED <<pair, valid>>
  PROVE  PairInv'
<1>1. [r EXCEPT !.at = "refresh", !.next = next, !.pair = pair].at = "refresh"
  BY DEF RequestType
<1> QED
  BY <1>1, GoKeepsPairs DEF Refresh, Resting

\* A new pair is in the hands of its thread, or was lost.
LEMMA IssueKeepsPairs ==
  ASSUME ConnectionTypeOK, PairInv, NEW q \in Requests, Issue(q, Resting),
         request[q].at \in Touching, UNCHANGED pair
  PROVE  PairInv'
<1> SUFFICES ASSUME ~ crossed'
             PROVE  (/\ OneAtATime /\ NewPairInHand /\ StoredPairInHand
                     /\ (\A o \in Requests : request[o].at # "tokens") => PairsAgree)'
  BY DEF PairInv
<1> DEFINE r == [request[q] EXCEPT !.at = "tokens", !.pair = pairs + 1]
<1>1. Go(q, r) /\ valid' = pairs + 1
  BY DEF Issue
<1>2. r.at = "tokens" /\ r.pair = pairs + 1
  BY DEF ConnectionTypeOK
<1> HIDE DEF r
<1>3. ~ crossed /\ Alone(q)
  BY <1>1, <1>2 DEF Go, Touching
<1>4. \A o \in Requests : request'[o] = IF o = q THEN r ELSE request[o]
  BY <1>1 DEF Go, ConnectionTypeOK
<1>5. \A o \in Requests \ {q} : request'[o].at \notin Touching
  BY <1>3, <1>4 DEF Alone
<1>6. OneAtATime'
  BY <1>5 DEF OneAtATime
<1>7. NewPairInHand' /\ StoredPairInHand'
  BY <1>1, <1>2, <1>4, <1>5 DEF NewPairInHand, StoredPairInHand, Touching
<1> QED
  BY <1>2, <1>4, <1>6, <1>7

\* Every step keeps PairInv.
LEMMA PairStep ==
  ASSUME ConnectionTypeOK, PairInv, [ConnectionNext]_connectionVars
  PROVE  PairInv'
<1>0. request \in [Requests -> RequestType]
  BY DEF ConnectionTypeOK, RequestType
<1> USE DEF PairInv, OneAtATime, NewPairInHand, StoredPairInHand, PairsAgree
<1>1. CASE UNCHANGED connectionVars
  BY <1>1 DEF connectionVars
<1>2. CASE \E s \in States : Connect(s) \/ Denied(s)
  BY <1>2 DEF Connect, Denied
<1>3. CASE Disconnect
  BY <1>3 DEF Disconnect, Touching
<1>4. CASE RevokedThere
  BY <1>4 DEF RevokedThere
<1>5. ASSUME NEW q \in Requests, NEW s \in States, Callback(q, s)
      PROVE  PairInv'
  <2>1. [Resting EXCEPT !.at = "exchange", !.next = "sites"].at = "exchange"
    BY DEF Resting
  <2> QED
    BY <1>5, <2>1, GoKeepsPairs DEF Callback
<1>6. ASSUME NEW q \in Requests, Exchange(q) \/ PostRefresh(q)
      PROVE  PairInv'
  <2>1. /\ request[q].at \in {"exchange", "refresh"} /\ UNCHANGED pair
        /\ \/ Issue(q, Resting)
           \/ Go(q, Resting) /\ UNCHANGED valid
           \/ Go(q, [request[q] EXCEPT !.at = "load"]) /\ UNCHANGED valid
    BY <1>6 DEF Exchange, PostRefresh
  <2>2. [request[q] EXCEPT !.at = "load"].at = "load" /\ Resting.at = "idle"
    BY <1>0 DEF RequestType, Resting
  <2> QED
    BY <2>1, <2>2, GoKeepsPairs, IssueKeepsPairs DEF Touching
<1>7. ASSUME NEW q \in Requests, Call(q) \/ TakeToken(q) \/ SelectSite(q) \/ FetchSites(q)
      PROVE  PairInv'
  <2>1. /\ Resting.at = "idle"
        /\ \A at \in {"send", "post", "sites", "load"} :
             [request[q] EXCEPT !.at = at].at = at /\ [Resting EXCEPT !.at = at].at = at
    BY <1>0 DEF RequestType, Resting
  <2>2. CASE Call(q) \/ SelectSite(q)
    BY <2>1, <2>2, GoKeepsPairs DEF Call, SelectSite
  <2>3. CASE TakeToken(q) \/ FetchSites(q)
    BY <1>0, <2>1, <2>3, GoKeepsPairs, RefreshKeepsPairs DEF TakeToken, FetchSites
  <2> QED
    BY <1>7, <2>2, <2>3
<1>8. ASSUME NEW q \in Requests, Send(q)
      PROVE  PairInv'
  <2> DEFINE again == [request[q] EXCEPT !.tries = @ + 1]
  <2>4. TryLeft(request[q]) => again \in RequestType
    BY <1>0, ConnectionAssumption DEF ConnectionAssumption, TryLeft, RequestType
  <2>1. TryLeft(request[q]) => /\ [again EXCEPT !.refreshed = TRUE] \in RequestType
                               /\ [again EXCEPT !.at = "send"].at = "send"
    BY <2>4 DEF RequestType
  <2> HIDE DEF again
  <2>2. /\ request[q].at = "post" /\ UNCHANGED <<pair, valid>>
        /\ \/ TryLeft(request[q]) /\ Refresh(q, [again EXCEPT !.refreshed = TRUE], "send")
           \/ Refresh(q, request[q], "idle")
           \/ TryLeft(request[q]) /\ Go(q, [again EXCEPT !.at = "send"])
           \/ Go(q, Resting)
    BY <1>8 DEF Send, again
  <2>3. Resting.at = "idle"
    BY DEF Resting
  <2> QED
    BY <1>0, <2>1, <2>2, <2>3, GoKeepsPairs, RefreshKeepsPairs
<1>9. ASSUME NEW q \in Requests, Load(q) \/ WriteBack(q) \/ SetTokens(q), ~ crossed'
      PROVE  PairInv'
  <2> PICK r : Go(q, r) /\ UNCHANGED valid /\
         \/ r.at = "write" /\ r.pair = pair /\ request[q].at = "load" /\ UNCHANGED pair
         \/ r.at = "idle" /\ request[q].at = "write" /\ pair' = request[q].pair
         \/ r.at \in {"idle", "send", "post", "sites", "load"} /\ request[q].at = "tokens"
            /\ pair' = request[q].pair
    <3>1. /\ [request[q] EXCEPT !.at = "write", !.pair = pair].at = "write"
          /\ [request[q] EXCEPT !.at = "write", !.pair = pair].pair = pair
      BY <1>0 DEF RequestType
    <3>2. [request[q] EXCEPT !.at = request[q].next, !.pair = NoPair, !.next = "idle"].at
            \in {"idle", "send", "post", "sites", "load"}
      BY <1>0 DEF RequestType
    <3>3. Resting.at = "idle"
      BY DEF Resting
    <3> QED
      BY <1>9, <3>1, <3>2, <3>3 DEF Load, WriteBack, SetTokens, Saved
  <2>1. ~ crossed /\ request[q].at \in Touching
    BY <1>9 DEF Go, Touching
  <2>2. \A o \in Requests \ {q} : request'[o] = request[o] /\ request[o].at \notin Touching
    BY <1>0, <2>1 DEF Go
  <2>3. request'[q] = r
    BY <1>0 DEF Go
  <2>4. OneAtATime'
    BY <2>2
  <2>5. NewPairInHand' /\ StoredPairInHand'
    BY <2>2, <2>3 DEF Touching
  <2>6. PairsAgree'
    <3>1. CASE request[q].at = "tokens"
      <4>1. valid' \in {pair', NoPair}
        BY <2>1, <3>1
      <4> QED
        BY <4>1
    <3>2. CASE request[q].at # "tokens"
      <4>1. PairsAgree
        BY <2>1, <2>2, <3>2 DEF Touching
      <4>2. pair' = pair
        BY <2>1, <3>2
      <4> QED
        BY <4>1, <4>2
    <3> QED
      BY <3>1, <3>2
  <2> QED
    BY <2>4, <2>5, <2>6
<1>10. crossed' => PairInv'
  OBVIOUS
<1> QED
  BY <1>1, <1>2, <1>3, <1>4, <1>5, <1>6, <1>7, <1>8, <1>9, <1>10 DEF ConnectionNext

\* Rotation leaves the connection with the pair that Atlassian refreshes, for
\* any number of threads: unless two of them were at the connection at once,
\* or the answer with a new pair was lost.
THEOREM RotationKeepsNewestPair == ConnectionSpec => []NewestPairKept
<1>1. ConnectionInit => ConnectionTypeOK /\ PairInv
  <2>1. ConnectionInit => PairInv
    BY DEF ConnectionInit, PairInv, OneAtATime, NewPairInHand, StoredPairInHand, PairsAgree,
           Resting, Touching
  <2> QED
    BY <2>1, InitTypes
<1>2. ConnectionTypeOK /\ PairInv /\ [ConnectionNext]_connectionVars
        => ConnectionTypeOK' /\ PairInv'
  BY ConnectionTypeStep, PairStep
<1>3. PairInv => NewestPairKept
  BY DEF PairInv, PairsAgree, NewestPairKept, Touching
<1> QED
  BY <1>1, <1>2, <1>3, PTL DEF ConnectionSpec

-----------------------------------------------------------------------------
(* The knowledge base: types, and what each thread has in hand.            *)

Places == {"idle", "ingest", "chunks", "index", "answer", "fetch", "same",
           "replace", "store", "embed", "row", "blame", "drop", "unrow", "vectors", "rows"}
Thread == [at : Places,
           scope : Scopes \union {Nil}, name : Files \union Pages \union {Nil},
           text : Texts \union {Nil}, doc : DocIds \union {0},
           row : Sources \union {Nil}, src : Sources \union {Nil}]

\* One thread moves, and stays with its page.
Moved(t, at, text, doc) ==
  /\ work'[t].at = at /\ work'[t].text = text /\ work'[t].doc = doc
  /\ work'[t].scope = work[t].scope /\ work'[t].name = work[t].name
  /\ work'[t].row = work[t].row /\ work'[t].src = work[t].src
  /\ \A u \in Workers \ {t} : work'[u] = work[u]

\* One thread ends, or begins with this.
Holds(t, w) ==
  /\ work'[t] = w
  /\ \A u \in Workers \ {t} : work'[u] = work[u]

\* A thread at rest is well typed.
LEMMA RestIsThread == Rest \in Thread
BY DEF Rest, Thread, Places

\* A step moves a thread to another place.
LEMMA StepMoves ==
  ASSUME work \in [Workers -> Thread], NEW t \in Workers, NEW at \in Places,
         Step(t, at)
  PROVE  /\ work' \in [Workers -> Thread]
         /\ Moved(t, at, work[t].text, work[t].doc)
BY DEF Step, Thread, Moved

\* A thread that ends is at rest.
LEMMA EndRests ==
  ASSUME work \in [Workers -> Thread], NEW t \in Workers, End(t)
  PROVE  work' \in [Workers -> Thread] /\ Holds(t, Rest)
BY RestIsThread DEF End, Holds

\* A thread that begins has what it begins with.
LEMMA BeginHolds ==
  ASSUME work \in [Workers -> Thread], NEW t \in Workers, NEW w \in Thread, Begin(t, w)
  PROVE  work' \in [Workers -> Thread] /\ Holds(t, w)
BY DEF Begin, Holds

\* A call that fails ends the thread, or leads to the note on its source.
LEMMA FailsMoves ==
  ASSUME work \in [Workers -> Thread], NEW t \in Workers, Fails(t)
  PROVE  /\ work' \in [Workers -> Thread]
         /\ \/ work[t].src = Nil /\ Holds(t, Rest)
            \/ work[t].src # Nil /\ Moved(t, "blame", work[t].text, work[t].doc)
<1>1. CASE work[t].src = Nil
  BY <1>1, EndRests DEF Fails
<1>2. CASE work[t].src # Nil
  <2>1. Step(t, "blame") /\ "blame" \in Places
    BY <1>2 DEF Fails, Places
  <2> QED  BY <1>2, <2>1, StepMoves
<1> QED  BY <1>1, <1>2

\* A document that is stored is a document.
LEMMA NewDocTypes ==
  ASSUME NEW p \in Scopes, NEW n \in Files \union Pages, NEW x \in Texts
  PROVE  [scope |-> p, name |-> n, text |-> x, acked |-> FALSE] \in Docs
BY DEF Docs

\* Every step keeps the types, and what each thread has in hand.
LEMMA KnowledgeTypeStep ==
  ASSUME KnowledgeTypeOK, PlacesHold, [KnowledgeNext]_knowledgeVars
  PROVE  KnowledgeTypeOK' /\ PlacesHold'
<1> DEFINE T(t) == work' \in [Workers -> Thread] /\ HoldsWhatItNeeds(work'[t])
                   /\ \A u \in Workers \ {t} : work'[u] = work[u]
<1>0. /\ work \in [Workers -> Thread]
      /\ \A t \in Workers : HoldsWhatItNeeds(work[t])
      /\ live \subseteq Scopes
      /\ docs \in [DocIds -> Docs \union {Nil}]
      /\ vectors \in [DocIds -> Scopes \union {Nil}]
      /\ sources \in [SourceIds -> Sources \union {Nil}]
      /\ \A s \in SourceIds : sources[s] # Nil => sources[s].id = s
      /\ remote \in [Pages -> Texts \union {Nil}]
      /\ raced \subseteq Scopes \X Pages
      /\ failed \subseteq Scopes \X Pages
  BY DEF KnowledgeTypeOK, Thread, Places, PlacesHold
<1>a. HoldsWhatItNeeds(Rest)  BY DEF HoldsWhatItNeeds, Rest
<1>b. ASSUME NEW t \in Workers, T(t)
      PROVE  work' \in [Workers -> Thread] /\ PlacesHold'
  BY <1>0, <1>b DEF PlacesHold, HoldsWhatItNeeds
<1>e. ASSUME NEW t \in Workers, End(t)  PROVE T(t)
  BY <1>0, <1>a, <1>e, EndRests DEF Holds
<1>f. ASSUME NEW t \in Workers, Fails(t), work[t].name \in Pages, work[t].scope \in Scopes
      PROVE  T(t)
  BY <1>0, <1>a, <1>f, FailsMoves DEF Holds, Moved, HoldsWhatItNeeds
<1>g. ASSUME NEW t \in Workers, NEW w \in Thread, Begin(t, w), HoldsWhatItNeeds(w), w.scope \in Scopes
      PROVE  T(t) /\ raced' \subseteq Scopes \X Pages
  BY <1>0, <1>g, BeginHolds DEF Holds, Begin
<1> DEFINE Goal == /\ work' \in [Workers -> Thread] /\ PlacesHold'
                   /\ live' \subseteq Scopes
                   /\ docs' \in [DocIds -> Docs \union {Nil}]
                   /\ vectors' \in [DocIds -> Scopes \union {Nil}]
                   /\ sources' \in [SourceIds -> Sources \union {Nil}]
                   /\ \A s \in SourceIds : sources'[s] # Nil => sources'[s].id = s
                   /\ remote' \in [Pages -> Texts \union {Nil}]
                   /\ raced' \subseteq Scopes \X Pages
                   /\ failed' \subseteq Scopes \X Pages
<1> SUFFICES Goal
  BY DEF KnowledgeTypeOK, Thread, Places
<1>1. ASSUME NEW t \in Workers, NEW p \in Scopes, NEW f \in Files, NEW x \in Uploaded,
             Upload(t, p, f, x)
      PROVE  Goal
  <2> DEFINE w == [Rest EXCEPT !.at = "ingest", !.scope = p, !.name = f, !.text = x]
  <2>1. w \in Thread /\ HoldsWhatItNeeds(w) /\ w.scope \in Scopes
    BY KnowledgeAssumption DEF Rest, Thread, Places, HoldsWhatItNeeds
  <2>2. Begin(t, w)  BY <1>1 DEF Upload
  <2>3. T(t) /\ raced' \subseteq Scopes \X Pages  BY <2>1, <2>2, <1>g
  <2> QED  BY <1>0, <1>1, <1>b, <2>3 DEF Upload
<1>2. ASSUME NEW t \in Workers, Ingest(t)  PROVE Goal
  <2>0. work[t].scope \in Scopes /\ work[t].name \in Files /\ work[t].text \in Texts
        /\ work[t].at = "ingest" /\ work[t] \in Thread
    BY <1>0, <1>2 DEF Ingest, HoldsWhatItNeeds
  <2>1. PICK d \in DocIds :
          /\ work' = [work EXCEPT ![t].doc = d, ![t].at = "chunks"]
          /\ docs' \in {docs, [docs EXCEPT ![d] = [scope |-> work[t].scope, name |-> work[t].name,
                                             text |-> work[t].text, acked |-> FALSE]]}
    BY <1>2 DEF Ingest, AfterKnown, Same, FreshDocs
  <2>2. T(t)
    BY <1>0, <2>0, <2>1 DEF Thread, Places, HoldsWhatItNeeds, DocIds
  <2>3. docs' \in [DocIds -> Docs \union {Nil}]  BY <1>0, <2>0, <2>1, NewDocTypes
  <2> QED  BY <1>0, <1>2, <1>b, <2>2, <2>3 DEF Ingest
<1>3. ASSUME NEW t \in Workers, ReadChunks(t)  PROVE Goal
  <2> DEFINE at == IF docs[work[t].doc] = Nil THEN "answer" ELSE "index"
  <2>1. Step(t, at) /\ at \in Places  BY <1>3 DEF ReadChunks, Places
  <2>2. T(t)
    BY <1>0, <1>3, <2>1, StepMoves DEF Moved, HoldsWhatItNeeds, ReadChunks
  <2> QED  BY <1>0, <1>3, <1>b, <2>2 DEF ReadChunks
<1>4. ASSUME NEW t \in Workers, Index(t)  PROVE Goal
  <2>0. work[t].scope \in Scopes /\ HoldsWhatItNeeds(work[t]) /\ work[t].at = "index"
    BY <1>0, <1>4 DEF Index, HoldsWhatItNeeds
  <2>1. CASE vectors' = [vectors EXCEPT ![work[t].doc] = work[t].scope] /\ Step(t, "answer")
    <3>1. "answer" \in Places  BY DEF Places
    <3>2. T(t)  BY <1>0, <2>0, <2>1, <3>1, StepMoves DEF Moved, HoldsWhatItNeeds
    <3> QED  BY <1>0, <1>4, <1>b, <2>0, <2>1, <3>2 DEF Index
  <2>2. CASE UNCHANGED vectors /\ End(t)
    BY <1>0, <1>4, <1>b, <1>e, <2>2 DEF Index
  <2> QED  BY <1>4, <2>1, <2>2 DEF Index
<1>5. ASSUME NEW t \in Workers, Answer(t)  PROVE Goal
  <2>1. docs' \in [DocIds -> Docs \union {Nil}]
    <3>1. work[t].doc \in DocIds
      BY <1>0, <1>5 DEF Answer, HoldsWhatItNeeds, Thread
    <3>2. ASSUME docs[work[t].doc] # Nil
          PROVE  [docs[work[t].doc] EXCEPT !.acked = TRUE] \in Docs
      BY ZenonT(60), <1>0, <3>1, <3>2 DEF Docs
    <3> QED  BY <1>0, <1>5, <3>1, <3>2 DEF Answer
  <2> QED  BY <1>0, <1>5, <1>b, <1>e, <2>1 DEF Answer
<1>6. ASSUME NEW t \in Workers, NEW p \in Scopes, NEW n \in Pages, ImportPage(t, p, n)
      PROVE  Goal
  <2>1. PICK row \in Found(p, n) :
          Begin(t, [Rest EXCEPT !.at = "fetch", !.scope = p, !.name = n, !.row = row])
    BY <1>6 DEF ImportPage
  <2> DEFINE w == [Rest EXCEPT !.at = "fetch", !.scope = p, !.name = n, !.row = row]
  <2>2. row \in Sources \union {Nil}  BY <1>0 DEF Found, Rows
  <2>3. w \in Thread /\ HoldsWhatItNeeds(w) /\ w.scope \in Scopes
    BY <2>2 DEF Rest, Thread, Places, HoldsWhatItNeeds
  <2>4. T(t) /\ raced' \subseteq Scopes \X Pages  BY <2>1, <2>3, <1>g
  <2> QED  BY <1>0, <1>6, <1>b, <2>4 DEF ImportPage
<1>7. ASSUME NEW t \in Workers, NEW s \in SourceIds, Sync(t, s)  PROVE Goal
  <2> DEFINE p == sources[s].scope
             n == sources[s].name
  <2>0. p \in Scopes /\ n \in Pages /\ sources[s] \in Sources
    BY <1>0, <1>7 DEF Sync, Sources
  <2>1. PICK row \in Found(p, n) :
          Begin(t, [Rest EXCEPT !.at = "fetch", !.scope = p, !.name = n,
                                !.row = row, !.src = sources[s]])
    BY <1>7 DEF Sync
  <2> DEFINE w == [Rest EXCEPT !.at = "fetch", !.scope = p, !.name = n,
                               !.row = row, !.src = sources[s]]
  <2>2. row \in Sources \union {Nil}  BY <1>0 DEF Found, Rows
  <2>3. w \in Thread /\ HoldsWhatItNeeds(w) /\ w.scope \in Scopes
    BY <2>0, <2>2 DEF Rest, Thread, Places, HoldsWhatItNeeds
  <2>4. T(t) /\ raced' \subseteq Scopes \X Pages  BY <2>1, <2>3, <1>g
  <2> QED  BY <1>0, <1>7, <1>b, <2>4 DEF Sync
<1>8. ASSUME NEW t \in Workers, NEW s \in SourceIds, RemoveSource(t, s)  PROVE Goal
  <2> DEFINE w == [Rest EXCEPT !.at = "drop", !.scope = sources[s].scope,
                               !.name = sources[s].name, !.src = sources[s]]
  <2>0. sources[s].scope \in Scopes /\ sources[s].name \in Pages /\ sources[s] \in Sources
        /\ sources[s] # Nil
    BY <1>0, <1>8 DEF RemoveSource, Sources
  <2>3. w \in Thread /\ HoldsWhatItNeeds(w) /\ w.scope \in Scopes
    BY <2>0 DEF Rest, Thread, Places, HoldsWhatItNeeds
  <2>4. T(t) /\ raced' \subseteq Scopes \X Pages
    BY <1>8, <2>3, <1>g DEF RemoveSource
  <2> QED  BY <1>0, <1>8, <1>b, <2>4 DEF RemoveSource
<1>9. ASSUME NEW t \in Workers, Fetch(t)  PROVE Goal
  <2>0. /\ work[t].scope \in Scopes /\ work[t].name \in Pages /\ work[t] \in Thread
        /\ work[t].at = "fetch"
    BY <1>0, <1>9 DEF Fetch, HoldsWhatItNeeds
  <2>1. CASE remote[work[t].name] = Nil
    BY <1>0, <1>9, <1>b, <1>f, <2>0, <2>1 DEF Fetch
  <2>2. CASE remote[work[t].name] # Nil
    <3> DEFINE x == remote[work[t].name]
               at == IF work[t].row = Nil THEN "store"
                     ELSE IF work[t].row.text = remote[work[t].name] THEN "same" ELSE "replace"
    <3>1. x \in Texts /\ at \in {"store", "same", "replace"}  BY <1>0, <2>0, <2>2
    <3>2. work' = [work EXCEPT ![t].text = x, ![t].at = at]
      BY <1>9, <2>2 DEF Fetch
    <3>3. at # "store" => work[t].row # Nil  OBVIOUS
    <3> HIDE DEF x, at
    <3>4. T(t)
      BY <1>0, <2>0, <3>1, <3>2, <3>3 DEF Thread, Places, HoldsWhatItNeeds
    <3> QED  BY <1>0, <1>9, <1>b, <3>4 DEF Fetch
  <2> QED  BY <2>1, <2>2
<1>10. ASSUME NEW t \in Workers, Unchanged(t)  PROVE Goal
  <2>1. work[t].row \in Sources
    BY <1>0, <1>10 DEF Unchanged, HoldsWhatItNeeds, Thread
  <2>2. sources' = [sources EXCEPT ![work[t].row.id] = work[t].row]
        /\ work[t].row.id \in SourceIds
    BY <1>10, <2>1 DEF Unchanged, Sources
  <2> QED  BY <1>0, <1>10, <1>b, <1>e, <2>1, <2>2 DEF Unchanged
<1>11. ASSUME NEW t \in Workers, Replace(t)  PROVE Goal
  <2>0. work[t].scope \in Scopes /\ work[t].name \in Pages /\ HoldsWhatItNeeds(work[t])
        /\ work[t].at = "replace"
    BY <1>0, <1>11 DEF Replace, HoldsWhatItNeeds
  <2>1. CASE Delete(work[t].row.doc, work[t].scope) /\ Step(t, "store")
    <3>1. "store" \in Places  BY DEF Places
    <3>2. work[t].text \in Texts  BY <2>0 DEF HoldsWhatItNeeds
    <3>3. T(t)  BY <1>0, <2>0, <2>1, <3>1, <3>2, StepMoves DEF Moved, HoldsWhatItNeeds
    <3> QED  BY <1>0, <1>11, <1>b, <2>1, <3>3 DEF Replace, Delete
  <2>2. CASE Fails(t) /\ UNCHANGED <<docs, vectors>>
    BY <1>0, <1>11, <1>b, <1>f, <2>0, <2>2 DEF Replace
  <2> QED  BY <1>11, <2>1, <2>2 DEF Replace
<1>12. ASSUME NEW t \in Workers, Store(t)  PROVE Goal
  <2>0. /\ work[t].scope \in Scopes /\ work[t].name \in Pages /\ work[t].text \in Texts
        /\ work[t].at = "store" /\ work[t] \in Thread
    BY <1>0, <1>12 DEF Store, HoldsWhatItNeeds
  <2>1. PICK d \in DocIds :
          /\ docs' = [docs EXCEPT ![d] = [scope |-> work[t].scope, name |-> work[t].name,
                                          text |-> work[t].text, acked |-> FALSE]]
          /\ work' = [work EXCEPT ![t].doc = d, ![t].at = "embed"]
    BY <1>12 DEF Store, FreshDocs
  <2>2. T(t)
    BY <1>0, <2>0, <2>1 DEF Thread, Places, HoldsWhatItNeeds, DocIds
  <2>3. docs' \in [DocIds -> Docs \union {Nil}]  BY <1>0, <2>0, <2>1, NewDocTypes
  <2> QED  BY <1>0, <1>12, <1>b, <2>2, <2>3 DEF Store
<1>13. ASSUME NEW t \in Workers, Embed(t)  PROVE Goal
  <2>0. /\ work[t].scope \in Scopes /\ work[t].name \in Pages
        /\ HoldsWhatItNeeds(work[t]) /\ work[t].at = "embed"
    BY <1>0, <1>13 DEF Embed, HoldsWhatItNeeds
  <2>1. CASE /\ vectors' = [vectors EXCEPT ![work[t].doc] = work[t].scope]
             /\ Step(t, "row") /\ UNCHANGED failed
    <3>1. "row" \in Places  BY DEF Places
    <3>2. T(t)  BY <1>0, <2>0, <2>1, <3>1, StepMoves DEF Moved, HoldsWhatItNeeds
    <3> QED  BY <1>0, <1>13, <1>b, <2>0, <2>1, <3>2 DEF Embed
  <2>2. CASE /\ Fails(t) /\ UNCHANGED vectors
             /\ failed' = failed \union {<<work[t].scope, work[t].name>>}
    BY <1>0, <1>13, <1>b, <1>f, <2>0, <2>2 DEF Embed
  <2> QED  BY <1>13, <2>1, <2>2 DEF Embed
<1>14. ASSUME NEW t \in Workers, WriteRow(t)  PROVE Goal
  <2>0. /\ work[t].scope \in Scopes /\ work[t].name \in Pages /\ work[t].text \in Texts
        /\ work[t].doc \in DocIds /\ work[t].row \in Sources \union {Nil}
    BY <1>0, <1>14 DEF WriteRow, HoldsWhatItNeeds, Thread
  <2>1. PICK s \in SourceIds : sources' = [sources EXCEPT ![s] = NewSource(work[t], s)]
    BY <1>14, <2>0 DEF WriteRow, FreshSources, Sources
  <2>2. NewSource(work[t], s) \in Sources /\ NewSource(work[t], s).id = s
    BY <2>0 DEF NewSource, Sources
  <2> QED  BY <1>0, <1>14, <1>b, <1>e, <2>1, <2>2 DEF WriteRow
<1>15. ASSUME NEW t \in Workers, Blame(t)  PROVE Goal
  <2>1. work[t].src \in Sources
    BY <1>0, <1>15 DEF Blame, HoldsWhatItNeeds, Thread
  <2>2. sources' = [sources EXCEPT ![work[t].src.id] = work[t].src]
        /\ work[t].src.id \in SourceIds
    BY <1>15, <2>1 DEF Blame, Sources
  <2> QED  BY <1>0, <1>15, <1>b, <1>e, <2>1, <2>2 DEF Blame
<1>16. ASSUME NEW t \in Workers, DropDoc(t)  PROVE Goal
  <2>0. work[t].scope \in Scopes /\ HoldsWhatItNeeds(work[t]) /\ work[t].at = "drop"
    BY <1>0, <1>16 DEF DropDoc, HoldsWhatItNeeds
  <2>1. CASE Delete(work[t].src.doc, work[t].scope) /\ Step(t, "unrow")
    <3>1. "unrow" \in Places  BY DEF Places
    <3>2. T(t)  BY <1>0, <2>0, <2>1, <3>1, StepMoves DEF Moved, HoldsWhatItNeeds
    <3> QED  BY <1>0, <1>16, <1>b, <2>1, <3>2 DEF DropDoc, Delete
  <2>2. CASE End(t) /\ UNCHANGED <<docs, vectors>>
    BY <1>0, <1>16, <1>b, <1>e, <2>2 DEF DropDoc
  <2> QED  BY <1>16, <2>1, <2>2 DEF DropDoc
<1>17. ASSUME NEW t \in Workers, DropRow(t)  PROVE Goal
  BY <1>0, <1>17, <1>b, <1>e DEF DropRow
<1>18. ASSUME NEW t \in Workers, NEW p \in Scopes, DeleteProject(t, p)  PROVE Goal
  <2> DEFINE w == [Rest EXCEPT !.at = "vectors", !.scope = p]
  <2>1. w \in Thread /\ HoldsWhatItNeeds(w) /\ w.scope \in Scopes
    BY DEF Rest, Thread, Places, HoldsWhatItNeeds
  <2>2. T(t) /\ raced' \subseteq Scopes \X Pages
    BY <1>18, <2>1, <1>g DEF DeleteProject
  <2> QED  BY <1>0, <1>18, <1>b, <2>2 DEF DeleteProject
<1>19. ASSUME NEW t \in Workers, DropVectors(t)  PROVE Goal
  <2>0. work[t].scope \in Scopes /\ HoldsWhatItNeeds(work[t]) /\ work[t].at = "vectors"
    BY <1>0, <1>19 DEF DropVectors, HoldsWhatItNeeds
  <2>1. Step(t, "rows") /\ "rows" \in Places  BY <1>19 DEF DropVectors, Places
  <2>2. T(t)  BY <1>0, <2>0, <2>1, StepMoves DEF Moved, HoldsWhatItNeeds
  <2>3. vectors' \in [DocIds -> Scopes \union {Nil}]  BY <1>0, <1>19 DEF DropVectors
  <2> QED  BY <1>0, <1>19, <1>b, <2>2, <2>3 DEF DropVectors
<1>20. ASSUME NEW t \in Workers, DropRows(t)  PROVE Goal
  BY <1>0, <1>20, <1>b, <1>e DEF DropRows
<1>21. ASSUME NEW n \in Pages, NEW x \in Texts \union {Nil}, EditPage(n, x)  PROVE Goal
  BY <1>0, <1>21 DEF EditPage, PlacesHold
<1>22. CASE UNCHANGED knowledgeVars
  BY <1>0, <1>22 DEF knowledgeVars, PlacesHold
<1> HIDE DEF Goal
<1> QED
  BY <1>1, <1>2, <1>3, <1>4, <1>5, <1>6, <1>7, <1>8, <1>9, <1>10, <1>11, <1>12,
     <1>13, <1>14, <1>15, <1>16, <1>17, <1>18, <1>19, <1>20, <1>21, <1>22
  DEF KnowledgeNext

\* What the server stores of documents and sources, and what its threads hold,
\* is well formed.
THEOREM KnowledgeTypeCorrect == KnowledgeSpec => []KnowledgeTypeOK
<1>1. KnowledgeInit => KnowledgeTypeOK /\ PlacesHold
  BY DEF KnowledgeInit, KnowledgeTypeOK, PlacesHold, HoldsWhatItNeeds, Rest, DocIds, SourceIds
<1>2. KnowledgeTypeOK /\ PlacesHold /\ [KnowledgeNext]_knowledgeVars
        => KnowledgeTypeOK' /\ PlacesHold'
  BY KnowledgeTypeStep
<1> QED  BY <1>1, <1>2, PTL DEF KnowledgeSpec

-----------------------------------------------------------------------------
(* The knowledge base: what each kind of step does.                        *)

\* What the invariants of types give.
Typed == KnowledgeTypeOK /\ PlacesHold

\* The same, in the form in which the steps below use it.
LEMMA Shapes ==
  ASSUME Typed
  PROVE  /\ work \in [Workers -> Thread]
         /\ \A t \in Workers : HoldsWhatItNeeds(work[t])
         /\ docs \in [DocIds -> Docs \union {Nil}]
         /\ vectors \in [DocIds -> Scopes \union {Nil}]
         /\ sources \in [SourceIds -> Sources \union {Nil}]
         /\ \A s \in SourceIds : sources[s] # Nil => sources[s].id = s
         /\ Nil \notin Docs /\ Nil \notin Sources
         /\ Nil \notin Scopes /\ Nil \notin Pages /\ Nil \notin Files
         /\ Files \intersect Pages = {}
BY KnowledgeAssumption, NilAssumption DEF Typed, KnowledgeTypeOK, PlacesHold, Thread, Places

\* The steps by which a thread begins.
Starts(t) ==
  \/ \E p \in Scopes, f \in Files, x \in Uploaded : Upload(t, p, f, x)
  \/ \E p \in Scopes, n \in Pages : ImportPage(t, p, n)
  \/ \E s \in SourceIds : Sync(t, s) \/ RemoveSource(t, s)
  \/ \E p \in Scopes : DeleteProject(t, p)

\* A thread that begins holds sources as they are stored, and has raced every
\* page of its that another thread is busy with.
LEMMA StartsDoes ==
  ASSUME Typed, NEW t \in Workers, Starts(t)
  PROVE  /\ UNCHANGED <<live, docs, vectors, sources, failed>>
         /\ work[t].at = "idle"
         /\ \A u \in Workers \ {t} : work'[u] = work[u]
         /\ work'[t].at \in {"ingest", "fetch", "drop", "vectors"}
         /\ work'[t].doc = 0
         /\ \A r \in {work'[t].row, work'[t].src} \ {Nil} :
              /\ r.id \in SourceIds /\ sources[r.id] = r
              /\ Is(r, work'[t].scope, work'[t].name)
         /\ work'[t].at = "fetch" /\ work'[t].row = Nil
              => Rows(work'[t].scope, work'[t].name) = {}
         /\ work'[t].at = "vectors" => work'[t].scope \in live
         /\ raced \subseteq raced'
         /\ \A n \in Pages : work'[t].name \in {n, Nil} /\ Busy(work'[t].scope, n) # {}
              => <<work'[t].scope, n>> \in raced'
<1> DEFINE W(w) ==
             /\ w \in Thread
             /\ w.at \in {"ingest", "fetch", "drop", "vectors"}
             /\ w.doc = 0
             /\ \A r \in {w.row, w.src} \ {Nil} :
                  /\ r.id \in SourceIds /\ sources[r.id] = r
                  /\ Is(r, w.scope, w.name)
             /\ w.at = "fetch" /\ w.row = Nil => Rows(w.scope, w.name) = {}
             /\ w.at = "vectors" => w.scope \in live
<1>1. \A p, n : \A r \in Found(p, n) \ {Nil} :
        r \in Sources /\ r.id \in SourceIds /\ sources[r.id] = r /\ Is(r, p, n)
  BY Shapes DEF Found, Rows, Is
<1>2. \A p, n : \A r \in Found(p, n) :
        /\ r \in Sources \union {Nil}
        /\ r = Nil => Rows(p, n) = {}
  <2> TAKE p, n
  <2>1. \A s \in Rows(p, n) : sources[s] # Nil /\ sources[s] \in Sources \union {Nil}
    BY Shapes DEF Rows
  <2>2. CASE Rows(p, n) = {}  BY <2>2 DEF Found
  <2>3. CASE Rows(p, n) # {}  BY <2>1, <2>3 DEF Found
  <2> QED  BY <2>2, <2>3
<1>3. \A s \in SourceIds : sources[s] # Nil =>
        /\ sources[s] \in Sources /\ sources[s].id = s
        /\ sources[s].scope \in Scopes /\ sources[s].name \in Pages
  BY Shapes DEF Sources
<1>4. \E w : Begin(t, w) /\ W(w)
  <2>1. CASE \E p \in Scopes, f \in Files, x \in Uploaded : Upload(t, p, f, x)
    <3>1. PICK p \in Scopes, f \in Files, x \in Uploaded : Upload(t, p, f, x)
      BY <2>1
    <3> DEFINE w == [Rest EXCEPT !.at = "ingest", !.scope = p, !.name = f, !.text = x]
    <3>2. W(w)  BY KnowledgeAssumption DEF Rest, Thread, Places
    <3> HIDE DEF W
    <3> QED  BY <3>1, <3>2 DEF Upload
  <2>2. CASE \E p \in Scopes, n \in Pages : ImportPage(t, p, n)
    <3>1. PICK p \in Scopes, n \in Pages : ImportPage(t, p, n)
      BY <2>2
    <3>2. PICK row \in Found(p, n) :
            Begin(t, [Rest EXCEPT !.at = "fetch", !.scope = p, !.name = n, !.row = row])
      BY <3>1 DEF ImportPage
    <3> DEFINE w == [Rest EXCEPT !.at = "fetch", !.scope = p, !.name = n, !.row = row]
    <3>3. /\ row \in Sources \union {Nil}
          /\ row # Nil => row.id \in SourceIds /\ sources[row.id] = row /\ Is(row, p, n)
          /\ row = Nil => Rows(p, n) = {}
      BY <1>1, <1>2, <3>2
    <3>4. /\ w \in Thread /\ w.at = "fetch" /\ w.doc = 0 /\ w.row = row /\ w.src = Nil
          /\ w.scope = p /\ w.name = n
      BY <3>3 DEF Rest, Thread, Places
    <3> HIDE DEF w
    <3>5. W(w)  BY <3>3, <3>4
    <3> HIDE DEF W
    <3> QED  BY <3>2, <3>5 DEF w
  <2>3. CASE \E s \in SourceIds : Sync(t, s)
    <3>1. PICK s \in SourceIds : Sync(t, s)
      BY <2>3
    <3> DEFINE p == sources[s].scope
               n == sources[s].name
    <3>2. PICK row \in Found(p, n) :
            Begin(t, [Rest EXCEPT !.at = "fetch", !.scope = p, !.name = n,
                                  !.row = row, !.src = sources[s]])
      BY <3>1 DEF Sync
    <3> DEFINE w == [Rest EXCEPT !.at = "fetch", !.scope = p, !.name = n,
                                 !.row = row, !.src = sources[s]]
    <3>3. /\ row \in Sources \union {Nil}
          /\ row # Nil => row.id \in SourceIds /\ sources[row.id] = row /\ Is(row, p, n)
          /\ row = Nil => Rows(p, n) = {}
      BY <1>1, <1>2, <3>2
    <3>4. /\ sources[s] \in Sources /\ sources[s].id = s /\ p \in Scopes /\ n \in Pages
          /\ Is(sources[s], p, n)
      BY <1>3, <3>1 DEF Sync, Is
    <3> DEFINE src == sources[s]
    <3> HIDE DEF p, n
    <3>5. /\ w \in Thread /\ w.at = "fetch" /\ w.doc = 0 /\ w.row = row /\ w.src = src
          /\ w.scope = p /\ w.name = n
      BY <3>3, <3>4 DEF Rest, Thread, Places
    <3> HIDE DEF w
    <3>6. W(w)  BY <3>3, <3>4, <3>5
    <3> HIDE DEF W
    <3> QED  BY <3>2, <3>6 DEF w, p, n
  <2>4. CASE \E s \in SourceIds : RemoveSource(t, s)
    <3>1. PICK s \in SourceIds : RemoveSource(t, s)
      BY <2>4
    <3> DEFINE w == [Rest EXCEPT !.at = "drop", !.scope = sources[s].scope,
                                 !.name = sources[s].name, !.src = sources[s]]
    <3>2. W(w)
      <4>1. sources[s] # Nil  BY <3>1 DEF RemoveSource
      <4> QED  BY <1>3, <4>1 DEF Rest, Thread, Places, Is
    <3> HIDE DEF W
    <3> QED  BY <3>1, <3>2 DEF RemoveSource
  <2>5. CASE \E p \in Scopes : DeleteProject(t, p)
    <3>1. PICK p \in Scopes : DeleteProject(t, p)
      BY <2>5
    <3> DEFINE w == [Rest EXCEPT !.at = "vectors", !.scope = p]
    <3>2. W(w)  BY <3>1 DEF DeleteProject, Rest, Thread, Places
    <3> HIDE DEF W
    <3> QED  BY <3>1, <3>2 DEF DeleteProject
  <2> HIDE DEF W
  <2> QED  BY <2>1, <2>2, <2>3, <2>4, <2>5 DEF Starts
<1>5. PICK w : Begin(t, w) /\ W(w)  BY <1>4
<1>6. work'[t] = w /\ \A u \in Workers \ {t} : work'[u] = work[u]
  BY <1>5, Shapes, BeginHolds DEF Holds
<1>7. /\ raced \subseteq raced'
      /\ \A n \in Pages : w.name \in {n, Nil} /\ Busy(w.scope, n) # {}
           => <<w.scope, n>> \in raced'
  BY <1>5 DEF Begin
<1>8. UNCHANGED <<live, docs, vectors, sources, failed>>
  BY DEF Starts, Upload, ImportPage, Sync, RemoveSource, DeleteProject
<1>9. work[t].at = "idle"  BY <1>5 DEF Begin
<1> QED  BY <1>5, <1>6, <1>7, <1>8, <1>9

\* A document that is found or stored becomes the thread's.
LEMMA IngestDoes ==
  ASSUME Typed, NEW t \in Workers, Ingest(t)
  PROVE  \E d \in DocIds :
           /\ Moved(t, "chunks", work[t].text, d)
           /\ \/ docs' = docs /\ d \in Same(work[t].scope, work[t].name, work[t].text)
              \/ /\ d \in FreshDocs
                 /\ docs' = [docs EXCEPT ![d] =
                      [scope |-> work[t].scope, name |-> work[t].name,
                       text |-> work[t].text, acked |-> FALSE]]
<1>1. PICK d \in DocIds :
        /\ work' = [work EXCEPT ![t].doc = d, ![t].at = "chunks"]
        /\ \/ docs' = docs /\ d \in Same(work[t].scope, work[t].name, work[t].text)
           \/ /\ d \in FreshDocs
              /\ docs' = [docs EXCEPT ![d] =
                   [scope |-> work[t].scope, name |-> work[t].name,
                    text |-> work[t].text, acked |-> FALSE]]
  BY DEF Ingest, AfterKnown, Same, FreshDocs
<1>2. Moved(t, "chunks", work[t].text, d)
  BY <1>1, Shapes DEF Moved, Thread
<1> QED  BY <1>1, <1>2

\* The same of a page that is imported.
LEMMA StoreDoes ==
  ASSUME Typed, NEW t \in Workers, Store(t)
  PROVE  \E d \in FreshDocs :
           /\ Moved(t, "embed", work[t].text, d)
           /\ docs' = [docs EXCEPT ![d] =
                [scope |-> work[t].scope, name |-> work[t].name,
                 text |-> work[t].text, acked |-> FALSE]]
<1>1. PICK d \in FreshDocs :
        /\ work' = [work EXCEPT ![t].doc = d, ![t].at = "embed"]
        /\ docs' = [docs EXCEPT ![d] =
             [scope |-> work[t].scope, name |-> work[t].name,
              text |-> work[t].text, acked |-> FALSE]]
  BY DEF Store
<1>2. Moved(t, "embed", work[t].text, d)
  BY <1>1, Shapes DEF Moved, Thread
<1> QED  BY <1>1, <1>2

\* What a page says decides how its import goes on.
LEMMA FetchDoes ==
  ASSUME Typed, NEW t \in Workers, Fetch(t)
  PROVE  \/ Fails(t)
         \/ \E x \in Texts, at \in {"store", "same", "replace"} :
              /\ Moved(t, at, x, work[t].doc)
              /\ at = "store" <=> work[t].row = Nil
              /\ at = "same" => work[t].row.text = x
<1>0. work[t] \in Thread /\ work[t].name \in Pages /\ remote \in [Pages -> Texts \union {Nil}]
  BY Shapes DEF Fetch, HoldsWhatItNeeds, Typed, KnowledgeTypeOK
<1>1. CASE remote[work[t].name] # Nil
  <2> DEFINE x == remote[work[t].name]
             at == IF work[t].row = Nil THEN "store"
                   ELSE IF work[t].row.text = remote[work[t].name] THEN "same" ELSE "replace"
  <2>1. /\ x \in Texts /\ at \in {"store", "same", "replace"}
        /\ at = "store" <=> work[t].row = Nil
        /\ at = "same" => work[t].row.text = x
    BY <1>0, <1>1
  <2>2. work' = [work EXCEPT ![t].text = x, ![t].at = at]
    BY <1>1 DEF Fetch
  <2> HIDE DEF x, at
  <2>3. Moved(t, at, x, work[t].doc)
    BY <1>0, <2>2, Shapes DEF Moved, Thread
  <2> QED  BY <2>1, <2>3
<1>2. CASE remote[work[t].name] = Nil
  BY <1>2 DEF Fetch
<1> QED  BY <1>1, <1>2

\* The steps by which a thread goes on, or ends.
Goes(t) ==
  \/ Ingest(t) \/ ReadChunks(t) \/ Index(t) \/ Answer(t)
  \/ Fetch(t) \/ Unchanged(t) \/ Replace(t) \/ Store(t) \/ Embed(t)
  \/ WriteRow(t) \/ Blame(t) \/ DropDoc(t) \/ DropRow(t)
  \/ DropVectors(t) \/ DropRows(t)

\* Every step is one of a thread, or leaves all but the pages as it was.
LEMMA StepsOfThreads ==
  ASSUME [KnowledgeNext]_knowledgeVars
  PROVE  \/ \E t \in Workers : Starts(t) \/ Goes(t)
         \/ UNCHANGED <<live, docs, vectors, sources, work, raced, failed>>
BY DEF KnowledgeNext, Starts, Goes, EditPage, knowledgeVars

\* A thread that goes on keeps its page and the sources that it read.
LEMMA StepsOn ==
  ASSUME Typed, NEW t \in Workers, Goes(t)
  PROVE  /\ work[t].at # "idle" /\ raced' = raced
         /\ \A u \in Workers \ {t} : work'[u] = work[u]
         /\ \/ work'[t] = Rest
            \/ /\ work'[t].at \notin {"idle", "ingest", "fetch", "drop", "vectors"}
               /\ work'[t].scope = work[t].scope /\ work'[t].name = work[t].name
               /\ work'[t].row = work[t].row /\ work'[t].src = work[t].src
<1> DEFINE Goal == /\ work[t].at # "idle" /\ raced' = raced
                   /\ \A u \in Workers \ {t} : work'[u] = work[u]
                   /\ \/ work'[t] = Rest
                      \/ /\ work'[t].at \notin {"idle", "ingest", "fetch", "drop", "vectors"}
                         /\ work'[t].scope = work[t].scope /\ work'[t].name = work[t].name
                         /\ work'[t].row = work[t].row /\ work'[t].src = work[t].src
<1>0. work \in [Workers -> Thread]  BY Shapes
<1>1. CASE Ingest(t)
  BY <1>1, IngestDoes DEF Ingest, Moved
<1>2. CASE Store(t)
  BY <1>2, StoreDoes DEF Store, Moved
<1>3. CASE Fetch(t)
  <2>1. work[t].at # "idle" /\ raced' = raced  BY <1>3 DEF Fetch
  <2>2. CASE Fails(t)  BY <1>0, <2>1, <2>2, FailsMoves DEF Moved, Holds
  <2>3. CASE ~Fails(t)  BY <1>3, <2>1, <2>3, FetchDoes DEF Moved
  <2> QED  BY <2>2, <2>3
<1>4. CASE ReadChunks(t)
  <2> DEFINE at == IF docs[work[t].doc] = Nil THEN "answer" ELSE "index"
  <2>1. Step(t, at) /\ at \in Places /\ at \in {"answer", "index"}
    BY <1>4 DEF ReadChunks, Places
  <2> HIDE DEF at
  <2> QED  BY <1>0, <1>4, <2>1, StepMoves DEF ReadChunks, Moved
<1>5. CASE Index(t) \/ Answer(t) \/ Unchanged(t) \/ WriteRow(t) \/ Blame(t) \/ DropRow(t)
           \/ DropRows(t)
  <2>1. "answer" \in Places  BY DEF Places
  <2>2. End(t) \/ Step(t, "answer")
    BY <1>5 DEF Index, Answer, Unchanged, WriteRow, Blame, DropRow, DropRows
  <2>3. work[t].at # "idle" /\ raced' = raced
    BY <1>5 DEF Index, Answer, Unchanged, WriteRow, Blame, DropRow, DropRows
  <2> QED  BY <1>0, <2>1, <2>2, <2>3, EndRests, StepMoves DEF Holds, Moved
<1>6. CASE Replace(t) \/ Embed(t)
  <2>1. {"store", "row"} \subseteq Places  BY DEF Places
  <2>2. Fails(t) \/ Step(t, "store") \/ Step(t, "row")
    BY <1>6 DEF Replace, Embed
  <2>3. work[t].at # "idle" /\ raced' = raced
    BY <1>6 DEF Replace, Embed
  <2>4. CASE Fails(t)  BY <1>0, <2>3, <2>4, FailsMoves DEF Moved, Holds
  <2>5. CASE Step(t, "store") \/ Step(t, "row")
    BY <1>0, <2>1, <2>3, <2>5, StepMoves DEF Moved
  <2> QED  BY <2>2, <2>4, <2>5
<1>7. CASE DropDoc(t) \/ DropVectors(t)
  <2>1. {"unrow", "rows"} \subseteq Places  BY DEF Places
  <2>2. End(t) \/ Step(t, "unrow") \/ Step(t, "rows")
    BY <1>7 DEF DropDoc, DropVectors
  <2>3. work[t].at # "idle" /\ raced' = raced
    BY <1>7 DEF DropDoc, DropVectors
  <2> QED  BY <1>0, <2>1, <2>2, <2>3, EndRests, StepMoves DEF Holds, Moved
<1> HIDE DEF Goal
<1> QED  BY <1>1, <1>2, <1>3, <1>4, <1>5, <1>6, <1>7 DEF Goes, Goal

\* Documents are deleted, marked answered, or stored under a fresh id.
LEMMA DocsStep ==
  ASSUME Typed, NEW t \in Workers, Goes(t), NEW d \in DocIds
  PROVE  \/ docs'[d] = Nil
         \/ /\ docs[d] # Nil /\ docs'[d] # Nil
            /\ docs'[d].scope = docs[d].scope /\ docs'[d].name = docs[d].name
            /\ docs'[d].text = docs[d].text
            /\ docs'[d].acked => docs[d].acked \/ (work[t].at = "answer" /\ d = work[t].doc)
         \/ /\ d \in FreshDocs /\ docs'[d] # Nil /\ docs'[d].acked = FALSE
            /\ work'[t].doc = d /\ Moved(t, work'[t].at, work[t].text, d)
            /\ Is(docs'[d], work[t].scope, work[t].name)
            /\ docs'[d].text = work[t].text
<1>0. docs \in [DocIds -> Docs \union {Nil}] /\ Nil \notin Docs  BY Shapes
<1>1. CASE Ingest(t)
  <2>1. PICK e \in DocIds :
           /\ Moved(t, "chunks", work[t].text, e)
           /\ \/ docs' = docs
              \/ /\ e \in FreshDocs
                 /\ docs' = [docs EXCEPT ![e] =
                      [scope |-> work[t].scope, name |-> work[t].name,
                       text |-> work[t].text, acked |-> FALSE]]
    BY <1>1, IngestDoes
  <2>2. [scope |-> work[t].scope, name |-> work[t].name,
         text |-> work[t].text, acked |-> FALSE] \in Docs
    BY <1>1, Shapes, KnowledgeAssumption DEF Ingest, HoldsWhatItNeeds, Docs
  <2> QED  BY <1>0, <2>1, <2>2 DEF Is, Moved
<1>2. CASE Store(t)
  <2>1. PICK e \in FreshDocs :
           /\ Moved(t, "embed", work[t].text, e)
           /\ docs' = [docs EXCEPT ![e] =
                [scope |-> work[t].scope, name |-> work[t].name,
                 text |-> work[t].text, acked |-> FALSE]]
    BY <1>2, StoreDoes
  <2>2. [scope |-> work[t].scope, name |-> work[t].name,
         text |-> work[t].text, acked |-> FALSE] \in Docs
    BY <1>2, Shapes DEF Store, HoldsWhatItNeeds, Docs
  <2> QED  BY <1>0, <2>1, <2>2 DEF Is, Moved, FreshDocs
<1>3. CASE Answer(t)
  <2>1. work[t].at = "answer" /\ docs' = IF docs[work[t].doc] = Nil THEN docs
               ELSE [docs EXCEPT ![work[t].doc].acked = TRUE]
    BY <1>3 DEF Answer
  <2>2. CASE d # work[t].doc \/ docs[d] = Nil
    BY <1>0, <2>1, <2>2
  <2>3. CASE d = work[t].doc /\ docs[d] # Nil
    <3>1. docs[d] \in Docs  BY <1>0, <2>3
    <3>2. docs'[d] = [docs[d] EXCEPT !.acked = TRUE]  BY <1>0, <2>1, <2>3
    <3>3. [docs[d] EXCEPT !.acked = TRUE] \in Docs  BY <3>1 DEF Docs
    <3> QED  BY <1>0, <2>1, <2>3, <3>1, <3>2, <3>3 DEF Docs
  <2> QED  BY <2>2, <2>3
<1>4. CASE Replace(t) \/ DropDoc(t)
  BY <1>0, <1>4 DEF Replace, DropDoc, Delete
<1>5. CASE DropRows(t)
  BY <1>0, <1>5 DEF DropRows
<1>6. CASE ReadChunks(t) \/ Index(t) \/ Fetch(t) \/ Unchanged(t) \/ Embed(t)
           \/ WriteRow(t) \/ Blame(t) \/ DropRow(t) \/ DropVectors(t)
  <2>1. docs' = docs
    BY <1>6 DEF ReadChunks, Index, Fetch, Unchanged, Embed, WriteRow, Blame, DropRow,
                DropVectors
  <2> QED  BY <2>1
<1> QED  BY <1>1, <1>2, <1>3, <1>4, <1>5, <1>6 DEF Goes

\* Chunks are deleted, or written for the document in hand.
LEMMA VectorsStep ==
  ASSUME Typed, NEW t \in Workers, Goes(t), NEW d \in DocIds
  PROVE  \/ vectors'[d] \in {vectors[d], Nil}
         \/ /\ work[t].at \in {"index", "embed"} /\ work[t].doc = d
            /\ vectors'[d] = work[t].scope
<1>0. vectors \in [DocIds -> Scopes \union {Nil}]  BY Shapes
<1>1. CASE Index(t) \/ Embed(t)
  BY <1>0, <1>1 DEF Index, Embed
<1>2. CASE Replace(t) \/ DropDoc(t)
  BY <1>0, <1>2 DEF Replace, DropDoc, Delete
<1>3. CASE DropVectors(t)
  BY <1>0, <1>3 DEF DropVectors
<1>4. CASE Ingest(t) \/ ReadChunks(t) \/ Answer(t) \/ Fetch(t) \/ Unchanged(t) \/ Store(t)
           \/ WriteRow(t) \/ Blame(t) \/ DropRow(t) \/ DropRows(t)
  <2>1. vectors' = vectors
    BY <1>4 DEF Ingest, ReadChunks, Answer, Fetch, Unchanged, Store, WriteRow, Blame, DropRow,
                DropRows
  <2> QED  BY <2>1
<1> QED  BY <1>1, <1>2, <1>3, <1>4 DEF Goes

\* Sources are deleted, written back as they were read, or written anew.
LEMMA SourcesStep ==
  ASSUME Typed, NEW t \in Workers, Goes(t), NEW s \in SourceIds
  PROVE  \/ sources'[s] \in {sources[s], Nil}
         \/ sources'[s] \in {work[t].row, work[t].src} \ {Nil} /\ sources'[s].id = s
         \/ /\ work[t].at = "row" /\ sources'[s] = NewSource(work[t], s)
            /\ s \in FreshSources \/ (work[t].row # Nil /\ s = work[t].row.id)
<1>0. sources \in [SourceIds -> Sources \union {Nil}] /\ work \in [Workers -> Thread]
      /\ HoldsWhatItNeeds(work[t])
  BY Shapes
<1>1. CASE Unchanged(t)
  BY <1>0, <1>1 DEF Unchanged, HoldsWhatItNeeds
<1>2. CASE Blame(t)
  BY <1>0, <1>2 DEF Blame, HoldsWhatItNeeds
<1>3. CASE WriteRow(t)
  BY <1>0, <1>3 DEF WriteRow
<1>4. CASE DropRow(t)
  BY <1>0, <1>4 DEF DropRow
<1>5. CASE DropRows(t)
  BY <1>0, <1>5 DEF DropRows
<1>6. CASE Ingest(t) \/ ReadChunks(t) \/ Index(t) \/ Answer(t) \/ Fetch(t) \/ Store(t)
           \/ Replace(t) \/ Embed(t) \/ DropDoc(t) \/ DropVectors(t)
  <2>1. sources' = sources
    BY <1>6 DEF Ingest, ReadChunks, Index, Answer, Fetch, Store, Replace, Embed, DropDoc,
                DropVectors
  <2> QED  BY <2>1
<1> QED  BY <1>1, <1>2, <1>3, <1>4, <1>5, <1>6 DEF Goes

-----------------------------------------------------------------------------
(* The knowledge base: whatever is named is what it was, or gone.          *)

\* A thread holds no document, the one it held, or one of its page.
LEMMA DocInHand ==
  ASSUME Typed, NEW t \in Workers, Goes(t)
  PROVE  \/ work'[t].doc \in {0, work[t].doc}
         \/ /\ work'[t].doc \in DocIds
            /\ docs'[work'[t].doc] = Nil \/ Is(docs'[work'[t].doc], work[t].scope, work[t].name)
<1>0. work \in [Workers -> Thread] /\ docs \in [DocIds -> Docs \union {Nil}]  BY Shapes
<1>1. CASE Ingest(t)
  <2>1. PICK d \in DocIds :
           /\ Moved(t, "chunks", work[t].text, d)
           /\ \/ docs' = docs /\ d \in Same(work[t].scope, work[t].name, work[t].text)
              \/ /\ d \in FreshDocs
                 /\ docs' = [docs EXCEPT ![d] =
                      [scope |-> work[t].scope, name |-> work[t].name,
                       text |-> work[t].text, acked |-> FALSE]]
    BY <1>1, IngestDoes
  <2>2. docs'[d] = Nil \/ Is(docs'[d], work[t].scope, work[t].name)
    BY <1>0, <2>1 DEF Same, Is
  <2> QED  BY <2>1, <2>2 DEF Moved
<1>2. CASE Store(t)
  <2>1. PICK d \in FreshDocs :
           /\ Moved(t, "embed", work[t].text, d)
           /\ docs' = [docs EXCEPT ![d] =
                [scope |-> work[t].scope, name |-> work[t].name,
                 text |-> work[t].text, acked |-> FALSE]]
    BY <1>2, StoreDoes
  <2>2. d \in DocIds /\ (docs'[d] = Nil \/ Is(docs'[d], work[t].scope, work[t].name))
    BY <1>0, <2>1 DEF FreshDocs, Is
  <2> QED  BY <2>1, <2>2 DEF Moved
<1>3. Rest.doc = 0  BY DEF Rest
<1>4. CASE Fetch(t)
  BY <1>0, <1>3, <1>4, FetchDoes, FailsMoves DEF Moved, Holds
<1>5. CASE ReadChunks(t)
  <2> DEFINE at == IF docs[work[t].doc] = Nil THEN "answer" ELSE "index"
  <2>1. Step(t, at) /\ at \in Places
    BY <1>5 DEF ReadChunks, Places
  <2> HIDE DEF at
  <2> QED  BY <1>0, <2>1, StepMoves DEF Moved
<1>6. CASE Index(t) \/ Answer(t) \/ Unchanged(t) \/ WriteRow(t) \/ Blame(t) \/ DropRow(t)
           \/ DropRows(t) \/ Replace(t) \/ Embed(t) \/ DropDoc(t) \/ DropVectors(t)
  <2>1. {"answer", "store", "row", "unrow", "rows"} \subseteq Places  BY DEF Places
  <2>2. End(t) \/ Fails(t) \/ \E at \in Places : Step(t, at)
    BY <1>6, <2>1 DEF Index, Answer, Unchanged, WriteRow, Blame, DropRow, DropRows, Replace,
                      Embed, DropDoc, DropVectors
  <2> QED  BY <1>0, <1>3, <2>2, EndRests, FailsMoves, StepMoves DEF Moved, Holds
<1> QED  BY <1>1, <1>2, <1>4, <1>5, <1>6 DEF Goes

\* An id that is held is not drawn again.
LEMMA DocStays ==
  ASSUME Typed, NEW t \in Workers, Goes(t), NEW d \in DocIds \intersect HeldDocs,
         NEW p, NEW n, DocIs(d, p, n)
  PROVE  DocIs(d, p, n)'
<1>1. d \notin FreshDocs  BY DEF FreshDocs
<1>2. \/ docs'[d] = Nil
      \/ docs[d] # Nil /\ docs'[d].scope = docs[d].scope /\ docs'[d].name = docs[d].name
  BY <1>1, DocsStep
<1> QED  BY <1>2 DEF DocIs, Is

\* What is held.
LEMMA Held ==
  ASSUME Typed
  PROVE  /\ \A t \in Workers : work[t].doc # 0 => work[t].doc \in DocIds \intersect HeldDocs
         /\ \A t \in Workers : \A r \in {work[t].row, work[t].src} \ {Nil} :
              /\ r \in Sources /\ r.doc \in DocIds \intersect HeldDocs
              /\ r.id \in SourceIds \intersect HeldSources
         /\ \A s \in SourceIds : sources[s] # Nil =>
              sources[s] \in Sources /\ sources[s].doc \in DocIds \intersect HeldDocs
         /\ \A d \in DocIds : vectors[d] # Nil => d \in HeldDocs
<1>1. \A t \in Workers : work[t] \in Thread  BY Shapes
<1>2. \A t \in Workers : work[t].doc # 0 => work[t].doc \in DocIds \intersect HeldDocs
  BY <1>1 DEF Thread, HeldDocs
<1>3. ASSUME NEW t \in Workers, NEW r \in {work[t].row, work[t].src} \ {Nil}
      PROVE  /\ r \in Sources /\ r.doc \in DocIds \intersect HeldDocs
             /\ r.id \in SourceIds \intersect HeldSources
  BY <1>1, <1>3 DEF Thread, HeldDocs, HeldSources, Sources
<1>4. \A s \in SourceIds : sources[s] # Nil =>
        sources[s] \in Sources /\ sources[s].doc \in DocIds \intersect HeldDocs
  BY Shapes DEF HeldDocs, Sources
<1>5. \A d \in DocIds : vectors[d] # Nil => d \in HeldDocs  BY DEF HeldDocs
<1> QED  BY <1>2, <1>3, <1>4, <1>5

\* No step gives a thread, a source or a chunk a document of another page.
LEMMA DocsAgreeStep ==
  ASSUME Typed, DocsAgree, [KnowledgeNext]_knowledgeVars
  PROVE  DocsAgree'
<1>1. CASE UNCHANGED <<live, docs, vectors, sources, work, raced, failed>>
  BY <1>1 DEF DocsAgree, DocIs, Is
<1>2. ASSUME NEW t \in Workers, Starts(t)  PROVE DocsAgree'
  <2>0. UNCHANGED <<docs, vectors, sources>>  BY <1>2, StartsDoes
  <2>1. \A u \in Workers \ {t} : work'[u] = work[u]  BY <1>2, StartsDoes
  <2>2. work'[t].doc = 0  BY <1>2, StartsDoes
  <2>3. ASSUME NEW r \in {work'[t].row, work'[t].src} \ {Nil}
        PROVE  Is(r, work'[t].scope, work'[t].name) /\ DocIs(r.doc, work'[t].scope, work'[t].name)
    <3>1. r.id \in SourceIds /\ sources[r.id] = r /\ Is(r, work'[t].scope, work'[t].name)
      BY <1>2, StartsDoes
    <3>2. DocIs(r.doc, r.scope, r.name)  BY <3>1 DEF DocsAgree
    <3> QED  BY <3>1, <3>2 DEF Is
  <2>4. \A d, p, n : DocIs(d, p, n)' <=> DocIs(d, p, n)  BY <2>0 DEF DocIs, Is
  <2> QED  BY <2>0, <2>1, <2>2, <2>3, <2>4 DEF DocsAgree, Is, DocIs
<1>3. ASSUME NEW t \in Workers, Goes(t)  PROVE DocsAgree'
  <2>1. ASSUME NEW d \in DocIds, docs'[d] # Nil, vectors'[d] # Nil
        PROVE  vectors'[d] = docs'[d].scope
    <3>1. CASE d \in FreshDocs
      <4>1. vectors[d] = Nil /\ work[t].doc # d
        BY <3>1, Held DEF FreshDocs, HeldDocs
      <4> QED  BY <1>3, <2>1, <4>1, VectorsStep
    <3>2. CASE d \notin FreshDocs
      <4>1. docs[d] # Nil /\ docs'[d].scope = docs[d].scope
        BY <1>3, <2>1, <3>2, DocsStep
      <4>2. CASE vectors'[d] = vectors[d]
        BY <2>1, <4>1, <4>2 DEF DocsAgree
      <4>3. CASE work[t].doc = d /\ vectors'[d] = work[t].scope
        <5>1. d # 0  BY DEF DocIds
        <5> QED  BY <4>1, <4>3, <5>1 DEF DocsAgree, DocIs, Is
      <4> QED  BY <1>3, <2>1, <4>2, <4>3, VectorsStep
    <3> QED  BY <3>1, <3>2
  <2>2. ASSUME NEW s \in SourceIds, sources'[s] # Nil
        PROVE  DocIs(sources[s].doc, sources[s].scope, sources[s].name)'
    <3>1. CASE sources'[s] = sources[s]
      <4>1. DocIs(sources[s].doc, sources[s].scope, sources[s].name)
        BY <2>2, <3>1 DEF DocsAgree
      <4>2. sources[s].doc \in DocIds \intersect HeldDocs
        BY <2>2, <3>1, Held
      <4> QED  BY <1>3, <3>1, <4>1, <4>2, DocStays DEF DocIs, Is
    <3>2. CASE sources'[s] \in {work[t].row, work[t].src} \ {Nil}
      <4> DEFINE r == sources'[s]
      <4>1. DocIs(r.doc, r.scope, r.name)
        BY <3>2 DEF DocsAgree, Is
      <4>2. r.doc \in DocIds \intersect HeldDocs
        BY <3>2, Held
      <4> QED  BY <1>3, <4>1, <4>2, DocStays DEF DocIs, Is
    <3>3. CASE work[t].at = "row" /\ sources'[s] = NewSource(work[t], s)
      <4>1. work[t].doc # 0  BY <3>3, Shapes DEF HoldsWhatItNeeds
      <4>2. work[t].doc \in DocIds \intersect HeldDocs
            /\ DocIs(work[t].doc, work[t].scope, work[t].name)
        BY <4>1, Held DEF DocsAgree
      <4>3. DocIs(work[t].doc, work[t].scope, work[t].name) 
            => docs'[work[t].doc] = Nil \/ Is(docs'[work[t].doc], work[t].scope, work[t].name)
        BY <1>3, <4>2, DocStays DEF DocIs, Is
      <4> QED  BY <3>3, <4>2, <4>3 DEF DocIs, Is, NewSource
    <3> QED  BY <1>3, <2>2, <3>1, <3>2, <3>3, SourcesStep
  <2>3. ASSUME NEW u \in Workers, NEW d \in DocIds \intersect HeldDocs,
               DocIs(d, work[u].scope, work[u].name),
               work'[u].scope = work[u].scope, work'[u].name = work[u].name
        PROVE  docs'[d] = Nil \/ Is(docs'[d], work'[u].scope, work'[u].name)
    BY <1>3, <2>3, DocStays DEF DocIs, Is
  <2>4. Rest.doc = 0 /\ Rest.row = Nil /\ Rest.src = Nil  BY DEF Rest
  <2>5. ASSUME NEW u \in Workers, work'[u].doc # 0
        PROVE  docs'[work'[u].doc] = Nil
                 \/ Is(docs'[work'[u].doc], work'[u].scope, work'[u].name)
    <3>1. CASE work'[u].doc = work[u].doc
      <4>1. work[u].doc \in DocIds \intersect HeldDocs
            /\ DocIs(work[u].doc, work[u].scope, work[u].name)
        BY <2>5, <3>1, Held DEF DocsAgree
      <4>2. work'[u].scope = work[u].scope /\ work'[u].name = work[u].name
        BY <1>3, <2>4, <2>5, StepsOn
      <4> QED  BY <2>3, <3>1, <4>1, <4>2
    <3>2. CASE work'[u].doc # work[u].doc
      <4>1. u = t /\ work'[t] # Rest  BY <1>3, <2>4, <2>5, <3>2, StepsOn
      <4>2. work'[t].scope = work[t].scope /\ work'[t].name = work[t].name
        BY <1>3, <4>1, StepsOn
      <4> QED  BY <1>3, <2>5, <3>2, <4>1, <4>2, DocInHand
    <3> QED  BY <3>1, <3>2
  <2>6. ASSUME NEW u \in Workers, NEW r \in {work'[u].row, work'[u].src} \ {Nil}
        PROVE  /\ Is(r, work'[u].scope, work'[u].name)
               /\ docs'[r.doc] = Nil \/ Is(docs'[r.doc], work'[u].scope, work'[u].name)
    <3>1. /\ work'[u].scope = work[u].scope /\ work'[u].name = work[u].name
          /\ r \in {work[u].row, work[u].src} \ {Nil}
      BY <1>3, <2>4, <2>6, StepsOn
    <3>2. r.doc \in DocIds \intersect HeldDocs /\ Is(r, work[u].scope, work[u].name)
          /\ DocIs(r.doc, work[u].scope, work[u].name)
      BY <3>1, Held DEF DocsAgree
    <3> QED  BY <2>3, <3>1, <3>2
  <2> QED  BY <2>1, <2>2, <2>5, <2>6 DEF DocsAgree, DocIs
<1> QED  BY <1>1, <1>2, <1>3, StepsOfThreads

\* No step stores, or gives a thread, a source of another page under an id in
\* hand: ids are drawn once.
LEMMA SourcesAgreeStep ==
  ASSUME Typed, DocsAgree, SourcesAgree, [KnowledgeNext]_knowledgeVars
  PROVE  SourcesAgree'
<1>1. CASE UNCHANGED <<live, docs, vectors, sources, work, raced, failed>>
  BY <1>1 DEF SourcesAgree, HeldRows, Is
<1>2. ASSUME NEW t \in Workers, Starts(t)  PROVE SourcesAgree'
  <2>1. sources' = sources /\ \A u \in Workers \ {t} : HeldRows(u)' = HeldRows(u)
    BY <1>2, StartsDoes DEF HeldRows
  <2>2. \A r \in HeldRows(t)' : sources[r.id] = r
    BY <1>2, StartsDoes DEF HeldRows
  <2>3. \A r \in HeldRows(t)' : r # Nil  BY DEF HeldRows
  <2> QED  BY <2>1, <2>2, <2>3 DEF SourcesAgree, Is
<1>3. ASSUME NEW t \in Workers, Goes(t)  PROVE SourcesAgree'
  <2>1. \A u \in Workers : HeldRows(u)' \subseteq HeldRows(u)
    BY <1>3, StepsOn DEF HeldRows, Rest
  <2>2. ASSUME NEW u \in Workers, NEW r \in HeldRows(u), sources'[r.id] # Nil
        PROVE  Is(sources'[r.id], r.scope, r.name)
    <3> DEFINE s == r.id
    <3>1. s \in SourceIds \intersect HeldSources  BY Held DEF HeldRows
    <3>2. s \notin FreshSources  BY <3>1 DEF FreshSources
    <3>3. CASE sources'[s] = sources[s]
      BY <2>2, <3>3 DEF SourcesAgree, Is
    <3>4. CASE sources'[s] \in HeldRows(t) /\ sources'[s].id = s
      BY <3>4 DEF SourcesAgree
    <3>5. CASE /\ sources'[s] = NewSource(work[t], s)
               /\ work[t].row # Nil /\ s = work[t].row.id
      <4>1. Is(work[t].row, work[t].scope, work[t].name)
            /\ work[t].row \in HeldRows(t)
        BY <3>5 DEF DocsAgree, HeldRows
      <4> QED  BY <3>5, <4>1 DEF SourcesAgree, Is, NewSource
    <3> QED  BY <1>3, <2>2, <3>1, <3>2, <3>3, <3>4, <3>5, SourcesStep DEF HeldRows
  <2> QED  BY <2>1, <2>2 DEF SourcesAgree, Is
<1> QED  BY <1>1, <1>2, <1>3, StepsOfThreads

-----------------------------------------------------------------------------
(* The knowledge base: what was answered is indexed.                       *)

\* A deletion of the project is under way until its rows are gone.
LEMMA DeletingStays ==
  ASSUME Typed, NEW t \in Workers, Starts(t) \/ Goes(t), ~DropRows(t),
         NEW p, Deleting(p)
  PROVE  Deleting(p)'
<1>1. PICK u \in Workers : work[u].at = "rows" /\ work[u].scope = p  BY DEF Deleting
<1>2. u # t
  BY <1>1 DEF Starts, Upload, ImportPage, Sync, RemoveSource, DeleteProject, Begin, Goes,
     Ingest, ReadChunks, Index, Answer, Fetch, Unchanged, Replace, Store, Embed, WriteRow,
     Blame, DropDoc, DropRow, DropVectors
<1>3. work'[u] = work[u]  BY <1>2, StartsDoes, StepsOn
<1> QED  BY <1>1, <1>3 DEF Deleting

\* The chunks of a document go only with the document, or with its project.
LEMMA IndexStays ==
  ASSUME Typed, DocsAgree, NEW t \in Workers, Goes(t),
         NEW d \in DocIds \ FreshDocs, IndexedUntilGone(d)
  PROVE  IndexedUntilGone(d)'
<1> SUFFICES ASSUME docs'[d] # Nil, docs'[d].scope \in live', ~Deleting(docs[d].scope)'
             PROVE  vectors'[d] # Nil
  <2>1. docs'[d] # Nil => docs'[d].scope = docs[d].scope  BY DocsStep
  <2> QED  BY <2>1 DEF IndexedUntilGone, Deleting
<1>0. /\ docs \in [DocIds -> Docs \union {Nil}] /\ vectors \in [DocIds -> Scopes \union {Nil}]
      /\ Nil \notin Scopes /\ work \in [Workers -> Thread]
  BY Shapes
<1>1. docs[d] # Nil /\ docs'[d].scope = docs[d].scope
  BY DocsStep
<1> DEFINE p == docs[d].scope
<1>2. p \in live
  <2>1. live' \subseteq live
    BY DEF Goes, Ingest, ReadChunks, Index, Answer, Fetch, Unchanged, Replace, Store, Embed,
           WriteRow, Blame, DropDoc, DropRow, DropVectors, DropRows
  <2> QED  BY <1>1, <2>1
<1>3. CASE DropRows(t)
  <2> DEFINE q == work[t].scope
  <2>1. p # q
    BY <1>0, <1>1, <1>2, <1>3 DEF DropRows
  <2>2. ~Deleting(p)
    <3> SUFFICES ASSUME NEW u \in Workers, work[u].at = "rows", work[u].scope = p
                 PROVE  FALSE
      BY DEF Deleting
    <3>1. work'[u] = work[u]  BY <2>1, StepsOn
    <3>2. Deleting(p)'  BY <1>1, <3>1 DEF Deleting
    <3> QED  BY <1>1, <3>2
  <2> QED  BY <1>1, <1>2, <1>3, <2>2 DEF DropRows, IndexedUntilGone
<1>4. CASE ~DropRows(t)
  <2>1. vectors[d] # Nil
    BY <1>1, <1>2, <1>4, DeletingStays DEF IndexedUntilGone
  <2>2. CASE Replace(t) \/ DropDoc(t)
    <3>1. PICK r \in HeldRows(t) :
             Delete(r.doc, work[t].scope) \/ UNCHANGED <<docs, vectors>>
      <4>1. CASE Replace(t)
        <5>1. work[t].row # Nil  BY <4>1, Shapes DEF Replace, HoldsWhatItNeeds
        <5> QED  BY <4>1, <5>1 DEF Replace, HeldRows
      <4>2. CASE DropDoc(t)
        <5>1. work[t].src # Nil  BY <4>2, Shapes DEF DropDoc, HoldsWhatItNeeds
        <5> QED  BY <4>2, <5>1 DEF DropDoc, HeldRows
      <4> QED  BY <2>2, <4>1, <4>2
    <3>2. DocIs(r.doc, work[t].scope, work[t].name)  BY DEF DocsAgree, HeldRows
    <3>3. CASE UNCHANGED <<docs, vectors>>  BY <2>1, <3>3
    <3>4. CASE Delete(r.doc, work[t].scope) /\ d = r.doc
      BY <1>0, <1>1, <3>2, <3>4 DEF Delete, DocIs, Is
    <3>5. CASE Delete(r.doc, work[t].scope) /\ d # r.doc
      BY <1>0, <2>1, <3>5 DEF Delete
    <3> QED  BY <3>1, <3>3, <3>4, <3>5
  <2>3. CASE DropVectors(t)
    <3>1. vectors[d] = p  BY <1>1, <2>1 DEF DocsAgree
    <3>2. p # work[t].scope
      <4>1. "rows" \in Places  BY DEF Places
      <4>2. Moved(t, "rows", work[t].text, work[t].doc)
        BY <1>0, <2>3, <4>1, StepMoves DEF DropVectors
      <4> QED  BY <1>1, <4>2 DEF Deleting, Moved
    <3> QED  BY <1>0, <2>1, <2>3, <3>1, <3>2 DEF DropVectors
  <2>4. CASE Index(t) \/ Embed(t)
    <3>1. work[t].scope \in Scopes
      BY <2>4, Shapes DEF Index, Embed, HoldsWhatItNeeds
    <3>2. vectors' \in {vectors, [vectors EXCEPT ![work[t].doc] = work[t].scope]}
      BY <2>4 DEF Index, Embed
    <3> QED  BY <1>0, <2>1, <3>1, <3>2
  <2>5. CASE Ingest(t) \/ ReadChunks(t) \/ Answer(t) \/ Fetch(t) \/ Unchanged(t) \/ Store(t)
             \/ WriteRow(t) \/ Blame(t) \/ DropRow(t)
    <3>1. vectors' = vectors
      BY <2>5 DEF Ingest, ReadChunks, Answer, Fetch, Unchanged, Store, WriteRow, Blame, DropRow
    <3> QED  BY <2>1, <3>1
  <2> QED  BY <1>4, <2>2, <2>3, <2>4, <2>5 DEF Goes
<1> QED  BY <1>3, <1>4

\* No step takes the chunks of an answered document away, but the deletion of
\* its project.
LEMMA AnswersIndexedStep ==
  ASSUME Typed, DocsAgree, AnswersIndexed, AckedDocumentsIndexed,
         [KnowledgeNext]_knowledgeVars
  PROVE  AnswersIndexed' /\ AckedDocumentsIndexed'
<1>a. AckedDocumentsIndexed <=> \A d \in DocIds : docs[d] # Nil /\ docs[d].acked => IndexedUntilGone(d)
  BY DEF AckedDocumentsIndexed, IndexedUntilGone
<1>b. ASSUME \A d \in DocIds : docs'[d] # Nil /\ docs'[d].acked => IndexedUntilGone(d)'
      PROVE  AckedDocumentsIndexed'
  BY <1>b DEF AckedDocumentsIndexed, IndexedUntilGone, Deleting
<1>1. CASE UNCHANGED <<live, docs, vectors, sources, work, raced, failed>>
  BY <1>1 DEF AckedDocumentsIndexed, AnswersIndexed, IndexedUntilGone, Deleting
<1>2. ASSUME NEW t \in Workers, Starts(t)
      PROVE  AnswersIndexed' /\ AckedDocumentsIndexed'
  <2>1. UNCHANGED <<live, docs, vectors>> /\ work'[t].at # "answer"
        /\ \A u \in Workers \ {t} : work'[u] = work[u]
    BY <1>2, StartsDoes
  <2>2. ~DropRows(t)  BY <1>2, StartsDoes DEF DropRows
  <2>3. \A d : IndexedUntilGone(d) => IndexedUntilGone(d)'
    <3> SUFFICES ASSUME NEW d, IndexedUntilGone(d) PROVE IndexedUntilGone(d)'
      OBVIOUS
    <3>1. \A p : Deleting(p) => Deleting(p)'  BY <1>2, <2>2, DeletingStays
    <3>2. PICK q : q = docs[d].scope  OBVIOUS
    <3>3. Deleting(q)' => Deleting(docs[d].scope)'  BY <2>1, <3>2 DEF Deleting
    <3> QED  BY <2>1, <3>1, <3>2, <3>3 DEF IndexedUntilGone
  <2>4. AnswersIndexed'  BY <2>1, <2>3 DEF AnswersIndexed
  <2>5. AckedDocumentsIndexed'  BY <1>a, <1>b, <2>1, <2>3
  <2> QED  BY <2>4, <2>5
<1>3. ASSUME NEW t \in Workers, Goes(t)
      PROVE  AnswersIndexed' /\ AckedDocumentsIndexed'
  <2>0. work \in [Workers -> Thread] /\ vectors \in [DocIds -> Scopes \union {Nil}]
        /\ Nil \notin Scopes
    BY Shapes
  <2>1. AckedDocumentsIndexed'
    <3> SUFFICES ASSUME NEW d \in DocIds, docs'[d] # Nil, docs'[d].acked
                 PROVE  IndexedUntilGone(d)'
      BY <1>b
    <3>1. /\ docs[d] # Nil
          /\ docs[d].acked \/ (work[t].at = "answer" /\ d = work[t].doc)
      BY <1>3, DocsStep
    <3>2. IndexedUntilGone(d)  BY <1>a, <3>1 DEF AnswersIndexed
    <3>3. d \notin FreshDocs  BY <3>1 DEF FreshDocs
    <3> QED  BY <1>3, <3>2, <3>3, IndexStays
  <2>2. ASSUME NEW u \in Workers, work'[u].at = "answer"
        PROVE  IndexedUntilGone(work[u].doc)'
    <3>1. CASE work[u].at = "answer" /\ work'[u].doc = work[u].doc
      <4>1. work[u].doc # 0  BY <3>1, Shapes DEF HoldsWhatItNeeds
      <4>2. work[u].doc \in DocIds \ FreshDocs  BY <4>1, Held DEF FreshDocs
      <4>3. IndexedUntilGone(work[u].doc)  BY <3>1 DEF AnswersIndexed
      <4>4. \A d \in DocIds \ FreshDocs : IndexedUntilGone(d) => IndexedUntilGone(d)'
        BY <1>3, IndexStays
      <4>5. PICK d \in DocIds \ FreshDocs : d = work[u].doc  BY <4>2
      <4>6. IndexedUntilGone(d)'  BY <4>3, <4>4, <4>5
      <4> QED  BY <3>1, <4>5, <4>6 DEF IndexedUntilGone, Deleting
    <3>2. CASE u = t /\ ReadChunks(t)
      <4> DEFINE at == IF docs[work[t].doc] = Nil THEN "answer" ELSE "index"
      <4>1. Step(t, at) /\ at \in Places /\ docs' = docs
        BY <3>2 DEF ReadChunks, Places
      <4>2. (at = "answer") => docs[work[t].doc] = Nil  OBVIOUS
      <4> HIDE DEF at
      <4>3. Moved(t, at, work[t].text, work[t].doc)  BY <2>0, <4>1, StepMoves
      <4>4. docs'[work'[t].doc] = Nil
        BY <2>2, <3>2, <4>1, <4>2, <4>3 DEF Moved
      <4> QED  BY <3>2, <4>4 DEF IndexedUntilGone
    <3>3. CASE u = t /\ Index(t)
      <4>1. "answer" \in Places  BY DEF Places
      <4>2. vectors' = [vectors EXCEPT ![work[t].doc] = work[t].scope] /\ Step(t, "answer")
        BY <2>0, <2>2, <3>3, EndRests DEF Index, Holds, Rest
      <4>3. Moved(t, "answer", work[t].text, work[t].doc)  BY <2>0, <4>1, <4>2, StepMoves
      <4>4. work[t].doc \in DocIds /\ work[t].scope \in Scopes
        BY <2>0, <3>3, Shapes DEF Index, HoldsWhatItNeeds, Thread
      <4>5. vectors'[work'[t].doc] # Nil
        BY <2>0, <4>2, <4>3, <4>4 DEF Moved
      <4> QED  BY <3>3, <4>5 DEF IndexedUntilGone
    <3>4. \/ work[u].at = "answer" /\ work'[u].doc = work[u].doc
          \/ u = t /\ (ReadChunks(t) \/ Index(t))
      <4>1. CASE u # t  BY <1>3, <2>2, <4>1, StepsOn
      <4>2. CASE u = t
        <5>1. ASSUME Moved(t, work'[t].at, work'[t].text, work'[t].doc), work'[t].at # "answer"
              PROVE FALSE
          BY <2>2, <4>2, <5>1
        <5>2. ~End(t) /\ ~Fails(t)
          BY <2>0, <2>2, <4>2, EndRests, FailsMoves DEF Holds, Moved, Rest
        <5>3. \A at \in Places : Step(t, at) => at = "answer"
          BY <2>0, <2>2, <4>2, StepMoves DEF Moved
        <5>4. {"answer", "store", "row", "unrow", "rows", "embed", "same", "replace"} \subseteq Places
          BY DEF Places
        <5>5. ~Ingest(t)  BY <2>2, <4>2, IngestDoes DEF Moved
        <5>6. ~Store(t)  BY <2>2, <4>2, StoreDoes DEF Moved
        <5>7. ~Fetch(t)  BY <2>2, <4>2, <5>2, FetchDoes DEF Moved
        <5>8. ~Replace(t) /\ ~Embed(t) /\ ~DropDoc(t) /\ ~DropVectors(t)
          BY <5>2, <5>3, <5>4 DEF Replace, Embed, DropDoc, DropVectors
        <5>9. ~Answer(t) /\ ~Unchanged(t) /\ ~WriteRow(t) /\ ~Blame(t) /\ ~DropRow(t) /\ ~DropRows(t)
          BY <5>2 DEF Answer, Unchanged, WriteRow, Blame, DropRow, DropRows
        <5> QED  BY <1>3, <4>2, <5>5, <5>6, <5>7, <5>8, <5>9 DEF Goes
      <4> QED  BY <4>1, <4>2
    <3> QED  BY <3>1, <3>2, <3>3, <3>4
  <2>3. AnswersIndexed'  BY <2>2 DEF AnswersIndexed
  <2> QED  BY <2>1, <2>3
<1> QED  BY <1>1, <1>2, <1>3, StepsOfThreads

-----------------------------------------------------------------------------
(* The knowledge base: a page that one operation at a time works on.       *)

\* Only an operation on the page of a source deletes it.
LEMMA SourceGoes ==
  ASSUME Typed, NEW t \in Workers, Goes(t), NEW s \in SourceIds,
         sources[s] # Nil, sources'[s] = Nil
  PROVE  \/ \E r \in HeldRows(t) : r.id = s
         \/ /\ work[t].at = "rows" /\ sources[s].scope = work[t].scope
            /\ work[t].name = Nil
<1>0. sources \in [SourceIds -> Sources \union {Nil}] /\ HoldsWhatItNeeds(work[t])
      /\ Nil \notin Sources /\ work[t] \in Thread
  BY Shapes
<1>1. CASE DropRow(t)
  BY <1>0, <1>1 DEF DropRow, HoldsWhatItNeeds, HeldRows
<1>2. CASE DropRows(t)
  BY <1>0, <1>2 DEF DropRows, HoldsWhatItNeeds
<1>3. CASE Unchanged(t) \/ Blame(t)
  BY <1>0, <1>3 DEF Unchanged, Blame, HoldsWhatItNeeds
<1>4. CASE WriteRow(t)
  <2>1. PICK e : sources' = [sources EXCEPT ![e] = NewSource(work[t], e)]
    BY <1>4 DEF WriteRow
  <2>2. /\ work[t].scope \in Scopes /\ work[t].name \in Pages /\ work[t].text \in Texts
        /\ work[t].doc \in DocIds
    BY <1>0, <1>4 DEF WriteRow, HoldsWhatItNeeds, Thread
  <2>3. NewSource(work[t], s) # Nil
    BY <1>0, <2>2 DEF NewSource, Sources
  <2> QED  BY <1>0, <2>1, <2>3
<1>5. CASE Ingest(t) \/ ReadChunks(t) \/ Index(t) \/ Answer(t) \/ Fetch(t) \/ Store(t)
           \/ Replace(t) \/ Embed(t) \/ DropDoc(t) \/ DropVectors(t)
  BY <1>5 DEF Ingest, ReadChunks, Index, Answer, Fetch, Store, Replace, Embed, DropDoc,
              DropVectors
<1> QED  BY <1>1, <1>2, <1>3, <1>4, <1>5 DEF Goes

\* Only an operation on its page deletes a document, or touches its chunks.
LEMMA DocGoes ==
  ASSUME Typed, NEW t \in Workers, Goes(t), NEW d \in DocIds, docs[d] # Nil,
         docs'[d] = Nil \/ vectors'[d] # vectors[d]
  PROVE  \/ \E r \in HeldRows(t) : r.doc = d
         \/ work[t].doc = d
         \/ /\ work[t].at \in {"vectors", "rows"} /\ work[t].name = Nil
            /\ work[t].scope \in {docs[d].scope, vectors[d]}
<1>0. /\ docs \in [DocIds -> Docs \union {Nil}] /\ vectors \in [DocIds -> Scopes \union {Nil}]
      /\ Nil \notin Docs /\ HoldsWhatItNeeds(work[t])
  BY Shapes
<1>1. CASE Replace(t) \/ DropDoc(t)
  <2>1. PICK r \in HeldRows(t) : Delete(r.doc, work[t].scope) \/ UNCHANGED <<docs, vectors>>
    <3>1. CASE Replace(t)
      BY <1>0, <3>1 DEF Replace, HeldRows, HoldsWhatItNeeds
    <3>2. CASE DropDoc(t)
      BY <1>0, <3>2 DEF DropDoc, HeldRows, HoldsWhatItNeeds
    <3> QED  BY <1>1, <3>1, <3>2
  <2> QED  BY <1>0, <2>1 DEF Delete
<1>2. CASE Index(t) \/ Embed(t)
  BY <1>0, <1>2 DEF Index, Embed
<1>3. CASE DropVectors(t)
  BY <1>0, <1>3 DEF DropVectors, HoldsWhatItNeeds
<1>4. CASE DropRows(t)
  BY <1>0, <1>4 DEF DropRows, HoldsWhatItNeeds
<1>5. CASE Ingest(t) \/ Store(t)
  <2>1. vectors' = vectors  BY <1>5 DEF Ingest, Store
  <2>2. docs'[d] # Nil
    <3>1. CASE Ingest(t)  BY <1>0, <3>1, IngestDoes DEF FreshDocs
    <3>2. CASE Store(t)  BY <1>0, <3>2, StoreDoes DEF FreshDocs
    <3> QED  BY <1>5, <3>1, <3>2
  <2> QED  BY <2>1, <2>2
<1>7. CASE Answer(t)
  <2>1. CASE work[t].doc # d  BY <1>0, <1>7, <2>1 DEF Answer
  <2>2. CASE work[t].doc = d  BY <2>2
  <2> QED  BY <2>1, <2>2
<1>6. CASE ReadChunks(t) \/ Fetch(t) \/ Unchanged(t) \/ WriteRow(t) \/ Blame(t) \/ DropRow(t)
  BY <1>6 DEF ReadChunks, Fetch, Unchanged, WriteRow, Blame, DropRow
<1> QED  BY <1>1, <1>2, <1>3, <1>4, <1>5, <1>6, <1>7 DEF Goes

\* An operation elsewhere leaves a page, its source and its documents alone.
LEMMA OthersStayAway ==
  ASSUME Typed, DocsAgree, SourcesAgree, NEW t \in Workers, Goes(t),
         NEW p \in Scopes, NEW n \in Pages, t \notin Busy(p, n)
  PROVE  /\ Busy(p, n)' = Busy(p, n)
         /\ \A u \in Busy(p, n) : work'[u] = work[u]
         /\ Rows(p, n)' = Rows(p, n)
         /\ \A s \in Rows(p, n) : sources'[s] = sources[s]
         /\ \A d \in DocIds : docs[d] # Nil /\ Is(docs[d], p, n) =>
              /\ docs'[d] # Nil /\ docs'[d].text = docs[d].text
              /\ vectors'[d] = vectors[d]
         /\ <<p, n>> \in failed' <=> <<p, n>> \in failed
         /\ p \in live => p \in live'
<1>0. work[t].at # "idle" /\ \A u \in Workers \ {t} : work'[u] = work[u]
  BY StepsOn
<1>1. ~(work[t].scope = p /\ work[t].name \in {n, Nil})
  BY <1>0 DEF Busy
<1>2. t \notin Busy(p, n)'
  BY <1>0, <1>1, StepsOn DEF Busy, Rest
<1>3. Busy(p, n)' = Busy(p, n) /\ \A u \in Busy(p, n) : work'[u] = work[u]
  BY <1>0, <1>2 DEF Busy
<1>4. \A r \in HeldRows(t) : ~Is(r, p, n)
  BY <1>1 DEF HeldRows, DocsAgree, Is
<1>5. ASSUME NEW s \in Rows(p, n)  PROVE sources'[s] = sources[s]
  <2>1. s \in SourceIds /\ sources[s] # Nil /\ Is(sources[s], p, n)
    BY DEF Rows, Is
  <2>2. \A r \in HeldRows(t) : r.id # s
    BY <1>4, <2>1 DEF SourcesAgree, Is
  <2>3. sources'[s] # Nil
    BY <1>1, <2>1, <2>2, SourceGoes DEF Is
  <2>4. ~(sources'[s] \in {work[t].row, work[t].src} \ {Nil} /\ sources'[s].id = s)
    BY <2>2 DEF HeldRows
  <2>5. s \notin FreshSources /\ ~(work[t].row # Nil /\ s = work[t].row.id)
    BY <2>1, <2>2 DEF FreshSources, HeldRows
  <2> QED  BY <2>1, <2>3, <2>4, <2>5, SourcesStep
<1>6. ASSUME NEW s \in Rows(p, n)'  PROVE s \in Rows(p, n)
  <2>1. s \in SourceIds /\ sources'[s] # Nil /\ Is(sources'[s], p, n)
    BY DEF Rows, Is
  <2>2. sources'[s] \notin HeldRows(t)  BY <1>4, <2>1
  <2>3. CASE work[t].at = "row" /\ sources'[s] = NewSource(work[t], s)
    BY <1>1, <2>1, <2>3 DEF NewSource, Is
  <2>4. CASE sources'[s] = sources[s]
    BY <2>1, <2>4 DEF Rows, Is
  <2> QED  BY <2>1, <2>2, <2>3, <2>4, SourcesStep DEF HeldRows
<1>7. ASSUME NEW d \in DocIds, docs[d] # Nil, Is(docs[d], p, n)
      PROVE  /\ docs'[d] # Nil /\ docs'[d].text = docs[d].text
             /\ vectors'[d] = vectors[d]
  <2>1. \A r \in HeldRows(t) : r.doc # d
    BY <1>4, <1>7 DEF DocsAgree, HeldRows, DocIs, Is
  <2>2. work[t].doc # d
    <3>1. d # 0  BY DEF DocIds
    <3> QED  BY <1>1, <1>7, <3>1 DEF DocsAgree, DocIs, Is
  <2>3. ~(/\ work[t].at \in {"vectors", "rows"} /\ work[t].name = Nil
          /\ work[t].scope \in {docs[d].scope, vectors[d]})
    <3>1. CASE vectors[d] = Nil
      <4>1. work[t].at \in {"vectors", "rows"} => work[t].scope # Nil
        BY Shapes DEF HoldsWhatItNeeds
      <4> QED  BY <1>1, <1>7, <3>1, <4>1 DEF Is
    <3>2. CASE vectors[d] # Nil
      BY <1>1, <1>7, <3>2 DEF DocsAgree, Is
    <3> QED  BY <3>1, <3>2
  <2>4. docs'[d] # Nil /\ vectors'[d] = vectors[d]
    BY <1>7, <2>1, <2>2, <2>3, DocGoes
  <2>5. d \notin FreshDocs  BY <1>7 DEF FreshDocs
  <2> QED  BY <2>4, <2>5, DocsStep
<1>8. <<p, n>> \in failed' <=> <<p, n>> \in failed
  <2>1. <<p, n>> # <<work[t].scope, work[t].name>>  BY <1>1
  <2>2. failed' \in {failed, failed \union {<<work[t].scope, work[t].name>>},
                     failed \ {<<work[t].scope, work[t].name>>}}
    BY DEF Goes, Ingest, ReadChunks, Index, Answer, Fetch, Unchanged, Replace, Store, Embed,
           WriteRow, Blame, DropDoc, DropRow, DropVectors, DropRows
  <2> QED  BY <2>1, <2>2
<1>9. p \in live => p \in live'
  <2>1. CASE DropRows(t)
    <3>1. work[t].name = Nil  BY <2>1, Shapes DEF DropRows, HoldsWhatItNeeds
    <3> QED  BY <1>1, <2>1, <3>1 DEF DropRows
  <2>2. CASE ~DropRows(t)
    BY <2>2 DEF Goes, Ingest, ReadChunks, Index, Answer, Fetch, Unchanged, Replace, Store, Embed,
           WriteRow, Blame, DropDoc, DropRow, DropVectors
  <2> QED  BY <2>1, <2>2
<1> QED  BY <1>3, <1>5, <1>6, <1>7, <1>8, <1>9 DEF Rows

\* So it keeps what holds of the page.
LEMMA PageStays ==
  ASSUME Typed, DocsAgree, SourcesAgree, NEW t \in Workers, Goes(t),
         NEW p \in Scopes, NEW n \in Pages, t \notin Busy(p, n), PageInv(p, n)
  PROVE  PageInv(p, n)'
<1>1. /\ Busy(p, n)' = Busy(p, n)
      /\ \A u \in Busy(p, n) : work'[u] = work[u] /\ HeldRows(u)' = HeldRows(u)
      /\ Rows(p, n)' = Rows(p, n)
      /\ \A s \in Rows(p, n) : sources'[s] = sources[s]
      /\ \A d \in DocIds : docs[d] # Nil /\ Is(docs[d], p, n) =>
           /\ docs'[d] # Nil /\ docs'[d].text = docs[d].text
           /\ vectors'[d] = vectors[d]
      /\ <<p, n>> \in failed' <=> <<p, n>> \in failed
      /\ p \in live => p \in live'
  BY OthersStayAway DEF HeldRows
<1>2. OneAtWork(p, n)' /\ OneRow(p, n)'
  BY <1>1 DEF PageInv, OneAtWork, OneRow
<1>3. RowAsRead(p, n)'
  <2>1. ASSUME NEW u \in Busy(p, n), NEW r \in HeldRows(u)  PROVE sources'[r.id] = r
    <3>1. r # Nil /\ r \in Sources /\ r.id \in SourceIds /\ sources[r.id] = r
      BY Held DEF PageInv, RowAsRead, HeldRows, Busy
    <3>2. r.name # Nil  BY <3>1, Shapes DEF Sources
    <3>3. Is(r, p, n)  BY <3>2 DEF DocsAgree, HeldRows, Busy, Is
    <3>4. r.id \in Rows(p, n)  BY <3>1, <3>3 DEF Rows, Is
    <3> QED  BY <1>1, <3>1, <3>4
  <2> QED  BY <1>1, <2>1 DEF PageInv, RowAsRead
<1>4. SourceIndexed(p, n)'
  <2> SUFFICES ASSUME <<p, n>> \notin failed,
                      \A u \in Busy(p, n) : work[u].at \notin BetweenDocs,
                      NEW s \in Rows(p, n)
               PROVE  Indexed(sources[s])'
    BY <1>1 DEF SourceIndexed, BetweenDocs
  <2>1. Indexed(sources[s])  BY DEF PageInv, SourceIndexed
  <2>2. /\ s \in SourceIds /\ sources[s] # Nil /\ Is(sources[s], p, n)
        /\ sources[s].doc \in DocIds
    BY Held DEF Rows, Is
  <2>3. Is(docs[sources[s].doc], p, n)
    BY <2>1, <2>2 DEF DocsAgree, DocIs, Is, Indexed
  <2> QED  BY <1>1, <2>1, <2>2, <2>3 DEF Indexed
<1>5. NewDocIndexed(p, n)'
  <2>1. ASSUME NEW u \in Busy(p, n), work[u].at \in {"embed", "row"}
        PROVE  /\ work[u].doc \in DocIds
               /\ docs[work[u].doc] # Nil /\ Is(docs[work[u].doc], p, n)
    <3>1. u \in Workers /\ work[u].doc # 0 /\ work[u].name = n /\ work[u].scope = p
      BY <2>1, Shapes DEF Busy, HoldsWhatItNeeds
    <3>2. docs[work[u].doc] # Nil  BY <2>1 DEF PageInv, NewDocIndexed
    <3> QED  BY <3>1, <3>2, Held DEF DocsAgree, DocIs
  <2> QED  BY <1>1, <2>1 DEF PageInv, NewDocIndexed
<1> QED  BY <1>2, <1>3, <1>4, <1>5 DEF PageInv

\* An operation that begins has the page to itself, or races.
LEMMA PageBegins ==
  ASSUME Typed, PlacesHold', NEW t \in Workers, Starts(t),
         NEW p \in Scopes, NEW n \in Pages, PageInv(p, n), <<p, n>> \notin raced'
  PROVE  PageInv(p, n)'
<1>0. /\ UNCHANGED <<live, docs, vectors, sources, failed>>
      /\ work[t].at = "idle"
      /\ \A u \in Workers \ {t} : work'[u] = work[u]
      /\ work'[t].at \in {"ingest", "fetch", "drop", "vectors"}
  BY StartsDoes
<1>1. t \notin Busy(p, n)  BY <1>0 DEF Busy
<1>2. \A u \in Workers \ {t} : (u \in Busy(p, n)' <=> u \in Busy(p, n)) /\ HeldRows(u)' = HeldRows(u)
  BY <1>0 DEF Busy, HeldRows
<1>3. Rows(p, n)' = Rows(p, n)  BY <1>0 DEF Rows
<1>4. CASE t \notin Busy(p, n)'
  <2>1. Busy(p, n)' = Busy(p, n) /\ \A u \in Busy(p, n) : work'[u] = work[u]
    BY <1>0, <1>1, <1>2, <1>4 DEF Busy
  <2>2. \A u \in Busy(p, n) : HeldRows(u)' = HeldRows(u)
    BY <2>1 DEF HeldRows
  <2> QED  BY <1>0, <1>3, <2>1, <2>2
       DEF PageInv, OneAtWork, OneRow, RowAsRead, SourceIndexed, NewDocIndexed, Indexed
<1>5. CASE t \in Busy(p, n)'
  <2>1. work'[t].scope = p /\ work'[t].name \in {n, Nil}
    BY <1>5 DEF Busy
  <2>2. Busy(p, n) = {}  BY <2>1, StartsDoes
  <2>3. Busy(p, n)' = {t}
    BY <1>0, <1>2, <1>5, <2>2 DEF Busy
  <2>4. HoldsWhatItNeeds(work'[t])  BY DEF PlacesHold
  <2>5. work'[t].at = "fetch" => work'[t].name = n
    BY <2>1, <2>4, Shapes DEF HoldsWhatItNeeds
  <2>6. work'[t].at = "fetch" /\ work'[t].row = Nil => Rows(p, n) = {}
    BY <2>1, <2>5, StartsDoes
  <2>7. \A r \in HeldRows(t)' : sources[r.id] = r  BY StartsDoes DEF HeldRows
  <2>8. work'[t].at = "vectors" => p \in live  BY <2>1, StartsDoes
  <2>9. OneAtWork(p, n)' /\ OneRow(p, n)'
    BY <1>3, <2>3 DEF PageInv, OneAtWork, OneRow
  <2>10. RowAsRead(p, n)'
    BY <1>0, <1>3, <2>3, <2>6, <2>7 DEF RowAsRead
  <2>11. SourceIndexed(p, n)'
    <3>1. <<p, n>> \notin failed => \A s \in Rows(p, n) : Indexed(sources[s])
      BY <2>2 DEF PageInv, SourceIndexed
    <3> QED  BY <1>0, <1>3, <3>1 DEF SourceIndexed, Indexed
  <2>12. NewDocIndexed(p, n)'
    BY <1>0, <2>3, <2>8 DEF NewDocIndexed
  <2> QED  BY <2>9, <2>10, <2>11, <2>12 DEF PageInv
<1> QED  BY <1>4, <1>5

\* What a step of the only operation on a page must show.
LEMMA OwnStep ==
  ASSUME Typed, NEW t \in Workers, Goes(t),
         NEW p \in Scopes, NEW n \in Pages, t \in Busy(p, n), OneAtWork(p, n),
         OneRow(p, n)',
         work'[t] # Rest =>
           /\ work'[t].at \in {"fetch", "store", "embed", "row"} /\ work'[t].row = Nil
                => Rows(p, n)' = {}
           /\ \A r \in HeldRows(t) : sources'[r.id] = r
           /\ work'[t].at \in {"embed", "row"} =>
                docs'[work'[t].doc] # Nil /\ docs'[work'[t].doc].text = work'[t].text
           /\ work'[t].at = "row" => vectors'[work'[t].doc] = p
           /\ work'[t].at \in {"vectors", "rows"} => p \in live',
         work'[t].at \notin BetweenDocs /\ <<p, n>> \notin failed' =>
           \A s \in Rows(p, n)' : Indexed(sources[s])'
  PROVE  PageInv(p, n)'
<1>1. Busy(p, n) = {t}  BY DEF OneAtWork
<1>2. Busy(p, n)' \subseteq {t} /\ (t \in Busy(p, n)' => work'[t] # Rest)
      /\ (t \notin Busy(p, n)' => work'[t] = Rest)
  BY <1>1, StepsOn DEF Busy, Rest
<1>3. work'[t] # Rest => HeldRows(t)' = HeldRows(t)  BY StepsOn DEF HeldRows
<1>4. OneAtWork(p, n)'  BY <1>2 DEF OneAtWork
<1>5. RowAsRead(p, n)'  BY <1>2, <1>3 DEF RowAsRead
<1>6. SourceIndexed(p, n)'
  <2>1. (\A u \in Busy(p, n)' : work'[u].at \notin BetweenDocs) => work'[t].at \notin BetweenDocs
    BY <1>2 DEF Rest, BetweenDocs
  <2> QED  BY <2>1 DEF SourceIndexed, BetweenDocs
<1>7. NewDocIndexed(p, n)'  BY <1>2 DEF NewDocIndexed
<1> QED  BY <1>4, <1>5, <1>6, <1>7 DEF PageInv

\* Each step of the only operation on a page keeps what holds of it.
LEMMA PageGoesOn ==
  ASSUME Typed, NEW t \in Workers, Goes(t),
         NEW p \in Scopes, NEW n \in Pages, t \in Busy(p, n), PageInv(p, n), DocsAgree
  PROVE  PageInv(p, n)'
<1>0. /\ work \in [Workers -> Thread] /\ HoldsWhatItNeeds(work[t])
      /\ docs \in [DocIds -> Docs \union {Nil}] /\ Nil \notin Docs
      /\ vectors \in [DocIds -> Scopes \union {Nil}]
      /\ sources \in [SourceIds -> Sources \union {Nil}]
      /\ Nil \notin Scopes /\ Nil \notin Pages /\ Nil \notin Sources
  BY Shapes
<1>1. work[t].scope = p /\ work[t].name \in {n, Nil} /\ t \in Workers
  BY DEF Busy
<1>2. OneAtWork(p, n) /\ OneRow(p, n)  BY DEF PageInv
<1>3. \A r \in HeldRows(t) : sources[r.id] = r  BY DEF PageInv, RowAsRead
<1>4. work[t].at \in {"fetch", "store", "embed", "row"} /\ work[t].row = Nil => Rows(p, n) = {}
  BY DEF PageInv, RowAsRead
<1>5. work[t].at \notin BetweenDocs /\ <<p, n>> \notin failed
        => \A s \in Rows(p, n) : Indexed(sources[s])
  <2>1. work[t].at \notin BetweenDocs => \A u \in Busy(p, n) : work[u].at \notin BetweenDocs
    BY <1>2 DEF OneAtWork
  <2> QED  BY <2>1 DEF PageInv, SourceIndexed
<1>6. /\ work[t].at \in {"embed", "row"}
           => docs[work[t].doc] # Nil /\ docs[work[t].doc].text = work[t].text
      /\ work[t].at = "row" => vectors[work[t].doc] = p
      /\ work[t].at \in {"vectors", "rows"} => p \in live
  BY DEF PageInv, NewDocIndexed
<1>h. \A r \in HeldRows(t) : r.id \in SourceIds /\ r.id \in Rows(p, n)
  <2> SUFFICES ASSUME NEW r \in HeldRows(t)
               PROVE  r.id \in SourceIds /\ r.id \in Rows(p, n)
    OBVIOUS
  <2>1. r \in Sources /\ r # Nil /\ r.id \in SourceIds /\ Is(r, work[t].scope, work[t].name)
    BY Held DEF HeldRows, DocsAgree
  <2>2. r.scope = p /\ r.name = n  BY <1>0, <1>1, <2>1 DEF Is, Sources
  <2> QED  BY <1>3, <2>1, <2>2 DEF Rows
<1> DEFINE AtRest == work'[t] = Rest
           Kept   == UNCHANGED <<docs, vectors, sources>>
<1>r. Rest.at = "idle"  BY DEF Rest
<1>k. sources' = sources => Rows(p, n)' = Rows(p, n) /\ OneRow(p, n)'
  BY <1>2 DEF Rows, OneRow
\* a step that writes nothing and ends the operation, or notes its failure
<1>f. ASSUME Kept, work[t].at \notin BetweenDocs \/ <<p, n>> \in failed',
             failed \subseteq failed',
             \/ AtRest
             \/ work'[t].at = "blame"
      PROVE  PageInv(p, n)'
  <2>1. <<p, n>> \notin failed' => \A s \in Rows(p, n)' : Indexed(sources[s])'
    BY <1>5, <1>f, <1>k DEF Indexed
  <2> QED  BY <1>2, <1>3, <1>f, <1>k, <2>1, OwnStep
<1>g. ASSUME Fails(t)
      PROVE  AtRest \/ work'[t].at = "blame"
  BY <1>0, <1>g, FailsMoves DEF Moved, Holds
<1>7. ~Ingest(t) /\ ~ReadChunks(t) /\ ~Index(t) /\ ~Answer(t)
  BY <1>0, <1>1, KnowledgeAssumption
  DEF Ingest, ReadChunks, Index, Answer, HoldsWhatItNeeds
<1>8. CASE Fetch(t)
  <2>0. Kept /\ failed' = failed /\ work[t].at = "fetch"  BY <1>8 DEF Fetch
  <2>1. CASE Fails(t)
    BY <1>f, <1>g, <2>0, <2>1 DEF BetweenDocs
  <2>2. CASE \E x \in Texts, at \in {"store", "same", "replace"} :
              /\ Moved(t, at, x, work[t].doc)
              /\ at = "store" <=> work[t].row = Nil
    <3>1. /\ work'[t].at \in {"store", "same", "replace"}
          /\ work'[t].at = "store" => work[t].row = Nil
          /\ work'[t].row = work[t].row
      BY <2>2 DEF Moved
    <3>2. <<p, n>> \notin failed' => \A s \in Rows(p, n)' : Indexed(sources[s])'
      BY <1>5, <1>k, <2>0 DEF Indexed, BetweenDocs
    <3>3. work'[t].at \in {"fetch", "store", "embed", "row"} => Rows(p, n)' = {}
      BY <1>4, <1>k, <2>0, <3>1
    <3> QED  BY <1>2, <1>3, <1>k, <2>0, <3>1, <3>2, <3>3, OwnStep
  <2> QED  BY <1>8, <2>1, <2>2, FetchDoes
<1>9. CASE Unchanged(t)
  <2>1. work[t].row \in HeldRows(t)  BY <1>0, <1>9 DEF Unchanged, HoldsWhatItNeeds, HeldRows
  <2>2. sources' = sources
    BY <1>0, <1>3, <1>9, <2>1 DEF Unchanged
  <2>3. AtRest  BY <1>0, <1>9, EndRests DEF Unchanged, Holds
  <2> QED  BY <1>9, <1>f, <2>2, <2>3 DEF Unchanged, BetweenDocs
<1>10. CASE Replace(t)
  <2>0. sources' = sources /\ failed' = failed /\ work[t].at = "replace" /\ live' = live
    BY <1>10 DEF Replace
  <2>1. CASE Fails(t) /\ UNCHANGED <<docs, vectors>>
    BY <1>f, <1>g, <2>0, <2>1 DEF BetweenDocs
  <2>2. CASE Step(t, "store")
    <3>1. "store" \in Places  BY DEF Places
    <3>2. work'[t].at = "store" /\ work'[t].row = work[t].row
      BY <1>0, <2>2, <3>1, StepMoves DEF Moved
    <3>3. work[t].row # Nil  BY <1>0, <2>0 DEF HoldsWhatItNeeds
    <3> QED  BY <1>2, <1>3, <1>k, <2>0, <3>2, <3>3, OwnStep DEF BetweenDocs
  <2> QED  BY <1>10, <2>1, <2>2 DEF Replace
<1>11. CASE Store(t)
  <2>0. sources' = sources /\ work[t].at = "store" /\ live' = live  BY <1>11 DEF Store
  <2>1. PICK d \in FreshDocs :
           /\ Moved(t, "embed", work[t].text, d)
           /\ docs' = [docs EXCEPT ![d] =
                [scope |-> work[t].scope, name |-> work[t].name,
                 text |-> work[t].text, acked |-> FALSE]]
    BY <1>11, StoreDoes
  <2>2. [scope |-> work[t].scope, name |-> work[t].name,
         text |-> work[t].text, acked |-> FALSE] \in Docs
    BY <1>0, <2>0 DEF HoldsWhatItNeeds, Docs
  <2>3. docs'[d] # Nil /\ docs'[d].text = work[t].text
    BY <1>0, <2>1, <2>2 DEF FreshDocs
  <2>4. /\ work'[t].at = "embed" /\ work'[t].doc = d /\ work'[t].text = work[t].text
        /\ work'[t].row = work[t].row
    BY <2>1 DEF Moved
  <2> QED  BY <1>2, <1>3, <1>4, <1>k, <2>0, <2>3, <2>4, OwnStep DEF BetweenDocs
<1>12. CASE Embed(t)
  <2>0. sources' = sources /\ docs' = docs /\ work[t].at = "embed" /\ live' = live
    BY <1>12 DEF Embed
  <2>1. work[t].name = n /\ work[t].doc \in DocIds
    BY <1>0, <1>1, <2>0 DEF HoldsWhatItNeeds, Thread
  <2>2. CASE Fails(t) /\ UNCHANGED vectors
             /\ failed' = failed \union {<<work[t].scope, work[t].name>>}
    BY <1>1, <1>f, <1>g, <2>0, <2>1, <2>2
  <2>3. CASE vectors' = [vectors EXCEPT ![work[t].doc] = work[t].scope] /\ Step(t, "row")
    <3>1. "row" \in Places  BY DEF Places
    <3>2. /\ work'[t].at = "row" /\ work'[t].doc = work[t].doc
          /\ work'[t].text = work[t].text /\ work'[t].row = work[t].row
      BY <1>0, <2>3, <3>1, StepMoves DEF Moved
    <3>3. vectors'[work[t].doc] = p  BY <1>0, <1>1, <2>1, <2>3
    <3> QED  BY <1>2, <1>3, <1>4, <1>6, <1>k, <2>0, <3>2, <3>3, OwnStep DEF BetweenDocs
  <2> QED  BY <1>12, <2>2, <2>3 DEF Embed
<1>13. CASE WriteRow(t)
  <2>0. docs' = docs /\ vectors' = vectors /\ work[t].at = "row"  BY <1>13 DEF WriteRow
  <2>1. /\ work[t].name = n /\ work[t].doc \in DocIds /\ work[t].text \in Texts
        /\ work[t].row \in Sources \union {Nil}
    BY <1>0, <1>1, <2>0 DEF HoldsWhatItNeeds, Thread
  <2>2. AtRest  BY <1>0, <1>13, EndRests DEF WriteRow, Holds
  <2>3. PICK s \in SourceIds :
          /\ sources' = [sources EXCEPT ![s] = NewSource(work[t], s)]
          /\ Rows(p, n) \subseteq {s}
    <3>1. CASE work[t].row = Nil
      <4>1. PICK s \in FreshSources : sources' = [sources EXCEPT ![s] = NewSource(work[t], s)]
        BY <1>13, <3>1 DEF WriteRow
      <4> QED  BY <1>4, <2>0, <3>1, <4>1 DEF FreshSources
    <3>2. CASE work[t].row # Nil
      <4> DEFINE s == work[t].row.id
      <4>1. sources' = [sources EXCEPT ![s] = NewSource(work[t], s)] /\ s \in SourceIds
        BY <1>13, <2>1, <3>2 DEF WriteRow, Sources
      <4>2. sources[s] = work[t].row  BY <1>3, <3>2 DEF HeldRows
      <4>3. \A r \in Rows(p, n) : r = s
        BY <1>2, <1>h, <3>2 DEF OneRow, HeldRows
      <4> QED  BY <4>1, <4>3
    <3> QED  BY <3>1, <3>2
  <2>4. NewSource(work[t], s) # Nil
    BY <1>0, <1>1, <2>1 DEF NewSource, Sources
  <2>5. Rows(p, n)' = {s} /\ sources'[s] = NewSource(work[t], s)
    BY <1>0, <1>1, <2>1, <2>3, <2>4 DEF Rows, NewSource
  <2>6. OneRow(p, n)'  BY <2>5 DEF OneRow
  <2>7. Indexed(sources[s])'
    BY <1>1, <1>6, <2>0, <2>5 DEF Indexed, NewSource
  <2> QED  BY <1>2, <2>2, <2>5, <2>6, <2>7, OwnStep
<1>14. CASE Blame(t)
  <2>1. work[t].src \in HeldRows(t)  BY <1>0, <1>14 DEF Blame, HoldsWhatItNeeds, HeldRows
  <2>2. sources' = sources
    BY <1>0, <1>3, <1>14, <2>1 DEF Blame
  <2>3. AtRest  BY <1>0, <1>14, EndRests DEF Blame, Holds
  <2> QED  BY <1>14, <1>f, <2>2, <2>3 DEF Blame, BetweenDocs
<1>15. CASE DropDoc(t)
  <2>0. sources' = sources /\ failed' = failed /\ work[t].at = "drop" /\ live' = live
    BY <1>15 DEF DropDoc
  <2>1. CASE End(t) /\ UNCHANGED <<docs, vectors>>
    BY <1>0, <1>f, <2>0, <2>1, EndRests DEF BetweenDocs, Holds
  <2>2. CASE Step(t, "unrow")
    <3>1. "unrow" \in Places  BY DEF Places
    <3>2. work'[t].at = "unrow"
      BY <1>0, <2>2, <3>1, StepMoves DEF Moved
    <3> QED  BY <1>2, <1>3, <1>k, <2>0, <3>2, OwnStep DEF BetweenDocs
  <2> QED  BY <1>15, <2>1, <2>2 DEF DropDoc
<1>16. CASE DropRow(t)
  <2> DEFINE s == work[t].src.id
  <2>1. work[t].src # Nil /\ work[t].src \in Sources
    BY <1>0, <1>16 DEF DropRow, HoldsWhatItNeeds, Thread
  <2>2. sources[s] = work[t].src  BY <1>3, <2>1 DEF HeldRows
  <2>3. \A r \in Rows(p, n) : r = s
    BY <1>2, <1>h, <2>1 DEF OneRow, HeldRows
  <2>4. Rows(p, n)' = {}
    BY <1>0, <1>16, <2>3 DEF DropRow, Rows
  <2>5. AtRest  BY <1>0, <1>16, EndRests DEF DropRow, Holds
  <2> QED  BY <1>2, <2>4, <2>5, OwnStep DEF OneRow
<1>17. CASE DropVectors(t)
  <2>1. "rows" \in Places  BY DEF Places
  <2>2. work'[t].at = "rows" /\ sources' = sources /\ live' = live /\ work[t].at = "vectors"
    BY <1>0, <1>17, <2>1, StepMoves DEF DropVectors, Moved
  <2> QED  BY <1>2, <1>3, <1>6, <1>k, <2>2, OwnStep DEF BetweenDocs
<1>18. CASE DropRows(t)
  <2>1. p \in live  BY <1>6, <1>18 DEF DropRows
  <2>2. Rows(p, n)' = {}
    BY <1>1, <1>18, <2>1 DEF DropRows, Rows
  <2>3. AtRest  BY <1>0, <1>18, EndRests DEF DropRows, Holds
  <2> QED  BY <1>2, <2>2, <2>3, OwnStep DEF OneRow
<1> HIDE DEF AtRest, Kept
<1> QED
  BY <1>7, <1>8, <1>9, <1>10, <1>11, <1>12, <1>13, <1>14, <1>15, <1>16, <1>17, <1>18 DEF Goes

\* A page that no two operations ever worked on at once keeps what holds of it.
LEMMA PageStep ==
  ASSUME Typed, PlacesHold', DocsAgree, SourcesAgree, [KnowledgeNext]_knowledgeVars,
         NEW p \in Scopes, NEW n \in Pages,
         <<p, n>> \notin raced => PageInv(p, n), <<p, n>> \notin raced'
  PROVE  PageInv(p, n)'
<1>1. CASE UNCHANGED <<live, docs, vectors, sources, work, raced, failed>>
  BY <1>1 DEF PageInv, OneAtWork, OneRow, RowAsRead, SourceIndexed, NewDocIndexed,
              Indexed, Busy, Rows, HeldRows
<1>2. ASSUME NEW t \in Workers, Starts(t)  PROVE PageInv(p, n)'
  <2>1. <<p, n>> \notin raced  BY <1>2, StartsDoes
  <2> QED  BY <1>2, <2>1, PageBegins
<1>3. ASSUME NEW t \in Workers, Goes(t)  PROVE PageInv(p, n)'
  <2>1. <<p, n>> \notin raced  BY <1>3, StepsOn
  <2> QED  BY <1>3, <2>1, PageGoesOn, PageStays
<1> QED  BY <1>1, <1>2, <1>3, StepsOfThreads

\* What holds of the documents, the sources and the threads is kept by every step.
LEMMA KnowledgeInvStep ==
  ASSUME KnowledgeTypeOK, KnowledgeInv, AckedDocumentsIndexed, [KnowledgeNext]_knowledgeVars
  PROVE  KnowledgeInv' /\ AckedDocumentsIndexed'
<1>1. Typed /\ DocsAgree /\ SourcesAgree /\ AnswersIndexed
  BY DEF KnowledgeInv, Typed
<1>2. PlacesHold'  BY <1>1, KnowledgeTypeStep DEF Typed
<1>3. DocsAgree'  BY <1>1, DocsAgreeStep
<1>4. SourcesAgree'  BY <1>1, SourcesAgreeStep
<1>5. AnswersIndexed' /\ AckedDocumentsIndexed'  BY <1>1, AnswersIndexedStep
<1>6. ASSUME NEW p \in Scopes, NEW n \in Pages, <<p, n>> \notin raced'  PROVE PageInv(p, n)'
  <2>1. <<p, n>> \notin raced => PageInv(p, n)  BY DEF KnowledgeInv
  <2> QED  BY <1>1, <1>2, <1>6, <2>1, PageStep
<1> QED  BY <1>2, <1>3, <1>4, <1>5, <1>6 DEF KnowledgeInv

\* It holds before anything is stored.
LEMMA KnowledgeInvInit ==
  ASSUME KnowledgeInit
  PROVE  KnowledgeTypeOK /\ KnowledgeInv /\ AckedDocumentsIndexed
<1>0. /\ \A t \in Workers : work[t] = Rest
      /\ \A d \in DocIds : docs[d] = Nil
      /\ \A s \in SourceIds : sources[s] = Nil
  BY DEF KnowledgeInit
<1>1. KnowledgeTypeOK /\ PlacesHold
  BY DEF KnowledgeInit, KnowledgeTypeOK, PlacesHold, HoldsWhatItNeeds, Rest, DocIds, SourceIds
<1>2. DocsAgree /\ AnswersIndexed /\ AckedDocumentsIndexed
  BY <1>0 DEF DocsAgree, AnswersIndexed, AckedDocumentsIndexed, Rest
<1>3. SourcesAgree  BY <1>0 DEF SourcesAgree, HeldRows, Rest
<1>4. ASSUME NEW p \in Scopes, NEW n \in Pages  PROVE PageInv(p, n)
  <2>1. Busy(p, n) = {} /\ Rows(p, n) = {}  BY <1>0 DEF Busy, Rows, Rest
  <2> QED  BY <2>1
       DEF PageInv, OneAtWork, OneRow, RowAsRead, SourceIndexed, NewDocIndexed
<1> QED  BY <1>1, <1>2, <1>3, <1>4 DEF KnowledgeInv

\* Of a page at rest that was not raced and lost no embedding, the source has
\* its document.
LEMMA RestingPageIsIndexed ==
  ASSUME KnowledgeTypeOK, KnowledgeInv
  PROVE  SourcesIndexed
<1> SUFFICES ASSUME NEW s \in SourceIds, sources[s] # Nil,
                    <<sources[s].scope, sources[s].name>> \notin raced \union failed,
                    Busy(sources[s].scope, sources[s].name) = {}
             PROVE  Indexed(sources[s])
  BY DEF SourcesIndexed, Indexed
<1> DEFINE p == sources[s].scope
           n == sources[s].name
<1>1. Typed  BY DEF Typed, KnowledgeInv
<1>2. p \in Scopes /\ n \in Pages  BY <1>1, Shapes DEF Sources
<1>3. SourceIndexed(p, n)  BY <1>2 DEF KnowledgeInv, PageInv
<1>4. s \in Rows(p, n)  BY DEF Rows
<1> QED  BY <1>3, <1>4 DEF SourceIndexed

\* The invariant of the knowledge base.
LEMMA KnowledgeInvHolds ==
  KnowledgeSpec => [](KnowledgeTypeOK /\ KnowledgeInv /\ AckedDocumentsIndexed)
<1>1. KnowledgeInit => KnowledgeTypeOK /\ KnowledgeInv /\ AckedDocumentsIndexed
  BY KnowledgeInvInit
<1>2. KnowledgeTypeOK /\ KnowledgeInv /\ AckedDocumentsIndexed /\ [KnowledgeNext]_knowledgeVars
        => KnowledgeTypeOK' /\ KnowledgeInv' /\ AckedDocumentsIndexed'
  BY KnowledgeInvStep, KnowledgeTypeStep DEF KnowledgeInv
<1> QED  BY <1>1, <1>2, PTL DEF KnowledgeSpec

\* A document whose upload was answered is in the collection while its project
\* is in the store and is not being deleted, whatever uploads, imports, syncs
\* and failed calls came before, of any number of threads.
THEOREM AnsweredDocumentsAreIndexed == KnowledgeSpec => []AckedDocumentsIndexed
BY KnowledgeInvHolds, PTL

\* A source at rest that no two operations ever worked on at once, and whose
\* last import lost no embedding, has its document, with the content whose
\* hash it keeps, in the store and in the collection.
THEOREM SourcesHaveTheirDocument == KnowledgeSpec => []SourcesIndexed
<1>1. KnowledgeTypeOK /\ KnowledgeInv /\ AckedDocumentsIndexed => SourcesIndexed
  BY RestingPageIsIndexed
<1> QED  BY <1>1, KnowledgeInvHolds, PTL
=============================================================================
