------------------------ MODULE ClientSessionProofs ------------------------
(***************************************************************************)
(* Proofs about ClientSession, for any number of tabs, calls and pairs.    *)
(***************************************************************************)
EXTENDS ClientSession, TLAPS

-----------------------------------------------------------------------------
(* Type correctness.                                                       *)

\* The steps of one tab, and of one of its calls.
TabStep(t) ==
  \/ Open(t) \/ Bootstrap(t) \/ Arrive(t) \/ Refused(t)
  \/ LoginSend(t) \/ LoginDone(t) \/ LogoutSend(t) \/ LogoutDone(t)
  \/ Grant(t) \/ Refuse(t)
CallStep(t, c) ==
  Send(t, c) \/ Answer(t, c) \/ Unauthorized(t, c) \/ Renew(t, c) \/ Profile(t, c)

LEMMA NextSplit ==
  Next <=> \/ \E t \in Tabs : TabStep(t) \/ \E c \in Calls : CallStep(t, c)
           \/ \E n \in Pair : Revoke(n)
           \/ \E S \in SUBSET Pair : End(S)
           \/ Expire
BY DEF Next, TabStep, CallStep

\* The calls of other tabs, and the calls a step does not name, stay.
LEMMA OneCall ==
  ASSUME call \in [Tabs -> [Calls -> Call]], NEW t \in Tabs, NEW c \in Calls, NEW r \in Call,
         call' = [call EXCEPT ![t][c] = r]
  PROVE  /\ call' \in [Tabs -> [Calls -> Call]]
         /\ call'[t][c] = r
         /\ \A u \in Tabs, d \in Calls : u # t \/ d # c => call'[u][d] = call[u][d]
OBVIOUS

LEMMA AllCalls ==
  ASSUME call \in [Tabs -> [Calls -> Call]], NEW t \in Tabs, NEW row \in [Calls -> Call],
         call' = [call EXCEPT ![t] = row]
  PROVE  /\ call' \in [Tabs -> [Calls -> Call]]
         /\ call'[t] = row
         /\ \A u \in Tabs : u # t => call'[u] = call[u]
OBVIOUS

LEMMA OneFlight ==
  ASSUME flight \in [Tabs -> Flight], NEW t \in Tabs, NEW f \in Flight,
         flight' = [flight EXCEPT ![t] = f]
  PROVE  /\ flight' \in [Tabs -> Flight]
         /\ flight'[t] = f
         /\ \A u \in Tabs : u # t => flight'[u] = flight[u]
OBVIOUS

LEMMA NothingIsTyped == NoFlight \in Flight /\ Idle \in Call
BY ClientAssumption DEF NoFlight, Started, Flight, Idle, Call, Pair

\* Only open tabs have calls and refreshes under way.
LEMMA OnlyOpen ==
  ASSUME CallersServed, NEW t \in Tabs
  PROVE  /\ InFlight(t) => t \in open
         /\ \A c \in Calls : State(t, c) # "idle" => t \in open
BY DEF CallersServed

\* When a refresh is done, nobody waits any more and idle calls stay idle.
LEMMA ResumeType ==
  ASSUME TypeOK, NEW t \in Tabs, NEW n \in Pair, Resume(t, n)
  PROVE  /\ call' \in [Tabs -> [Calls -> Call]]
         /\ \A u \in Tabs : u # t => call'[u] = call[u]
         /\ \A c \in Calls :
              /\ call'[t][c].state # "idle" => call[t][c].state # "idle"
              /\ call'[t][c].state \notin {"waiting", "renewing"}
<1> PICK late \in SUBSET {c \in Calls : State(t, c) = "waiting"} :
      call' = [call EXCEPT ![t] = [c \in Calls |->
        IF c \in late THEN Idle
        ELSE IF Waits(t, c) THEN Resumed(t, c, n)
        ELSE call[t][c]]]
  BY DEF Resume
<1> DEFINE row == [c \in Calls |-> IF c \in late THEN Idle
                                   ELSE IF Waits(t, c) THEN Resumed(t, c, n)
                                   ELSE call[t][c]]
<1>1. call \in [Tabs -> [Calls -> Call]]
  BY DEF TypeOK
<1>2. \A c \in Calls :
        /\ row[c] \in Call
        /\ row[c].state # "idle" => call[t][c].state # "idle"
        /\ row[c].state \notin {"waiting", "renewing"}
  <2> TAKE c \in Calls
  <2>1. call[t][c] \in Call
    BY <1>1
  <2>2. /\ [state |-> "resent", pair |-> n] \in Call
        /\ [state |-> "profile", pair |-> n] \in Call
    BY DEF Call
  <2>3. c \in late => call[t][c].state = "waiting"
    BY DEF State
  <2>4. QED
    BY <2>1, <2>2, <2>3, NothingIsTyped DEF Idle, Waits, State, Resumed
<1>3. call' = [call EXCEPT ![t] = row]
  OBVIOUS
<1>4. row \in [Calls -> Call]
  BY <1>2
<1> HIDE DEF row
<1>5. QED
  BY <1>1, <1>2, <1>3, <1>4, AllCalls

\* A call that joins or starts a refresh.
LEMMA RefreshType ==
  ASSUME TypeOK, NEW t \in open, NEW c \in Calls, NEW s \in {"waiting", "renewing"},
         Refresh(t, c, s)
  PROVE  TypeOK'
<1> USE ClientAssumption DEF Pair
<1>0. t \in Tabs /\ memory[t] \in Pair /\ flight[t] \in Flight /\ call[t][c] \in Call
  BY DEF TypeOK
<1>1. CASE memory[t] = 0
  <2>1. /\ call' = [call EXCEPT ![t][c] = Idle]
        /\ UNCHANGED <<open, flight, login, leaving, server, forfeit>>
        /\ Clear(t)
    BY <1>1 DEF Refresh
  <2>2. /\ call' \in [Tabs -> [Calls -> Call]]
        /\ call'[t][c] = Idle
        /\ \A u \in Tabs, d \in Calls : u # t \/ d # c => call'[u][d] = call[u][d]
    BY <1>0, <2>1, OneCall, NothingIsTyped DEF TypeOK
  <2>3. CallersServed'
    BY <2>1, <2>2 DEF TypeOK, CallersServed, State, Waits, InFlight, Idle, server
  <2>4. QED
    BY <2>1, <2>2, <2>3 DEF TypeOK, Clear, Set, Session, Store, server
<1>2. CASE memory[t] # 0
  <2> DEFINE r == [call[t][c] EXCEPT !.state = s]
             f == IF InFlight(t) THEN flight[t] ELSE Started(memory[t])
  <2>1. /\ call' = [call EXCEPT ![t][c].state = s]
        /\ flight' = IF InFlight(t) THEN flight ELSE [flight EXCEPT ![t] = Started(memory[t])]
        /\ UNCHANGED <<open, memory, storage, effect, login, leaving, server, forfeit>>
    BY <1>2 DEF Refresh
  <2>2. r \in Call /\ r.state = s
    BY <1>0 DEF Call
  <2>3. f \in Flight /\ f.token # 0 /\ f.token <= issued /\ f.pair <= issued
    BY <1>0, <1>2 DEF Flight, InFlight, TypeOK, CallersServed, Started
  <2>4. call' = [call EXCEPT ![t][c] = r] /\ flight' = [flight EXCEPT ![t] = f]
    BY <1>0, <2>1 DEF TypeOK
  <2> HIDE DEF r, f
  <2>5. /\ call' \in [Tabs -> [Calls -> Call]]
        /\ call'[t][c] = r
        /\ \A u \in Tabs, d \in Calls : u # t \/ d # c => call'[u][d] = call[u][d]
    BY <1>0, <2>2, <2>4, OneCall DEF TypeOK
  <2>6. /\ flight' \in [Tabs -> Flight]
        /\ flight'[t] = f
        /\ \A u \in Tabs : u # t => flight'[u] = flight[u]
    BY <1>0, <2>3, <2>4, OneFlight DEF TypeOK
  <2>7. CallersServed'
    BY <1>0, <2>1, <2>2, <2>3, <2>5, <2>6 DEF TypeOK, CallersServed, State, Waits, InFlight, server
  <2>8. QED
    BY <2>1, <2>5, <2>6, <2>7 DEF TypeOK, server
<1>3. QED
  BY <1>1, <1>2

\* A call of an open tab that moves on without waiting.
LEMMA CallMoves ==
  ASSUME TypeOK, NEW t \in open, NEW c \in Calls, NEW r \in Call,
         r.state \notin {"waiting", "renewing"},
         call' = [call EXCEPT ![t][c] = r],
         UNCHANGED <<open, flight, login, leaving, server, forfeit>>,
         memory' \in [Tabs -> 0 .. issued], storage' \in 0 .. issued, effect' \subseteq open
  PROVE  TypeOK'
<1>1. /\ call' \in [Tabs -> [Calls -> Call]]
      /\ call'[t][c] = r
      /\ \A u \in Tabs, d \in Calls : u # t \/ d # c => call'[u][d] = call[u][d]
  BY OneCall DEF TypeOK
<1>2. CallersServed'
  BY <1>1 DEF TypeOK, CallersServed, State, Waits, InFlight, server
<1>3. QED
  BY <1>1, <1>2 DEF TypeOK, server

LEMMA TypeInvariant == TypeOK /\ [Next]_vars => TypeOK'
<1> SUFFICES ASSUME TypeOK, [Next]_vars PROVE TypeOK'
  OBVIOUS
<1> USE ClientAssumption DEF Pair
<1>1. ASSUME NEW t \in Tabs, TabStep(t) PROVE TypeOK'
  <2>0. flight[t] \in Flight /\ flight[t].token \in 0 .. issued /\ flight[t].pair \in 0 .. issued
    BY DEF TypeOK, CallersServed, Flight
  <2>1. CASE Open(t)
    <3> DEFINE row == [c \in Calls |-> Idle]
    <3>1. row \in [Calls -> Call] /\ \A c \in Calls : row[c].state = "idle"
      BY NothingIsTyped DEF Idle
    <3>2. call' = [call EXCEPT ![t] = row] /\ flight' = [flight EXCEPT ![t] = NoFlight]
      BY <2>1 DEF Open
    <3> HIDE DEF row
    <3>3. /\ call' \in [Tabs -> [Calls -> Call]]
          /\ call'[t] = row
          /\ \A u \in Tabs : u # t => call'[u] = call[u]
      BY <3>1, <3>2, AllCalls DEF TypeOK
    <3>4. /\ flight' \in [Tabs -> Flight]
          /\ flight'[t] = NoFlight
          /\ \A u \in Tabs : u # t => flight'[u] = flight[u]
      BY <3>2, OneFlight, NothingIsTyped DEF TypeOK
    <3>5. CallersServed'
      BY <2>1, <3>1, <3>3, <3>4 DEF Open, TypeOK, CallersServed, State, Waits, InFlight, NoFlight, Started, server
    <3>6. forfeit' \subseteq 1 .. issued
      <4>1. forfeit \subseteq 1 .. issued /\ {flight[t].token} \ {0} \subseteq 1 .. issued
        BY <2>0 DEF TypeOK
      <4>2. forfeit' = forfeit \union ({flight[t].token} \ {0})
        BY <2>1 DEF Open
      <4>3. QED
        BY <4>1, <4>2
    <3>7. /\ memory' \in [Tabs -> 0 .. issued]
          /\ open' \subseteq Tabs /\ open \subseteq open' /\ t \in open'
      BY <2>1 DEF Open, TypeOK
    <3>8. QED
      BY <2>1, <3>3, <3>4, <3>5, <3>6, <3>7 DEF Open, TypeOK, server
  <2>2. CASE Bootstrap(t)
    BY <2>2 DEF Bootstrap, Store, TypeOK, CallersServed, State, Waits, InFlight, server
  <2>3. CASE Arrive(t)
    <3>1. /\ call' \in [Tabs -> [Calls -> Call]]
          /\ \A u \in Tabs : u # t => call'[u] = call[u]
          /\ \A c \in Calls :
               /\ call'[t][c].state # "idle" => call[t][c].state # "idle"
               /\ call'[t][c].state \notin {"waiting", "renewing"}
      BY <2>0, <2>3, ResumeType DEF Arrive, Flight
    <3>2. /\ flight' \in [Tabs -> Flight]
          /\ flight'[t] = NoFlight
          /\ \A u \in Tabs : u # t => flight'[u] = flight[u]
      BY <2>3, OneFlight, NothingIsTyped DEF TypeOK, Arrive
    <3>3. CallersServed'
      BY <2>3, <3>1, <3>2 DEF Arrive, TypeOK, CallersServed, State, Waits, InFlight, NoFlight, Started, server
    <3>4. t \in open
      BY <2>3 DEF Arrive, TypeOK, CallersServed
    <3>5. QED
      BY <2>0, <2>3, <3>1, <3>2, <3>3, <3>4 DEF Arrive, Set, Session, Store, TypeOK, server
  <2>4. CASE Refused(t)
    <3> DEFINE row == [c \in Calls |-> IF Waits(t, c) THEN Idle ELSE call[t][c]]
    <3>1. row \in [Calls -> Call]
      BY NothingIsTyped DEF TypeOK
    <3>2. \A c \in Calls : /\ row[c].state # "idle" => call[t][c].state # "idle"
                           /\ row[c].state \notin {"waiting", "renewing"}
      BY DEF Idle, Waits, State
    <3>3. call' = [call EXCEPT ![t] = row] /\ flight' = [flight EXCEPT ![t] = NoFlight]
      BY <2>4 DEF Refused
    <3> HIDE DEF row
    <3>4. /\ call' \in [Tabs -> [Calls -> Call]]
          /\ call'[t] = row
          /\ \A u \in Tabs : u # t => call'[u] = call[u]
      BY <3>1, <3>3, AllCalls DEF TypeOK
    <3>5. /\ flight' \in [Tabs -> Flight]
          /\ flight'[t] = NoFlight
          /\ \A u \in Tabs : u # t => flight'[u] = flight[u]
      BY <3>3, OneFlight, NothingIsTyped DEF TypeOK
    <3>6. CallersServed'
      BY <2>4, <3>2, <3>4, <3>5 DEF Refused, TypeOK, CallersServed, State, Waits, InFlight, NoFlight, Started, server
    <3>7. t \in open /\ flight[t].token # 0
      BY <2>4 DEF Refused, TypeOK, CallersServed, InFlight
    <3>8. forfeit' \subseteq 1 .. issued
      <4>1. flight[t].token \in 1 .. issued /\ forfeit \subseteq 1 .. issued
        BY <2>0, <3>7 DEF TypeOK
      <4>2. forfeit' = forfeit \/ forfeit' = forfeit \union {flight[t].token}
        BY <2>4 DEF Refused
      <4>3. QED
        BY <4>1, <4>2
    <3>9. memory' \in [Tabs -> 0 .. issued] /\ storage' = 0 /\ effect' \subseteq open
      BY <2>4, <3>7 DEF Refused, Clear, Set, Session, Store, TypeOK
    <3>10. QED
      BY <2>4, <3>4, <3>5, <3>6, <3>8, <3>9 DEF Refused, TypeOK, server
  <2>5. CASE LoginSend(t)
    BY <2>5 DEF LoginSend, TypeOK, CallersServed, State, Waits, InFlight, server
  <2>6. CASE LoginDone(t)
    <3>1. issued' \in Pair /\ issued <= issued' /\ UNCHANGED <<open, flight, call, forfeit>>
      BY <2>6 DEF LoginDone, TypeOK, server
    <3>2. CallersServed'
      BY <3>1 DEF TypeOK, CallersServed, State, Waits, InFlight, Flight
    <3>3. CASE UNCHANGED <<memory, storage, effect, server>>
      BY <2>6, <3>2, <3>3 DEF LoginDone, TypeOK, server
    <3>4. CASE /\ issued < MaxPair
               /\ issued' = issued + 1
               /\ active' = active \union {issued + 1}
               /\ Set(t, issued + 1)
               /\ UNCHANGED expired
      <4>1. /\ memory' \in [Tabs -> 0 .. issued'] /\ storage' \in 0 .. issued'
            /\ effect' \subseteq open
        BY <2>6, <3>4 DEF LoginDone, Set, Session, Store, TypeOK
      <4>2. active' \subseteq 1 .. issued' /\ expired' \in 0 .. issued' /\ forfeit' \subseteq 1 .. issued'
        BY <2>6, <3>4 DEF LoginDone, TypeOK
      <4>3. QED
        BY <2>6, <3>1, <3>2, <4>1, <4>2 DEF LoginDone, TypeOK
    <3>5. QED
      BY <2>6, <3>3, <3>4 DEF LoginDone
  <2>7. CASE LogoutSend(t)
    <3>1. t \in open /\ memory[t] \in 1 .. issued
      BY <2>7 DEF LogoutSend, TypeOK
    <3>2. CallersServed'
      BY <2>7 DEF LogoutSend, TypeOK, CallersServed, State, Waits, InFlight, server
    <3>3. QED
      BY <2>7, <3>1, <3>2 DEF LogoutSend, TypeOK, server
  <2>8. CASE LogoutDone(t)
    BY <2>8 DEF LogoutDone, Clear, Set, Session, Store, TypeOK, CallersServed, State, Waits, InFlight, server
  <2>9. CASE Grant(t)
    <3> DEFINE f == [flight[t] EXCEPT !.answer = "granted", !.pair = issued + 1]
    <3>1. f \in Flight /\ f.token = flight[t].token /\ f.pair = issued + 1
      BY <2>0, <2>9 DEF Grant, Flight, TypeOK
    <3>2. flight' = [flight EXCEPT ![t] = f] /\ issued' = issued + 1
      BY <2>9 DEF Grant
    <3> HIDE DEF f
    <3>3. /\ flight' \in [Tabs -> Flight]
          /\ flight'[t] = f
          /\ \A u \in Tabs : u # t => flight'[u] = flight[u]
      BY <3>1, <3>2, OneFlight DEF TypeOK
    <3>4. CallersServed'
      BY <2>0, <2>9, <3>1, <3>2, <3>3 DEF Grant, TypeOK, CallersServed, Flight, State, Waits, InFlight
    <3>5. QED
      BY <2>0, <2>9, <3>2, <3>3, <3>4 DEF Grant, TypeOK
  <2>10. CASE Refuse(t)
    <3> DEFINE f == [flight[t] EXCEPT !.answer = "refused"]
    <3>1. f \in Flight /\ f.token = flight[t].token /\ f.pair = flight[t].pair
      BY <2>0 DEF Flight
    <3>2. flight' = [flight EXCEPT ![t] = f]
      BY <2>10 DEF Refuse
    <3> HIDE DEF f
    <3>3. /\ flight' \in [Tabs -> Flight]
          /\ flight'[t] = f
          /\ \A u \in Tabs : u # t => flight'[u] = flight[u]
      BY <3>1, <3>2, OneFlight DEF TypeOK
    <3>4. CallersServed'
      BY <2>0, <2>10, <3>1, <3>3 DEF Refuse, TypeOK, CallersServed, State, Waits, InFlight, server
    <3>5. forfeit' \subseteq 1 .. issued
      <4>1. forfeit \subseteq 1 .. issued /\ active \subseteq 1 .. issued
        BY DEF TypeOK
      <4>2. forfeit' = forfeit \union ({flight[t].token} \intersect active)
        BY <2>10 DEF Refuse
      <4>3. QED
        BY <4>1, <4>2
    <3>6. QED
      BY <2>10, <3>3, <3>4, <3>5 DEF Refuse, TypeOK, server
  <2>11. QED
    BY <1>1, <2>1, <2>2, <2>3, <2>4, <2>5, <2>6, <2>7, <2>8, <2>9, <2>10 DEF TabStep
<1>2. ASSUME NEW t \in Tabs, NEW c \in Calls, CallStep(t, c) PROVE TypeOK'
  <2>1. CASE Send(t, c)
    <3>1. [state |-> "sent", pair |-> memory[t]] \in Call
      BY DEF Call, TypeOK
    <3>2. QED
      BY <2>1, <3>1, CallMoves DEF Send, TypeOK
  <2>2. CASE Answer(t, c)
    <3>1. t \in open
      BY <2>2, OnlyOpen DEF Answer, TypeOK
    <3>2. QED
      BY <2>2, <3>1, CallMoves, NothingIsTyped DEF Answer, TypeOK, Idle
  <2>3. CASE Unauthorized(t, c)
    <3>1. t \in open
      BY <2>3, OnlyOpen DEF Unauthorized, TypeOK
    <3>2. QED
      BY <2>3, <3>1, RefreshType DEF Unauthorized
  <2>4. CASE Renew(t, c)
    BY <2>4, RefreshType DEF Renew
  <2>5. CASE Profile(t, c)
    <3>1. t \in open
      BY <2>5, OnlyOpen DEF Profile, TypeOK
    <3>2. /\ memory' \in [Tabs -> 0 .. issued] /\ storage' \in 0 .. issued
          /\ effect' \subseteq open
      BY <2>5, <3>1 DEF Profile, Clear, Set, Session, Store, TypeOK
    <3>3. QED
      BY <2>5, <3>1, <3>2, CallMoves, NothingIsTyped DEF Profile, Idle
  <2>6. QED
    BY <1>2, <2>1, <2>2, <2>3, <2>4, <2>5 DEF CallStep
<1>3. ASSUME NEW n \in Pair, Revoke(n) PROVE TypeOK'
  BY <1>3 DEF Revoke, TypeOK, CallersServed, State, Waits, InFlight
<1>4. ASSUME NEW S \in SUBSET Pair, End(S) PROVE TypeOK'
  BY <1>4 DEF End, TypeOK, CallersServed, State, Waits, InFlight
<1>5. CASE Expire
  BY <1>5 DEF Expire, TypeOK, CallersServed, State, Waits, InFlight
<1>6. CASE UNCHANGED vars
  BY <1>6 DEF vars, server, TypeOK, CallersServed, State, Waits, InFlight
<1>7. QED
  BY <1>1, <1>2, <1>3, <1>4, <1>5, <1>6, NextSplit

\* Types, and: a call waits only while a refresh is in flight, so none is
\* left behind when the refresh that it joined ends.
THEOREM TypeCorrect == Spec => []TypeOK
<1>1. Init => TypeOK
  BY ClientAssumption, NothingIsTyped
  DEF Init, TypeOK, CallersServed, State, Waits, InFlight, NoFlight, Started, Idle, Pair
<1>2. QED
  BY <1>1, TypeInvariant, PTL DEF Spec

-----------------------------------------------------------------------------
(* One refresh for all calls of a tab.                                     *)

\* A refresh token the server accepts, or has a reason to refuse: it is only
\* a rotation that makes a token neither.
Good(n) == n \in active \union forfeit

\* As long as one tab was open: what it holds and what it stored are good, or
\* are what its refresh is about to replace, and a refresh is about a token
\* that is good until it is granted.
OneTab(t) ==
  /\ memory[t] # 0 => Good(memory[t]) \/ memory[t] = flight[t].token
  /\ storage # 0 => Good(storage) \/ storage = flight[t].token
  /\ InFlight(t) =>
       /\ flight[t].answer = "pending" => Good(flight[t].token)
       /\ flight[t].answer = "refused" => flight[t].token \in forfeit
       /\ flight[t].answer = "granted" => Good(flight[t].pair)
OneTabInv ==
  /\ open = {} => storage = 0
  /\ \A t \in Tabs : open = {t} => OneTab(t)

\* A step of one tab leaves what the others hold alone; only Open opens one.
LEMMA OneTabInvariant == TypeOK /\ OneTabInv /\ [Next]_vars => OneTabInv'
<1> SUFFICES ASSUME TypeOK, OneTabInv, [Next]_vars PROVE OneTabInv'
  OBVIOUS
<1> USE ClientAssumption
<1>0. \A u \in Tabs : flight[u] \in Flight /\ flight[u].token <= issued /\ memory[u] \in 0 .. issued
  BY DEF TypeOK, CallersServed
<1>1. ASSUME NEW t \in Tabs, TabStep(t) PROVE OneTabInv'
  <2>1. CASE Open(t)
    <3>1. /\ open' = open \union {t} /\ storage' = storage /\ active' = active
          /\ forfeit' = forfeit \union ({flight[t].token} \ {0})
          /\ memory'[t] = storage /\ flight'[t] = NoFlight
      BY <2>1 DEF Open, TypeOK, server
    <3>2. ASSUME NEW u \in Tabs, open' = {u} PROVE u = t /\ (open = {} \/ open = {t})
      BY <3>1, <3>2
    <3>3. open = {t} => (storage # 0 => Good(storage) \/ storage = flight[t].token)
      BY DEF OneTabInv, OneTab
    <3>4. open' = {t} => OneTab(t)'
      BY <3>1, <3>2, <3>3 DEF OneTabInv, OneTab, Good, InFlight, NoFlight, Started
    <3>5. QED
      BY <3>1, <3>2, <3>4 DEF OneTabInv
  <2>2. ASSUME t \in open, UNCHANGED open, open = {t} => OneTab(t)' PROVE OneTabInv'
    BY <2>2 DEF OneTabInv
  <2>3. CASE Bootstrap(t)
    <3>1. t \in open /\ UNCHANGED <<open, memory, flight, active, forfeit>> /\ storage' = memory[t]
      BY <2>3 DEF Bootstrap, Store, TypeOK, server
    <3>2. open = {t} => OneTab(t)
      BY DEF OneTabInv
    <3>3. QED
      BY <2>2, <3>1, <3>2 DEF OneTab, Good, InFlight
  <2>4. CASE Arrive(t)
    <3>1. /\ t \in open /\ UNCHANGED <<open, active, forfeit>>
          /\ InFlight(t) /\ flight[t].answer = "granted"
          /\ memory'[t] = flight[t].pair /\ storage' = flight[t].pair
          /\ flight'[t] = NoFlight
      BY <2>4, OnlyOpen DEF Arrive, Set, Session, Store, TypeOK, server
    <3>2. open = {t} => OneTab(t)
      BY DEF OneTabInv
    <3>3. QED
      BY <2>2, <3>1, <3>2 DEF OneTab, Good, InFlight, NoFlight, Started
  <2>5. CASE Refused(t)
    <3>1. /\ t \in open /\ UNCHANGED open
          /\ memory'[t] = 0 /\ storage' = 0 /\ flight'[t] = NoFlight
      BY <2>5, OnlyOpen DEF Refused, Clear, Set, Session, Store, TypeOK
    <3>2. QED
      BY <2>2, <3>1 DEF OneTab, InFlight, NoFlight, Started
  <2>6. CASE LoginSend(t)
    BY <2>6 DEF LoginSend, OneTabInv, OneTab, Good, InFlight, server
  <2>7. CASE LoginDone(t)
    <3>1. t \in open /\ UNCHANGED <<open, flight, forfeit>>
      BY <2>7 DEF LoginDone, TypeOK
    <3>2. \/ UNCHANGED <<memory, storage, active>>
          \/ /\ active' = active \union {issued + 1}
             /\ memory'[t] = issued + 1 /\ storage' = issued + 1
      BY <2>7 DEF LoginDone, Set, Session, Store, TypeOK, server
    <3>3. open = {t} => OneTab(t)
      BY DEF OneTabInv
    <3>4. QED
      BY <2>2, <3>1, <3>2, <3>3 DEF OneTab, Good, InFlight
  <2>8. CASE LogoutSend(t)
    <3>1. /\ t \in open /\ UNCHANGED <<open, memory, storage, flight, active>>
          /\ forfeit' = forfeit \union {memory[t]}
      BY <2>8 DEF LogoutSend, server
    <3>2. open = {t} => OneTab(t)
      BY DEF OneTabInv
    <3>3. QED
      BY <2>2, <3>1, <3>2 DEF OneTab, Good, InFlight
  <2>9. CASE LogoutDone(t)
    <3>1. /\ t \in open /\ UNCHANGED <<open, flight, active, forfeit>>
          /\ memory'[t] = 0 /\ storage' = 0
      BY <2>9 DEF LogoutDone, Clear, Set, Session, Store, TypeOK, server
    <3>2. open = {t} => OneTab(t)
      BY DEF OneTabInv
    <3>3. QED
      BY <2>2, <3>1, <3>2 DEF OneTab, Good, InFlight
  <2>10. CASE Grant(t)
    <3>1. /\ t \in open /\ UNCHANGED <<open, memory, storage, forfeit>>
          /\ active' = (active \ {flight[t].token}) \union {issued + 1}
          /\ flight'[t].token = flight[t].token
          /\ flight'[t].pair = issued + 1 /\ flight'[t].answer = "granted"
      BY <1>0, <2>10, OnlyOpen DEF Grant, Flight, TypeOK
    <3>2. open = {t} => OneTab(t)
      BY DEF OneTabInv
    <3>3. QED
      BY <2>2, <3>1, <3>2 DEF OneTab, Good, InFlight
  <2>11. CASE Refuse(t)
    <3>1. /\ t \in open /\ UNCHANGED <<open, memory, storage, active>>
          /\ forfeit' = forfeit \union ({flight[t].token} \intersect active)
          /\ flight[t].answer = "pending" /\ InFlight(t)
          /\ flight'[t].token = flight[t].token /\ flight'[t].answer = "refused"
      BY <1>0, <2>11, OnlyOpen DEF Refuse, Flight, TypeOK, server
    <3>2. open = {t} => OneTab(t)
      BY DEF OneTabInv
    <3>3. QED
      BY <2>2, <3>1, <3>2 DEF OneTab, Good, InFlight
  <2>12. QED
    BY <1>1, <2>1, <2>3, <2>4, <2>5, <2>6, <2>7, <2>8, <2>9, <2>10, <2>11 DEF TabStep
<1>2. ASSUME NEW t \in Tabs, NEW c \in Calls, CallStep(t, c) PROVE OneTabInv'
  <2>1. t \in open /\ UNCHANGED <<open, active, forfeit>>
    BY <1>2, OnlyOpen
    DEF CallStep, Send, Answer, Unauthorized, Renew, Profile, Refresh, TypeOK, server
  <2>2. open = {t} => OneTab(t)
    BY DEF OneTabInv
  <2>3. ASSUME open = {t} PROVE OneTab(t)'
    <3>1. ASSUME NEW s, Refresh(t, c, s) PROVE OneTab(t)'
      <4>1. CASE memory[t] = 0
        <5>1. memory'[t] = 0 /\ storage' = 0 /\ flight' = flight
          BY <3>1, <4>1 DEF Refresh, Clear, Set, Session, Store, TypeOK
        <5>2. QED
          BY <2>1, <2>2, <2>3, <5>1 DEF OneTab, Good, InFlight
      <4>2. CASE memory[t] # 0 /\ InFlight(t)
        BY <2>1, <2>2, <2>3, <3>1, <4>2 DEF Refresh, OneTab, Good, InFlight
      <4>3. CASE memory[t] # 0 /\ ~InFlight(t)
        <5>1. /\ memory' = memory /\ storage' = storage
              /\ flight'[t].token = memory[t]
              /\ flight'[t].answer = "pending" /\ flight'[t].pair = 0
          BY <1>0, <3>1, <4>3 DEF Refresh, Flight, TypeOK, Started
        <5>2. flight[t].token = 0
          BY <4>3 DEF InFlight
        <5>3. QED
          BY <2>1, <2>2, <2>3, <4>3, <5>1, <5>2 DEF OneTab, Good, InFlight
      <4>4. QED
        BY <4>1, <4>2, <4>3
    <3>2. CASE Send(t, c) \/ Answer(t, c)
      BY <2>2, <2>3, <3>2 DEF Send, Answer, OneTab, Good, InFlight, server
    <3>3. CASE Unauthorized(t, c) \/ Renew(t, c)
      BY <3>1, <3>3 DEF Unauthorized, Renew
    <3>4. CASE Profile(t, c)
      <4>1. /\ UNCHANGED <<flight, active, forfeit>>
            /\ memory'[t] \in {0, memory[t]} /\ storage' = memory'[t]
        BY <3>4 DEF Profile, Clear, Set, Session, Store, TypeOK, server
      <4>2. QED
        BY <2>2, <2>3, <4>1 DEF OneTab, Good, InFlight
    <3>5. QED
      BY <1>2, <3>2, <3>3, <3>4 DEF CallStep
  <2>4. QED
    BY <2>1, <2>3 DEF OneTabInv
<1>3. ASSUME NEW n \in Pair, Revoke(n) PROVE OneTabInv'
  BY <1>3 DEF Revoke, OneTabInv, OneTab, Good, InFlight
<1>4. ASSUME NEW S \in SUBSET Pair, End(S) PROVE OneTabInv'
  <2>1. /\ UNCHANGED <<open, memory, storage, flight>>
        /\ \A n : Good(n)' <=> Good(n)
        /\ forfeit \subseteq forfeit'
    BY <1>4 DEF End, Good
  <2>2. QED
    BY <2>1 DEF OneTabInv, OneTab, InFlight
<1>5. CASE Expire
  BY <1>5 DEF Expire, OneTabInv, OneTab, Good, InFlight
<1>6. CASE UNCHANGED vars
  BY <1>6 DEF vars, server, OneTabInv, OneTab, Good, InFlight
<1>7. QED
  BY <1>1, <1>2, <1>3, <1>4, <1>5, <1>6, NextSplit

LEMMA OneTabHolds == Spec => [](TypeOK /\ OneTabInv)
<1>1. Init => TypeOK /\ OneTabInv
  BY ClientAssumption, NothingIsTyped
  DEF Init, OneTabInv, TypeOK, CallersServed, State, Waits, InFlight, NoFlight, Started, Idle, Pair
<1>2. QED
  BY <1>1, TypeInvariant, OneTabInvariant, PTL DEF Spec

\* For any number of calls: while one tab was open, a refresh is refused only
\* for a token of a logout or of a lost answer, or one the server itself
\* ended, and never for a token that another call of the tab has rotated.
THEOREM CallsShareOneRefresh == Spec => []RefusalsAreEarned
<1>1. OneTabInv => RefusalsAreEarned
  BY DEF OneTabInv, OneTab, RefusalsAreEarned
<1>2. QED
  BY <1>1, OneTabHolds, PTL

\* While one tab was open, it can be reloaded at any moment: unless the
\* server was asked to end the session or ended it itself, the storage has
\* one that it accepts, or the one its refresh is replacing.
THEOREM ReloadsAreSafe == Spec => []ReloadKeepsSession
<1>1. OneTabInv => ReloadKeepsSession
  BY DEF OneTabInv, OneTab, Good, ReloadKeepsSession
<1>2. QED
  BY <1>1, OneTabHolds, PTL

-----------------------------------------------------------------------------
(* The pair of a granted refresh is new to everyone until it arrives.      *)

Granted(t) == InFlight(t) /\ flight[t].answer = "granted"

\* A pair that the storage, a tab or a call carries.
Held(n) ==
  \/ storage = n
  \/ \E u \in Tabs : memory[u] = n \/ \E c \in Calls : call[u][c].pair = n

HeldNext(n) ==
  \/ storage' = n
  \/ \E u \in Tabs : memory'[u] = n \/ \E c \in Calls : call'[u][c].pair = n

Unseen ==
  /\ \A u \in Tabs, c \in Calls : call[u][c].pair <= issued
  /\ \A t \in Tabs : Granted(t) =>
       /\ flight[t].pair # 0
       /\ ~Held(flight[t].pair)
       /\ \A u \in Tabs : Granted(u) /\ u # t => flight[u].pair # flight[t].pair

LEMMA HeldIsIssued ==
  ASSUME TypeOK, Unseen, NEW n, Held(n)
  PROVE  n \in 0 .. issued
<1>1. CASE storage = n \/ \E u \in Tabs : memory[u] = n
  BY <1>1 DEF TypeOK
<1>2. CASE \E u \in Tabs : \E c \in Calls : call[u][c].pair = n
  <2>1. PICK u \in Tabs, c \in Calls : call[u][c].pair = n
    BY <1>2
  <2>2. call[u][c] \in Call /\ call[u][c].pair <= issued
    BY DEF TypeOK, Unseen
  <2>3. QED
    BY <2>1, <2>2, ClientAssumption DEF Call, Pair, TypeOK
<1>3. QED
  BY <1>1, <1>2 DEF Held, HeldNext

\* A step that hands out no new pair and grants nothing.
LEMMA HandsOutNothing ==
  ASSUME TypeOK, Unseen, issued' \in Nat, issued <= issued',
         \A n : HeldNext(n) => Held(n) \/ n = 0,
         \A u \in Tabs : Granted(u)' => Granted(u) /\ flight'[u].pair = flight[u].pair
  PROVE  Unseen'
<1>1. ASSUME NEW u \in Tabs, NEW c \in Calls PROVE call'[u][c].pair <= issued'
  <2>1. HeldNext(call'[u][c].pair)
    BY DEF Held, HeldNext
  <2>2. Held(call'[u][c].pair) \/ call'[u][c].pair = 0
    BY <2>1
  <2>3. call'[u][c].pair \in 0 .. issued
    BY <2>2, HeldIsIssued, ClientAssumption DEF TypeOK, Pair
  <2>4. QED
    BY <2>3, ClientAssumption DEF TypeOK, Pair
<1>2. ASSUME NEW t \in Tabs, Granted(t)'
      PROVE  /\ flight'[t].pair # 0 /\ ~HeldNext(flight'[t].pair)
             /\ \A u \in Tabs : Granted(u)' /\ u # t => flight'[u].pair # flight'[t].pair
  <2>1. Granted(t) /\ flight'[t].pair = flight[t].pair
    BY <1>2
  <2>2. /\ flight[t].pair # 0 /\ ~Held(flight[t].pair)
        /\ \A u \in Tabs : Granted(u) /\ u # t => flight[u].pair # flight[t].pair
    BY <2>1 DEF Unseen
  <2>3. ~HeldNext(flight'[t].pair)
    <3>1. HeldNext(flight'[t].pair) => Held(flight'[t].pair) \/ flight'[t].pair = 0
      OBVIOUS
    <3>2. QED
      BY <2>1, <2>2, <3>1
  <2>4. QED
    BY <2>1, <2>2, <2>3
<1>3. QED
  BY <1>1, <1>2 DEF Unseen, Held, HeldNext

\* When a refresh is done, each call of its tab keeps its pair, has none, or
\* has the new one.
LEMMA ResumePairs ==
  ASSUME TypeOK, NEW t \in Tabs, NEW n \in Pair, Resume(t, n), NEW c \in Calls
  PROVE  /\ call'[t][c].pair \in {call[t][c].pair, 0, n}
         /\ State(t, c) = "waiting" /\ call'[t][c].state = "resent" => call'[t][c].pair = n
<1>1. PICK late \in SUBSET {d \in Calls : State(t, d) = "waiting"} :
      call' = [call EXCEPT ![t] = [d \in Calls |->
        IF d \in late THEN Idle
        ELSE IF Waits(t, d) THEN Resumed(t, d, n)
        ELSE call[t][d]]]
  BY DEF Resume
<1>2. call'[t][c] = IF c \in late THEN Idle
                    ELSE IF Waits(t, c) THEN Resumed(t, c, n)
                    ELSE call[t][c]
  BY <1>1 DEF TypeOK
<1>3. CASE c \in late
  BY <1>2, <1>3 DEF Idle
<1>4. CASE c \notin late /\ Waits(t, c)
  BY <1>2, <1>4 DEF Resumed
<1>5. CASE c \notin late /\ ~Waits(t, c)
  BY <1>2, <1>5 DEF Waits
<1>6. QED
  BY <1>3, <1>4, <1>5

LEMMA UnseenInvariant == TypeOK /\ TypeOK' /\ Unseen /\ [Next]_vars => Unseen'
<1> SUFFICES ASSUME TypeOK, TypeOK', Unseen, [Next]_vars PROVE Unseen'
  OBVIOUS
<1> USE ClientAssumption DEF Pair
<1>0. issued \in Nat /\ issued' \in Nat
  BY DEF TypeOK
<1>1. ASSUME NEW t \in Tabs, TabStep(t) PROVE Unseen'
  <2>1. CASE Open(t)
    <3>1. /\ storage' = storage /\ issued' = issued
          /\ memory'[t] = storage /\ flight'[t] = NoFlight
          /\ \A c \in Calls : call'[t][c] = Idle
          /\ \A u \in Tabs : u # t => /\ memory'[u] = memory[u] /\ flight'[u] = flight[u]
                                      /\ call'[u] = call[u]
      BY <2>1 DEF Open, TypeOK, server
    <3>2. \A n : HeldNext(n) => Held(n) \/ n = 0
      BY <3>1 DEF Held, HeldNext, Idle
    <3>3. \A u \in Tabs : Granted(u)' => Granted(u) /\ flight'[u].pair = flight[u].pair
      BY <3>1 DEF Granted, InFlight, NoFlight, Started
    <3>4. QED
      BY <1>0, <3>1, <3>2, <3>3, HandsOutNothing
  <2>2. CASE Bootstrap(t)
    <3>1. /\ UNCHANGED <<memory, flight, call, issued>> /\ storage' = memory[t]
      BY <2>2 DEF Bootstrap, Store, server
    <3>2. \A n : HeldNext(n) => Held(n) \/ n = 0
      BY <3>1 DEF Held, HeldNext
    <3>3. QED
      BY <1>0, <3>1, <3>2, HandsOutNothing DEF Granted, InFlight
  <2>3. CASE Arrive(t)
    <3> DEFINE n == flight[t].pair
    <3>1. /\ Granted(t) /\ UNCHANGED issued
          /\ memory'[t] = n /\ storage' = n /\ flight'[t] = NoFlight
          /\ \A u \in Tabs : u # t => memory'[u] = memory[u] /\ flight'[u] = flight[u]
          /\ n \in Pair /\ n <= issued /\ Resume(t, n)
      BY <2>3 DEF Arrive, Granted, Set, Session, Store, TypeOK, CallersServed, Flight, server
    <3> HIDE DEF n
    <3>2. \A c \in Calls : call'[t][c].pair \in {call[t][c].pair, 0, n}
      BY <3>1, ResumePairs
    <3>3. \A u \in Tabs : u # t => call'[u] = call[u]
      BY <3>1, ResumeType
    <3>4. \A m : HeldNext(m) => Held(m) \/ m = 0 \/ m = n
      BY <3>1, <3>2, <3>3 DEF Held, HeldNext
    <3>5. \A u \in Tabs, c \in Calls : call'[u][c].pair <= issued'
      <4> TAKE u \in Tabs, c \in Calls
      <4>1. call[u][c].pair <= issued
        BY DEF Unseen
      <4>2. QED
        BY <1>0, <3>1, <3>2, <3>3, <4>1
    <3>6. ASSUME NEW u \in Tabs, Granted(u)'
          PROVE  /\ flight'[u].pair # 0 /\ ~HeldNext(flight'[u].pair)
                 /\ \A v \in Tabs : Granted(v)' /\ v # u => flight'[v].pair # flight'[u].pair
      <4>1. \A v \in Tabs : Granted(v)' => v # t /\ Granted(v) /\ flight'[v].pair = flight[v].pair
        BY <3>1 DEF Granted, InFlight, NoFlight, Started
      <4>2. /\ flight[u].pair # 0 /\ ~Held(flight[u].pair) /\ flight[u].pair # n
            /\ \A v \in Tabs : Granted(v) /\ v # u => flight[v].pair # flight[u].pair
        BY <3>1, <3>6, <4>1 DEF Unseen, n
      <4>3. ~HeldNext(flight'[u].pair)
        <5>1. HeldNext(flight'[u].pair) => Held(flight'[u].pair) \/ flight'[u].pair \in {0, n}
          BY <3>4
        <5>2. flight'[u].pair = flight[u].pair
          BY <3>6, <4>1
        <5>3. QED
          BY <4>2, <5>1, <5>2
      <4>4. QED
        BY <3>6, <4>1, <4>2, <4>3
    <3>7. QED
      BY <3>5, <3>6 DEF Unseen, Held, HeldNext
  <2>4. CASE Refused(t)
    <3>1. /\ storage' = 0 /\ issued' = issued
          /\ memory'[t] = 0 /\ flight'[t] = NoFlight
          /\ \A c \in Calls : call'[t][c] \in {Idle, call[t][c]}
          /\ \A u \in Tabs : u # t => /\ memory'[u] = memory[u] /\ flight'[u] = flight[u]
                                      /\ call'[u] = call[u]
      BY <2>4 DEF Refused, Clear, Set, Session, Store, TypeOK, server
    <3>2. \A n : HeldNext(n) => Held(n) \/ n = 0
      BY <3>1 DEF Held, HeldNext, Idle
    <3>3. \A u \in Tabs : Granted(u)' => Granted(u) /\ flight'[u].pair = flight[u].pair
      BY <3>1 DEF Granted, InFlight, NoFlight, Started
    <3>4. QED
      BY <1>0, <3>1, <3>2, <3>3, HandsOutNothing
  <2>5. CASE LoginSend(t) \/ LogoutSend(t)
    BY <1>0, <2>5, HandsOutNothing DEF LoginSend, LogoutSend, Held, HeldNext, Granted, InFlight, server
  <2>6. CASE LoginDone(t)
    <3>1. CASE UNCHANGED <<memory, storage, effect, server>>
      BY <1>0, <2>6, <3>1, HandsOutNothing DEF LoginDone, Held, HeldNext, Granted, InFlight, server
    <3>2. CASE issued' = issued + 1 /\ Set(t, issued + 1)
      <4>1. /\ UNCHANGED <<flight, call>> /\ storage' = issued + 1 /\ memory'[t] = issued + 1
            /\ \A u \in Tabs : u # t => memory'[u] = memory[u]
        BY <2>6, <3>2 DEF LoginDone, Set, Session, Store, TypeOK
      <4>2. \A m : HeldNext(m) => Held(m) \/ m = issued + 1
        BY <4>1 DEF Held, HeldNext
      <4>3. \A u \in Tabs, c \in Calls : call'[u][c].pair <= issued'
        <5> TAKE u \in Tabs, c \in Calls
        <5>1. call[u][c] \in Call /\ call[u][c].pair <= issued
          BY DEF Unseen, TypeOK
        <5>2. QED
          BY <1>0, <3>2, <4>1, <5>1 DEF Call
      <4>4. \A u \in Tabs : Granted(u)' => Granted(u) /\ flight'[u].pair = flight[u].pair
        BY <4>1 DEF Granted, InFlight
      <4>5. ASSUME NEW u \in Tabs, Granted(u)' PROVE ~HeldNext(flight'[u].pair)
        <5>1. flight'[u].pair = flight[u].pair /\ flight[u].pair \in 0 .. issued /\ ~Held(flight[u].pair)
          BY <4>4, <4>5 DEF Unseen, TypeOK, CallersServed, Flight
        <5>2. HeldNext(flight'[u].pair) => Held(flight'[u].pair) \/ flight'[u].pair = issued + 1
          BY <4>2
        <5>3. QED
          BY <1>0, <5>1, <5>2
      <4>6. QED
        BY <4>3, <4>4, <4>5 DEF Unseen, Held, HeldNext
    <3>3. QED
      BY <2>6, <3>1, <3>2 DEF LoginDone
  <2>7. CASE LogoutDone(t)
    <3>1. /\ storage' = 0 /\ memory'[t] = 0 /\ UNCHANGED <<flight, call, issued>>
          /\ \A u \in Tabs : u # t => memory'[u] = memory[u]
      BY <2>7 DEF LogoutDone, Clear, Set, Session, Store, TypeOK, server
    <3>2. \A n : HeldNext(n) => Held(n) \/ n = 0
      BY <3>1 DEF Held, HeldNext
    <3>3. QED
      BY <1>0, <3>1, <3>2, HandsOutNothing DEF Granted, InFlight
  <2>8. CASE Grant(t)
    <3>1. /\ UNCHANGED <<memory, storage, call>> /\ issued' = issued + 1
          /\ flight'[t].pair = issued + 1
          /\ \A u \in Tabs : u # t => flight'[u] = flight[u]
      BY <2>8 DEF Grant, TypeOK, Flight
    <3>2. \A n : HeldNext(n) <=> Held(n)
      BY <3>1 DEF Held, HeldNext
    <3>3. \A u \in Tabs, c \in Calls : call'[u][c].pair <= issued'
      <4> TAKE u \in Tabs, c \in Calls
      <4>1. call[u][c] \in Call /\ call[u][c].pair <= issued
        BY DEF Unseen, TypeOK
      <4>2. QED
        BY <1>0, <3>1, <4>1 DEF Call
    <3>4. \A u \in Tabs : u # t /\ Granted(u)' => Granted(u) /\ flight'[u].pair = flight[u].pair
      BY <3>1 DEF Granted, InFlight
    <3>5. \A u \in Tabs : flight[u].pair \in 0 .. issued
      BY DEF TypeOK, CallersServed, Flight
    <3>6. ~Held(issued + 1)
      BY <1>0, HeldIsIssued
    <3>7. ASSUME NEW u \in Tabs, Granted(u)'
          PROVE  /\ flight'[u].pair # 0 /\ ~Held(flight'[u].pair)
                 /\ \A v \in Tabs : Granted(v)' /\ v # u => flight'[v].pair # flight'[u].pair
      <4>1. CASE u = t
        BY <1>0, <3>1, <3>4, <3>5, <3>6, <4>1
      <4>2. CASE u # t
        BY <1>0, <3>1, <3>4, <3>5, <3>7, <4>2 DEF Unseen
      <4>3. QED
        BY <4>1, <4>2
    <3>8. ASSUME NEW u \in Tabs, Granted(u)' PROVE ~HeldNext(flight'[u].pair)
      BY <3>2, <3>7, <3>8
    <3>9. QED
      BY <3>3, <3>7, <3>8 DEF Unseen, Held, HeldNext
  <2>9. CASE Refuse(t)
    <3>1. /\ UNCHANGED <<memory, storage, call, issued>>
          /\ flight'[t].answer = "refused"
          /\ \A u \in Tabs : u # t => flight'[u] = flight[u]
      BY <2>9 DEF Refuse, TypeOK, Flight, server
    <3>2. \A u \in Tabs : Granted(u)' => Granted(u) /\ flight'[u].pair = flight[u].pair
      BY <3>1 DEF Granted, InFlight
    <3>3. QED
      BY <1>0, <3>1, <3>2, HandsOutNothing DEF Held, HeldNext
  <2>10. QED
    BY <1>1, <2>1, <2>2, <2>3, <2>4, <2>5, <2>6, <2>7, <2>8, <2>9 DEF TabStep
<1>2. ASSUME NEW t \in Tabs, NEW c \in Calls, CallStep(t, c) PROVE Unseen'
  <2>1. ASSUME NEW s \in {"waiting", "renewing"}, Refresh(t, c, s)
        PROVE /\ issued' = issued
              /\ \A n : HeldNext(n) => Held(n) \/ n = 0
              /\ \A u \in Tabs : Granted(u)' => Granted(u) /\ flight'[u].pair = flight[u].pair
    <3>1. CASE memory[t] = 0
      <4>1. /\ storage' = 0 /\ memory'[t] = 0 /\ UNCHANGED <<flight, issued>>
            /\ call'[t][c] = Idle
            /\ \A u \in Tabs : u # t => memory'[u] = memory[u]
            /\ \A u \in Tabs, d \in Calls : u # t \/ d # c => call'[u][d] = call[u][d]
        BY <2>1, <3>1 DEF Refresh, Clear, Set, Session, Store, TypeOK, server
      <4>2. \A n : HeldNext(n) => Held(n) \/ n = 0
        BY <4>1 DEF Held, HeldNext, Idle
      <4>3. QED
        BY <4>1, <4>2 DEF Granted, InFlight
    <3>2. CASE memory[t] # 0
      <4>1. /\ UNCHANGED <<memory, storage, issued>>
            /\ \A u \in Tabs, d \in Calls : call'[u][d].pair = call[u][d].pair
        <5>1. UNCHANGED <<memory, storage, issued>> /\ call' = [call EXCEPT ![t][c].state = s]
          BY <2>1, <3>2 DEF Refresh, server
        <5>2. call' = [call EXCEPT ![t][c] = [call[t][c] EXCEPT !.state = s]]
          BY <5>1 DEF TypeOK
        <5>3. /\ [call[t][c] EXCEPT !.state = s] \in Call
              /\ [call[t][c] EXCEPT !.state = s].pair = call[t][c].pair
          <6>1. call[t][c] \in Call
            BY DEF TypeOK
          <6>2. QED
            BY <2>1, <6>1 DEF Call
        <5>4. QED
          BY <5>1, <5>2, <5>3, OneCall DEF TypeOK
      <4>2. \A u \in Tabs : flight'[u] = flight[u] \/ flight'[u] = Started(memory[t])
        BY <2>1, <3>2 DEF Refresh, TypeOK
      <4>3. \A n : HeldNext(n) => Held(n)
        BY <4>1 DEF Held, HeldNext
      <4>4. QED
        BY <4>1, <4>2, <4>3 DEF Granted, InFlight, Started
    <3>3. QED
      BY <3>1, <3>2
  <2>2. CASE Unauthorized(t, c) \/ Renew(t, c)
    BY <1>0, <2>1, <2>2, HandsOutNothing DEF Unauthorized, Renew
  <2>3. ASSUME NEW r \in Call, r.pair = 0 \/ Held(r.pair),
               call' = [call EXCEPT ![t][c] = r], UNCHANGED <<flight, issued>>,
               storage' = 0 \/ Held(storage'),
               \A u \in Tabs : memory'[u] = 0 \/ memory'[u] = memory[u]
        PROVE  Unseen'
    <3>1. /\ call'[t][c] = r
          /\ \A u \in Tabs, d \in Calls : u # t \/ d # c => call'[u][d] = call[u][d]
      BY <2>3, OneCall DEF TypeOK
    <3>2. ASSUME NEW n, HeldNext(n) PROVE Held(n) \/ n = 0
      <4>1. CASE storage' = n
        BY <2>3, <4>1
      <4>2. CASE \E u \in Tabs : memory'[u] = n
        BY <2>3, <4>2 DEF Held, HeldNext
      <4>3. CASE \E u \in Tabs : \E d \in Calls : call'[u][d].pair = n
        <5>1. PICK u \in Tabs, d \in Calls : call'[u][d].pair = n
          BY <4>3
        <5>2. CASE u = t /\ d = c
          BY <2>3, <3>1, <5>1, <5>2
        <5>3. CASE u # t \/ d # c
          BY <3>1, <5>1, <5>3 DEF Held, HeldNext
        <5>4. QED
          BY <5>2, <5>3
      <4>4. QED
        BY <3>2, <4>1, <4>2, <4>3 DEF Held, HeldNext
    <3>3. QED
      BY <1>0, <2>3, <3>2, HandsOutNothing DEF Granted, InFlight
  <2>4. CASE Send(t, c)
    <3>1. [state |-> "sent", pair |-> memory[t]] \in Call
      BY DEF Call, TypeOK
    <3>2. Held(memory[t]) /\ Held(storage)
      BY DEF Held, HeldNext
    <3>3. QED
      BY <2>3, <2>4, <3>1, <3>2 DEF Send, server
  <2>5. CASE Answer(t, c)
    <3>1. Held(storage) /\ Idle.pair = 0
      BY DEF Held, HeldNext, Idle
    <3>2. QED
      BY <2>3, <2>5, <3>1, NothingIsTyped DEF Answer, server
  <2>6. CASE Profile(t, c)
    <3>1. Held(memory[t]) /\ Idle.pair = 0
      BY DEF Held, HeldNext, Idle
    <3>2. /\ storage' \in {0, memory[t]}
          /\ \A u \in Tabs : memory'[u] \in {0, memory[u]}
      BY <2>6 DEF Profile, Clear, Set, Session, Store, TypeOK
    <3>3. QED
      BY <2>3, <2>6, <3>1, <3>2, NothingIsTyped DEF Profile, server
  <2>7. QED
    BY <1>2, <2>2, <2>4, <2>5, <2>6 DEF CallStep
<1>3. CASE \/ Expire \/ UNCHANGED vars
          \/ (\E n \in Pair : Revoke(n)) \/ (\E S \in SUBSET Pair : End(S))
  <2>1. UNCHANGED <<memory, storage, flight, call, issued>>
    BY <1>3 DEF Expire, Revoke, End, vars, server
  <2>2. QED
    BY <1>0, <2>1, HandsOutNothing DEF Held, HeldNext, Granted, InFlight
<1>4. QED
  BY <1>1, <1>2, <1>3, NextSplit

\* In any tab, whatever other tabs do: a retry carries a pair that no call
\* carried before, so never the one that was refused.
THEOREM RetriesAreFresh == Spec => RetriesCarryTheNewPair
<1>1. Init => TypeOK /\ Unseen
  BY ClientAssumption, NothingIsTyped
  DEF Init, Unseen, Granted, TypeOK, CallersServed, State, Waits, InFlight, NoFlight, Started, Idle, Pair
<1>2. ASSUME TypeOK, Unseen, [Next]_vars, NEW t \in Tabs, NEW c \in Calls,
             State(t, c) = "waiting", call'[t][c].state = "resent"
      PROVE  call'[t][c].pair \notin {0, call[t][c].pair}
  <2>1. ASSUME NEW u \in Tabs, Arrive(u) PROVE call'[t][c].pair \notin {0, call[t][c].pair}
    <3>1. Granted(u) /\ flight[u].pair \in Pair /\ Resume(u, flight[u].pair)
      <4>1. flight[u] \in Flight
        BY <1>2 DEF TypeOK
      <4>2. QED
        BY <2>1, <4>1 DEF Arrive, Granted, Flight
    <3>2. u = t
      BY <1>2, <3>1, ResumeType DEF State
    <3>3. call'[t][c].pair = flight[t].pair
      BY <1>2, <3>1, <3>2, ResumePairs
    <3>4. flight[t].pair # 0 /\ ~Held(flight[t].pair)
      BY <1>2, <3>1, <3>2 DEF Unseen
    <3>5. QED
      BY <3>3, <3>4 DEF Held, HeldNext
  <2>2. ASSUME ~(\E u \in Tabs : Arrive(u)) PROVE FALSE
    <3>1. ASSUME NEW u \in Tabs, TabStep(u) PROVE call'[t][c].state \in {"idle", call[t][c].state}
      BY <1>2, <2>2, <3>1
      DEF TabStep, Open, Bootstrap, Refused, LoginSend, LoginDone, LogoutSend, LogoutDone, Grant,
          Refuse, TypeOK, Idle
    <3>2. ASSUME NEW u \in Tabs, NEW d \in Calls, CallStep(u, d)
          PROVE  call'[t][c].state # "resent"
      BY ZenonT(60), <1>2, <3>2
      DEF CallStep, Send, Answer, Unauthorized, Renew, Profile, Refresh, TypeOK, Idle, State, Call
    <3>3. ASSUME UNCHANGED call PROVE FALSE
      BY <1>2, <3>3 DEF State
    <3>4. QED
      BY <1>2, <3>1, <3>2, <3>3, NextSplit DEF Expire, Revoke, End, vars, State
  <2>3. QED
    BY <2>1, <2>2
<1>3. TypeOK /\ Unseen /\ [Next]_vars =>
        [\A t \in Tabs, c \in Calls :
           State(t, c) = "waiting" /\ call'[t][c].state = "resent"
             => call'[t][c].pair \notin {0, call[t][c].pair}]_vars
  BY <1>2
<1>4. QED
  BY <1>1, <1>3, TypeInvariant, UnseenInvariant, PTL DEF Spec, RetriesCarryTheNewPair

=============================================================================
