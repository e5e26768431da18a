--------------------------- MODULE ClientSession ---------------------------
(***************************************************************************)
(* The session of a browser: the pair of tokens a tab keeps in memory and  *)
(* in local storage, the refresh that all calls of a tab share, the retry  *)
(* after a 401, sign-in and logout (frontend/src/lib/auth-session.ts,      *)
(* api.ts and auth-context.tsx).                                           *)
(*                                                                         *)
(* A tab runs one task at a time, up to an await: a step is what happens   *)
(* between two answers of the server.  A pair of an access and a refresh   *)
(* token is a number, 0 for none; pairs are numbered as they are issued.   *)
(* The user's profile, which comes with every pair, is left out.  The      *)
(* server is the environment: AccountSessions models it.                   *)
(***************************************************************************)
EXTENDS Naturals, FiniteSets

CONSTANTS
  Tabs,       \* tabs of one browser: they share the local storage
  Calls,      \* calls a tab has under way at a time
  MaxPair     \* bound: pairs the server issues

ASSUME ClientAssumption == MaxPair \in Nat

Pair == 0 .. MaxPair

\* The refresh a tab has in flight: the token it sent, and the answer that
\* the server gave, the new pair if it was granted.
Flight == [token : Pair, answer : {"pending", "granted", "refused"}, pair : Pair]
Started(n) == [token |-> n, answer |-> "pending", pair |-> 0]
NoFlight == Started(0)

\* request: pair is the one whose access token the call carries.
Call == [state : {"idle", "sent", "waiting", "resent", "renewing", "profile"}, pair : Pair]
Idle == [state |-> "idle", pair |-> 0]

VARIABLES
  open,       \* tabs that were ever opened
  memory,     \* sessionState of each tab
  storage,    \* the item in local storage
  flight,     \* refreshPromise of each tab
  call,
  login,      \* tabs whose sign-in is on its way
  leaving,    \* tabs whose logout is on its way
  effect,     \* tabs whose provider has yet to run its bootstrap effect
  issued,     \* server: pairs issued,
  active,     \* refresh tokens it accepts,
  expired,    \* and access tokens that ran out: those up to this one
  forfeit     \* refresh tokens that a logout, or a refresh nobody waits for
              \* any more, takes to the server, or that the server itself
              \* ended or refused

server == <<issued, active, expired>>
vars == <<open, memory, storage, flight, call, login, leaving, effect, server, forfeit>>

InFlight(t) == flight[t].token # 0
State(t, c) == call[t][c].state
Waits(t, c) == State(t, c) \in {"waiting", "renewing"}

\* Only an open tab does anything, and a call waits for a refresh in flight.
CallersServed ==
  \A t \in Tabs :
    /\ InFlight(t) => t \in open
    /\ flight[t].token <= issued /\ flight[t].pair <= issued
    /\ \A c \in Calls :
         /\ State(t, c) # "idle" => t \in open
         /\ Waits(t, c) => InFlight(t)

TypeOK ==
  /\ open \subseteq Tabs
  /\ memory \in [Tabs -> 0 .. issued]
  /\ storage \in 0 .. issued
  /\ flight \in [Tabs -> Flight]
  /\ call \in [Tabs -> [Calls -> Call]]
  /\ login \subseteq open
  /\ leaving \subseteq open
  /\ effect \subseteq open
  /\ issued \in Pair
  /\ active \subseteq 1 .. issued
  /\ expired \in 0 .. issued
  /\ forfeit \subseteq 1 .. issued
  /\ CallersServed

-----------------------------------------------------------------------------
\* Every change of the session tells the provider; its effect runs when the
\* status, signed in or not, has changed.
Session(t, n) ==
  /\ memory' = [memory EXCEPT ![t] = n]
  /\ effect' = IF (n = 0) = (memory[t] = 0) THEN effect ELSE effect \union {t}
Store(n) == storage' = n
Set(t, n) == Session(t, n) /\ Store(n)
Clear(t) == Set(t, 0)

Init ==
  /\ open = {}
  /\ memory = [t \in Tabs |-> 0]
  /\ storage = 0
  /\ flight = [t \in Tabs |-> NoFlight]
  /\ call = [t \in Tabs |-> [c \in Calls |-> Idle]]
  /\ login = {}
  /\ leaving = {}
  /\ effect = {}
  /\ issued = 0
  /\ active = {}
  /\ expired = 0
  /\ forfeit = {}

\* A tab is opened or reloaded: it reads the storage, the one time it does.
\* What the page had asked for may still reach the server.
Open(t) ==
  /\ open' = open \union {t}
  /\ memory' = [memory EXCEPT ![t] = storage]
  /\ flight' = [flight EXCEPT ![t] = NoFlight]
  /\ call' = [call EXCEPT ![t] = [c \in Calls |-> Idle]]
  /\ login' = login \ {t}
  /\ leaving' = leaving \ {t}
  /\ effect' = effect \union {t}
  /\ forfeit' = forfeit \union ({flight[t].token} \ {0})
  /\ UNCHANGED <<storage, server>>

\* The provider's bootstrap writes the session of its tab back, or clears it.
Bootstrap(t) ==
  /\ t \in effect
  /\ effect' = effect \ {t}
  /\ Store(memory[t])
  /\ UNCHANGED <<open, memory, flight, call, login, leaving, server, forfeit>>

-----------------------------------------------------------------------------
(* Calls and the refresh they share.                                       *)

Send(t, c) ==
  /\ t \in open
  /\ State(t, c) = "idle"
  /\ call' = [call EXCEPT ![t][c] = [state |-> "sent", pair |-> memory[t]]]
  /\ UNCHANGED <<open, memory, storage, flight, login, leaving, effect, server, forfeit>>

\* The answer of a call, its failure, or the end of its time.
Answer(t, c) ==
  /\ State(t, c) \in {"sent", "resent"}
  /\ call' = [call EXCEPT ![t][c] = Idle]
  /\ UNCHANGED <<open, memory, storage, flight, login, leaving, effect, server, forfeit>>

\* Every caller starts a refresh of its own.
RefreshAgain(t, c, state) ==
  /\ UNCHANGED <<open, login, leaving, server, forfeit>>
  /\ IF memory[t] = 0
     THEN /\ Clear(t)
          /\ call' = [call EXCEPT ![t][c] = Idle]
          /\ UNCHANGED flight
     ELSE /\ call' = [call EXCEPT ![t][c].state = state]
          /\ flight' = [flight EXCEPT ![t] = Started(memory[t])]
          /\ UNCHANGED <<memory, storage, effect>>

\* refreshAccessToken: join the refresh in flight, or start it.
Refresh(t, c, state) ==
  /\ UNCHANGED <<open, login, leaving, server, forfeit>>
  /\ IF memory[t] = 0
     THEN /\ Clear(t)
          /\ call' = [call EXCEPT ![t][c] = Idle]
          /\ UNCHANGED flight
     ELSE /\ call' = [call EXCEPT ![t][c].state = state]
          /\ flight' = IF InFlight(t) THEN flight
                       ELSE [flight EXCEPT ![t] = Started(memory[t])]
          /\ UNCHANGED <<memory, storage, effect>>

\* 401: the access token has run out, or the call carried none.
Unauthorized(t, c) ==
  /\ State(t, c) = "sent"
  /\ call[t][c].pair <= expired
  /\ Refresh(t, c, "waiting")

\* refreshSession, after a change of the profile.
Renew(t, c) ==
  /\ t \in open
  /\ State(t, c) = "idle"
  /\ memory[t] # 0
  /\ Refresh(t, c, "renewing")

\* The headers of the retry are those of the first attempt.
ResumedWithOld(t, c, n) ==
  IF State(t, c) = "waiting" THEN [call[t][c] EXCEPT !.state = "resent"]
                             ELSE [state |-> "profile", pair |-> n]

\* A caller goes on with the headers of now.
Resumed(t, c, n) ==
  IF State(t, c) = "waiting" THEN [state |-> "resent", pair |-> n]
                             ELSE [state |-> "profile", pair |-> n]

\* One of the callers alone goes on.
ResumeOne(t, n) ==
  \E c \in Calls : Waits(t, c) /\ call' = [call EXCEPT ![t][c] = Resumed(t, c, n)]

\* All callers go on, a request whose time has run out only to fail.
Resume(t, n) ==
  \E late \in SUBSET {c \in Calls : State(t, c) = "waiting"} :
    call' = [call EXCEPT ![t] = [c \in Calls |->
      IF c \in late THEN Idle
      ELSE IF Waits(t, c) THEN Resumed(t, c, n)
      ELSE call[t][c]]]

\* The new pair is kept in memory alone.
ArriveUnstored(t) ==
  /\ InFlight(t)
  /\ flight[t].answer = "granted"
  /\ Session(t, flight[t].pair)
  /\ Resume(t, flight[t].pair)
  /\ flight' = [flight EXCEPT ![t] = NoFlight]
  /\ UNCHANGED <<open, storage, login, leaving, server, forfeit>>

\* The answer with the new pair arrives, whatever the session is by now.
Arrive(t) ==
  /\ InFlight(t)
  /\ flight[t].answer = "granted"
  /\ Set(t, flight[t].pair)
  /\ Resume(t, flight[t].pair)
  /\ flight' = [flight EXCEPT ![t] = NoFlight]
  /\ UNCHANGED <<open, login, leaving, server, forfeit>>

\* The refresh is refused, or fails on its way: every caller clears the
\* session and fails.  What failed on its way may still reach the server.
Refused(t) ==
  /\ InFlight(t)
  /\ Clear(t)
  /\ call' = [call EXCEPT ![t] = [c \in Calls |->
       IF Waits(t, c) THEN Idle ELSE call[t][c]]]
  /\ flight' = [flight EXCEPT ![t] = NoFlight]
  /\ forfeit' = IF flight[t].answer = "refused" THEN forfeit
              ELSE forfeit \union {flight[t].token}
  /\ UNCHANGED <<open, login, leaving, server>>

\* authMe after refreshSession: the profile is stored with the session, or
\* the session is cleared.
Profile(t, c) ==
  /\ State(t, c) = "profile"
  /\ call' = [call EXCEPT ![t][c] = Idle]
  /\ \/ Store(memory[t]) /\ UNCHANGED <<memory, effect>>
     \/ Clear(t)
  /\ UNCHANGED <<open, flight, login, leaving, server, forfeit>>

-----------------------------------------------------------------------------
(* Sign-in and logout.                                                     *)

\* The form is shown to whom is not signed in.
LoginSend(t) ==
  /\ t \in open \ login
  /\ memory[t] = 0
  /\ login' = login \union {t}
  /\ UNCHANGED <<open, memory, storage, flight, call, leaving, effect, server, forfeit>>

LoginDone(t) ==
  /\ t \in login
  /\ login' = login \ {t}
  /\ \/ UNCHANGED <<memory, storage, effect, server>>
     \/ /\ issued < MaxPair
        /\ issued' = issued + 1
        /\ active' = active \union {issued + 1}
        /\ Set(t, issued + 1)
        /\ UNCHANGED expired
  /\ UNCHANGED <<open, flight, call, leaving, forfeit>>

LogoutSend(t) ==
  /\ t \in open \ leaving
  /\ memory[t] # 0
  /\ leaving' = leaving \union {t}
  /\ forfeit' = forfeit \union {memory[t]}
  /\ UNCHANGED <<open, memory, storage, flight, call, login, effect, server>>

\* Whatever the server answered, the session is cleared.
LogoutDone(t) ==
  /\ t \in leaving
  /\ leaving' = leaving \ {t}
  /\ Clear(t)
  /\ UNCHANGED <<open, flight, call, login, server, forfeit>>

-----------------------------------------------------------------------------
(* The server.                                                             *)

\* It rotates a refresh token that it accepts.
Grant(t) ==
  /\ InFlight(t)
  /\ flight[t].answer = "pending"
  /\ flight[t].token \in active
  /\ issued < MaxPair
  /\ issued' = issued + 1
  /\ active' = (active \ {flight[t].token}) \union {issued + 1}
  /\ flight' = [flight EXCEPT ![t].answer = "granted", ![t].pair = issued + 1]
  /\ UNCHANGED <<open, memory, storage, call, login, leaving, effect, expired, forfeit>>

\* It refuses a token that it does not accept, and one that it would accept
\* when the account is inactive or deleted: for now, the token stays.
Refuse(t) ==
  /\ InFlight(t)
  /\ flight[t].answer = "pending"
  /\ flight' = [flight EXCEPT ![t].answer = "refused"]
  /\ forfeit' = forfeit \union ({flight[t].token} \intersect active)
  /\ UNCHANGED <<open, memory, storage, call, login, leaving, effect, server>>

\* A logout, or a refresh nobody waits for, ends a refresh token.
Revoke(n) ==
  /\ n \in forfeit \intersect active
  /\ active' = active \ {n}
  /\ UNCHANGED <<open, memory, storage, flight, call, login, leaving, effect, issued, expired, forfeit>>

\* The server ends sessions of its own accord: those of an account whose
\* password was changed, by this very tab or elsewhere, was reset, or was
\* set with an invitation; those whose time is over.  No tab is told: one
\* that changes the password goes on with its pair.
End(S) ==
  /\ S # {} /\ S \subseteq active
  /\ active' = active \ S
  /\ forfeit' = forfeit \union S
  /\ UNCHANGED <<open, memory, storage, flight, call, login, leaving, effect, issued, expired>>

\* An access token runs out: all live for the same time.
Expire ==
  /\ expired < issued
  /\ expired' = expired + 1
  /\ UNCHANGED <<open, memory, storage, flight, call, login, leaving, effect, issued, active, forfeit>>

Next ==
  \/ \E t \in Tabs :
       \/ Open(t) \/ Bootstrap(t) \/ Arrive(t) \/ Refused(t)
       \/ LoginSend(t) \/ LoginDone(t) \/ LogoutSend(t) \/ LogoutDone(t)
       \/ Grant(t) \/ Refuse(t)
       \/ \E c \in Calls :
            Send(t, c) \/ Answer(t, c) \/ Unauthorized(t, c) \/ Renew(t, c) \/ Profile(t, c)
  \/ \E n \in Pair : Revoke(n)
  \/ \E S \in SUBSET Pair : End(S)
  \/ Expire

\* Every fetch of a browser ends, with an answer or an error.
Fairness ==
  \A t \in Tabs :
    /\ WF_vars(Arrive(t) \/ Refused(t))
    /\ \A c \in Calls : WF_vars(Answer(t, c) \/ Unauthorized(t, c) \/ Profile(t, c))

Spec == Init /\ [][Next]_vars /\ Fairness

-----------------------------------------------------------------------------
(* Properties.                                                             *)

\* A refresh token that is presented and refused is one that the server had
\* a reason to refuse, as long as one tab was open: it was handed to a
\* logout, belongs to a refresh whose answer was lost, or was ended by the
\* server itself.  It is never one that another call of the tab has just
\* rotated: the calls of a tab share one refresh (refreshPromise in api.ts).
RefusalsAreEarned ==
  \A t \in Tabs :
    open = {t} /\ InFlight(t) /\ flight[t].answer = "refused" => flight[t].token \in forfeit

\* What a reload would read is a session that the server still accepts, or
\* one whose refresh, logout or lost answer is under way, or one that the
\* server itself ended, as long as one tab was open: a rotated pair is
\* stored in the task that receives it, and never lost to the browser.
ReloadKeepsSession ==
  \A t \in Tabs :
    open = {t} /\ storage # 0 => storage \in active \union forfeit \union {flight[t].token}

\* A call is retried with a pair other than the one that was refused, and
\* never without one, in any tab.
RetriesCarryTheNewPair ==
  [][\A t \in Tabs, c \in Calls :
       State(t, c) = "waiting" /\ call'[t][c].state = "resent"
         => call'[t][c].pair \notin {0, call[t][c].pair}]_vars

\* No call waits for ever: a 401 is retried once, and the end of the shared
\* refresh resumes all that wait for it.
CallsEnd == \A t \in Tabs, c \in Calls : State(t, c) # "idle" ~> State(t, c) = "idle"
=============================================================================
