------------------------- MODULE AtlassianConnection -------------------------
(***************************************************************************)
(* The one connection of an installation to Atlassian: consent with a      *)
(* state, the pair of tokens kept in Mongo, the threads that use and       *)
(* refresh it, and Atlassian, which rotates the pair with every refresh.   *)
(* The connection is read whole and written whole, in two calls of Mongo,  *)
(* and between them other threads do what they like.                       *)
(***************************************************************************)
EXTENDS Naturals, FiniteSets

CONSTANTS
  States,   \* states of consents, as secrets.token_urlsafe draws them
  Requests, \* threads of the server
  Retries,  \* atlassian_max_retries
  MaxPairs, \* bound: pairs of tokens issued
  NoPair    \* no connection, no pair, no state

ASSUME ConnectionAssumption == Retries \in Nat /\ MaxPairs \in Nat

VARIABLES
  issued,   \* states in Mongo
  asked,    \* states drawn so far
  pair,     \* pair of tokens of the connection, or NoPair
  valid,    \* pair that Atlassian refreshes, or NoPair
  pairs,    \* pairs issued so far
  request,  \* what every thread does
  crossed   \* history: two threads were at the connection at once, or the
            \* answer with a new pair was lost

connectionVars == <<issued, asked, pair, valid, pairs, request, crossed>>

Pairs    == 1..MaxPairs
Resting  == [at |-> "idle", next |-> "idle", pair |-> NoPair, tries |-> 0, refreshed |-> FALSE]
Touching == {"exchange", "tokens", "refresh", "load", "write"}

ConnectionTypeOK ==
  /\ issued \subseteq asked /\ asked \subseteq States
  /\ {pair, valid} \subseteq Pairs \union {NoPair}
  /\ crossed \in BOOLEAN
  /\ pairs \in 0..MaxPairs
  /\ request \in [Requests -> [at : {"idle", "send", "post", "sites"} \union Touching,
                               next : {"idle", "send", "post", "sites", "load"}, pair : Pairs \union {NoPair},
                               tries : 0..Retries, refreshed : BOOLEAN]]

ConnectionInit ==
  /\ issued = {} /\ asked = {}
  /\ pair = NoPair /\ valid = NoPair /\ pairs = 0
  /\ request = [q \in Requests |-> Resting]
  /\ crossed = FALSE

Alone(q) == \A o \in Requests \ {q} : request[o].at \notin Touching
Go(q, r) ==
  /\ request' = [request EXCEPT ![q] = r]
  /\ crossed' = (crossed \/ (r.at \in Touching /\ ~ Alone(q)))

-----------------------------------------------------------------------------
(* Consent. *)

Connect(s) ==
  /\ s \notin asked
  /\ asked' = asked \union {s} /\ issued' = issued \union {s}
  /\ UNCHANGED <<pair, valid, pairs, request, crossed>>

\* pop_oauth_state finds and deletes in one call.
Pop(s) == issued \ {s}

\* The browser comes back with a code, perhaps twice, or without one.
Callback(q, s) ==
  /\ request[q].at = "idle" /\ s \in issued
  /\ issued' = Pop(s)
  /\ Go(q, [Resting EXCEPT !.at = "exchange", !.next = "sites"])
  /\ UNCHANGED <<asked, pair, valid, pairs>>
Denied(s) ==
  /\ s \in issued
  /\ issued' = Pop(s)
  /\ UNCHANGED <<asked, pair, valid, pairs, request, crossed>>

\* A new pair at Atlassian, whose answer arrives or is lost.
Issue(q, failed) ==
  /\ pairs < MaxPairs
  /\ pairs' = pairs + 1 /\ valid' = pairs + 1
  /\ \/ Go(q, [request[q] EXCEPT !.at = "tokens", !.pair = pairs + 1])
     \/ /\ request' = [request EXCEPT ![q] = failed]
        /\ crossed' = TRUE
Exchange(q) ==
  /\ request[q].at = "exchange"
  /\ \/ Issue(q, Resting)
     \/ Go(q, Resting) /\ UNCHANGED <<valid, pairs>>
  /\ UNCHANGED <<issued, asked, pair>>

-----------------------------------------------------------------------------
(* A call of Jira or Confluence. *)

Call(q) ==
  /\ request[q].at = "idle" /\ pair # NoPair
  /\ Go(q, [Resting EXCEPT !.at = "send"])
  /\ UNCHANGED <<issued, asked, pair, valid, pairs>>

\* Every try takes a token, refreshed first if it has expired by its date.
Refresh(q, r, next) ==
  Go(q, IF pair = NoPair THEN Resting
        ELSE [r EXCEPT !.at = "refresh", !.next = next, !.pair = pair])
TakeToken(q) ==
  /\ request[q].at = "send"
  /\ \/ Refresh(q, request[q], "post")
     \/ Go(q, IF pair = NoPair THEN Resting ELSE [request[q] EXCEPT !.at = "post"])
  /\ UNCHANGED <<issued, asked, pair, valid, pairs>>

\* A call has atlassian_max_retries tries after its first.  Variant: one more.
OneTryMore(r) == r.tries <= Retries
TryLeft(r)    == r.tries < Retries

\* Atlassian may say that the token has expired (heeded once for a call, and
\* even if no try is left), or fail: both cost a try.  Any other answer ends
\* the call.
Send(q) ==
  LET r == request[q]
      again == [r EXCEPT !.tries = @ + 1]
  IN
  /\ r.at = "post"
  /\ \/ /\ ~ r.refreshed
        /\ IF TryLeft(r) THEN Refresh(q, [again EXCEPT !.refreshed = TRUE], "send")
           ELSE Refresh(q, r, "idle")
     \/ TryLeft(r) /\ Go(q, [again EXCEPT !.at = "send"])
     \/ Go(q, Resting)
  /\ UNCHANGED <<issued, asked, pair, valid, pairs>>

\* refresh_access_token with the token that was read: Atlassian rotates the
\* pair, or refuses; a time-out ends the call.
PostRefresh(q) ==
  LET r == request[q] IN
  /\ r.at = "refresh"
  /\ \/ r.pair = valid /\ Issue(q, Resting)
     \/ Go(q, [r EXCEPT !.at = "load"]) /\ UNCHANGED <<valid, pairs>>
     \/ Go(q, Resting) /\ UNCHANGED <<valid, pairs>>
  /\ UNCHANGED <<issued, asked, pair>>

\* set_tokens writes the pair into whatever connection it loads.  Variant: the
\* refresh token of the connection stays.
SavedOldPair(r) == IF pair = NoPair THEN r.pair ELSE pair
Saved(r) == r.pair
SetTokens(q) ==
  /\ request[q].at = "tokens"
  /\ pair' = Saved(request[q])
  /\ Go(q, IF request[q].next = "idle" THEN Resting
           ELSE [request[q] EXCEPT !.at = request[q].next, !.pair = NoPair, !.next = "idle"])
  /\ UNCHANGED <<issued, asked, valid, pairs>>

\* fetch_accessible_resources, after a consent and before the choice of a
\* site: it may refresh, and so fail; without a site nothing is chosen.
SelectSite(q) ==
  /\ request[q].at = "idle" /\ pair # NoPair
  /\ Go(q, [Resting EXCEPT !.at = "sites"])
  /\ UNCHANGED <<issued, asked, pair, valid, pairs>>
FetchSites(q) ==
  /\ request[q].at = "sites"
  /\ \/ Refresh(q, request[q], "load")
     \/ Go(q, [Resting EXCEPT !.at = "load"])
     \/ Go(q, Resting)
  /\ UNCHANGED <<issued, asked, pair, valid, pairs>>

\* A refusal (in the status), the products of a new consent, and the choice of
\* a site are written into the connection, with the pair loaded before.
Load(q) ==
  /\ request[q].at = "load"
  /\ Go(q, [request[q] EXCEPT !.at = "write", !.pair = pair])
  /\ UNCHANGED <<issued, asked, pair, valid, pairs>>
WriteBack(q) ==
  LET r == request[q] IN
  /\ r.at = "write"
  /\ pair' = r.pair
  /\ Go(q, Resting)
  /\ UNCHANGED <<issued, asked, valid, pairs>>

Disconnect ==
  /\ pair # NoPair
  /\ pair' = NoPair
  /\ crossed' = (crossed \/ \E q \in Requests : request[q].at \in Touching)
  /\ UNCHANGED <<issued, asked, valid, pairs, request>>
RevokedThere ==
  /\ valid # NoPair
  /\ valid' = NoPair
  /\ UNCHANGED <<issued, asked, pair, pairs, request, crossed>>

ConnectionNext ==
  \/ \E s \in States : Connect(s) \/ Denied(s)
  \/ \E q \in Requests :
       \/ \E s \in States : Callback(q, s)
       \/ Exchange(q) \/ Call(q) \/ TakeToken(q) \/ Send(q) \/ PostRefresh(q) \/ SetTokens(q)
       \/ Load(q) \/ SelectSite(q) \/ FetchSites(q) \/ WriteBack(q)
  \/ Disconnect \/ RevokedThere
ConnectionSpec == ConnectionInit /\ [][ConnectionNext]_connectionVars

-----------------------------------------------------------------------------
\* Between two uses the connection holds the pair that Atlassian refreshes, as
\* long as the threads that wrote it came one after the other and no answer
\* was lost: rotation never leaves the connection with a spent token.
NewestPairKept ==
  ~ crossed /\ (\A q \in Requests : request[q].at \notin Touching) /\ {pair, valid} \cap {NoPair} = {}
  => pair = valid

-----------------------------------------------------------------------------
(* Why the newest pair is kept: as long as nothing crossed, one thread is at *)
(* the connection; it has the new pair, or the pair it is about to write is  *)
(* the one that is stored, or the pairs agree.                               *)
PairsAgree == {pair, valid} \cap {NoPair} = {} => pair = valid
OneAtATime ==
  \A q, o \in Requests : {request[q].at, request[o].at} \subseteq Touching => q = o
NewPairInHand ==
  \A q \in Requests : request[q].at = "tokens" => valid \in {request[q].pair, NoPair}
StoredPairInHand ==
  \A q \in Requests : request[q].at = "write" => request[q].pair = pair
PairInv ==
  ~ crossed =>
    /\ OneAtATime /\ NewPairInHand /\ StoredPairInHand
    /\ (\A q \in Requests : request[q].at # "tokens") => PairsAgree
=============================================================================
