-------------------------- MODULE AccountSessions --------------------------
(***************************************************************************)
(* The life cycle of an account and of its sessions: sign-in, rotation of  *)
(* refresh tokens, invitations, password changes and deletion              *)
(* (backend/app/services/auth_service.py and user_service.py over the      *)
(* repositories in backend/app/repositories).                              *)
(*                                                                         *)
(* The handlers are coroutines that wait for the database at every         *)
(* repository call: each call is one atomic step on one document (or one   *)
(* update of all sessions of a user), and other requests run between two   *)
(* calls of a handler.  An account is known by its email, which has a      *)
(* unique index.  Access tokens, names, roles and changes of email are     *)
(* left out; a link or token that has expired is one that is not found.    *)
(***************************************************************************)
EXTENDS Naturals, FiniteSets

CONSTANTS
  Slots,      \* requests in flight
  Emails,
  Tokens,     \* refresh tokens that can be issued
  Links,      \* links that can be sent by mail
  None,       \* no email, token or link
  Kinds,      \* kinds of request the clients of this instance send
  Faults      \* {"mongo"}: a database call may raise

AllKinds == {"create", "patch", "delete", "invite", "accept", "forgot", "reset",
             "change", "login", "refresh", "logout"}

ASSUME AccountAssumption ==
  /\ None \notin Emails \union Tokens \union Links
  /\ Kinds \subseteq AllKinds
  /\ Faults \subseteq {"mongo"}

\* own: the password is one its user or the admin chose, not the temporary
\* one of an invitation, which nobody is told.  dated: a time is stored at
\* which the reset link expires; without one the link is not accepted.
Account == [exists : BOOLEAN, active : BOOLEAN, deleted : BOOLEAN, own : BOOLEAN,
            invite : Links \union {None}, reset : Links \union {None}, dated : BOOLEAN]
NoAccount == [exists |-> FALSE, active |-> FALSE, deleted |-> FALSE, own |-> FALSE,
              invite |-> None, reset |-> None, dated |-> FALSE]

\* A row of refresh_tokens: whose it is, and what the token was rotated to.
Session == [status : {"unissued", "active", "rotated", "ended"},
            of : Emails \union {None}, next : Tokens \union {None}]
NoSession == [status |-> "unissued", of |-> None, next |-> None]

\* The locals of a request: the account it is about, and the token it issues.
Local == [who : Emails \union {None}, new : Tokens \union {None}]
NoLocal == [who |-> None, new |-> None]

VARIABLES
  account,    \* users, by email
  session,    \* refresh_tokens, by token
  pc, req,    \* where each request is, and what it asks
  local,
  known,      \* tokens that were answered to a client
  drawn,      \* links drawn so far; one whose mail failed is one nobody uses
  given,      \* history: links that an admin gave to an account by hand
  spent,      \* history: all other links that set a password
  outlived    \* history: tokens active when their user set a new password,
              \* unless that request failed before it revoked them

vars == <<account, session, pc, req, local, known, drawn, spent, given, outlived>>

Request ==
  {r \in [kind : {"create", "patch", "delete", "invite", "forgot", "change", "login"},
          email : Emails]
           \union
         [kind : {"refresh", "logout"}, token : Tokens]
           \union
         [kind : {"accept", "reset"}, link : Links] : r.kind \in Kinds}
NoRequest == [kind |-> "none"]

Places == {"idle", "insert", "revive", "reinvite", "link", "prepare", "write",
           "revoke", "owner", "issue", "rotate"} \union AllKinds

TypeOK ==
  /\ account \in [Emails -> Account]
  /\ session \in [Tokens -> Session]
  /\ \A t \in Tokens : session[t].status # "unissued" => session[t].of \in Emails
  /\ pc \in [Slots -> Places]
  /\ req \in [Slots -> Request \union {NoRequest}]
  /\ local \in [Slots -> Local]
  /\ known \subseteq {t \in Tokens : session[t].status # "unissued"}
  /\ drawn \subseteq Links
  /\ spent \subseteq drawn
  /\ given \subseteq drawn
  /\ outlived \subseteq Tokens

-----------------------------------------------------------------------------
Init ==
  /\ account = [e \in Emails |-> NoAccount]
  /\ session = [t \in Tokens |-> NoSession]
  /\ pc = [s \in Slots |-> "idle"]
  /\ req = [s \in Slots |-> NoRequest]
  /\ local = [s \in Slots |-> NoLocal]
  /\ known = {}
  /\ drawn = {}
  /\ spent = {}
  /\ given = {}
  /\ outlived = {}

Goto(s, place) == pc' = [pc EXCEPT ![s] = place] /\ UNCHANGED req
Return(s) ==
  /\ pc' = [pc EXCEPT ![s] = "idle"]
  /\ req' = [req EXCEPT ![s] = NoRequest]
  /\ local' = [local EXCEPT ![s] = NoLocal]

Who(s) == local[s].who
Of(e) == {t \in Tokens : session[t].of = e}
Live(a) == a.exists /\ ~a.deleted
Usable(a) == Live(a) /\ a.active

\* A client sends only tokens and links it was given.
Begin(s, r) ==
  /\ pc[s] = "idle"
  /\ r.kind \in {"refresh", "logout"} => r.token \in known
  /\ r.kind \in {"accept", "reset"} => r.link \in drawn
  /\ pc' = [pc EXCEPT ![s] = r.kind]
  /\ req' = [req EXCEPT ![s] = r]
  /\ local' = IF r.kind \in {"refresh", "logout", "accept", "reset"} THEN local
              ELSE [local EXCEPT ![s].who = r.email]
  /\ UNCHANGED <<account, session, known, drawn, spent, given, outlived>>

\* A call to the database raises: the request answers 500, what it did stays.
Fail(s) ==
  /\ "mongo" \in Faults
  /\ pc[s] # "idle"
  /\ Return(s)
  /\ outlived' = IF pc[s] = "revoke" THEN outlived \ Of(Who(s)) ELSE outlived
  /\ UNCHANGED <<account, session, known, drawn, spent, given>>

-----------------------------------------------------------------------------
(* Sessions.                                                               *)

\* Only a usable account gets a session.
ForUsable(s, a, place) ==
  IF Usable(a)
  THEN Goto(s, place) /\ UNCHANGED local
  ELSE Return(s)

\* login: nobody knows a temporary password.
Login(s) ==
  LET a == account[Who(s)] IN
  /\ pc[s] = "login"
  /\ IF a.own THEN ForUsable(s, a, "issue") ELSE Return(s)
  /\ UNCHANGED <<account, session, known, drawn, spent, given, outlived>>

\* refresh: the token is looked up first, then its owner.
Refresh(s) ==
  LET row == session[req[s].token] IN
  /\ pc[s] = "refresh"
  /\ IF row.status = "active"
     THEN /\ local' = [local EXCEPT ![s].who = row.of]
          /\ Goto(s, "owner")
     ELSE Return(s)
  /\ UNCHANGED <<account, session, known, drawn, spent, given, outlived>>

Owner(s) ==
  /\ pc[s] = "owner"
  /\ ForUsable(s, account[Who(s)], "issue")
  /\ UNCHANGED <<account, session, known, drawn, spent, given, outlived>>

\* The revocation moved in front of the call that stores the new token.
RotateFirst(s) ==
  LET chosen == local[s].new
      Replaces == req[s].kind = "refresh" /\ session[req[s].token].status = "active"
  IN
  /\ pc[s] = "issue"
  /\ \E t \in IF chosen = None THEN Tokens ELSE {chosen} :
       /\ session[t].status = "unissued"
       /\ IF Replaces
          THEN /\ session' = [session EXCEPT ![req[s].token] =
                               [@ EXCEPT !.status = "rotated", !.next = t]]
               /\ local' = [local EXCEPT ![s].new = t]
               /\ UNCHANGED <<pc, req, known>>
          ELSE /\ session' = [session EXCEPT ![t] =
                               [status |-> "active", of |-> Who(s), next |-> None]]
               /\ known' = known \union {t}
               /\ Return(s)
  /\ UNCHANGED <<account, drawn, spent, given, outlived>>

\* The answer does not wait for the row to be stored.
IssueUnstored(s) ==
  /\ pc[s] = "issue"
  /\ \E t \in Tokens :
       /\ session[t].status = "unissued"
       /\ known' = known \union {t}
  /\ Return(s)
  /\ UNCHANGED <<account, session, drawn, spent, given, outlived>>

\* _issue_token_pair stores the new token ...
Issue(s) ==
  /\ pc[s] = "issue"
  /\ \E t \in Tokens :
       /\ session[t].status = "unissued"
       /\ session' = [session EXCEPT ![t] =
                        [status |-> "active", of |-> Who(s), next |-> None]]
       /\ IF req[s].kind = "login"
          THEN Return(s) /\ known' = known \union {t}
          ELSE /\ local' = [local EXCEPT ![s].new = t]
               /\ Goto(s, "rotate")
               /\ UNCHANGED known
  /\ UNCHANGED <<account, drawn, spent, given, outlived>>

\* ... and then revokes the one it replaces, if that is still active; the
\* client is answered in any case.
Rotate(s) ==
  LET old == req[s].token IN
  /\ pc[s] = "rotate"
  /\ session' = IF session[old].status = "active"
                THEN [session EXCEPT ![old].status = "rotated",
                                     ![old].next = local[s].new]
                ELSE session
  /\ known' = known \union {local[s].new}
  /\ Return(s)
  /\ UNCHANGED <<account, drawn, spent, given, outlived>>

Logout(s) ==
  LET t == req[s].token IN
  /\ pc[s] = "logout"
  /\ session' = IF session[t].status = "active"
                THEN [session EXCEPT ![t].status = "ended"] ELSE session
  /\ Return(s)
  /\ UNCHANGED <<account, known, drawn, spent, given, outlived>>

\* revoke_by_user_id, after a new password.
Revoke(s) ==
  /\ pc[s] = "revoke"
  /\ session' = [t \in Tokens |->
                   IF session[t].of = Who(s) /\ session[t].status = "active"
                   THEN [session[t] EXCEPT !.status = "ended"] ELSE session[t]]
  /\ Return(s)
  /\ UNCHANGED <<account, known, drawn, spent, given, outlived>>

-----------------------------------------------------------------------------
(* Passwords.                                                              *)

SetsPasswordOnly(s, e, a) ==
  /\ account' = [account EXCEPT ![e] = [a EXCEPT !.own = TRUE]]
  /\ outlived' = outlived \union {t \in Of(e) : session[t].status = "active"}
  /\ Return(s)

\* The user of account e sets a password; then the sessions are revoked.
SetsPassword(s, e, a) ==
  /\ account' = [account EXCEPT ![e] = [a EXCEPT !.own = TRUE]]
  /\ outlived' = outlived \union {t \in Of(e) : session[t].status = "active"}
  /\ local' = [local EXCEPT ![s].who = e]
  /\ Goto(s, "revoke")

\* forgot_password: the link is mailed even if the account stopped being
\* active after it was read, when nothing is stored.
Forgot(s) ==
  /\ pc[s] = "forgot"
  /\ ForUsable(s, account[Who(s)], "prepare")
  /\ UNCHANGED <<account, session, known, drawn, spent, given, outlived>>

Prepare(s) ==
  /\ pc[s] = "prepare"
  /\ \E l \in Links \ drawn :
       /\ drawn' = drawn \union {l}
       /\ account' = IF Usable(account[Who(s)])
                     THEN [account EXCEPT ![Who(s)].reset = l, ![Who(s)].dated = TRUE]
                     ELSE account
  /\ Return(s)
  /\ UNCHANGED <<session, known, spent, given, outlived>>

ResetKeepsLink(s) ==
  LET l == req[s].link IN
  /\ pc[s] = "reset"
  /\ \/ \E e \in Emails :
          /\ Usable(account[e]) /\ account[e].reset = l /\ account[e].dated
          /\ SetsPassword(s, e, account[e])
          /\ spent' = spent \union ({l} \ given)
     \/ Return(s) /\ UNCHANGED <<account, spent, outlived>>
  /\ UNCHANGED <<session, known, drawn, given>>

\* consume_forgot_password_token; the link may have expired.
Reset(s) ==
  LET l == req[s].link IN
  /\ pc[s] = "reset"
  /\ \/ \E e \in Emails :
          /\ Usable(account[e]) /\ account[e].reset = l /\ account[e].dated
          /\ SetsPassword(s, e, [account[e] EXCEPT !.reset = None, !.dated = FALSE])
          /\ spent' = spent \union ({l} \ given)
     \/ Return(s) /\ UNCHANGED <<account, spent, outlived>>
  /\ UNCHANGED <<session, known, drawn, given>>

\* change_self_password reads the account and compares the password ...
Change(s) ==
  /\ pc[s] = "change"
  /\ IF account[Who(s)].own THEN ForUsable(s, account[Who(s)], "write") ELSE Return(s)
  /\ UNCHANGED <<account, session, known, drawn, spent, given, outlived>>

\* ... and writes the new one, unless the account was deleted meanwhile.
Write(s) ==
  /\ pc[s] = "write"
  /\ IF Live(account[Who(s)]) THEN SetsPassword(s, Who(s), account[Who(s)])
     ELSE Return(s) /\ UNCHANGED <<account, outlived>>
  /\ UNCHANGED <<session, known, drawn, spent, given>>

-----------------------------------------------------------------------------
(* Invitations and administration.                                         *)

Administrate(s, e, a) ==
  /\ account' = [account EXCEPT ![e] = a]
  /\ Return(s)
  /\ UNCHANGED <<session, known, drawn, spent, given, outlived>>

\* create_user: 409 if the email is taken.
Create(s) ==
  LET e == Who(s) IN
  /\ pc[s] = "create"
  /\ \E active \in BOOLEAN :
       Administrate(s, e, IF account[e].exists THEN account[e]
                          ELSE [NoAccount EXCEPT !.exists = TRUE, !.active = active,
                                                 !.own = TRUE])

\* update_user: the admin (de)activates the account or sets its password,
\* which ends no session, or gives it a link by hand: any, used before or not,
\* to which the time the last one would expire, if any, applies; 404 if the
\* account is deleted.
Patch(s) ==
  LET e == Who(s)
      a == account[e]
      Patched(active, own, link) == [a EXCEPT !.active = active, !.own = own, !.reset = link]
  IN
  /\ pc[s] = "patch"
  /\ \/ \E active \in BOOLEAN, own \in {a.own, TRUE} :
          Administrate(s, e, IF Live(a) THEN Patched(active, own, a.reset) ELSE a)
     \/ \E active \in BOOLEAN, own \in {a.own, TRUE}, l \in Links :
          /\ Live(a)
          /\ account' = [account EXCEPT ![e] = Patched(active, own, l)]
          /\ drawn' = drawn \union {l}
          /\ given' = given \union {l}
          /\ spent' = spent \ {l}
          /\ Return(s)
          /\ UNCHANGED <<session, known, outlived>>

\* soft_delete keeps the links of the account.
Delete(s) ==
  LET e == Who(s)
      a == account[e]
  IN
  /\ pc[s] = "delete"
  /\ Administrate(s, e, IF Live(a) THEN [a EXCEPT !.deleted = TRUE, !.active = FALSE] ELSE a)

\* invite_user: what is done depends on the account as it is read; an active
\* one is refused (409).
Invite(s) ==
  LET a == account[Who(s)] IN
  /\ pc[s] = "invite"
  /\ IF Usable(a) THEN Return(s)
     ELSE /\ Goto(s, IF ~a.exists THEN "insert"
                     ELSE IF a.deleted THEN "revive" ELSE "reinvite")
          /\ UNCHANGED local
  /\ UNCHANGED <<account, session, known, drawn, spent, given, outlived>>

\* The account gets the temporary password and can be used by nobody, until
\* the invitation is accepted.
Invited(s, a) ==
  /\ account' = [account EXCEPT ![Who(s)] = [a EXCEPT !.active = FALSE, !.own = FALSE]]
  /\ Goto(s, "link")
  /\ UNCHANGED local

\* 409 if it was created meanwhile.
Insert(s) ==
  /\ pc[s] = "insert"
  /\ IF account[Who(s)].exists THEN Return(s) /\ UNCHANGED account
     ELSE Invited(s, [NoAccount EXCEPT !.exists = TRUE])
  /\ UNCHANGED <<session, known, drawn, spent, given, outlived>>

\* reactivate_for_invite takes the account as it is by now, deleted or not.
Revive(s) ==
  /\ pc[s] = "revive"
  /\ Invited(s, [account[Who(s)] EXCEPT !.deleted = FALSE,
                                        !.reset = None, !.dated = FALSE])
  /\ UNCHANGED <<session, known, drawn, spent, given, outlived>>

\* 404 if it was deleted meanwhile; by now it may be active.
Reinvite(s) ==
  /\ pc[s] = "reinvite"
  /\ IF Live(account[Who(s)]) THEN Invited(s, account[Who(s)])
     ELSE Return(s) /\ UNCHANGED account
  /\ UNCHANGED <<session, known, drawn, spent, given, outlived>>

\* set_invite_token, and the mail, which may fail (503); 500 if the account
\* was deleted meanwhile.
Link(s) ==
  /\ pc[s] = "link"
  /\ IF Live(account[Who(s)])
     THEN \E l \in Links \ drawn :
            /\ drawn' = drawn \union {l}
            /\ account' = [account EXCEPT ![Who(s)].invite = l]
     ELSE UNCHANGED <<drawn, account>>
  /\ Return(s)
  /\ UNCHANGED <<session, known, spent, given, outlived>>

AcceptWhateverState(s) ==
  LET l == req[s].link IN
  /\ pc[s] = "accept"
  /\ \/ \E e \in Emails :
          /\ account[e].invite = l
          /\ SetsPassword(s, e, [account[e] EXCEPT !.active = TRUE, !.invite = None])
          /\ spent' = spent \union ({l} \ given)
     \/ Return(s) /\ UNCHANGED <<account, spent, outlived>>
  /\ UNCHANGED <<session, known, drawn, given>>

\* consume_invite_token; the link may have expired.
Accept(s) ==
  LET l == req[s].link IN
  /\ pc[s] = "accept"
  /\ \/ \E e \in Emails :
          /\ Live(account[e]) /\ account[e].invite = l
          /\ SetsPassword(s, e, [account[e] EXCEPT !.active = TRUE, !.invite = None])
          /\ spent' = spent \union ({l} \ given)
     \/ Return(s) /\ UNCHANGED <<account, spent, outlived>>
  /\ UNCHANGED <<session, known, drawn, given>>

-----------------------------------------------------------------------------
Next ==
  \E s \in Slots :
    \/ \E r \in Request : Begin(s, r)
    \/ Fail(s)
    \/ Login(s) \/ Refresh(s) \/ Owner(s) \/ Issue(s) \/ Rotate(s) \/ Logout(s)
    \/ Forgot(s) \/ Prepare(s) \/ Reset(s) \/ Change(s) \/ Write(s) \/ Revoke(s)
    \/ Create(s) \/ Patch(s) \/ Delete(s)
    \/ Invite(s) \/ Insert(s) \/ Revive(s) \/ Reinvite(s) \/ Link(s) \/ Accept(s)

Spec == Init /\ [][Next]_vars

-----------------------------------------------------------------------------
(* Properties.                                                             *)

\* A deleted account is not active, whatever invitations, resets and changes
\* were under way when it was deleted: the clients' guards test both fields.
DeletedIsInactive ==
  \A e \in Emails : account[e].deleted => ~account[e].active

\* A link that has set a password is never back in any account, unless an
\* admin gave it to one by hand: a link that the service mailed works once,
\* however invitations, resets, patches, deletions and revivals are
\* interleaved.
SpentLinksDead ==
  \A e \in Emails : {account[e].invite, account[e].reset} \intersect spent = {}

\* The token that replaces another is in the database before that one is
\* revoked: a refresh that fails halfway leaves its client a valid token.
ReplacedBeforeRevoked ==
  \A t \in Tokens : session[t].status = "rotated" =>
    session[t].next # None /\ session[session[t].next].status # "unissued"

\* "Revokes existing refresh tokens": when a change of password is over, no
\* session that existed when the password changed is left, unless the request
\* failed in between.  (A session stored after the change by a sign-in or
\* refresh that read the account before it is left.)
SessionsEnd ==
  \A t \in outlived :
    session[t].status = "active" =>
      \E s \in Slots : pc[s] = "revoke" /\ session[t].of = Who(s)
=============================================================================
