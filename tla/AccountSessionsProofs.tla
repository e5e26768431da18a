----------------------- MODULE AccountSessionsProofs -----------------------
(***************************************************************************)
(* What AccountSessions keeps for every set of accounts, tokens and links, *)
(* and any number of requests at a time: types, deleted accounts that stay *)
(* inactive, links that work once, a stored replacement for every rotated  *)
(* token, and the end of the sessions of a changed password.               *)
(***************************************************************************)
EXTENDS AccountSessions, TLAPS

\* Where a request stands fits what it asks, and what it needs there is known.
Fits(s) ==
  /\ pc[s] \in AllKinds => req[s].kind = pc[s]
  /\ pc[s] = "issue" => req[s].kind \in {"login", "refresh"}
  /\ pc[s] \in {"owner", "rotate"} => req[s].kind = "refresh"
  /\ pc[s] = "rotate" =>
       local[s].new \in Tokens /\ session[local[s].new].status # "unissued"
  /\ pc[s] \in {"accept", "reset"} => req[s].link \in drawn
  /\ pc[s] \notin {"idle", "refresh", "logout", "accept", "reset"} => Who(s) \in Emails

Inv == TypeOK /\ \A s \in Slots : Fits(s)

-----------------------------------------------------------------------------
(* Requests and documents.                                                 *)

LEMMA RequestFields ==
  ASSUME NEW r \in Request
  PROVE  /\ r.kind \in AllKinds
         /\ r.kind \in {"refresh", "logout"} => r.token \in Tokens
         /\ r.kind \in {"accept", "reset"} => r.link \in Links
         /\ r.kind \notin {"refresh", "logout", "accept", "reset"} => r.email \in Emails
BY DEF Request, AllKinds

LEMMA FieldsAt ==
  ASSUME Inv, NEW s \in Slots
  PROVE  req[s].kind \in {"refresh", "logout"} => req[s].token \in Tokens
BY RequestFields DEF Inv, TypeOK, NoRequest

LEMMA NothingIsTyped == NoAccount \in Account /\ NoSession \in Session /\ NoLocal \in Local
BY DEF NoAccount, Account, NoSession, Session, NoLocal, Local

-----------------------------------------------------------------------------
(* Every step is the step of one request.                                  *)

Stored ==
  /\ account \in [Emails -> Account]
  /\ session \in [Tokens -> Session]
  /\ \A t \in Tokens : session[t].status # "unissued" => session[t].of \in Emails
  /\ known \subseteq {t \in Tokens : session[t].status # "unissued"}
  /\ drawn \subseteq Links
  /\ spent \subseteq drawn
  /\ given \subseteq drawn
  /\ outlived \subseteq Tokens

\* A stored token stays stored, a drawn link stays drawn.
Kept ==
  /\ drawn \subseteq drawn'
  /\ \A t \in Tokens : session[t].status # "unissued" => session'[t].status # "unissued"

LEMMA InvStored == Inv => Stored
BY DEF Inv, TypeOK, Stored

LEMMA SlotStep ==
  ASSUME Inv, NEW s \in Slots,
         NEW p \in Places, NEW r \in Request \union {NoRequest}, NEW l \in Local,
         pc' = [pc EXCEPT ![s] = p], req' = [req EXCEPT ![s] = r],
         local' = [local EXCEPT ![s] = l], Stored', Kept, Fits(s)'
  PROVE  Inv'
<1>1. TypeOK'
  BY DEF Inv, TypeOK, Stored
<1>2. ASSUME NEW u \in Slots PROVE Fits(u)'
  <2>1. CASE u = s
    BY <2>1
  <2>2. CASE u # s
    <3>1. pc'[u] = pc[u] /\ req'[u] = req[u] /\ local'[u] = local[u]
      BY <2>2 DEF Inv, TypeOK
    <3>2. Fits(u)
      BY DEF Inv
    <3> QED
      BY <3>1, <3>2 DEF Fits, Who, Kept
  <2> QED
    BY <2>1, <2>2
<1> QED
  BY <1>1, <1>2 DEF Inv

\* The end of a request.
LEMMA ReturnStep ==
  ASSUME Inv, NEW s \in Slots, Return(s), Stored', Kept
  PROVE  Inv'
<1>1. "idle" \in Places /\ NoRequest \in Request \union {NoRequest} /\ NoLocal \in Local
  BY NothingIsTyped DEF Places
<1>2. Fits(s)'
  BY DEF Return, Inv, TypeOK, Fits, AllKinds
<1> QED
  BY <1>1, <1>2, SlotStep DEF Return

\* A request that goes on knows the account it is about.
LEMMA GotoStep ==
  ASSUME Inv, NEW s \in Slots, NEW p \in Places, Goto(s, p),
         p \notin AllKinds \union {"idle", "rotate"},
         p = "issue" => req[s].kind \in {"login", "refresh"},
         p = "owner" => req[s].kind = "refresh",
         NEW e \in Emails, local' = [local EXCEPT ![s].who = e],
         Stored', Kept
  PROVE  Inv'
<1> DEFINE l == [local[s] EXCEPT !.who = e]
<1>1. l \in Local
  BY DEF Inv, TypeOK, Local
<1>2. local' = [local EXCEPT ![s] = l]
  BY DEF Inv, TypeOK, Local
<1>3. req' = [req EXCEPT ![s] = req[s]] /\ req[s] \in Request \union {NoRequest}
  BY DEF Goto, Inv, TypeOK
<1>4. Fits(s)'
  BY DEF Goto, Inv, TypeOK, Fits, Who, AllKinds, Local
<1> HIDE DEF l
<1> QED
  BY <1>1, <1>2, <1>3, <1>4, SlotStep DEF Goto

LEMMA SameLocal ==
  ASSUME Inv, NEW s \in Slots, UNCHANGED local
  PROVE  local' = [local EXCEPT ![s].who = Who(s)]
BY DEF Inv, TypeOK, Local, Who

LEMMA ForUsableStep ==
  ASSUME Inv, NEW s \in Slots, NEW a, Who(s) \in Emails,
         NEW p \in {"issue", "prepare", "write"},
         p = "issue" => req[s].kind \in {"login", "refresh"},
         ForUsable(s, a, p), Stored', Kept
  PROVE  Inv'
<1>1. CASE Usable(a)
  <2>1. p \in Places /\ p \notin AllKinds \union {"idle", "rotate"} /\ p # "owner"
    BY DEF Places, AllKinds
  <2>2. Goto(s, p) /\ local' = [local EXCEPT ![s].who = Who(s)]
    BY <1>1, SameLocal DEF ForUsable
  <2> QED
    BY <2>1, <2>2, GotoStep
<1>2. CASE ~Usable(a)
  BY <1>2, ReturnStep DEF ForUsable
<1> QED
  BY <1>1, <1>2

LEMMA SameStored == ASSUME Inv, UNCHANGED <<account, session, known, drawn, spent, given, outlived>>
                    PROVE  Stored' /\ Kept
BY DEF Inv, TypeOK, Stored, Kept

LEMMA AccountWritten ==
  ASSUME Inv, NEW e \in Emails, NEW a \in Account, account' = [account EXCEPT ![e] = a],
         UNCHANGED <<session, known, drawn, spent, given, outlived>>
  PROVE  Stored' /\ Kept
BY DEF Inv, TypeOK, Stored, Kept

LEMMA AccountAt == ASSUME Inv, NEW e \in Emails PROVE account[e] \in Account
BY DEF Inv, TypeOK

\* A user sets a password, with a link or without.
LEMMA PasswordStep ==
  ASSUME Inv, NEW s \in Slots, NEW e \in Emails, NEW a \in Account, SetsPassword(s, e, a),
         UNCHANGED <<session, known, drawn, given>>, spent' \subseteq drawn
  PROVE  Inv'
<1>1. Stored' /\ Kept
  <2>1. [a EXCEPT !.own = TRUE] \in Account
    BY DEF Account
  <2> QED
    BY <2>1 DEF SetsPassword, Of, Inv, TypeOK, Stored, Kept
<1>2. "revoke" \in Places /\ "revoke" \notin AllKinds \union {"idle", "rotate"}
  BY DEF Places, AllKinds
<1> QED
  BY <1>1, <1>2, GotoStep DEF SetsPassword

-----------------------------------------------------------------------------
(* Types.                                                                  *)

LEMMA InitInv == Init => Inv
<1> SUFFICES ASSUME Init PROVE Inv
  OBVIOUS
<1>1. "idle" \in Places /\ "idle" \notin AllKinds
  BY DEF Places, AllKinds
<1>2. TypeOK
  BY <1>1, NothingIsTyped DEF Init, TypeOK, NoSession
<1> QED
  BY <1>1, <1>2 DEF Init, Inv, Fits

LEMMA BeginInv ==
  ASSUME Inv, NEW s \in Slots, NEW r \in Request, Begin(s, r)
  PROVE  Inv'
<1> DEFINE l == IF r.kind \in {"refresh", "logout", "accept", "reset"} THEN local[s]
                ELSE [local[s] EXCEPT !.who = r.email]
<1>1. l \in Local /\ local' = [local EXCEPT ![s] = l]
  BY RequestFields DEF Begin, Inv, TypeOK, Local
<1>2. Stored' /\ Kept
  BY SameStored DEF Begin
<1>3. r.kind \in Places
  BY RequestFields DEF Places
<1>4. Fits(s)'
  BY RequestFields DEF Begin, Fits, Inv, TypeOK, Who, AllKinds, Local
<1> HIDE DEF l
<1> QED
  BY <1>1, <1>2, <1>3, <1>4, SlotStep DEF Begin

LEMMA SessionActionsInv ==
  ASSUME Inv, NEW s \in Slots,
         Fail(s) \/ Login(s) \/ Refresh(s) \/ Owner(s) \/ Issue(s) \/ Rotate(s)
           \/ Logout(s) \/ Revoke(s)
  PROVE  Inv'
<1>f. Fits(s)
  BY DEF Inv
<1>1. CASE Fail(s)
  <2>1. Stored' /\ Kept
    BY <1>1 DEF Fail, Inv, TypeOK, Stored, Kept
  <2> QED
    BY <1>1, <2>1, ReturnStep DEF Fail
<1>2. CASE Login(s)
  <2>1. Stored' /\ Kept
    BY <1>2, SameStored DEF Login
  <2>2. Who(s) \in Emails /\ req[s].kind = "login"
    BY <1>2, <1>f DEF Login, Fits, AllKinds
  <2> QED
    BY <1>2, <2>1, <2>2, ForUsableStep, ReturnStep DEF Login
<1>3. CASE Refresh(s)
  <2>1. Stored' /\ Kept
    BY <1>3, SameStored DEF Refresh
  <2>2. req[s].kind = "refresh" /\ req[s].token \in Tokens
    BY <1>3, <1>f, FieldsAt DEF Refresh, Fits, AllKinds
  <2>3. CASE session[req[s].token].status = "active"
    <3>1. session[req[s].token].of \in Emails
      BY <2>2, <2>3 DEF Inv, TypeOK
    <3>2. "owner" \in Places /\ "owner" \notin AllKinds \union {"idle", "rotate"}
      BY DEF Places, AllKinds
    <3> QED
      BY <1>3, <2>1, <2>2, <2>3, <3>1, <3>2, GotoStep DEF Refresh
  <2>4. CASE session[req[s].token].status # "active"
    BY <1>3, <2>1, <2>4, ReturnStep DEF Refresh
  <2> QED
    BY <2>3, <2>4
<1>4. CASE Owner(s)
  <2>1. Stored' /\ Kept
    BY <1>4, SameStored DEF Owner
  <2>2. Who(s) \in Emails /\ req[s].kind = "refresh"
    BY <1>4, <1>f DEF Owner, Fits
  <2> QED
    BY <1>4, <2>1, <2>2, ForUsableStep DEF Owner
<1>5. CASE Issue(s)
  <2>1. Who(s) \in Emails /\ req[s].kind \in {"login", "refresh"}
    BY <1>5, <1>f DEF Issue, Fits
  <2>2. PICK t \in Tokens :
          /\ session[t].status = "unissued"
          /\ session' = [session EXCEPT ![t] =
                           [status |-> "active", of |-> Who(s), next |-> None]]
          /\ IF req[s].kind = "login"
             THEN Return(s) /\ known' = known \union {t}
             ELSE /\ local' = [local EXCEPT ![s].new = t]
                  /\ Goto(s, "rotate")
                  /\ UNCHANGED known
    BY <1>5 DEF Issue
  <2>3. [status |-> "active", of |-> Who(s), next |-> None] \in Session
    BY <2>1 DEF Session
  <2>4. Stored' /\ Kept
    BY <1>5, <2>1, <2>2, <2>3 DEF Issue, Inv, TypeOK, Stored, Kept
  <2>5. CASE req[s].kind = "login"
    BY <2>2, <2>4, <2>5, ReturnStep
  <2>6. CASE req[s].kind # "login"
    <3> DEFINE l == [local[s] EXCEPT !.new = t]
    <3>1. l \in Local /\ local' = [local EXCEPT ![s] = l]
      BY <2>2, <2>6 DEF Inv, TypeOK, Local
    <3>2. req' = [req EXCEPT ![s] = req[s]] /\ req[s] \in Request \union {NoRequest}
      BY <2>2, <2>6 DEF Goto, Inv, TypeOK
    <3>3. "rotate" \in Places /\ "rotate" \notin AllKinds
      BY DEF Places, AllKinds
    <3>4. Fits(s)'
      BY <2>1, <2>2, <2>6, <3>3 DEF Goto, Fits, Inv, TypeOK, Who, Local
    <3> HIDE DEF l
    <3> QED
      BY <2>2, <2>4, <2>6, <3>1, <3>2, <3>3, <3>4, SlotStep DEF Goto
  <2> QED
    BY <2>5, <2>6
<1>6. CASE Rotate(s)
  <2>1. local[s].new \in Tokens /\ session[local[s].new].status # "unissued"
    BY <1>6, <1>f DEF Rotate, Fits
  <2>2. req[s].token \in Tokens
    BY <1>6, <1>f, FieldsAt DEF Rotate, Fits
  <2>3. session' \in [Tokens -> Session]
    BY <1>6, <2>1, <2>2 DEF Rotate, Inv, TypeOK, Session
  <2>4. \A t \in Tokens : /\ session'[t].of = session[t].of
                           /\ session'[t].status = "unissued" <=> session[t].status = "unissued"
    BY <1>6, <2>1, <2>2 DEF Rotate, Inv, TypeOK, Session
  <2>5. Stored' /\ Kept
    BY <1>6, <2>1, <2>3, <2>4 DEF Rotate, Inv, TypeOK, Stored, Kept
  <2> QED
    BY <1>6, <2>5, ReturnStep DEF Rotate
<1>7. CASE Logout(s)
  <2>1. req[s].token \in Tokens
    BY <1>7, <1>f, FieldsAt DEF Logout, Fits, AllKinds
  <2>2. session' \in [Tokens -> Session]
    BY <1>7, <2>1 DEF Logout, Inv, TypeOK, Session
  <2>3. \A t \in Tokens : /\ session'[t].of = session[t].of
                           /\ session'[t].status = "unissued" <=> session[t].status = "unissued"
    BY <1>7, <2>1 DEF Logout, Inv, TypeOK, Session
  <2>4. Stored' /\ Kept
    BY <1>7, <2>2, <2>3 DEF Logout, Inv, TypeOK, Stored, Kept
  <2> QED
    BY <1>7, <2>4, ReturnStep DEF Logout
<1>8. CASE Revoke(s)
  <2>1. session' \in [Tokens -> Session]
    BY <1>8 DEF Revoke, Inv, TypeOK, Session
  <2>2. \A t \in Tokens : /\ session'[t].of = session[t].of
                           /\ session'[t].status = "unissued" <=> session[t].status = "unissued"
    BY <1>8 DEF Revoke, Inv, TypeOK, Session
  <2>3. Stored' /\ Kept
    BY <1>8, <2>1, <2>2 DEF Revoke, Inv, TypeOK, Stored, Kept
  <2> QED
    BY <1>8, <2>3, ReturnStep DEF Revoke
<1> QED
  BY <1>1, <1>2, <1>3, <1>4, <1>5, <1>6, <1>7, <1>8

LEMMA PasswordActionsInv ==
  ASSUME Inv, NEW s \in Slots,
         Forgot(s) \/ Prepare(s) \/ Reset(s) \/ Change(s) \/ Write(s) \/ Accept(s)
  PROVE  Inv'
<1>f. Fits(s)
  BY DEF Inv
<1>1. CASE Forgot(s)
  <2>1. Stored' /\ Kept
    BY <1>1, SameStored DEF Forgot
  <2>2. Who(s) \in Emails
    BY <1>1, <1>f DEF Forgot, Fits
  <2> QED
    BY <1>1, <2>1, <2>2, ForUsableStep DEF Forgot
<1>2. CASE Prepare(s)
  <2>1. Who(s) \in Emails /\ account[Who(s)] \in Account
    BY <1>2, <1>f, AccountAt DEF Prepare, Fits
  <2>2. PICK l \in Links \ drawn :
          /\ drawn' = drawn \union {l}
          /\ account' = IF Usable(account[Who(s)])
                        THEN [account EXCEPT ![Who(s)].reset = l, ![Who(s)].dated = TRUE]
                        ELSE account
    BY <1>2 DEF Prepare
  <2>3. account' \in [Emails -> Account]
    BY <2>1, <2>2 DEF Inv, TypeOK, Account
  <2>4. Stored' /\ Kept
    BY <1>2, <2>2, <2>3 DEF Prepare, Inv, TypeOK, Stored, Kept
  <2> QED
    BY <1>2, <2>4, ReturnStep DEF Prepare
<1>3. CASE Reset(s)
  <2>1. req[s].link \in drawn
    BY <1>3, <1>f DEF Reset, Fits
  <2>2. ASSUME NEW e \in Emails, SetsPassword(s, e, [account[e] EXCEPT !.reset = None, !.dated = FALSE]),
               spent' = spent \union ({req[s].link} \ given)
        PROVE  Inv'
    <3>1. [account[e] EXCEPT !.reset = None, !.dated = FALSE] \in Account
      BY AccountAt DEF Account
    <3> QED
      BY <1>3, <2>1, <2>2, <3>1, PasswordStep DEF Reset, Inv, TypeOK
  <2>3. ASSUME Return(s), UNCHANGED <<account, spent, outlived>> PROVE Inv'
    BY <1>3, <2>3, SameStored, ReturnStep DEF Reset
  <2> QED
    BY <1>3, <2>2, <2>3 DEF Reset
<1>4. CASE Change(s)
  <2>1. Stored' /\ Kept
    BY <1>4, SameStored DEF Change
  <2>2. Who(s) \in Emails
    BY <1>4, <1>f DEF Change, Fits
  <2> QED
    BY <1>4, <2>1, <2>2, ForUsableStep, ReturnStep DEF Change
<1>5. CASE Write(s)
  <2>1. Who(s) \in Emails /\ account[Who(s)] \in Account
    BY <1>5, <1>f, AccountAt DEF Write, Fits, AllKinds
  <2>2. CASE Live(account[Who(s)])
    BY <1>5, <2>1, <2>2, PasswordStep DEF Write, Inv, TypeOK
  <2>3. CASE ~Live(account[Who(s)])
    BY <1>5, <2>3, SameStored, ReturnStep DEF Write
  <2> QED
    BY <2>2, <2>3
<1>6. CASE Accept(s)
  <2>1. req[s].link \in drawn
    BY <1>6, <1>f DEF Accept, Fits
  <2>2. ASSUME NEW e \in Emails,
               SetsPassword(s, e, [account[e] EXCEPT !.active = TRUE, !.invite = None]),
               spent' = spent \union ({req[s].link} \ given)
        PROVE  Inv'
    <3>1. [account[e] EXCEPT !.active = TRUE, !.invite = None] \in Account
      BY AccountAt DEF Account
    <3> QED
      BY <1>6, <2>1, <2>2, <3>1, PasswordStep DEF Accept, Inv, TypeOK
  <2>3. ASSUME Return(s), UNCHANGED <<account, spent, outlived>> PROVE Inv'
    BY <1>6, <2>3, SameStored, ReturnStep DEF Accept
  <2> QED
    BY <1>6, <2>2, <2>3 DEF Accept
<1> QED
  BY <1>1, <1>2, <1>3, <1>4, <1>5, <1>6

LEMMA AdministrateStep ==
  ASSUME Inv, NEW s \in Slots, NEW e \in Emails, NEW a \in Account, Administrate(s, e, a)
  PROVE  Inv'
BY AccountWritten, ReturnStep DEF Administrate

LEMMA InvitedStep ==
  ASSUME Inv, NEW s \in Slots, Who(s) \in Emails, NEW a \in Account, Invited(s, a),
         UNCHANGED <<session, known, drawn, spent, given, outlived>>
  PROVE  Inv'
<1>1. [a EXCEPT !.active = FALSE, !.own = FALSE] \in Account
  BY DEF Account
<1>2. Stored' /\ Kept
  BY <1>1, AccountWritten DEF Invited
<1>3. "link" \in Places /\ "link" \notin AllKinds \union {"idle", "rotate"}
  BY DEF Places, AllKinds
<1> QED
  BY <1>2, <1>3, GotoStep, SameLocal DEF Invited

LEMMA AdministrationInv ==
  ASSUME Inv, NEW s \in Slots,
         Create(s) \/ Patch(s) \/ Delete(s) \/ Invite(s) \/ Insert(s) \/ Revive(s)
           \/ Reinvite(s) \/ Link(s)
  PROVE  Inv'
<1>1. Who(s) \in Emails /\ account[Who(s)] \in Account
  BY AccountAt DEF Inv, Fits, Create, Patch, Delete, Invite, Insert, Revive, Reinvite, Link
<1>2. CASE Create(s)
  <2>1. PICK active \in BOOLEAN :
          Administrate(s, Who(s),
            IF account[Who(s)].exists THEN account[Who(s)]
            ELSE [NoAccount EXCEPT !.exists = TRUE, !.active = active, !.own = TRUE])
    BY <1>2 DEF Create
  <2>2. [NoAccount EXCEPT !.exists = TRUE, !.active = active, !.own = TRUE] \in Account
    BY DEF NoAccount, Account
  <2> QED
    BY <1>1, <2>1, <2>2, AdministrateStep
<1>3. CASE Patch(s)
  <2> DEFINE new(active, own, l) ==
               [account[Who(s)] EXCEPT !.active = active, !.own = own, !.reset = l]
  <2>1. \A active, own \in BOOLEAN, l \in Links \union {None} : new(active, own, l) \in Account
    BY <1>1 DEF Account
  <2>2. \A own \in {account[Who(s)].own, TRUE} : own \in BOOLEAN
    BY <1>1 DEF Account
  <2>3. account[Who(s)].reset \in Links \union {None}
    BY <1>1 DEF Account
  <2>4. ASSUME NEW active \in BOOLEAN, NEW own \in {account[Who(s)].own, TRUE},
               Administrate(s, Who(s), IF Live(account[Who(s)])
                                       THEN new(active, own, account[Who(s)].reset)
                                       ELSE account[Who(s)])
        PROVE  Inv'
    <3>1. new(active, own, account[Who(s)].reset) \in Account
      BY <2>1, <2>2, <2>3
    <3> HIDE DEF new
    <3> QED
      BY <1>1, <2>4, <3>1, AdministrateStep
  <2>5. ASSUME NEW active \in BOOLEAN, NEW own \in {account[Who(s)].own, TRUE}, NEW l \in Links,
               account' = [account EXCEPT ![Who(s)] = new(active, own, l)],
               drawn' = drawn \union {l}, given' = given \union {l}, spent' = spent \ {l},
               Return(s), UNCHANGED <<session, known, outlived>>
        PROVE  Inv'
    <3>1. new(active, own, l) \in Account
      BY <2>1, <2>2
    <3> HIDE DEF new
    <3>2. Stored' /\ Kept
      BY <1>1, <2>5, <3>1 DEF Inv, TypeOK, Stored, Kept
    <3> QED
      BY <2>5, <3>2, ReturnStep
  <2> HIDE DEF new
  <2> QED
    BY <1>3, <2>4, <2>5 DEF Patch, new
<1>4. CASE Delete(s)
  <2>1. [account[Who(s)] EXCEPT !.deleted = TRUE, !.active = FALSE] \in Account
    BY <1>1 DEF Account
  <2> QED
    BY <1>1, <1>4, <2>1, AdministrateStep DEF Delete
<1>5. CASE Invite(s)
  <2>1. Stored' /\ Kept
    BY <1>5, SameStored DEF Invite
  <2>2. CASE Usable(account[Who(s)])
    BY <1>5, <2>1, <2>2, ReturnStep DEF Invite
  <2>3. CASE ~Usable(account[Who(s)])
    <3>1. PICK p \in {"insert", "revive", "reinvite"} : Goto(s, p)
      BY <1>5, <2>3 DEF Invite
    <3>2. /\ p \in Places /\ p \notin AllKinds \union {"idle", "rotate"}
          /\ p # "issue" /\ p # "owner"
      BY DEF Places, AllKinds
    <3>3. local' = [local EXCEPT ![s].who = Who(s)]
      BY <1>5, <2>3, SameLocal DEF Invite
    <3> QED
      BY <1>1, <2>1, <3>1, <3>2, <3>3, GotoStep
  <2> QED
    BY <2>2, <2>3
<1>6. CASE Insert(s)
  <2>1. [NoAccount EXCEPT !.exists = TRUE] \in Account
    BY DEF NoAccount, Account
  <2> QED
    BY <1>1, <1>6, <2>1, InvitedStep, SameStored, ReturnStep DEF Insert
<1>7. CASE Revive(s)
  <2>1. [account[Who(s)] EXCEPT !.deleted = FALSE, !.reset = None, !.dated = FALSE] \in Account
    BY <1>1 DEF Account
  <2> QED
    BY <1>1, <1>7, <2>1, InvitedStep DEF Revive
<1>8. CASE Reinvite(s)
  BY <1>1, <1>8, InvitedStep, SameStored, ReturnStep DEF Reinvite
<1>9. CASE Link(s)
  <2>1. CASE Live(account[Who(s)])
    <3>1. PICK l \in Links \ drawn :
            /\ drawn' = drawn \union {l}
            /\ account' = [account EXCEPT ![Who(s)].invite = l]
      BY <1>9, <2>1 DEF Link
    <3>2. account' \in [Emails -> Account]
      BY <1>1, <3>1 DEF Inv, TypeOK, Account
    <3>3. Stored' /\ Kept
      BY <1>9, <3>1, <3>2 DEF Link, Inv, TypeOK, Stored, Kept
    <3> QED
      BY <1>9, <3>3, ReturnStep DEF Link
  <2>2. CASE ~Live(account[Who(s)])
    BY <1>9, <2>2, SameStored, ReturnStep DEF Link
  <2> QED
    BY <2>1, <2>2
<1> QED
  BY <1>2, <1>3, <1>4, <1>5, <1>6, <1>7, <1>8, <1>9

LEMMA NextInv == Inv /\ [Next]_vars => Inv'
<1> SUFFICES ASSUME Inv, [Next]_vars PROVE Inv'
  OBVIOUS
<1>1. CASE UNCHANGED vars
  BY <1>1 DEF vars, Inv, TypeOK, Fits, Who
<1>2. CASE Next
  BY <1>2, BeginInv, SessionActionsInv, PasswordActionsInv, AdministrationInv DEF Next
<1> QED
  BY <1>1, <1>2

\* Accounts, sessions and the locals of every request are well formed, a token
\* that was answered is stored, and a link that was used had been drawn.
THEOREM TypeCorrect == Spec => []TypeOK
<1>1. Inv => TypeOK
  BY DEF Inv
<1> QED
  BY <1>1, InitInv, NextInv, PTL DEF Spec

-----------------------------------------------------------------------------
(* What a step makes of accounts and links: it writes at most one account, *)
(* and puts at most one link there, a new one or one an admin gives, or    *)
(* spends at most one that it finds.                                       *)

Edits(a, new) ==
  /\ UNCHANGED <<drawn, spent, given>>
  /\ new.invite \in {a.invite, None} /\ new.reset \in {a.reset, None}
  /\ new = a \/ ~(new.deleted /\ new.active)

Receives(a, new) ==
  /\ UNCHANGED <<spent, given>>
  /\ ~new.deleted
  /\ \E l \in Links \ drawn :
       /\ drawn' = drawn \union {l}
       /\ \/ new.invite = l /\ new.reset = a.reset
          \/ new.reset = l /\ new.invite = a.invite

\* By hand.
Gets(a, new) ==
  /\ ~new.deleted
  /\ drawn' = drawn \union {new.reset}
  /\ given' = given \union {new.reset}
  /\ spent' = spent \ {new.reset}
  /\ new.invite = a.invite

Spends(a, new) ==
  /\ UNCHANGED <<drawn, given>>
  /\ ~new.deleted
  /\ \/ /\ a.invite \in drawn /\ spent' = spent \union ({a.invite} \ given)
        /\ new.invite = None /\ new.reset = a.reset
     \/ /\ a.reset \in drawn /\ spent' = spent \union ({a.reset} \ given)
        /\ new.reset = None /\ new.invite = a.invite

Writes(a, new) == Edits(a, new) \/ Receives(a, new) \/ Gets(a, new) \/ Spends(a, new)

AccountsKept == account' = account /\ UNCHANGED <<spent, given>> /\ drawn \subseteq drawn'
AccountWrite ==
  \E e \in Emails, new \in Account :
    account' = [account EXCEPT ![e] = new] /\ Writes(account[e], new)

LEMMA LinkSteps ==
  ASSUME Inv, NEW s \in Slots,
         Prepare(s) \/ Reset(s) \/ Write(s) \/ Accept(s) \/ Link(s)
  PROVE  AccountsKept \/ AccountWrite
<1>f. Fits(s)
  BY DEF Inv
<1>1. CASE Prepare(s)
  <2>1. Who(s) \in Emails /\ account[Who(s)] \in Account
    BY <1>1, <1>f, AccountAt DEF Prepare, Fits
  <2>2. PICK l \in Links \ drawn :
          /\ drawn' = drawn \union {l}
          /\ account' = IF Usable(account[Who(s)])
                        THEN [account EXCEPT ![Who(s)].reset = l, ![Who(s)].dated = TRUE]
                        ELSE account
    BY <1>1 DEF Prepare
  <2>3. CASE Usable(account[Who(s)])
    <3> DEFINE new == [account[Who(s)] EXCEPT !.reset = l, !.dated = TRUE]
    <3>1. new \in Account
      BY <2>1 DEF Account
    <3>2. account' = [account EXCEPT ![Who(s)] = new]
      BY <2>1, <2>2, <2>3 DEF Inv, TypeOK
    <3>3. Receives(account[Who(s)], new)
      BY <1>1, <2>1, <2>2, <2>3 DEF Receives, Usable, Live, Prepare, Account
    <3> QED
      BY <2>1, <3>1, <3>2, <3>3 DEF AccountWrite, Writes
  <2>4. CASE ~Usable(account[Who(s)])
    BY <1>1, <2>2, <2>4 DEF AccountsKept, Prepare
  <2> QED
    BY <2>3, <2>4
<1>2. CASE Reset(s)
  <2>1. req[s].link \in drawn
    BY <1>2, <1>f DEF Reset, Fits
  <2>2. CASE Return(s) /\ UNCHANGED <<account, spent, outlived>>
    BY <1>2, <2>2 DEF AccountsKept, Reset
  <2>3. ASSUME NEW e \in Emails, Usable(account[e]), account[e].reset = req[s].link,
               SetsPassword(s, e, [account[e] EXCEPT !.reset = None, !.dated = FALSE]),
               spent' = spent \union ({req[s].link} \ given)
        PROVE  AccountWrite
    <3> DEFINE new == [account[e] EXCEPT !.reset = None, !.dated = FALSE, !.own = TRUE]
    <3>1. account[e] \in Account /\ new \in Account
      BY AccountAt DEF Account
    <3>2. account' = [account EXCEPT ![e] = new]
      BY <2>3, <3>1 DEF SetsPassword, Account
    <3>3. Spends(account[e], new)
      BY <1>2, <2>1, <2>3, <3>1 DEF Spends, Usable, Live, Reset, Account
    <3> QED
      BY <3>1, <3>2, <3>3 DEF AccountWrite, Writes
  <2> QED
    BY <1>2, <2>2, <2>3 DEF Reset
<1>3. CASE Write(s)
  <2>1. Who(s) \in Emails /\ account[Who(s)] \in Account
    BY <1>3, <1>f, AccountAt DEF Write, Fits, AllKinds
  <2>2. CASE Live(account[Who(s)])
    <3> DEFINE new == [account[Who(s)] EXCEPT !.own = TRUE]
    <3>1. new \in Account
      BY <2>1 DEF Account
    <3>2. account' = [account EXCEPT ![Who(s)] = new]
      BY <1>3, <2>2 DEF Write, SetsPassword
    <3>3. Edits(account[Who(s)], new)
      BY <1>3, <2>1, <2>2 DEF Edits, Live, Write, Account
    <3> QED
      BY <2>1, <3>1, <3>2, <3>3 DEF AccountWrite, Writes
  <2>3. CASE ~Live(account[Who(s)])
    BY <1>3, <2>3 DEF AccountsKept, Write
  <2> QED
    BY <2>2, <2>3
<1>4. CASE Accept(s)
  <2>1. req[s].link \in drawn
    BY <1>4, <1>f DEF Accept, Fits
  <2>2. CASE Return(s) /\ UNCHANGED <<account, spent, outlived>>
    BY <1>4, <2>2 DEF AccountsKept, Accept
  <2>3. ASSUME NEW e \in Emails, Live(account[e]), account[e].invite = req[s].link,
               SetsPassword(s, e, [account[e] EXCEPT !.active = TRUE, !.invite = None]),
               spent' = spent \union ({req[s].link} \ given)
        PROVE  AccountWrite
    <3> DEFINE new == [account[e] EXCEPT !.active = TRUE, !.invite = None, !.own = TRUE]
    <3>1. account[e] \in Account /\ new \in Account
      BY AccountAt DEF Account
    <3>2. account' = [account EXCEPT ![e] = new]
      BY <2>3, <3>1 DEF SetsPassword, Account
    <3>3. Spends(account[e], new)
      BY <1>4, <2>1, <2>3, <3>1 DEF Spends, Live, Accept, Account
    <3> QED
      BY <3>1, <3>2, <3>3 DEF AccountWrite, Writes
  <2> QED
    BY <1>4, <2>2, <2>3 DEF Accept
<1>5. CASE Link(s)
  <2>1. Who(s) \in Emails /\ account[Who(s)] \in Account
    BY <1>5, <1>f, AccountAt DEF Link, Fits, AllKinds
  <2>2. CASE Live(account[Who(s)])
    <3>1. PICK l \in Links \ drawn :
            /\ drawn' = drawn \union {l}
            /\ account' = [account EXCEPT ![Who(s)].invite = l]
      BY <1>5, <2>2 DEF Link
    <3> DEFINE new == [account[Who(s)] EXCEPT !.invite = l]
    <3>2. new \in Account
      BY <2>1 DEF Account
    <3>3. account' = [account EXCEPT ![Who(s)] = new]
      BY <2>1, <3>1 DEF Inv, TypeOK
    <3>4. Receives(account[Who(s)], new)
      BY <1>5, <2>1, <2>2, <3>1 DEF Receives, Live, Link, Account
    <3> QED
      BY <2>1, <3>2, <3>3, <3>4 DEF AccountWrite, Writes
  <2>3. CASE ~Live(account[Who(s)])
    BY <1>5, <2>3 DEF AccountsKept, Link
  <2> QED
    BY <2>2, <2>3
<1> QED
  BY <1>1, <1>2, <1>3, <1>4, <1>5

LEMMA AdministrationSteps ==
  ASSUME Inv, NEW s \in Slots,
         Create(s) \/ Patch(s) \/ Delete(s) \/ Insert(s) \/ Revive(s) \/ Reinvite(s)
  PROVE  AccountsKept \/ AccountWrite
<1> DEFINE a == account[Who(s)]
<1>1. Who(s) \in Emails /\ a \in Account
  BY AccountAt DEF Inv, Fits, Create, Patch, Delete, Insert, Revive, Reinvite, AllKinds
<1>2. ASSUME NEW new \in Account, account' = [account EXCEPT ![Who(s)] = new],
             UNCHANGED <<drawn, spent, given>>,
             new.invite \in {a.invite, None} /\ new.reset \in {a.reset, None},
             new = a \/ ~(new.deleted /\ new.active)
      PROVE  AccountWrite
  BY <1>1, <1>2 DEF AccountWrite, Writes, Edits
<1>3. CASE Create(s)
  <2>1. PICK active \in BOOLEAN :
          Administrate(s, Who(s), IF a.exists THEN a
            ELSE [NoAccount EXCEPT !.exists = TRUE, !.active = active, !.own = TRUE])
    BY <1>3 DEF Create
  <2> DEFINE new == [NoAccount EXCEPT !.exists = TRUE, !.active = active, !.own = TRUE]
  <2>2. new \in Account /\ ~new.deleted /\ new.invite = None /\ new.reset = None
    BY DEF NoAccount, Account
  <2>3. a.exists => AccountWrite
    BY <1>1, <1>2, <2>1 DEF Administrate
  <2>4. ~a.exists => account' = [account EXCEPT ![Who(s)] = new] /\ UNCHANGED <<drawn, spent, given>>
    BY <2>1 DEF Administrate
  <2> HIDE DEF new
  <2> QED
    BY <1>2, <2>2, <2>3, <2>4
<1>4. CASE Patch(s)
  <2> DEFINE new(active, own, l) == [a EXCEPT !.active = active, !.own = own, !.reset = l]
  <2>1. \A own \in {a.own, TRUE} : own \in BOOLEAN
    BY <1>1 DEF Account
  <2>2. \A active, own \in BOOLEAN, l \in Links \union {None} :
          /\ new(active, own, l) \in Account
          /\ new(active, own, l).deleted = a.deleted
          /\ new(active, own, l).invite = a.invite
          /\ new(active, own, l).reset = l
    BY <1>1 DEF Account
  <2>3. ASSUME NEW active \in BOOLEAN, NEW own \in {a.own, TRUE},
               Administrate(s, Who(s), IF Live(a) THEN new(active, own, a.reset) ELSE a)
        PROVE  AccountWrite
    <3> DEFINE b == new(active, own, a.reset)
    <3>1. b \in Account /\ b.deleted = a.deleted /\ b.invite = a.invite /\ b.reset = a.reset
      BY <1>1, <2>1, <2>2 DEF Account
    <3>2. ~Live(a) => AccountWrite
      BY <1>1, <1>2, <2>3 DEF Administrate
    <3>3. Live(a) => account' = [account EXCEPT ![Who(s)] = b] /\ UNCHANGED <<drawn, spent, given>>
      BY <2>3 DEF Administrate
    <3> HIDE DEF b
    <3> QED
      BY <1>2, <3>1, <3>2, <3>3 DEF Live
  <2>4. ASSUME NEW active \in BOOLEAN, NEW own \in {a.own, TRUE}, NEW l \in Links, Live(a),
               account' = [account EXCEPT ![Who(s)] = new(active, own, l)],
               drawn' = drawn \union {l}, given' = given \union {l}, spent' = spent \ {l}
        PROVE  AccountWrite
    <3> DEFINE b == new(active, own, l)
    <3>0. l \in Links \union {None} /\ own \in BOOLEAN
      BY <2>1
    <3>1. b \in Account /\ b.deleted = a.deleted /\ b.invite = a.invite /\ b.reset = l
      BY <1>1, <3>0 DEF Account
    <3>2. account' = [account EXCEPT ![Who(s)] = b]
      BY <2>4
    <3> HIDE DEF b
    <3>3. Writes(a, b)
      BY <2>4, <3>1 DEF Live, Writes, Gets
    <3> QED
      BY <1>1, <3>1, <3>2, <3>3 DEF AccountWrite
  <2> HIDE DEF new
  <2> QED
    BY <1>4, <2>3, <2>4 DEF Patch, new
<1>5. CASE Delete(s)
  <2> DEFINE new == [a EXCEPT !.deleted = TRUE, !.active = FALSE]
  <2>1. new \in Account /\ ~new.active /\ new.invite = a.invite /\ new.reset = a.reset
    BY <1>1 DEF Account
  <2>2. Administrate(s, Who(s), IF Live(a) THEN new ELSE a)
    BY <1>5 DEF Delete
  <2>3. ~Live(a) => AccountWrite
    BY <1>1, <1>2, <2>2 DEF Administrate
  <2>4. Live(a) => account' = [account EXCEPT ![Who(s)] = new] /\ UNCHANGED <<drawn, spent, given>>
    BY <2>2 DEF Administrate
  <2> HIDE DEF new
  <2> QED
    BY <1>2, <2>1, <2>3, <2>4
<1>6. CASE Insert(s)
  <2> DEFINE new == [NoAccount EXCEPT !.exists = TRUE, !.active = FALSE, !.own = FALSE]
  <2>1. new \in Account /\ ~new.active /\ new.invite = None /\ new.reset = None
    BY DEF NoAccount, Account
  <2>2. a.exists => AccountsKept
    BY <1>6 DEF Insert, AccountsKept
  <2>3. ~a.exists => account' = [account EXCEPT ![Who(s)] = new] /\ UNCHANGED <<drawn, spent, given>>
    BY <1>6 DEF Insert, Invited, NoAccount
  <2> HIDE DEF new
  <2> QED
    BY <1>2, <2>1, <2>2, <2>3
<1>7. CASE Revive(s)
  <2> DEFINE new == [a EXCEPT !.deleted = FALSE, !.reset = None, !.dated = FALSE,
                             !.active = FALSE, !.own = FALSE]
  <2>1. new \in Account /\ ~new.active /\ new.invite = a.invite /\ new.reset = None
    BY <1>1 DEF Account
  <2>2. account' = [account EXCEPT ![Who(s)] = new] /\ UNCHANGED <<drawn, spent, given>>
    BY <1>1, <1>7 DEF Revive, Invited, Account
  <2> HIDE DEF new
  <2> QED
    BY <1>2, <2>1, <2>2
<1>8. CASE Reinvite(s)
  <2> DEFINE new == [a EXCEPT !.active = FALSE, !.own = FALSE]
  <2>1. new \in Account /\ ~new.active /\ new.invite = a.invite /\ new.reset = a.reset
    BY <1>1 DEF Account
  <2>2. ~Live(a) => AccountsKept
    BY <1>8 DEF Reinvite, AccountsKept
  <2>3. Live(a) => account' = [account EXCEPT ![Who(s)] = new] /\ UNCHANGED <<drawn, spent, given>>
    BY <1>1, <1>8 DEF Reinvite, Invited, Account
  <2> HIDE DEF new
  <2> QED
    BY <1>2, <2>1, <2>2, <2>3
<1> QED
  BY <1>3, <1>4, <1>5, <1>6, <1>7, <1>8

LEMMA AccountStep == Inv /\ [Next]_vars => AccountsKept \/ AccountWrite
<1> SUFFICES ASSUME Inv, [Next]_vars PROVE AccountsKept \/ AccountWrite
  OBVIOUS
<1>1. CASE UNCHANGED vars
  BY <1>1 DEF vars, AccountsKept
<1>2. ASSUME NEW s \in Slots,
             \/ \E r \in Request : Begin(s, r)
             \/ Fail(s) \/ Login(s) \/ Refresh(s) \/ Owner(s) \/ Issue(s) \/ Rotate(s)
             \/ Logout(s) \/ Revoke(s) \/ Forgot(s) \/ Change(s) \/ Invite(s)
      PROVE  AccountsKept
  BY <1>2 DEF AccountsKept, Begin, Fail, Login, Refresh, Owner, Issue, Rotate, Logout, Revoke,
     Forgot, Change, Invite
<1> QED
  BY <1>1, <1>2, LinkSteps, AdministrationSteps DEF Next

\* A deleted account is inactive, whatever was under way when it was deleted.
THEOREM DeletionDeactivates == Spec => []DeletedIsInactive
<1>1. Init => DeletedIsInactive
  BY DEF Init, NoAccount, DeletedIsInactive
<1>2. Inv /\ DeletedIsInactive /\ [Next]_vars => DeletedIsInactive'
  <2> SUFFICES ASSUME Inv, DeletedIsInactive, [Next]_vars PROVE DeletedIsInactive'
    OBVIOUS
  <2>1. CASE AccountsKept
    BY <2>1 DEF AccountsKept, DeletedIsInactive
  <2>2. CASE AccountWrite
    <3>1. PICK e \in Emails, new \in Account :
            account' = [account EXCEPT ![e] = new] /\ Writes(account[e], new)
      BY <2>2 DEF AccountWrite
    <3>2. ~(new.deleted /\ new.active)
      BY <3>1, AccountAt DEF Writes, Edits, Receives, Gets, Spends, DeletedIsInactive, Account
    <3> QED
      BY <3>1, <3>2 DEF DeletedIsInactive, Inv, TypeOK
  <2> QED
    BY <2>1, <2>2, AccountStep
<1> QED
  BY <1>1, <1>2, InitInv, NextInv, PTL DEF Spec

\* A link that no admin gave is known to one field of one account, and that
\* only until it is used.
LinksOnce ==
  /\ \A e \in Emails : {account[e].invite, account[e].reset} \subseteq drawn \union {None}
  /\ \A e, f \in Emails :
       account[e].invite = account[f].reset => account[e].invite \in given \union {None}
  /\ \A e, f \in Emails :
       account[e].invite = account[f].invite => e = f \/ account[e].invite \in given \union {None}
  /\ \A e, f \in Emails :
       account[e].reset = account[f].reset => e = f \/ account[e].reset \in given \union {None}

\* A link that the service mailed never sets two passwords.
THEOREM LinksWorkOnce == Spec => []SpentLinksDead
<1>1. Init => LinksOnce /\ SpentLinksDead
  BY DEF Init, NoAccount, LinksOnce, SpentLinksDead
<1>2. Inv /\ LinksOnce /\ SpentLinksDead /\ [Next]_vars => LinksOnce' /\ SpentLinksDead'
  <2> SUFFICES ASSUME Inv, LinksOnce, SpentLinksDead, [Next]_vars
               PROVE  LinksOnce' /\ SpentLinksDead'
    OBVIOUS
  <2>1. None \notin Links /\ drawn \subseteq Links /\ spent \subseteq drawn /\ given \subseteq drawn
    BY AccountAssumption DEF Inv, TypeOK
  <2>2. CASE AccountsKept
    BY <2>2 DEF AccountsKept, LinksOnce, SpentLinksDead
  <2>3. CASE AccountWrite
    <3>1. PICK e \in Emails, new \in Account :
            account' = [account EXCEPT ![e] = new] /\ Writes(account[e], new)
      BY <2>3 DEF AccountWrite
    <3>2. /\ account'[e] = new
          /\ \A f \in Emails : f # e => account'[f] = account[f]
      BY <3>1 DEF Inv, TypeOK
    <3>3. CASE Edits(account[e], new)
      BY <2>1, <3>2, <3>3 DEF Edits, LinksOnce, SpentLinksDead
    <3>4. CASE Receives(account[e], new)
      <4>1. PICK l \in Links \ drawn :
              /\ drawn' = drawn \union {l}
              /\ \/ new.invite = l /\ new.reset = account[e].reset
                 \/ new.reset = l /\ new.invite = account[e].invite
        BY <3>4 DEF Receives
      <4>2. LinksOnce'
        BY <2>1, <3>2, <3>4, <4>1 DEF Receives, LinksOnce
      <4>3. SpentLinksDead'
        BY <2>1, <3>2, <3>4, <4>1 DEF Receives, SpentLinksDead
      <4> QED
        BY <4>2, <4>3
    <3>5. CASE Gets(account[e], new)
      <4>1. LinksOnce'
        BY <3>2, <3>5 DEF Gets, LinksOnce
      <4>2. SpentLinksDead'
        BY <3>2, <3>5 DEF Gets, SpentLinksDead
      <4> QED
        BY <4>1, <4>2
    <3>6. CASE Spends(account[e], new)
      <4>1. LinksOnce'
        BY <2>1, <3>2, <3>6 DEF Spends, LinksOnce
      <4>2. SpentLinksDead'
        BY <2>1, <3>2, <3>6 DEF Spends, LinksOnce, SpentLinksDead
      <4> QED
        BY <4>1, <4>2
    <3> QED
      BY <3>1, <3>3, <3>4, <3>5, <3>6 DEF Writes
  <2> QED
    BY <2>2, <2>3, AccountStep
<1> QED
  BY <1>1, <1>2, InitInv, NextInv, PTL DEF Spec

-----------------------------------------------------------------------------
(* The sessions of a changed password.                                     *)

OutlivedStored == \A t \in outlived : session[t].status # "unissued"
EndInv == Inv /\ OutlivedStored /\ SessionsEnd

\* Only request s moves.
OthersStay(s) == \A u \in Slots \ {s} : pc'[u] = pc[u] /\ local'[u] = local[u]

\* No stored token changes its owner or becomes active.
SessionsShrink ==
  \A t \in Tokens : session[t].status # "unissued" =>
    /\ session'[t].of = session[t].of
    /\ session'[t].status # "unissued"
    /\ session'[t].status = "active" => session[t].status = "active"

LEMMA OnlyOneMoves ==
  ASSUME Inv, NEW s \in Slots,
         \/ Return(s)
         \/ \E p : Goto(s, p) /\ UNCHANGED local
         \/ \E p, e : Goto(s, p) /\ local' = [local EXCEPT ![s].who = e]
         \/ \E p, t : Goto(s, p) /\ local' = [local EXCEPT ![s].new = t]
  PROVE  OthersStay(s)
BY DEF Return, Goto, OthersStay, Inv, TypeOK

\* A step of a request that has no revocation to do.
LEMMA PendingStays ==
  ASSUME EndInv, NEW s \in Slots, pc[s] # "revoke", OthersStay(s), SessionsShrink,
         outlived' \subseteq outlived, outlived \subseteq Tokens
  PROVE  OutlivedStored' /\ SessionsEnd'
<1>1. OutlivedStored'
  BY DEF EndInv, OutlivedStored, SessionsShrink
<1>2. ASSUME NEW t \in outlived', session'[t].status = "active"
      PROVE  \E u \in Slots : pc'[u] = "revoke" /\ session'[t].of = local'[u].who
  <2>1. t \in outlived /\ t \in Tokens /\ session[t].status # "unissued"
    BY <1>2 DEF EndInv, OutlivedStored
  <2>2. session[t].status = "active" /\ session'[t].of = session[t].of
    BY <1>2, <2>1 DEF SessionsShrink
  <2>3. PICK u \in Slots : pc[u] = "revoke" /\ session[t].of = local[u].who
    BY <2>1, <2>2 DEF EndInv, SessionsEnd, Who
  <2>4. u \in Slots \ {s}
    BY <2>3
  <2> QED
    BY <2>2, <2>3, <2>4 DEF OthersStay
<1> QED
  BY <1>1, <1>2 DEF SessionsEnd, Who

LEMMA SameSessions == ASSUME UNCHANGED session PROVE SessionsShrink
BY DEF SessionsShrink

\* A step that sets a password leaves the revocation to its own request.
LEMMA PasswordOwesRevocation ==
  ASSUME EndInv, NEW s \in Slots, NEW e \in Emails, NEW a, SetsPassword(s, e, a),
         pc[s] # "revoke", UNCHANGED session
  PROVE  OutlivedStored' /\ SessionsEnd'
<1>0. Inv /\ OutlivedStored /\ SessionsEnd
  BY DEF EndInv
<1>1. OthersStay(s)
  BY <1>0, OnlyOneMoves DEF SetsPassword
<1>2. pc'[s] = "revoke" /\ local'[s].who = e
  BY <1>0 DEF SetsPassword, Goto, Inv, TypeOK, Local
<1>3. outlived' = outlived \union {t \in Tokens : session[t].of = e /\ session[t].status = "active"}
  BY DEF SetsPassword, Of
<1>4. OutlivedStored'
  BY <1>0, <1>3 DEF OutlivedStored
<1>5. ASSUME NEW t \in outlived', session'[t].status = "active"
      PROVE  \E u \in Slots : pc'[u] = "revoke" /\ session'[t].of = local'[u].who
  <2>1. CASE session[t].of = e
    BY <1>2, <2>1
  <2>2. CASE session[t].of # e
    <3>1. PICK u \in Slots : pc[u] = "revoke" /\ session[t].of = local[u].who
      BY <1>0, <1>3, <1>5, <2>2 DEF SessionsEnd, Who
    <3>2. u \in Slots \ {s}
      BY <3>1
    <3> QED
      BY <1>1, <3>1, <3>2 DEF OthersStay
  <2> QED
    BY <2>1, <2>2
<1> QED
  BY <1>4, <1>5 DEF SessionsEnd, Who

LEMMA SessionStepsEnd ==
  ASSUME EndInv, NEW s \in Slots, Issue(s) \/ Rotate(s) \/ Logout(s)
  PROVE  OutlivedStored' /\ SessionsEnd'
<1>0. Inv /\ Fits(s) /\ outlived \subseteq Tokens /\ session \in [Tokens -> Session]
  BY DEF EndInv, Inv, TypeOK
<1>1. OthersStay(s)
  BY <1>0, OnlyOneMoves DEF Issue, Rotate, Logout
<1>2. SessionsShrink
  <2>1. CASE Issue(s)
    BY <1>0, <2>1 DEF Issue, SessionsShrink
  <2>2. CASE Rotate(s)
    <3>1. req[s].token \in Tokens
      BY <1>0, <2>2, FieldsAt DEF Rotate, Fits
    <3> QED
      BY <1>0, <2>2, <3>1 DEF Rotate, SessionsShrink, Session
  <2>3. CASE Logout(s)
    <3>1. req[s].token \in Tokens
      BY <1>0, <2>3, FieldsAt DEF Logout, Fits, AllKinds
    <3> QED
      BY <1>0, <2>3, <3>1 DEF Logout, SessionsShrink, Session
  <2> QED
    BY <2>1, <2>2, <2>3
<1>3. pc[s] # "revoke" /\ outlived' = outlived
  BY DEF Issue, Rotate, Logout
<1> QED
  BY <1>0, <1>1, <1>2, <1>3, PendingStays

LEMMA RevocationEnds ==
  ASSUME EndInv, NEW s \in Slots, Fail(s) \/ Revoke(s)
  PROVE  OutlivedStored' /\ SessionsEnd'
<1>0. Inv /\ OutlivedStored /\ SessionsEnd /\ outlived \subseteq Tokens
      /\ session \in [Tokens -> Session]
  BY DEF EndInv, Inv, TypeOK
<1>1. OthersStay(s)
  BY <1>0, OnlyOneMoves DEF Fail, Revoke
<1>2. SessionsShrink
  BY <1>0 DEF Fail, Revoke, SessionsShrink, Session
<1>3. CASE pc[s] # "revoke"
  BY <1>0, <1>1, <1>2, <1>3, PendingStays DEF Fail, Revoke
<1>4. CASE pc[s] = "revoke"
  <2>1. outlived' \subseteq outlived
    BY DEF Fail, Revoke
  <2>2. \A t \in outlived' : session'[t].status = "active" => session[t].of # local[s].who
    BY <1>0, <1>4 DEF Fail, Revoke, Of, Who, Session
  <2>3. OutlivedStored'
    BY <1>0, <1>2, <2>1 DEF OutlivedStored, SessionsShrink
  <2>4. ASSUME NEW t \in outlived', session'[t].status = "active"
        PROVE  \E u \in Slots : pc'[u] = "revoke" /\ session'[t].of = local'[u].who
    <3>1. t \in Tokens /\ t \in outlived /\ session[t].status # "unissued"
      BY <1>0, <2>1 DEF OutlivedStored
    <3>2. session[t].status = "active" /\ session'[t].of = session[t].of
      BY <1>2, <2>4, <3>1 DEF SessionsShrink
    <3>3. PICK u \in Slots : pc[u] = "revoke" /\ session[t].of = local[u].who
      BY <1>0, <3>1, <3>2 DEF SessionsEnd, Who
    <3>4. u \in Slots \ {s}
      BY <2>2, <2>4, <3>3
    <3> QED
      BY <1>1, <3>2, <3>3, <3>4 DEF OthersStay
  <2> QED
    BY <2>3, <2>4 DEF SessionsEnd, Who
<1> QED
  BY <1>3, <1>4

\* The steps that touch no session and set no password.
Quiet(s) ==
  \/ \E r \in Request : Begin(s, r)
  \/ Login(s) \/ Refresh(s) \/ Owner(s) \/ Forgot(s) \/ Prepare(s) \/ Change(s)
  \/ Create(s) \/ Patch(s) \/ Delete(s)
  \/ Invite(s) \/ Insert(s) \/ Revive(s) \/ Reinvite(s) \/ Link(s)

LEMMA QuietStepsEnd ==
  ASSUME EndInv, NEW s \in Slots, Quiet(s)
  PROVE  OutlivedStored' /\ SessionsEnd'
<1>0. Inv /\ outlived \subseteq Tokens
  BY DEF EndInv, Inv, TypeOK
<1>1. UNCHANGED <<session, outlived>>
  BY DEF Quiet, Begin, Login, Refresh, Owner, Forgot, Prepare, Change, Create, Patch, Delete,
     Administrate, Invite, Insert, Revive, Reinvite, Link
<1>2. pc[s] # "revoke"
  BY DEF Quiet, Begin, Login, Refresh, Owner, Forgot, Prepare, Change, Create, Patch, Delete,
     Invite, Insert, Revive, Reinvite, Link
<1>3. OthersStay(s)
  <2>1. CASE \E r \in Request : Begin(s, r)
    BY <1>0, <2>1 DEF Begin, OthersStay, Inv, TypeOK
  <2>2. CASE Login(s) \/ Owner(s) \/ Forgot(s) \/ Change(s)
    BY <1>0, <2>2, OnlyOneMoves DEF Login, Owner, Forgot, Change, ForUsable
  <2>3. CASE Refresh(s) \/ Prepare(s) \/ Link(s) \/ Invite(s)
    BY <1>0, <2>3, OnlyOneMoves DEF Refresh, Prepare, Link, Invite
  <2>4. CASE Create(s) \/ Patch(s) \/ Delete(s)
    BY <1>0, <2>4, OnlyOneMoves DEF Create, Patch, Delete, Administrate
  <2>5. CASE Insert(s) \/ Revive(s) \/ Reinvite(s)
    BY <1>0, <2>5, OnlyOneMoves DEF Insert, Revive, Reinvite, Invited
  <2> QED
    BY <2>1, <2>2, <2>3, <2>4, <2>5 DEF Quiet
<1> QED
  BY <1>0, <1>1, <1>2, <1>3, SameSessions, PendingStays

LEMMA PasswordStepsEnd ==
  ASSUME EndInv, NEW s \in Slots, Reset(s) \/ Write(s) \/ Accept(s)
  PROVE  OutlivedStored' /\ SessionsEnd'
<1>0. Inv /\ Fits(s) /\ outlived \subseteq Tokens
  BY DEF EndInv, Inv, TypeOK
<1>1. UNCHANGED session /\ pc[s] # "revoke"
  BY DEF Reset, Write, Accept
<1>2. ASSUME Return(s), UNCHANGED outlived
      PROVE  OutlivedStored' /\ SessionsEnd'
  BY <1>0, <1>1, <1>2, OnlyOneMoves, SameSessions, PendingStays
<1>3. ASSUME NEW e \in Emails, NEW a, SetsPassword(s, e, a)
      PROVE  OutlivedStored' /\ SessionsEnd'
  BY <1>1, <1>3, PasswordOwesRevocation
<1>4. pc[s] = "write" => Who(s) \in Emails
  BY <1>0 DEF Fits, AllKinds
<1> QED
  BY <1>2, <1>3, <1>4 DEF Reset, Write, Accept

\* "Revokes existing refresh tokens": no session that existed when its user set
\* a new password is left once that request is done.
THEOREM SessionsEndWithThePassword == Spec => []SessionsEnd
<1>1. Init => EndInv
  BY InitInv DEF Init, EndInv, OutlivedStored, SessionsEnd
<1>2. EndInv /\ [Next]_vars => EndInv'
  <2> SUFFICES ASSUME EndInv, [Next]_vars PROVE OutlivedStored' /\ SessionsEnd'
    BY NextInv DEF EndInv
  <2>1. CASE UNCHANGED vars
    BY <2>1 DEF vars, EndInv, OutlivedStored, SessionsEnd, Who
  <2>2. CASE Next
    <3>1. PICK s \in Slots :
            \/ Quiet(s)
            \/ Issue(s) \/ Rotate(s) \/ Logout(s)
            \/ Fail(s) \/ Revoke(s)
            \/ Reset(s) \/ Write(s) \/ Accept(s)
      BY <2>2 DEF Next, Quiet
    <3> QED
      BY <3>1, QuietStepsEnd, SessionStepsEnd, RevocationEnds, PasswordStepsEnd
  <2> QED
    BY <2>1, <2>2
<1>3. EndInv => SessionsEnd
  BY DEF EndInv
<1> QED
  BY <1>1, <1>2, <1>3, PTL DEF Spec

-----------------------------------------------------------------------------
(* Rotation.                                                               *)

LEMMA RotationStep ==
  ASSUME Inv, ReplacedBeforeRevoked, NEW s \in Slots,
         Issue(s) \/ Rotate(s) \/ Logout(s) \/ Revoke(s)
  PROVE  ReplacedBeforeRevoked'
<1>0. /\ session \in [Tokens -> Session]
      /\ Fits(s)
      /\ None \notin Tokens
  BY AccountAssumption DEF Inv, TypeOK
<1>1. ASSUME NEW t \in Tokens, session[t].status = "rotated"
      PROVE  session[t].next \in Tokens /\ session[session[t].next].status # "unissued"
  BY <1>0, <1>1 DEF ReplacedBeforeRevoked, Session
<1>2. CASE Issue(s)
  BY <1>0, <1>1, <1>2 DEF Issue, ReplacedBeforeRevoked
<1>3. CASE Rotate(s)
  <2>1. req[s].token \in Tokens
    BY <1>0, <1>3, FieldsAt DEF Rotate, Fits
  <2>2. local[s].new \in Tokens /\ session[local[s].new].status # "unissued"
    BY <1>0, <1>3 DEF Rotate, Fits
  <2>3. \A t \in Tokens : session'[t].status = "unissued" <=> session[t].status = "unissued"
    BY <1>0, <1>3, <2>1 DEF Rotate, Session
  <2>4. ASSUME NEW t \in Tokens, session'[t].status = "rotated"
        PROVE  session'[t].next \in Tokens /\ session[session'[t].next].status # "unissued"
    BY <1>0, <1>1, <1>3, <2>1, <2>2, <2>4 DEF Rotate, Session
  <2> QED
    BY <1>0, <2>3, <2>4 DEF ReplacedBeforeRevoked
<1>4. CASE Logout(s) \/ Revoke(s)
  <2>1. pc[s] = "logout" => req[s].token \in Tokens
    BY <1>0, FieldsAt DEF Fits, AllKinds
  <2>2. \A t \in Tokens :
          \/ session'[t] = session[t]
          \/ session[t].status = "active" /\ session'[t].status = "ended"
    BY <1>0, <1>4, <2>1 DEF Logout, Revoke, Session
  <2>3. ASSUME NEW t \in Tokens, session'[t].status = "rotated"
        PROVE  session'[t].next \in Tokens /\ session'[session'[t].next].status # "unissued"
    <3>1. session[t].next \in Tokens /\ session[session[t].next].status # "unissued"
      BY <1>1, <2>2, <2>3
    <3>2. session'[t] = session[t]
      BY <2>2, <2>3
    <3> QED
      BY <2>2, <3>1, <3>2
  <2> QED
    BY <1>0, <2>3 DEF ReplacedBeforeRevoked
<1> QED
  BY <1>2, <1>3, <1>4

\* A refresh that fails between its two calls has stored the new token before
\* it gave up the old one.
THEOREM RotationKeepsAToken == Spec => []ReplacedBeforeRevoked
<1>1. Init => ReplacedBeforeRevoked
  BY DEF Init, NoSession, ReplacedBeforeRevoked
<1>2. Inv /\ ReplacedBeforeRevoked /\ [Next]_vars => ReplacedBeforeRevoked'
  <2> SUFFICES ASSUME Inv, ReplacedBeforeRevoked, [Next]_vars PROVE ReplacedBeforeRevoked'
    OBVIOUS
  <2>1. CASE UNCHANGED session
    BY <2>1 DEF ReplacedBeforeRevoked
  <2>2. ASSUME NEW s \in Slots, Quiet(s) \/ Fail(s) \/ Reset(s) \/ Write(s) \/ Accept(s)
        PROVE  UNCHANGED session
    BY <2>2 DEF Quiet, Begin, Fail, Login, Refresh, Owner, Forgot, Prepare, Reset, Change, Write,
       Create, Patch, Delete, Administrate, Invite, Insert, Revive, Reinvite, Link, Accept
  <2> QED
    BY <2>1, <2>2, RotationStep DEF Next, Quiet, vars
<1> QED
  BY <1>1, <1>2, InitInv, NextInv, PTL DEF Spec
=============================================================================
