------------------------------- MODULE Sessions -------------------------------
(***************************************************************************)
(* The session of one user: the tokens the server gives out                *)
(* (auth/routes.js), the page that holds one of them (stores/auth.js) and  *)
(* its requests (api/client.js).                                           *)
(*                                                                         *)
(* A login and every refresh give an access token, which names the roles   *)
(* of its moment and is believed until it expires, and a refresh token,    *)
(* which is a row the next refresh revokes.  Both are one record of        *)
(* "issued" here, for they are given together, the page keeps them         *)
(* together, and the access token is the first to expire.                  *)
(*                                                                         *)
(* Passwords and the private fields of users are left out.                 *)
(***************************************************************************)
EXTENDS Integers, Sequences, FiniteSets

CONSTANTS
  Handlers,       \* calls of /auth being served at the same time
  Requests,       \* other requests the page may have out at the same time
  None,           \* no call of /auth
  MaxRoles,       \* bound: changes of the user's roles
  MaxAged,        \* bound: tokens that grow old, the first ones
  MaxCalls        \* bound: logins and registrations

ASSUME SessionsAssumption ==
  /\ MaxRoles \in Nat /\ MaxAged \in Nat /\ MaxCalls \in Nat
  /\ None \notin Handlers

VARIABLES
  account,        \* the users row: absent, or its status
  roles,          \* the version of the user's roles and permissions
  issued,         \* the refresh_tokens, with the access token of each
  task,           \* the call of /auth each handler serves
  store,          \* the page: the number of its tokens (0 is null), and
                  \*   whether it knows the user they belong to
  awaiting,       \* the call of /auth the page waits for (refreshPromise)
  leaving,        \* the page has set window.location and is about to go
  request,        \* the page's requests
  calls,          \* the number of logins and registrations (a bound)
  abandoned,      \* tokens whose refresh the page was reloaded over (history)
  troubled,       \* something else than the page ended a session (history)
  ended           \* the tokens there were at the last /auth/logout, and those
                  \*   a refresh had found live by then (history)

serverVars == <<account, roles, issued>>
pageVars == <<store, awaiting, leaving, request>>
historyVars == <<calls, abandoned, troubled, ended>>
vars == <<serverVars, task, pageVars, historyVars>>

Idle == [at |-> "idle", on |-> 0, roles |-> 0, login |-> FALSE]
Resting == [at |-> "idle", token |-> 0]
SignedOut == [token |-> 0, known |-> FALSE]
Tokens == 1..Len(issued)

\* What the handler of /auth does next, and how it ends without tokens.
Step(h, place) == task' = [task EXCEPT ![h].at = place]
End(h, answer) ==
  task' = [task EXCEPT ![h] = [Idle EXCEPT !.at = answer, !.login = task[h].login]]
\* The page's code goes on with requests in R at a place, with a token.
Put(R, place, token) ==
  [r \in Requests |-> IF r \in R THEN [at |-> place, token |-> token]
                      ELSE request[r]]
Waiting == {r \in Requests : request[r].at = "waiting"}

\* The access token is a JWT: it is believed until it expires, whatever
\* became of the row.
Believed(t) == t # 0 /\ issued[t].age = 0
\* The row that /auth/refresh looks for.
Live(t) == ~issued[t].revoked /\ issued[t].age < 2
-------------------------------------------------------------------------------
\* The page opens, with an empty session storage.
Init ==
  /\ account = "absent" /\ roles = 0 /\ issued = <<>>
  /\ task = [h \in Handlers |-> Idle]
  /\ store = SignedOut /\ awaiting = None /\ leaving = FALSE
  /\ request = [r \in Requests |-> Resting]
  /\ calls = 0 /\ abandoned = {} /\ troubled = FALSE
  /\ ended = [rows |-> {}, found |-> {}]

\* The page calls /auth, and waits.
Call(h, place, token) ==
  /\ task[h] = Idle
  /\ task' = [task EXCEPT ![h] = [Idle EXCEPT !.at = place, !.on = token,
                                              !.login = token = 0]]
  /\ awaiting' = h
SignIn(h, place) ==
  /\ store.token = 0 /\ ~leaving /\ awaiting = None
  /\ calls < MaxCalls /\ calls' = calls + 1
  /\ Call(h, place, 0)
  /\ UNCHANGED <<serverVars, store, leaving, request, abandoned, troubled, ended>>
\* The login form; the registration form, which goes on to log in.
SubmitLogin(h) == SignIn(h, "login")
SubmitRegistration(h) == SignIn(h, "checkName")

\* authState.logout
Logout == store' = SignedOut
\* handleLogout: the server is not told. Until the next page is there, answers
\* still arrive.
PressLogout ==
  /\ store.token # 0
  /\ Logout /\ leaving' = TRUE
  /\ UNCHANGED <<serverVars, task, awaiting, request, historyVars>>

\* The page is loaded anew, and restores its state from the session storage.
Load ==
  /\ abandoned' = IF awaiting = None THEN abandoned
                  ELSE abandoned \cup ({store.token} \cap Tokens)
  /\ store' = IF store.token = 0 THEN SignedOut ELSE store
  /\ awaiting' = None /\ leaving' = FALSE
  /\ request' = Put(Requests, "idle", 0)
  /\ UNCHANGED <<serverVars, task, calls, troubled, ended>>
-------------------------------------------------------------------------------
\* request() sends what the page asks for, with the token of this moment.
Send(r) ==
  /\ request[r].at = "idle" /\ store.token # 0 /\ ~leaving
  /\ request' = Put({r}, "sent", store.token)
  /\ UNCHANGED <<serverVars, task, store, awaiting, leaving, historyVars>>

\* The server answers; a second 401 is an error like others.
Authenticate(r) ==
  /\ request[r].at \in {"sent", "resent"}
  /\ request' = IF ~Believed(request[r].token) /\ request[r].at = "sent"
                THEN Put({r}, "unauthorized", 0) ELSE Put({r}, "idle", 0)
  /\ UNCHANGED <<serverVars, task, store, awaiting, leaving, historyVars>>

\* The connection fails: fetch throws, and the request ends with an error.
LoseRequest(r) ==
  /\ request[r].at \in {"sent", "resent"}
  /\ request' = Put({r}, "idle", 0)
  /\ UNCHANGED <<serverVars, task, store, awaiting, leaving, historyVars>>

\* Mutant of AttemptTokenRefresh: every 401 starts a refresh of its own.
AttemptTokenRefresh_Own(r) ==
  /\ request[r].at = "unauthorized" /\ store.token # 0
  /\ \E h \in Handlers : Call(h, "find", store.token)
  /\ request' = Put({r}, "waiting", 0)
  /\ UNCHANGED <<serverVars, store, leaving, historyVars>>

\* On a 401, the request joins the refresh that is under way, or starts one.
AttemptTokenRefresh(r) ==
  /\ request[r].at = "unauthorized"
  /\ \/ awaiting # None /\ UNCHANGED <<task, awaiting>>
     \/ /\ awaiting = None /\ store.token # 0
        /\ \E h \in Handlers : Call(h, "find", store.token)
  /\ request' = Put({r}, "waiting", 0)
  /\ UNCHANGED <<serverVars, store, leaving, historyVars>>
\* With nothing to refresh with, the page goes to the login page.
NothingToRefresh(r) ==
  /\ request[r].at = "unauthorized" /\ awaiting = None /\ store.token = 0
  /\ request' = Put({r}, "idle", 0)
  /\ Logout /\ leaving' = TRUE
  /\ UNCHANGED <<serverVars, task, awaiting, historyVars>>

\* Mutant of Granted: one of the requests that wait is sent again.
Granted_One(h) ==
  /\ task[h].at = "granted"
  /\ task' = [task EXCEPT ![h] = Idle]
  /\ store' = [token |-> task[h].on, known |-> task[h].login \/ store.known]
  /\ IF Waiting = {} THEN UNCHANGED request
     ELSE \E r \in Waiting : request' = Put({r}, "resent", task[h].on)
  /\ awaiting' = None
  /\ UNCHANGED <<serverVars, leaving, historyVars>>

\* The page receives new tokens (authState.login, authState.refresh), and
\* everything that waited is sent once more.
Granted(h) ==
  /\ h = awaiting /\ task[h].at = "granted"
  /\ task' = [task EXCEPT ![h] = Idle]
  /\ store' = [token |-> task[h].on, known |-> task[h].login \/ store.known]
  /\ request' = Put(Waiting, "resent", task[h].on)
  /\ awaiting' = None
  /\ UNCHANGED <<serverVars, leaving, historyVars>>
\* A refresh that fails in any way, and a login that is answered with 401, end
\* at the login page; other failures of a login are shown.
Refused(h) ==
  /\ h = awaiting /\ task[h].at \in {"refused", "failed"}
  /\ task' = [task EXCEPT ![h] = Idle]
  /\ request' = Put(Waiting, "idle", 0)
  /\ awaiting' = None
  /\ IF task[h].login /\ task[h].at = "failed" THEN UNCHANGED <<store, leaving>>
     ELSE Logout /\ leaving' = TRUE
  /\ UNCHANGED <<serverVars, historyVars>>
\* The page that asked is gone.
Unheard(h) ==
  /\ h # awaiting /\ task[h].at \in {"granted", "refused", "failed"}
  /\ task' = [task EXCEPT ![h] = Idle]
  /\ UNCHANGED <<serverVars, pageVars, historyVars>>
-------------------------------------------------------------------------------
\* POST /auth/register: the name is free...
CheckName(h) ==
  /\ task[h].at = "checkName"
  /\ IF account = "absent" THEN Step(h, "createUser") ELSE End(h, "failed")
  /\ UNCHANGED <<serverVars, pageVars, historyVars>>
\* ... and is unique in the table, too...
CreateUser(h) ==
  /\ task[h].at = "createUser"
  /\ IF account = "absent"
     THEN account' = "active" /\ Step(h, "giveRole")
     ELSE UNCHANGED account /\ End(h, "failed")
  /\ UNCHANGED <<roles, issued, pageVars, historyVars>>
\* ... and the user gets the default role. The page goes on to log in.
GiveRole(h) ==
  /\ task[h].at = "giveRole"
  /\ roles' = roles + 1
  /\ Step(h, "login")
  /\ UNCHANGED <<account, issued, pageVars, historyVars>>

\* POST /auth/login: no such user or a wrong password, a user who is not
\* active, or tokens.
CheckUser(h) ==
  /\ task[h].at = "login"
  /\ \/ End(h, "refused")
     \/ account = "inactive" /\ End(h, "failed")
     \/ account = "active" /\ Step(h, "readRoles")
  /\ UNCHANGED <<serverVars, pageVars, historyVars>>

\* Mutant of FindToken: revoked rows are found, too.
FindToken_Revoked(h) ==
  /\ task[h].at = "find"
  /\ IF issued[task[h].on].age < 2 THEN Step(h, "revoke") ELSE End(h, "refused")
  /\ UNCHANGED <<serverVars, pageVars, historyVars>>

\* POST /auth/refresh: the row is there, neither revoked nor expired...
FindToken(h) ==
  /\ task[h].at = "find"
  /\ IF Live(task[h].on) THEN Step(h, "revoke") ELSE End(h, "refused")
  /\ UNCHANGED <<serverVars, pageVars, historyVars>>
\* ... is revoked by its id...
RevokeToken(h) ==
  /\ task[h].at = "revoke"
  /\ issued' = [issued EXCEPT ![task[h].on].revoked = TRUE]
  /\ Step(h, "readRoles")
  /\ UNCHANGED <<account, roles, pageVars, historyVars>>
\* ... and the user is read, whatever the status, with roles and permissions.
ReadRoles(h) ==
  /\ task[h].at = "readRoles"
  /\ task' = [task EXCEPT ![h].at = "insert", ![h].roles = roles]
  /\ UNCHANGED <<serverVars, pageVars, historyVars>>
\* generateTokens, generateTokensWithRotation
InsertToken(h) ==
  /\ task[h].at = "insert"
  /\ issued' = Append(issued, [parent |-> task[h].on, revoked |-> FALSE,
                               age |-> 0, roles |-> task[h].roles])
  /\ task' = [task EXCEPT ![h] = [@ EXCEPT !.at = "granted", !.roles = 0,
                                           !.on = Len(issued) + 1]]
  /\ UNCHANGED <<account, roles, pageVars, historyVars>>

\* A call throws, or the server dies, or the answer is lost. Nothing is rolled
\* back.
Fail(h) ==
  /\ task[h].at \notin {"idle", "failed"}
  /\ End(h, "failed")
  /\ troubled' = TRUE
  /\ UNCHANGED <<serverVars, pageVars, calls, abandoned, ended>>
-------------------------------------------------------------------------------
\* POST /auth/logout, by anyone with a token of the user that is believed.
LogoutEverywhere ==
  /\ \E t \in Tokens : Believed(t)
  /\ issued' = [t \in Tokens |-> [issued[t] EXCEPT !.revoked = TRUE]]
  /\ ended' = [rows |-> Tokens,
               found |-> {task[h].on : h \in {g \in Handlers :
                 task[g].at \in {"revoke", "readRoles", "insert"}}}]
  /\ troubled' = TRUE
  /\ UNCHANGED <<account, roles, task, pageVars, calls, abandoned>>

\* PATCH /users/:id/status
UpdateStatus ==
  /\ account # "absent"
  /\ account' = IF account = "active" THEN "inactive" ELSE "active"
  /\ UNCHANGED <<roles, issued, task, pageVars, historyVars>>
\* POST and DELETE /admin/users/:id/roles
ChangeRoles ==
  /\ account # "absent" /\ roles < MaxRoles
  /\ roles' = roles + 1
  /\ UNCHANGED <<account, issued, task, pageVars, historyVars>>

\* Time passes: the access token expires, and some days later the refresh token.
GrowOld(t) ==
  /\ t <= MaxAged /\ issued[t].age < 2
  /\ issued' = [issued EXCEPT ![t].age = @ + 1]
  /\ troubled' = (troubled \/ issued[t].age = 1)
  /\ UNCHANGED <<account, roles, task, pageVars, calls, abandoned, ended>>

Serve(h) ==
  \/ CheckName(h) \/ CreateUser(h) \/ GiveRole(h) \/ CheckUser(h)
  \/ FindToken(h) \/ RevokeToken(h) \/ ReadRoles(h) \/ InsertToken(h)
Hear(h) == Granted(h) \/ Refused(h) \/ Unheard(h)
Answer(r) == Authenticate(r) \/ AttemptTokenRefresh(r) \/ NothingToRefresh(r)

Next ==
  \/ PressLogout \/ Load \/ LogoutEverywhere \/ UpdateStatus \/ ChangeRoles
  \/ \E t \in Tokens : GrowOld(t)
  \/ \E h \in Handlers :
       SubmitLogin(h) \/ SubmitRegistration(h) \/ Serve(h) \/ Hear(h) \/ Fail(h)
  \/ \E r \in Requests : Send(r) \/ Answer(r) \/ LoseRequest(r)

\* The server serves what it was sent, fetch ends, with an answer or an error,
\* and the page's code goes on. Nobody has to press anything, time need not
\* pass, and nothing has to fail.
Fairness ==
  /\ \A h \in Handlers : WF_vars(Serve(h)) /\ WF_vars(Hear(h))
  /\ \A r \in Requests : WF_vars(Answer(r))
  /\ WF_vars(leaving /\ Load)

Spec == Init /\ [][Next]_vars /\ Fairness
-------------------------------------------------------------------------------
\* Every variable stays within its type.
TypeOK ==
  /\ account \in {"absent", "active", "inactive"}
  /\ roles \in Nat
  /\ issued \in Seq([parent : Nat, revoked : BOOLEAN, age : 0..2, roles : Nat])
  /\ task \in [Handlers -> [at : {"idle", "checkName", "createUser", "giveRole",
       "login", "find", "revoke", "readRoles", "insert", "granted", "refused",
       "failed"}, on : 0..Len(issued), roles : Nat, login : BOOLEAN]]
  /\ store \in [token : 0..Len(issued), known : BOOLEAN]
  /\ awaiting \in Handlers \cup {None}
  /\ leaving \in BOOLEAN
  /\ request \in [Requests -> [at : {"idle", "sent", "unauthorized", "waiting",
                                     "resent"}, token : 0..Len(issued)]]

\* However many requests of a page meet an expired access token at once, the
\* refresh token is exchanged once: only a page that was reloaded while it
\* waited may present it again in time. So the page is sent to the login page
\* for a cause, an expired or revoked session or a failure, not because its own
\* requests compete for the token. And a refresh never brings back roles older
\* than those it replaces.
RotatedOnce ==
  /\ TypeOK
  /\ \A s, t \in Tokens : issued[s].parent = issued[t].parent =>
       s = t \/ issued[s].parent \in abandoned \cup {0}
  /\ awaiting # None /\ task[awaiting].at \in {"refused", "failed"} /\ store.token # 0 =>
       troubled \/ store.token \in abandoned
  /\ \A t \in Tokens : issued[t].parent # 0 =>
       issued[t].roles >= issued[issued[t].parent].roles

\* After /auth/logout none of the tokens there were is live, and none is
\* exchanged but by a refresh that had found it before.
LogoutEndsSessions ==
  /\ \A t \in ended.rows : issued[t].revoked
  /\ \A t \in Tokens \ ended.rows :
       issued[t].parent \in ended.rows => issued[t].parent \in ended.found

\* Every request of the page ends, with an answer or at the login page, even
\* when it has to wait for a refresh that fails, and so does every login.
RequestsEnd ==
  /\ \A r \in Requests : request[r].at # "idle" ~> request[r].at = "idle"
  /\ awaiting # None ~> awaiting = None
-------------------------------------------------------------------------------
\* What the invariants rest on. A handler of /auth/refresh holds the token that
\* it was called with until it has inserted the next.
Holds(h, t) ==
  task[h].on = t /\ task[h].at \in {"find", "revoke", "readRoles", "insert"}
Exchanged(t) == \E s \in Tokens : issued[s].parent = t

\* The tokens are a forest, what was noted of them is about tokens, and who signs
\* in has none, but who refreshes has one.
HistoryOK ==
  /\ troubled \in BOOLEAN
  /\ ended.rows \subseteq Tokens
  /\ \A t \in Tokens : issued[t].parent < t
  /\ \A t \in Tokens : issued[t].age = 2 => troubled
  /\ \A h \in Handlers :
       task[h].at \in {"checkName", "createUser", "giveRole", "login"} => task[h].on = 0
  /\ \A h \in Handlers : task[h].at \in {"find", "revoke"} => task[h].on # 0

\* A token has one handler or one successor, and was revoked on the way from
\* the one to the other.
HeldOnce ==
  \A t \in Tokens \ abandoned :
    /\ \A g, h \in Handlers : Holds(g, t) /\ Holds(h, t) => g = h
    /\ \A r, s \in Tokens : issued[r].parent = t /\ issued[s].parent = t => r = s
    /\ \A h \in Handlers : Holds(h, t) => ~Exchanged(t)
    /\ issued[t].revoked =>
         \/ troubled \/ Exchanged(t)
         \/ \E h \in Handlers : Holds(h, t) /\ task[h].at \in {"readRoles", "insert"}

\* The page's own token is in nobody's hands but those of the call it waits for.
PageHasToken ==
  store.token # 0 /\ store.token \notin abandoned =>
    /\ \A h \in Handlers : Holds(h, store.token) => h = awaiting
    /\ Exchanged(store.token) =>
         awaiting # None /\ task[awaiting].at \in {"granted", "failed"}

\* A page that has a token waits for its exchange, and is told of a cause when
\* it is refused.
PageWaits ==
  awaiting # None /\ store.token # 0 =>
    /\ ~task[awaiting].login
    /\ Holds(awaiting, store.token) \/ task[awaiting].at \in {"granted", "refused", "failed"}
    /\ task[awaiting].at \in {"refused", "failed"} =>
         troubled \/ store.token \in abandoned

\* Tokens that are on their way to the page have not been used by anyone.
GrantedIsNew ==
  \A h \in Handlers : task[h].at = "granted" =>
    /\ task[h].on \in Tokens /\ task[h].on # store.token
    /\ ~Exchanged(task[h].on)
    /\ \A g \in Handlers : ~Holds(g, task[h].on)
    /\ \A g \in Handlers : task[g].at = "granted" /\ task[g].on = task[h].on => g = h

\* Roles are read after the token they replace was given out.
RolesAdvance ==
  /\ \A t \in Tokens : issued[t].roles <= roles
  /\ \A t \in Tokens : issued[t].parent # 0 =>
       issued[t].roles >= issued[issued[t].parent].roles
  /\ \A h \in Handlers : task[h].at = "insert" =>
       /\ task[h].roles <= roles
       /\ task[h].on # 0 => task[h].roles >= issued[task[h].on].roles

\* No refresh is past its check for a token that a logout revoked, unless it was
\* by then.
FoundInTime ==
  /\ LogoutEndsSessions
  /\ \A h \in Handlers :
       task[h].at \in {"revoke", "readRoles", "insert"} /\ task[h].on \in ended.rows =>
         task[h].on \in ended.found

\* The inductive invariant of the proofs.
IInv ==
  /\ TypeOK /\ HistoryOK /\ HeldOnce /\ PageHasToken /\ PageWaits
  /\ GrantedIsNew /\ RolesAdvance /\ FoundInTime
===============================================================================
