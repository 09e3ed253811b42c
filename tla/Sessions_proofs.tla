---------------------------- MODULE Sessions_proofs ----------------------------
(***************************************************************************)
(* Proofs about Sessions, for any number of calls of /auth and of requests *)
(* of the page: however they, reloads of the page, failures and logouts    *)
(* interleave, a refresh token has one successor at most, and none after   *)
(* it was revoked.                                                         *)
(***************************************************************************)
EXTENDS Sessions, SequenceTheorems, TLAPS

Row == [parent : Nat, revoked : BOOLEAN, age : 0..2, roles : Nat]
Places == {"idle", "checkName", "createUser", "giveRole", "login", "find",
           "revoke", "readRoles", "insert", "granted", "refused", "failed"}
\* The calls of /auth there may be when n tokens were given out.
Calls(n) == [at : Places, on : 0..n, roles : Nat, login : BOOLEAN]
Holding == {"find", "revoke", "readRoles", "insert"}
Past == {"readRoles", "insert"}

-------------------------------------------------------------------------------
(***************************************************************************)
(* What the operators do to the task of a handler, and to the requests.    *)
(***************************************************************************)

LEMMA IdleFacts ==
  ASSUME NEW n \in Nat
  PROVE  /\ Idle \in Calls(n)
         /\ Idle.at = "idle" /\ Idle.on = 0 /\ Idle.roles = 0 /\ Idle.login = FALSE
BY DEF Idle, Calls, Places

\* Only the task of h has changed.
OnlyTask(h) ==
  /\ task' \in [Handlers -> Calls(Len(issued))]
  /\ \A g \in Handlers \ {h} : task'[g] = task[g]

LEMMA TaskType ==
  ASSUME TypeOK
  PROVE  /\ Len(issued) \in Nat
         /\ task \in [Handlers -> Calls(Len(issued))]
         /\ issued \in Seq(Row)
         /\ \A t \in Tokens : issued[t] \in Row
BY LenProperties, ElementOfSeq DEF TypeOK, Calls, Places, Row, Tokens

LEMMA StepEffect ==
  ASSUME TypeOK, NEW h \in Handlers, NEW p \in Places, Step(h, p)
  PROVE  /\ OnlyTask(h)
         /\ task'[h].at = p /\ task'[h].on = task[h].on
         /\ task'[h].roles = task[h].roles /\ task'[h].login = task[h].login
BY TaskType DEF Step, OnlyTask, Calls

LEMMA EndEffect ==
  ASSUME TypeOK, NEW h \in Handlers, NEW p \in Places, End(h, p)
  PROVE  /\ OnlyTask(h)
         /\ task'[h].at = p /\ task'[h].on = 0
         /\ task'[h].roles = 0 /\ task'[h].login = task[h].login
<1>1. PICK n \in Nat : n = Len(issued)
  BY TaskType
<1>2. task \in [Handlers -> Calls(n)]
  BY <1>1, TaskType
<1>3. PICK l \in BOOLEAN : l = task[h].login
  BY <1>2 DEF Calls
<1>4. PICK c : c = [Idle EXCEPT !.at = p, !.login = l]
  OBVIOUS
<1>5. c \in Calls(n) /\ c.at = p /\ c.on = 0 /\ c.roles = 0 /\ c.login = l
  BY <1>4, IdleFacts DEF Calls
<1>6. task' = [task EXCEPT ![h] = c]
  BY <1>3, <1>4 DEF End
<1> QED BY <1>1, <1>2, <1>3, <1>5, <1>6 DEF OnlyTask

LEMMA CallEffect ==
  ASSUME TypeOK, NEW h \in Handlers, NEW p \in Places, NEW k \in 0..Len(issued),
         Call(h, p, k)
  PROVE  /\ OnlyTask(h) /\ task[h] = Idle /\ awaiting' = h
         /\ task'[h].at = p /\ task'[h].on = k
         /\ task'[h].roles = 0 /\ task'[h].login = (k = 0)
<1>1. PICK n \in Nat : n = Len(issued)
  BY TaskType
<1>2. task \in [Handlers -> Calls(n)]
  BY <1>1, TaskType
<1>3. PICK l \in BOOLEAN : l = (k = 0)
  OBVIOUS
<1>4. PICK c : c = [Idle EXCEPT !.at = p, !.on = k, !.login = l]
  OBVIOUS
<1>5. k \in 0..n
  BY <1>1
<1>6. c \in Calls(n) /\ c.at = p /\ c.on = k /\ c.roles = 0 /\ c.login = l
  BY <1>4, <1>5, IdleFacts DEF Calls
<1>7. task' = [task EXCEPT ![h] = c]
  BY <1>3, <1>4 DEF Call
<1>8. task[h] = Idle /\ awaiting' = h
  BY DEF Call
<1> QED BY <1>1, <1>2, <1>3, <1>6, <1>7, <1>8 DEF OnlyTask

LEMMA RestEffect ==
  ASSUME TypeOK, NEW h \in Handlers, task' = [task EXCEPT ![h] = Idle]
  PROVE  OnlyTask(h) /\ task'[h].at = "idle" /\ task'[h].on = 0 /\ ~task'[h].login
BY TaskType, IdleFacts DEF OnlyTask

RequestType(n) ==
  [at : {"idle", "sent", "unauthorized", "waiting", "resent"}, token : 0..n]

LEMMA PutEffect ==
  ASSUME TypeOK, NEW R, NEW p \in {"idle", "sent", "unauthorized", "waiting", "resent"},
         NEW k \in 0..Len(issued), request' = Put(R, p, k)
  PROVE  request' \in [Requests -> RequestType(Len(issued))]
BY DEF TypeOK, Put, RequestType

LEMMA SignedOutFacts ==
  SignedOut.token = 0 /\ SignedOut.known = FALSE
BY DEF SignedOut

LEMMA TypeStep ==
  ASSUME TypeOK, account' \in {"absent", "active", "inactive"}, roles' \in Nat,
         issued' = issued, task' \in [Handlers -> Calls(Len(issued))],
         store' \in [token : 0..Len(issued), known : BOOLEAN],
         awaiting' \in Handlers \cup {None}, leaving' \in BOOLEAN,
         request' \in [Requests -> RequestType(Len(issued))]
  PROVE  TypeOK'
BY DEF TypeOK, Calls, Places, RequestType

-------------------------------------------------------------------------------
(***************************************************************************)
(* What the steps have in common.                                          *)
(***************************************************************************)

\* The page goes on, or the user changes: no token and no call of /auth does,
\* and the page keeps its token or drops it.
LEMMA PageStep ==
  ASSUME IInv, TypeOK', UNCHANGED <<issued, task, awaiting, abandoned, troubled, ended>>,
         roles' >= roles, store'.token \in {store.token, 0}
  PROVE  IInv'
<1>1. HistoryOK' /\ HeldOnce' /\ FoundInTime'
  BY DEF IInv, HistoryOK, HeldOnce, FoundInTime, LogoutEndsSessions, Holds, Exchanged, Tokens
<1>2. PageHasToken' /\ PageWaits' /\ GrantedIsNew'
  BY DEF IInv, PageHasToken, PageWaits, GrantedIsNew, Holds, Exchanged, Tokens
<1>3. RolesAdvance'
  <2>1. \A t \in Tokens : issued[t].roles \in Nat
    BY TaskType DEF IInv, Row
  <2>2. \A h \in Handlers : task[h].roles \in Nat
    BY TaskType DEF IInv, Calls
  <2>3. roles \in Nat /\ roles' \in Nat
    BY DEF IInv, TypeOK
  <2> QED BY <2>1, <2>2, <2>3 DEF IInv, RolesAdvance, Tokens
<1> QED BY <1>1, <1>2, <1>3 DEF IInv

\* A call of /auth takes a step that gives out no token and revokes none. It
\* goes on with what it holds or ends, and if it ends without having revoked
\* what the page waits for, there is a cause.
LEMMA TaskStep ==
  ASSUME IInv, TypeOK', UNCHANGED <<issued, store, awaiting, abandoned, ended>>,
         roles' >= roles, NEW h \in Handlers, OnlyTask(h),
         troubled' \in BOOLEAN, troubled => troubled',
         task'[h].at # "granted",
         task'[h].at \in {"checkName", "createUser", "giveRole", "login"} => task'[h].on = 0,
         task'[h].at \in {"find", "revoke"} => task'[h].on # 0,
         task'[h].on # 0 /\ task'[h].at \in Holding =>
           task[h].on = task'[h].on /\ task[h].at \in Holding,
         task[h].on # 0 /\ task[h].at \in Past =>
           troubled' \/ (task'[h].on = task[h].on /\ task'[h].at \in Past),
         h = awaiting /\ store.token # 0 =>
           /\ task'[h].login = task[h].login
           /\ task[h].at \in {"granted", "failed"} => task'[h].at = "failed"
           /\ \/ Holds(h, store.token)'
              \/ /\ task'[h].at \in {"refused", "failed"}
                 /\ troubled' \/ store.token \in abandoned,
         task'[h].at = "insert" =>
           /\ task'[h].roles <= roles'
           /\ task'[h].on # 0 => task'[h].roles >= issued[task'[h].on].roles,
         task'[h].at \in {"revoke", "readRoles", "insert"} /\ task'[h].on \in ended.rows =>
           task'[h].on \in ended.found
  PROVE  IInv'
<1>1. \A g \in Handlers : \A t : t # 0 /\ Holds(g, t)' => Holds(g, t)
  BY DEF OnlyTask, Holds, Holding
<1>2. \A t : Exchanged(t)' <=> Exchanged(t)
  BY DEF Exchanged, Tokens
<1>3. Tokens' = Tokens /\ \A t \in Tokens : t # 0
  BY TaskType DEF IInv, Tokens
<1>4. HistoryOK'
  BY DEF IInv, HistoryOK, Tokens, OnlyTask
<1>5. HeldOnce'
  <2> SUFFICES ASSUME NEW t \in Tokens, t \notin abandoned
               PROVE  /\ \A g, k \in Handlers : Holds(g, t)' /\ Holds(k, t)' => g = k
                      /\ \A r, s \in Tokens : issued[r].parent = t /\ issued[s].parent = t => r = s
                      /\ \A g \in Handlers : Holds(g, t)' => ~Exchanged(t)
                      /\ issued[t].revoked =>
                           \/ troubled' \/ Exchanged(t)
                           \/ \E g \in Handlers : Holds(g, t)' /\ task'[g].at \in Past
    BY <1>2, <1>3 DEF HeldOnce, Past
  <2>1. ASSUME issued[t].revoked, ~troubled', ~Exchanged(t)
        PROVE  \E g \in Handlers : Holds(g, t)' /\ task'[g].at \in Past
    <3>1. PICK g \in Handlers : Holds(g, t) /\ task[g].at \in Past
      BY <2>1 DEF IInv, HeldOnce, Past
    <3>2. t # 0
      BY <1>3
    <3> QED BY <2>1, <3>1, <3>2 DEF OnlyTask, Holds, Past
  <2> QED BY <1>1, <1>3, <2>1 DEF IInv, HeldOnce
<1>6. PageHasToken'
  <2> SUFFICES ASSUME store.token # 0, store.token \notin abandoned
               PROVE  /\ \A g \in Handlers : Holds(g, store.token)' => g = awaiting
                      /\ Exchanged(store.token) =>
                           awaiting # None /\ task'[awaiting].at \in {"granted", "failed"}
    BY <1>2 DEF PageHasToken, Holds
  <2>1. \A g \in Handlers : Holds(g, store.token)' => g = awaiting
    BY <1>1 DEF IInv, PageHasToken, Holds
  <2>2. ASSUME Exchanged(store.token)
        PROVE  awaiting # None /\ task'[awaiting].at \in {"granted", "failed"}
    <3>1. awaiting # None /\ task[awaiting].at \in {"granted", "failed"}
      BY <2>2 DEF IInv, PageHasToken
    <3>2. awaiting \in Handlers
      BY <3>1 DEF IInv, TypeOK
    <3> QED BY <3>1, <3>2 DEF OnlyTask
  <2> QED BY <2>1, <2>2
<1>7. PageWaits'
  <2> SUFFICES ASSUME awaiting # None, store.token # 0
               PROVE  /\ ~task'[awaiting].login
                      /\ \/ Holds(awaiting, store.token)'
                         \/ task'[awaiting].at \in {"granted", "refused", "failed"}
                      /\ task'[awaiting].at \in {"refused", "failed"} =>
                           troubled' \/ store.token \in abandoned
    BY DEF PageWaits, Holds
  <2>1. awaiting \in Handlers
    BY DEF IInv, TypeOK
  <2>2. /\ ~task[awaiting].login
        /\ \/ Holds(awaiting, store.token)
           \/ task[awaiting].at \in {"granted", "refused", "failed"}
        /\ task[awaiting].at \in {"refused", "failed"} =>
             troubled \/ store.token \in abandoned
    BY DEF IInv, PageWaits
  <2>3. CASE awaiting = h
    BY <2>1, <2>2, <2>3 DEF Holds
  <2>4. CASE awaiting # h
    <3>1. task'[awaiting] = task[awaiting]
      BY <2>1, <2>4 DEF OnlyTask
    <3> QED BY <2>2, <3>1 DEF Holds
  <2> QED BY <2>3, <2>4
<1>8. GrantedIsNew'
  <2> SUFFICES ASSUME NEW g \in Handlers, task'[g].at = "granted"
               PROVE  /\ task'[g].on \in Tokens /\ task'[g].on # store.token
                      /\ ~Exchanged(task'[g].on)
                      /\ \A k \in Handlers : ~(task'[k].on = task'[g].on /\ task'[k].at \in Holding)
                      /\ \A k \in Handlers :
                           task'[k].at = "granted" /\ task'[k].on = task'[g].on => k = g
    BY <1>3 DEF GrantedIsNew, Holds, Holding, Exchanged
  <2>1. g # h /\ task'[g] = task[g]
    BY DEF OnlyTask
  <2>2. /\ task[g].on \in Tokens /\ task[g].on # store.token
        /\ ~Exchanged(task[g].on)
        /\ \A k \in Handlers : ~Holds(k, task[g].on)
        /\ \A k \in Handlers :
             task[k].at = "granted" /\ task[k].on = task[g].on => k = g
    BY <2>1 DEF IInv, GrantedIsNew
  <2>3. \A k \in Handlers : ~(task'[k].on = task'[g].on /\ task'[k].at \in Holding)
    BY <1>1, <1>3, <2>1, <2>2 DEF Holds, Holding
  <2>4. \A k \in Handlers :
          task'[k].at = "granted" /\ task'[k].on = task'[g].on => k = g
    BY <2>1, <2>2 DEF OnlyTask
  <2> QED BY <2>1, <2>2, <2>3, <2>4
<1>9. RolesAdvance'
  <2>1. \A t \in Tokens : issued[t].roles \in Nat
    BY TaskType DEF IInv, Row
  <2>2. \A g \in Handlers : task[g].roles \in Nat
    BY TaskType DEF IInv, Calls
  <2>3. roles \in Nat /\ roles' \in Nat
    BY DEF IInv, TypeOK
  <2>4. \A t \in Tokens : issued[t].roles <= roles'
    BY <2>1, <2>3 DEF IInv, RolesAdvance
  <2>5. ASSUME NEW g \in Handlers, task'[g].at = "insert"
        PROVE  /\ task'[g].roles <= roles'
               /\ task'[g].on # 0 => task'[g].roles >= issued[task'[g].on].roles
    <3>1. CASE g = h
      BY <2>5, <3>1
    <3>2. CASE g # h
      <4>1. task'[g] = task[g]
        BY <3>2 DEF OnlyTask
      <4> QED BY <2>2, <2>3, <2>5, <4>1 DEF IInv, RolesAdvance
    <3> QED BY <3>1, <3>2
  <2> QED BY <1>3, <2>4, <2>5 DEF IInv, RolesAdvance
<1>10. FoundInTime'
  BY <1>3 DEF IInv, FoundInTime, LogoutEndsSessions, OnlyTask
<1> QED BY <1>4, <1>5, <1>6, <1>7, <1>8, <1>9, <1>10 DEF IInv

\* The page calls /auth, with the token it has, or to sign in.
LEMMA CallStep ==
  ASSUME IInv, TypeOK', UNCHANGED <<roles, issued, store, abandoned, troubled, ended>>,
         awaiting = None, NEW h \in Handlers, task[h].at = "idle", OnlyTask(h),
         awaiting' = h,
         task'[h].on = store.token, task'[h].login = (store.token = 0),
         task'[h].at \in {"login", "checkName", "find"},
         task'[h].at = "find" <=> store.token # 0
  PROVE  IInv'
<1>1. Tokens' = Tokens /\ \A t \in Tokens : t # 0
  BY TaskType DEF IInv, Tokens
<1>2. \A g \in Handlers : g # awaiting
  BY SessionsAssumption
<1>3. store.token # 0 /\ store.token \notin abandoned =>
        /\ ~Exchanged(store.token)
        /\ \A g \in Handlers : ~Holds(g, store.token)
  BY <1>2 DEF IInv, PageHasToken
<1>4. \A t : Exchanged(t)' <=> Exchanged(t)
  BY DEF Exchanged, Tokens
<1>5. /\ \A g \in Handlers \ {h} : \A t : Holds(g, t)' <=> Holds(g, t)
      /\ \A t \in Tokens : Holds(h, t)' => t = store.token
  BY DEF OnlyTask, Holds
<1>6. HistoryOK'
  BY DEF IInv, HistoryOK, Tokens, OnlyTask
<1>7. HeldOnce'
  <2> SUFFICES ASSUME NEW t \in Tokens, t \notin abandoned
               PROVE  /\ \A g, k \in Handlers : Holds(g, t)' /\ Holds(k, t)' => g = k
                      /\ \A r, s \in Tokens : issued[r].parent = t /\ issued[s].parent = t => r = s
                      /\ \A g \in Handlers : Holds(g, t)' => ~Exchanged(t)
                      /\ issued[t].revoked =>
                           \/ troubled \/ Exchanged(t)
                           \/ \E g \in Handlers : Holds(g, t)' /\ task'[g].at \in Past
    BY <1>1, <1>4 DEF HeldOnce, Past
  <2>1. ASSUME issued[t].revoked, ~troubled, ~Exchanged(t)
        PROVE  \E g \in Handlers : Holds(g, t)' /\ task'[g].at \in Past
    <3>1. PICK g \in Handlers : Holds(g, t) /\ task[g].at \in Past
      BY <2>1 DEF IInv, HeldOnce, Past
    <3>2. g # h
      BY <3>1 DEF Past
    <3> QED BY <1>5, <3>1, <3>2 DEF OnlyTask
  <2>2. \A g, k \in Handlers : Holds(g, t)' /\ Holds(k, t)' => g = k
    BY <1>1, <1>3, <1>5 DEF IInv, HeldOnce
  <2>3. \A g \in Handlers : Holds(g, t)' => ~Exchanged(t)
    BY <1>1, <1>3, <1>5 DEF IInv, HeldOnce
  <2> QED BY <2>1, <2>2, <2>3 DEF IInv, HeldOnce
<1>8. PageHasToken'
  <2> SUFFICES ASSUME store.token # 0, store.token \notin abandoned
               PROVE  /\ \A g \in Handlers : Holds(g, store.token)' => g = h
                      /\ ~Exchanged(store.token)
    BY <1>4 DEF PageHasToken, Holds
  <2> QED BY <1>3, <1>5
<1>9. PageWaits'
  BY DEF PageWaits, Holds
<1>10. GrantedIsNew'
  <2> SUFFICES ASSUME NEW g \in Handlers, task'[g].at = "granted"
               PROVE  /\ task'[g].on \in Tokens /\ task'[g].on # store.token
                      /\ ~Exchanged(task'[g].on)
                      /\ \A k \in Handlers :
                           ~(task'[k].on = task'[g].on /\ task'[k].at \in Holding)
                      /\ \A k \in Handlers :
                           task'[k].at = "granted" /\ task'[k].on = task'[g].on => k = g
    BY <1>1 DEF GrantedIsNew, Holds, Holding, Exchanged
  <2>1. g # h /\ task'[g] = task[g]
    BY DEF OnlyTask
  <2>2. /\ task[g].on \in Tokens /\ task[g].on # store.token
        /\ ~Exchanged(task[g].on)
        /\ \A k \in Handlers : ~Holds(k, task[g].on)
        /\ \A k \in Handlers :
             task[k].at = "granted" /\ task[k].on = task[g].on => k = g
    BY <2>1 DEF IInv, GrantedIsNew
  <2> QED BY <2>1, <2>2 DEF OnlyTask, Holds, Holding
<1>11. RolesAdvance'
  BY <1>1 DEF IInv, RolesAdvance, OnlyTask
<1>12. FoundInTime'
  BY <1>1 DEF IInv, FoundInTime, LogoutEndsSessions, OnlyTask
<1> QED BY <1>6, <1>7, <1>8, <1>9, <1>10, <1>11, <1>12 DEF IInv
-------------------------------------------------------------------------------
(***************************************************************************)
(* The page.                                                               *)
(***************************************************************************)

LEMMA SignInStep ==
  ASSUME IInv, NEW h \in Handlers, NEW p \in {"login", "checkName"}, SignIn(h, p)
  PROVE  IInv'
<1>1. /\ UNCHANGED <<serverVars, store, leaving, request, abandoned, troubled, ended>>
      /\ store.token = 0 /\ awaiting = None /\ Call(h, p, 0)
  BY DEF SignIn
<1>2. 0 \in 0..Len(issued) /\ p \in Places /\ TypeOK
  BY TaskType DEF IInv, Places
<1>3. /\ OnlyTask(h) /\ task[h] = Idle /\ awaiting' = h
      /\ task'[h].at = p /\ task'[h].on = 0 /\ task'[h].login = TRUE
  BY <1>1, <1>2, CallEffect
<1>4. TypeOK'
  BY <1>1, <1>2, <1>3, TypeStep DEF OnlyTask, TypeOK, RequestType, serverVars
<1>5. task[h].at = "idle"
  BY <1>2, <1>3, TaskType, IdleFacts
<1> QED BY <1>1, <1>3, <1>4, <1>5, CallStep DEF serverVars

LEMMA AttemptTokenRefreshStep ==
  ASSUME IInv, NEW r \in Requests, AttemptTokenRefresh(r)
  PROVE  IInv'
<1>1. /\ UNCHANGED <<serverVars, store, leaving, historyVars>>
      /\ request' = Put({r}, "waiting", 0)
  BY DEF AttemptTokenRefresh
<1>2. TypeOK /\ 0 \in 0..Len(issued) /\ store.token \in 0..Len(issued)
      /\ "find" \in Places
  BY TaskType DEF IInv, TypeOK, Places
<1>3. request' \in [Requests -> RequestType(Len(issued))]
  BY <1>1, <1>2, PutEffect
<1>4. CASE UNCHANGED <<task, awaiting>>
  <2>1. TypeOK'
    BY <1>1, <1>2, <1>3, <1>4, TypeStep, TaskType DEF TypeOK, serverVars
  <2>2. roles' = roles /\ roles >= roles
    BY <1>1, <1>2 DEF serverVars, TypeOK
  <2> QED BY <1>1, <1>4, <2>1, <2>2, PageStep DEF serverVars, historyVars
<1>5. ASSUME awaiting = None, store.token # 0,
             NEW h \in Handlers, Call(h, "find", store.token)
      PROVE  IInv'
  <2>1. /\ OnlyTask(h) /\ task[h] = Idle /\ awaiting' = h
        /\ task'[h].at = "find" /\ task'[h].on = store.token
        /\ task'[h].login = (store.token = 0)
    BY <1>2, <1>5, CallEffect
  <2>2. TypeOK'
    BY <1>1, <1>2, <1>3, <2>1, TypeStep DEF OnlyTask, TypeOK, serverVars
  <2>3. task[h].at = "idle"
    BY <1>2, <2>1, TaskType, IdleFacts
  <2> QED BY <1>1, <1>5, <2>1, <2>2, <2>3, CallStep DEF serverVars, historyVars
<1> QED BY <1>4, <1>5 DEF AttemptTokenRefresh

LEMMA PressLogoutStep == ASSUME IInv, PressLogout PROVE IInv'
<1>1. /\ UNCHANGED <<serverVars, task, awaiting, request, historyVars>>
      /\ store' = SignedOut /\ leaving' = TRUE
  BY DEF PressLogout, Logout
<1>2. TypeOK /\ roles >= roles
  BY DEF IInv, TypeOK
<1>3. store' \in [token : 0..Len(issued), known : BOOLEAN]
  BY <1>1, <1>2, TaskType DEF SignedOut
<1>4. TypeOK'
  BY <1>1, <1>2, <1>3, TypeStep, TaskType DEF TypeOK, RequestType, serverVars
<1> QED
  BY <1>1, <1>2, <1>4, PageStep, SignedOutFacts DEF serverVars, historyVars

LEMMA NothingToRefreshStep ==
  ASSUME IInv, NEW r \in Requests, NothingToRefresh(r) PROVE IInv'
<1>1. /\ UNCHANGED <<serverVars, task, awaiting, historyVars>>
      /\ store' = SignedOut /\ leaving' = TRUE /\ request' = Put({r}, "idle", 0)
  BY DEF NothingToRefresh, Logout
<1>2. TypeOK /\ roles >= roles /\ 0 \in 0..Len(issued)
  BY TaskType DEF IInv, TypeOK
<1>3. store' \in [token : 0..Len(issued), known : BOOLEAN]
  BY <1>1, <1>2, TaskType DEF SignedOut
<1>4. request' \in [Requests -> RequestType(Len(issued))]
  BY <1>1, <1>2, PutEffect
<1>5. TypeOK'
  BY <1>1, <1>2, <1>3, <1>4, TypeStep, TaskType DEF TypeOK, serverVars
<1> QED
  BY <1>1, <1>2, <1>5, PageStep, SignedOutFacts DEF serverVars, historyVars

\* A request is sent, answered or lost.
LEMMA RequestStep ==
  ASSUME IInv, NEW r \in Requests, Send(r) \/ Authenticate(r) \/ LoseRequest(r)
  PROVE  IInv'
<1>1. /\ UNCHANGED <<serverVars, task, store, awaiting, leaving, historyVars>>
      /\ \/ request' = Put({r}, "sent", store.token)
         \/ request' = Put({r}, "unauthorized", 0)
         \/ request' = Put({r}, "idle", 0)
  BY DEF Send, Authenticate, LoseRequest
<1>2. TypeOK /\ roles >= roles /\ 0 \in 0..Len(issued) /\ store.token \in 0..Len(issued)
  BY TaskType DEF IInv, TypeOK
<1>3. request' \in [Requests -> RequestType(Len(issued))]
  BY <1>1, <1>2, PutEffect
<1>4. TypeOK'
  BY <1>1, <1>2, <1>3, TypeStep, TaskType DEF TypeOK, serverVars
<1> QED BY <1>1, <1>2, <1>4, PageStep DEF serverVars, historyVars

\* The page is loaded anew: what it waited for may be held by a handler still,
\* or be exchanged already.
LEMMA LoadStep == ASSUME IInv, Load PROVE IInv'
<1>1. /\ UNCHANGED <<serverVars, task, calls, troubled, ended>>
      /\ awaiting' = None /\ leaving' = FALSE
      /\ request' = Put(Requests, "idle", 0)
      /\ abandoned' = IF awaiting = None THEN abandoned
                      ELSE abandoned \cup ({store.token} \cap Tokens)
      /\ store' = IF store.token = 0 THEN SignedOut ELSE store
  BY DEF Load
<1>2. TypeOK /\ 0 \in 0..Len(issued) /\ store.token \in 0..Len(issued)
  BY TaskType DEF IInv, TypeOK
<1>3. store' \in [token : 0..Len(issued), known : BOOLEAN]
  BY <1>1, <1>2 DEF SignedOut, TypeOK
<1>4. request' \in [Requests -> RequestType(Len(issued))]
  BY <1>1, <1>2, PutEffect
<1>5. TypeOK'
  BY <1>1, <1>2, <1>3, <1>4, TypeStep, TaskType DEF TypeOK, serverVars
<1>6. store'.token = store.token
  BY <1>1, SignedOutFacts
<1>7. /\ issued' = issued /\ task' = task /\ Tokens' = Tokens /\ roles' = roles
      /\ troubled' = troubled /\ ended' = ended
      /\ abandoned \subseteq abandoned'
      /\ awaiting # None /\ store.token # 0 => store.token \in abandoned'
  BY <1>1, <1>2, TaskType DEF serverVars, Tokens
<1>8. HistoryOK' /\ RolesAdvance' /\ FoundInTime'
  BY <1>7 DEF IInv, HistoryOK, RolesAdvance, FoundInTime, LogoutEndsSessions
<1>9. HeldOnce'
  BY <1>7 DEF IInv, HeldOnce, Holds, Exchanged
<1>10. PageHasToken' /\ PageWaits'
  <2>1. PageWaits'
    BY <1>1 DEF PageWaits
  <2>2. ASSUME store.token # 0, store.token \notin abandoned'
        PROVE  (\A h \in Handlers : ~Holds(h, store.token)) /\ ~Exchanged(store.token)
    <3>1. awaiting = None /\ store.token \notin abandoned
      BY <1>7, <2>2
    <3> QED BY <2>2, <3>1, SessionsAssumption DEF IInv, PageHasToken
  <2> QED BY <1>6, <1>7, <2>1, <2>2 DEF PageHasToken, Holds, Exchanged
<1>11. GrantedIsNew'
  BY <1>6, <1>7 DEF IInv, GrantedIsNew, Holds, Exchanged
<1> QED BY <1>5, <1>8, <1>9, <1>10, <1>11 DEF IInv

\* The page receives tokens that nobody has used.
LEMMA GrantedStep ==
  ASSUME IInv, NEW h \in Handlers, Granted(h) PROVE IInv'
<1>1. /\ UNCHANGED <<serverVars, leaving, historyVars>>
      /\ h = awaiting /\ task[h].at = "granted"
      /\ task' = [task EXCEPT ![h] = Idle]
      /\ store' = [token |-> task[h].on, known |-> task[h].login \/ store.known]
      /\ request' = Put(Waiting, "resent", task[h].on)
      /\ awaiting' = None
  BY DEF Granted
<1>2. TypeOK /\ task[h].on \in 0..Len(issued) /\ task[h].login \in BOOLEAN
  BY TaskType DEF IInv, Calls
<1>3. OnlyTask(h) /\ task'[h].at = "idle" /\ task'[h].on = 0
  BY <1>1, <1>2, RestEffect
<1>4. store' \in [token : 0..Len(issued), known : BOOLEAN] /\ store'.token = task[h].on
  BY <1>1, <1>2 DEF TypeOK
<1>5. request' \in [Requests -> RequestType(Len(issued))]
  BY <1>1, <1>2, PutEffect
<1>6. TypeOK'
  BY <1>1, <1>2, <1>3, <1>4, <1>5, TypeStep DEF TypeOK, serverVars, OnlyTask
<1>7. /\ issued' = issued /\ Tokens' = Tokens /\ roles' = roles
      /\ troubled' = troubled /\ ended' = ended /\ abandoned' = abandoned
      /\ \A t \in Tokens : t # 0
  BY <1>1, <1>2, TaskType DEF serverVars, historyVars, Tokens
<1>8. \A g \in Handlers : \A t : Holds(g, t)' <=> Holds(g, t)
  BY <1>1, <1>3 DEF OnlyTask, Holds
<1>9. \A t : Exchanged(t)' <=> Exchanged(t)
  BY <1>7 DEF Exchanged
<1>10. HistoryOK'
  BY <1>3, <1>7 DEF IInv, HistoryOK, OnlyTask
<1>11. HeldOnce'
  <2> SUFFICES ASSUME NEW t \in Tokens, t \notin abandoned
               PROVE  /\ \A g, k \in Handlers : Holds(g, t)' /\ Holds(k, t)' => g = k
                      /\ \A r, s \in Tokens : issued[r].parent = t /\ issued[s].parent = t => r = s
                      /\ \A g \in Handlers : Holds(g, t)' => ~Exchanged(t)
                      /\ issued[t].revoked =>
                           \/ troubled \/ Exchanged(t)
                           \/ \E g \in Handlers : Holds(g, t)' /\ task'[g].at \in Past
    BY <1>7, <1>9 DEF HeldOnce, Past
  <2>1. ASSUME issued[t].revoked, ~troubled, ~Exchanged(t)
        PROVE  \E g \in Handlers : Holds(g, t)' /\ task'[g].at \in Past
    <3>1. PICK g \in Handlers : Holds(g, t) /\ task[g].at \in Past
      BY <2>1 DEF IInv, HeldOnce, Past
    <3>2. g # h
      BY <1>1, <3>1 DEF Past
    <3> QED BY <1>3, <1>8, <3>1, <3>2 DEF OnlyTask
  <2> QED BY <1>8, <2>1 DEF IInv, HeldOnce
<1>12. /\ \A g \in Handlers : ~Holds(g, task[h].on)
       /\ ~Exchanged(task[h].on)
       /\ \A g \in Handlers : task[g].at = "granted" /\ task[g].on = task[h].on => g = h
  BY <1>1 DEF IInv, GrantedIsNew
<1>13. PageHasToken'
  <2>1. PICK n : n = task[h].on
    OBVIOUS
  <2>2. store'.token = n /\ ~Exchanged(n)' /\ \A g \in Handlers : ~Holds(g, n)'
    BY <1>4, <1>8, <1>9, <1>12, <2>1
  <2> QED BY <2>2 DEF PageHasToken, Holds, Exchanged
<1>14. PageWaits'
  BY <1>1 DEF PageWaits
<1>15. GrantedIsNew'
  <2> SUFFICES ASSUME NEW g \in Handlers, task'[g].at = "granted"
               PROVE  /\ task'[g].on \in Tokens /\ task'[g].on # store'.token
                      /\ ~Exchanged(task'[g].on)
                      /\ \A k \in Handlers :
                           ~(task'[k].on = task'[g].on /\ task'[k].at \in Holding)
                      /\ \A k \in Handlers :
                           task'[k].at = "granted" /\ task'[k].on = task'[g].on => k = g
    BY <1>7 DEF GrantedIsNew, Holds, Holding, Exchanged
  <2>1. g # h /\ task'[g] = task[g]
    BY <1>3 DEF OnlyTask
  <2>2. /\ task[g].on \in Tokens /\ ~Exchanged(task[g].on)
        /\ \A k \in Handlers : ~Holds(k, task[g].on)
        /\ \A k \in Handlers :
             task[k].at = "granted" /\ task[k].on = task[g].on => k = g
    BY <2>1 DEF IInv, GrantedIsNew
  <2>3. task'[g].on # store'.token
    BY <1>4, <1>12, <2>1
  <2> QED BY <1>3, <2>1, <2>2, <2>3 DEF OnlyTask, Holds, Holding
<1>16. RolesAdvance' /\ FoundInTime'
  BY <1>3, <1>7 DEF IInv, RolesAdvance, FoundInTime, LogoutEndsSessions, OnlyTask
<1> QED BY <1>6, <1>10, <1>11, <1>13, <1>14, <1>15, <1>16 DEF IInv

\* The page is refused: it is left without tokens, if it had any.
LEMMA RefusedStep ==
  ASSUME IInv, NEW h \in Handlers, Refused(h) PROVE IInv'
<1>1. /\ UNCHANGED <<serverVars, historyVars>>
      /\ h = awaiting /\ task[h].at \in {"refused", "failed"}
      /\ task' = [task EXCEPT ![h] = Idle]
      /\ request' = Put(Waiting, "idle", 0)
      /\ awaiting' = None
      /\ IF task[h].login /\ task[h].at = "failed" THEN UNCHANGED <<store, leaving>>
         ELSE store' = SignedOut /\ leaving' = TRUE
  BY DEF Refused, Logout
<1>2. TypeOK /\ 0 \in 0..Len(issued)
  BY TaskType DEF IInv
<1>3. OnlyTask(h) /\ task'[h].at = "idle" /\ task'[h].on = 0
  BY <1>1, <1>2, RestEffect
<1>4. /\ store' \in [token : 0..Len(issued), known : BOOLEAN] /\ store'.token = 0
      /\ leaving' \in BOOLEAN
  <2>1. CASE task[h].login /\ task[h].at = "failed"
    <3>1. store.token = 0
      \* A page that has a token waits for its exchange, not for a login.
      BY <1>1, <2>1, SessionsAssumption DEF IInv, PageWaits
    <3> QED BY <1>1, <1>2, <2>1, <3>1 DEF TypeOK
  <2>2. CASE ~(task[h].login /\ task[h].at = "failed")
    <3>1. store' = SignedOut /\ leaving' = TRUE
      BY <1>1, <2>2
    <3> QED BY <1>2, <3>1, TaskType DEF SignedOut
  <2> QED BY <2>1, <2>2
<1>5. request' \in [Requests -> RequestType(Len(issued))]
  BY <1>1, <1>2, PutEffect
<1>6. TypeOK'
  BY <1>1, <1>2, <1>3, <1>4, <1>5, TypeStep DEF TypeOK, serverVars, OnlyTask
<1>7. /\ issued' = issued /\ Tokens' = Tokens /\ roles' = roles
      /\ troubled' = troubled /\ ended' = ended /\ abandoned' = abandoned
      /\ \A t \in Tokens : t # 0
  BY <1>1, <1>2, TaskType DEF serverVars, historyVars, Tokens
<1>8. \A g \in Handlers : \A t : Holds(g, t)' <=> Holds(g, t)
  BY <1>1, <1>3 DEF OnlyTask, Holds
<1>9. HistoryOK'
  BY <1>3, <1>7 DEF IInv, HistoryOK, OnlyTask
<1>10. HeldOnce'
  <2> SUFFICES ASSUME NEW t \in Tokens, t \notin abandoned
               PROVE  /\ \A g, k \in Handlers : Holds(g, t)' /\ Holds(k, t)' => g = k
                      /\ \A r, s \in Tokens : issued[r].parent = t /\ issued[s].parent = t => r = s
                      /\ \A g \in Handlers : Holds(g, t)' => ~Exchanged(t)
                      /\ issued[t].revoked =>
                           \/ troubled \/ Exchanged(t)
                           \/ \E g \in Handlers : Holds(g, t)' /\ task'[g].at \in Past
    BY <1>7 DEF HeldOnce, Past, Exchanged
  <2>1. ASSUME issued[t].revoked, ~troubled, ~Exchanged(t)
        PROVE  \E g \in Handlers : Holds(g, t)' /\ task'[g].at \in Past
    <3>1. PICK g \in Handlers : Holds(g, t) /\ task[g].at \in Past
      BY <2>1 DEF IInv, HeldOnce, Past
    <3>2. g # h
      BY <1>1, <3>1 DEF Past
    <3> QED BY <1>3, <1>8, <3>1, <3>2 DEF OnlyTask
  <2> QED BY <1>8, <2>1 DEF IInv, HeldOnce
<1>11. PageHasToken' /\ PageWaits'
  BY <1>1, <1>4 DEF PageHasToken, PageWaits
<1>12. GrantedIsNew'
  <2> SUFFICES ASSUME NEW g \in Handlers, task'[g].at = "granted"
               PROVE  /\ task'[g].on \in Tokens /\ task'[g].on # store'.token
                      /\ ~Exchanged(task'[g].on)
                      /\ \A k \in Handlers :
                           ~(task'[k].on = task'[g].on /\ task'[k].at \in Holding)
                      /\ \A k \in Handlers :
                           task'[k].at = "granted" /\ task'[k].on = task'[g].on => k = g
    BY <1>7 DEF GrantedIsNew, Holds, Holding, Exchanged
  <2>1. g # h /\ task'[g] = task[g]
    BY <1>3 DEF OnlyTask
  <2>2. /\ task[g].on \in Tokens /\ ~Exchanged(task[g].on)
        /\ \A k \in Handlers : ~Holds(k, task[g].on)
        /\ \A k \in Handlers :
             task[k].at = "granted" /\ task[k].on = task[g].on => k = g
    BY <2>1 DEF IInv, GrantedIsNew
  <2> QED BY <1>3, <1>4, <1>7, <2>1, <2>2 DEF OnlyTask, Holds, Holding
<1>13. RolesAdvance' /\ FoundInTime'
  BY <1>3, <1>7 DEF IInv, RolesAdvance, FoundInTime, LogoutEndsSessions, OnlyTask
<1> QED BY <1>6, <1>9, <1>10, <1>11, <1>12, <1>13 DEF IInv

\* A call of /auth goes on, and the page sees nothing of it.
LEMMA ServeType ==
  ASSUME TypeOK, NEW h \in Handlers, OnlyTask(h), UNCHANGED <<issued, pageVars>>,
         account' \in {"absent", "active", "inactive"}, roles' \in Nat
  PROVE  TypeOK'
BY TypeStep DEF TypeOK, OnlyTask, pageVars, RequestType

LEMMA UnheardStep ==
  ASSUME IInv, NEW h \in Handlers, Unheard(h) PROVE IInv'
<1>1. /\ UNCHANGED <<serverVars, pageVars, historyVars>> /\ h # awaiting
      /\ task[h].at \in {"granted", "refused", "failed"}
      /\ task' = [task EXCEPT ![h] = Idle]
  BY DEF Unheard
<1>2. OnlyTask(h) /\ task'[h].at = "idle"
  BY <1>1, RestEffect DEF IInv
<1>3. TypeOK'
  BY <1>1, <1>2, ServeType DEF IInv, TypeOK, serverVars
<1>4. roles' >= roles /\ troubled' \in BOOLEAN /\ (troubled => troubled')
  BY <1>1 DEF IInv, TypeOK, HistoryOK, serverVars, historyVars
<1> QED
  BY <1>1, <1>2, <1>3, <1>4, TaskStep DEF serverVars, pageVars, historyVars, Holding, Past

-------------------------------------------------------------------------------
(***************************************************************************)
(* The server.                                                             *)
(***************************************************************************)

\* What a call of /auth that signs in goes on with. No page that has a token
\* waits for one.
LEMMA SigningInStep ==
  ASSUME IInv, NEW h \in Handlers,
         task[h].at \in {"checkName", "createUser", "giveRole", "login"},
         \/ \E p \in {"createUser", "giveRole", "login", "readRoles"} : Step(h, p)
         \/ \E p \in {"refused", "failed"} : End(h, p),
         account' \in {"absent", "active", "inactive"}, roles' \in Nat, roles' >= roles,
         UNCHANGED <<issued, pageVars, historyVars>>
  PROVE  IInv'
<1>1. OnlyTask(h) /\ task'[h].on = 0
      /\ task'[h].at \in {"createUser", "giveRole", "login", "readRoles", "refused", "failed"}
  <2>1. TypeOK /\ task[h].on = 0
    BY DEF IInv, HistoryOK
  <2>2. ASSUME NEW p \in {"createUser", "giveRole", "login", "readRoles"}, Step(h, p)
        PROVE  OnlyTask(h) /\ task'[h].on = 0 /\ task'[h].at = p
    <3>1. p \in Places
      BY DEF Places
    <3> QED BY <2>1, <2>2, <3>1, StepEffect
  <2>3. ASSUME NEW p \in {"refused", "failed"}, End(h, p)
        PROVE  OnlyTask(h) /\ task'[h].on = 0 /\ task'[h].at = p
    <3>1. p \in Places
      BY DEF Places
    <3> QED BY <2>1, <2>3, <3>1, EndEffect
  <2> QED BY <2>2, <2>3
<1>2. TypeOK'
  BY <1>1, ServeType DEF IInv
<1>3. h = awaiting => store.token = 0
  BY SessionsAssumption DEF IInv, PageWaits, Holds
<1>4. troubled' \in BOOLEAN /\ (troubled => troubled')
  BY DEF IInv, HistoryOK, historyVars
<1>5. 0 \notin ended.rows
  BY TaskType DEF IInv, HistoryOK, Tokens
<1> QED
  BY <1>1, <1>2, <1>3, <1>4, <1>5, TaskStep DEF pageVars, historyVars, Holding, Past

LEMMA SignInServedStep ==
  ASSUME IInv, NEW h \in Handlers,
         CheckName(h) \/ CreateUser(h) \/ GiveRole(h) \/ CheckUser(h)
  PROVE  IInv'
<1>1. TypeOK /\ roles >= roles /\ roles + 1 >= roles /\ roles + 1 \in Nat
  BY DEF IInv, TypeOK
<1>2. CASE CheckName(h)
  BY <1>1, <1>2, SigningInStep DEF CheckName, TypeOK, serverVars
<1>3. CASE CreateUser(h)
  BY <1>1, <1>3, SigningInStep DEF CreateUser, TypeOK
<1>4. CASE GiveRole(h)
  BY <1>1, <1>4, SigningInStep DEF GiveRole, TypeOK
<1>5. CASE CheckUser(h)
  BY <1>1, <1>5, SigningInStep DEF CheckUser, TypeOK, serverVars
<1> QED BY <1>2, <1>3, <1>4, <1>5

\* A row that is looked for is live, or there is a cause that it is not.
LEMMA FindTokenStep ==
  ASSUME IInv, NEW h \in Handlers, FindToken(h) PROVE IInv'
<1>1. /\ UNCHANGED <<serverVars, pageVars, historyVars>> /\ task[h].at = "find"
      /\ IF Live(task[h].on) THEN Step(h, "revoke") ELSE End(h, "refused")
  BY DEF FindToken
<1>2. /\ "revoke" \in Places /\ "refused" \in Places /\ TypeOK
      /\ task[h].on \in Tokens /\ roles' >= roles
      /\ troubled' \in BOOLEAN /\ (troubled => troubled')
  BY <1>1, TaskType DEF IInv, TypeOK, HistoryOK, Places, Calls, Tokens, serverVars, historyVars
<1>3. h = awaiting /\ store.token # 0 => ~task[h].login /\ store.token = task[h].on
  BY <1>1, SessionsAssumption DEF IInv, PageWaits, Holds
<1>4. CASE Live(task[h].on)
  <2>1. /\ OnlyTask(h) /\ task'[h].at = "revoke" /\ task'[h].on = task[h].on
        /\ task'[h].login = task[h].login
    BY <1>1, <1>2, <1>4, StepEffect
  <2>2. TypeOK'
    BY <1>1, <1>2, <2>1, ServeType DEF TypeOK, serverVars
  <2>3. task[h].on \notin ended.rows
    BY <1>2, <1>4 DEF Live, IInv, FoundInTime, LogoutEndsSessions
  <2>4. h = awaiting /\ store.token # 0 => Holds(h, store.token)'
    BY <1>1, <1>3, <2>1 DEF Holds, pageVars
  <2>5. UNCHANGED <<issued, store, awaiting, abandoned, ended>>
    BY <1>1 DEF serverVars, pageVars, historyVars
  <2>6. task[h].at \in Holding \ Past /\ task[h].on # 0
    BY <1>1, <1>2, TaskType DEF Holding, Past, Tokens
  <2> QED
    BY <1>1, <1>2, <2>1, <2>2, <2>3, <2>4, <2>5, <2>6, TaskStep
<1>5. CASE ~Live(task[h].on)
  <2>1. /\ OnlyTask(h) /\ task'[h].at = "refused" /\ task'[h].on = 0
        /\ task'[h].login = task[h].login
    BY <1>1, <1>2, <1>5, EndEffect
  <2>2. TypeOK'
    BY <1>1, <1>2, <2>1, ServeType DEF TypeOK, serverVars
  <2>3. troubled \/ task[h].on \in abandoned
    <3>1. ASSUME issued[task[h].on].revoked, task[h].on \notin abandoned PROVE troubled
      <4>1. Holds(h, task[h].on) /\ task[h].at \notin Past
        BY <1>1 DEF Holds, Past
      <4> QED BY <1>2, <3>1, <4>1 DEF IInv, HeldOnce, Past
    <3>2. ASSUME issued[task[h].on].age \notin {0, 1} PROVE troubled
      <4>1. issued[task[h].on].age = 2
        BY <1>2, <3>2, TaskType DEF Row
      <4> QED BY <1>2, <4>1 DEF IInv, HistoryOK
    <3> QED BY <1>5, <3>1, <3>2 DEF Live
  <2>4. 0 \notin ended.rows
    BY TaskType DEF IInv, HistoryOK, Tokens
  <2>5. UNCHANGED <<issued, store, awaiting, abandoned, ended>>
    BY <1>1 DEF serverVars, pageVars, historyVars
  <2>6. h = awaiting /\ store.token # 0 => troubled' \/ store.token \in abandoned
    BY <1>2, <1>3, <2>3
  <2>7. task[h].at \notin Past
    BY <1>1 DEF Past
  <2> QED
    BY <1>1, <1>2, <2>1, <2>2, <2>4, <2>5, <2>6, <2>7, TaskStep DEF Holding
<1> QED BY <1>4, <1>5

\* The roles that are read are those of now.
LEMMA ReadRolesStep ==
  ASSUME IInv, NEW h \in Handlers, ReadRoles(h) PROVE IInv'
<1>1. /\ UNCHANGED <<serverVars, pageVars, historyVars>> /\ task[h].at = "readRoles"
      /\ task' = [task EXCEPT ![h].at = "insert", ![h].roles = roles]
  BY DEF ReadRoles
<1>2. /\ "insert" \in Places /\ TypeOK /\ task[h].on \in 0..Len(issued)
      /\ roles' = roles /\ roles \in Nat
      /\ troubled' \in BOOLEAN /\ (troubled => troubled')
  BY <1>1, TaskType DEF IInv, TypeOK, HistoryOK, Places, Calls, serverVars, historyVars
<1>3. /\ OnlyTask(h) /\ task'[h].at = "insert" /\ task'[h].on = task[h].on
      /\ task'[h].login = task[h].login /\ task'[h].roles = roles
  BY <1>1, <1>2, TaskType DEF OnlyTask, Calls
<1>4. TypeOK'
  BY <1>1, <1>2, <1>3, ServeType DEF TypeOK, serverVars
<1>5. h = awaiting /\ store.token # 0 => ~task[h].login /\ Holds(h, store.token)'
  BY <1>1, <1>3, SessionsAssumption DEF IInv, PageWaits, Holds, pageVars
<1>6. task[h].on # 0 => task[h].on \in Tokens /\ issued[task[h].on].roles <= roles
  BY <1>2, TaskType DEF IInv, RolesAdvance, Tokens
<1>7. task[h].on \in ended.rows => task[h].on \in ended.found
  BY <1>1 DEF IInv, FoundInTime
<1>8. UNCHANGED <<issued, store, awaiting, abandoned, ended>> /\ roles' >= roles
  BY <1>1, <1>2 DEF serverVars, pageVars, historyVars
<1>9. task'[h].roles <= roles' /\ (task'[h].on # 0 => task'[h].roles >= issued[task'[h].on].roles)
  <2>1. task[h].on # 0 => issued[task[h].on].roles \in Nat
    BY <1>6, TaskType DEF IInv, Row
  <2> QED BY <1>2, <1>3, <1>6, <2>1
<1>10. task[h].at \in Holding /\ task'[h].at \in Past
  BY <1>1, <1>3 DEF Holding, Past
<1> QED
  BY <1>1, <1>2, <1>3, <1>4, <1>5, <1>7, <1>8, <1>9, <1>10, TaskStep

LEMMA FailStep ==
  ASSUME IInv, NEW h \in Handlers, Fail(h) PROVE IInv'
<1>1. /\ UNCHANGED <<serverVars, pageVars, calls, abandoned, ended>>
      /\ End(h, "failed") /\ troubled' = TRUE
  BY DEF Fail
<1>2. "failed" \in Places /\ TypeOK /\ roles' >= roles
  BY <1>1 DEF IInv, TypeOK, Places, serverVars
<1>3. /\ OnlyTask(h) /\ task'[h].at = "failed" /\ task'[h].on = 0
      /\ task'[h].login = task[h].login
  BY <1>1, <1>2, EndEffect
<1>4. TypeOK'
  BY <1>1, <1>2, <1>3, ServeType DEF TypeOK, serverVars
<1>5. 0 \notin ended.rows
  BY TaskType DEF IInv, HistoryOK, Tokens
<1> QED
  BY <1>1, <1>2, <1>3, <1>4, <1>5, TaskStep DEF serverVars, pageVars, Holding, Past

LEMMA UserStep ==
  ASSUME IInv, UpdateStatus \/ ChangeRoles PROVE IInv'
<1>1. /\ UNCHANGED <<issued, task, pageVars, historyVars>>
      /\ account' \in {"absent", "active", "inactive"}
      /\ roles' = roles \/ roles' = roles + 1
  BY DEF UpdateStatus, ChangeRoles, IInv, TypeOK
<1>2. TypeOK /\ roles' \in Nat /\ roles' >= roles
  BY <1>1 DEF IInv, TypeOK
<1>3. TypeOK'
  BY <1>1, <1>2, TypeStep, TaskType DEF TypeOK, pageVars, RequestType
<1> QED BY <1>1, <1>2, <1>3, PageStep DEF pageVars, historyVars

-------------------------------------------------------------------------------
(***************************************************************************)
(* The rows.                                                               *)
(***************************************************************************)

\* The rows are changed, but for where they come from and for their roles.
RowsKeep ==
  /\ issued' \in Seq(Row) /\ Len(issued') = Len(issued)
  /\ \A t \in Tokens :
       issued'[t].parent = issued[t].parent /\ issued'[t].roles = issued[t].roles

LEMMA RowsFacts ==
  ASSUME IInv, RowsKeep
  PROVE  /\ Tokens' = Tokens /\ \A t : Exchanged(t)' <=> Exchanged(t)
BY DEF RowsKeep, Tokens, Exchanged

\* One row is changed.
LEMMA RowEffect ==
  ASSUME IInv, NEW t \in Tokens, NEW e \in Row, issued' = [issued EXCEPT ![t] = e],
         e.parent = issued[t].parent, e.roles = issued[t].roles
  PROVE  RowsKeep /\ issued'[t] = e /\ \A s \in Tokens \ {t} : issued'[s] = issued[s]
<1>1. issued \in Seq(Row) /\ t \in 1..Len(issued)
  BY TaskType DEF IInv, Tokens
<1> QED BY <1>1, ExceptSeq DEF RowsKeep, Tokens

\* A step that changes rows and no call of /auth.
LEMMA RowsStep ==
  ASSUME IInv, RowsKeep, UNCHANGED <<account, roles, task, pageVars, abandoned>>,
         HistoryOK', FoundInTime', troubled => troubled',
         \A t \in Tokens : issued'[t].revoked => issued[t].revoked \/ troubled'
  PROVE  IInv'
<1>1. /\ Tokens' = Tokens /\ \A t : Exchanged(t)' <=> Exchanged(t)
  BY RowsFacts
<1>2. \A h \in Handlers : \A t : Holds(h, t)' <=> Holds(h, t)
  BY DEF Holds
<1>3. TypeOK'
  BY DEF IInv, TypeOK, RowsKeep, Row, pageVars
<1>4. HeldOnce'
  <2> SUFFICES ASSUME NEW t \in Tokens, t \notin abandoned
               PROVE  /\ \A g, k \in Handlers : Holds(g, t) /\ Holds(k, t) => g = k
                      /\ \A r, s \in Tokens : issued[r].parent = t /\ issued[s].parent = t => r = s
                      /\ \A g \in Handlers : Holds(g, t) => ~Exchanged(t)
                      /\ issued'[t].revoked =>
                           \/ troubled' \/ Exchanged(t)
                           \/ \E g \in Handlers : Holds(g, t) /\ task[g].at \in Past
    BY <1>1, <1>2 DEF HeldOnce, Past, RowsKeep
  <2> QED BY DEF IInv, HeldOnce, Past
<1>5. PageHasToken' /\ PageWaits' /\ GrantedIsNew'
  <2>1. PageHasToken'
    BY <1>1 DEF IInv, PageHasToken, Holds, Exchanged, RowsKeep, pageVars
  <2>2. PageWaits'
    BY DEF IInv, PageWaits, Holds, pageVars
  <2>3. GrantedIsNew'
    BY <1>1 DEF IInv, GrantedIsNew, Holds, Exchanged, RowsKeep, pageVars
  <2> QED BY <2>1, <2>2, <2>3
<1>6. RolesAdvance'
  <2>1. \A t \in Tokens : issued[t].parent # 0 => issued[t].parent \in Tokens
    BY TaskType DEF IInv, HistoryOK, Row, Tokens
  <2>2. \A h \in Handlers : task[h].on # 0 => task[h].on \in Tokens
    BY TaskType DEF IInv, Calls, Tokens
  <2> QED BY <1>1, <2>1, <2>2 DEF IInv, RolesAdvance, RowsKeep
<1> QED BY <1>3, <1>4, <1>5, <1>6 DEF IInv

LEMMA GrowOldStep ==
  ASSUME IInv, NEW t \in Tokens, GrowOld(t) PROVE IInv'
<1>1. PICK e : e = [issued[t] EXCEPT !.age = @ + 1]
  OBVIOUS
<1>2. /\ UNCHANGED <<account, roles, task, pageVars, calls, abandoned, ended>>
      /\ issued[t].age < 2 /\ issued' = [issued EXCEPT ![t] = e]
      /\ troubled' = (troubled \/ issued[t].age = 1)
  BY <1>1 DEF GrowOld
<1>3. issued[t] \in Row
  BY TaskType DEF IInv
<1>4. /\ e \in Row /\ e.parent = issued[t].parent /\ e.roles = issued[t].roles
      /\ e.revoked = issued[t].revoked /\ e.age = issued[t].age + 1
  BY <1>1, <1>2, <1>3 DEF Row
<1>5. RowsKeep /\ issued'[t] = e /\ \A s \in Tokens \ {t} : issued'[s] = issued[s]
  BY <1>2, <1>4, RowEffect
<1>6. Tokens' = Tokens
  BY <1>5, RowsFacts
<1>7. troubled' \in BOOLEAN /\ (troubled => troubled') /\ (issued[t].age = 1 => troubled')
  BY <1>2
<1>8. \A s \in Tokens : issued'[s].age = 2 => troubled'
  BY <1>3, <1>4, <1>5, <1>7 DEF IInv, HistoryOK, Row
<1>9. HistoryOK'
  BY <1>2, <1>5, <1>6, <1>7, <1>8 DEF IInv, HistoryOK, RowsKeep
<1>10. \A s \in Tokens : issued'[s].revoked = issued[s].revoked
  BY <1>4, <1>5
<1>11. FoundInTime'
  BY <1>2, <1>5, <1>6, <1>10 DEF IInv, HistoryOK, FoundInTime, LogoutEndsSessions, RowsKeep
<1> QED BY <1>2, <1>5, <1>7, <1>9, <1>10, <1>11, RowsStep

\* Every token is revoked, and what was found live by now is noted.
LEMMA LogoutEverywhereStep ==
  ASSUME IInv, LogoutEverywhere PROVE IInv'
<1>1. /\ UNCHANGED <<account, roles, task, pageVars, calls, abandoned>>
      /\ issued' = [t \in Tokens |-> [issued[t] EXCEPT !.revoked = TRUE]]
      /\ ended'.rows = Tokens
      /\ ended'.found = {task[h].on : h \in {g \in Handlers :
           task[g].at \in {"revoke", "readRoles", "insert"}}}
      /\ troubled' = TRUE
  BY DEF LogoutEverywhere
<1>2. \A t \in Tokens : /\ issued'[t] \in Row /\ issued'[t].revoked
                        /\ issued'[t].parent = issued[t].parent
                        /\ issued'[t].roles = issued[t].roles
                        /\ issued'[t].age = issued[t].age
  BY <1>1, TaskType DEF IInv, Row
<1>3. PICK n \in Nat : n = Len(issued)
  BY TaskType DEF IInv
<1>4. issued' \in [1..n -> Row]
  BY <1>1, <1>2, <1>3 DEF Tokens
<1>5. issued' \in Seq(Row)
  BY <1>4, SeqDef
<1>6. Len(issued') = n
  BY <1>4, <1>5, LenProperties
<1>7. RowsKeep
  BY <1>2, <1>3, <1>5, <1>6 DEF RowsKeep
<1>8. Tokens' = Tokens
  BY <1>7, RowsFacts
<1>9. HistoryOK'
  BY <1>1, <1>2, <1>8 DEF IInv, HistoryOK
<1>10. FoundInTime'
  BY <1>1, <1>2, <1>8 DEF FoundInTime, LogoutEndsSessions
<1> QED BY <1>1, <1>7, <1>9, <1>10, RowsStep

\* The row is revoked by the handler that holds it.
LEMMA RevokeTokenStep ==
  ASSUME IInv, NEW h \in Handlers, RevokeToken(h) PROVE IInv'
<1>1. PICK n \in Nat : n = task[h].on
  BY TaskType DEF IInv, Calls
<1>2. PICK e : e = [issued[n] EXCEPT !.revoked = TRUE]
  OBVIOUS
<1>3. /\ UNCHANGED <<account, roles, pageVars, historyVars>> /\ task[h].at = "revoke"
      /\ issued' = [issued EXCEPT ![n] = e] /\ Step(h, "readRoles")
  BY <1>1, <1>2 DEF RevokeToken
<1>4. "readRoles" \in Places /\ TypeOK /\ n \in Tokens /\ Holds(h, n)
  BY <1>1, <1>3, TaskType DEF IInv, HistoryOK, Places, Calls, Tokens, Holds
<1>5. /\ OnlyTask(h) /\ task'[h].at = "readRoles" /\ task'[h].on = n
      /\ task'[h].login = task[h].login
  BY <1>1, <1>3, <1>4, StepEffect
<1>6. issued[n] \in Row
  BY <1>4, TaskType
<1>7. /\ e \in Row /\ e.parent = issued[n].parent /\ e.roles = issued[n].roles
      /\ e.revoked /\ e.age = issued[n].age
  BY <1>2, <1>6 DEF Row
<1>8. RowsKeep /\ issued'[n] = e /\ \A s \in Tokens \ {n} : issued'[s] = issued[s]
  BY <1>3, <1>4, <1>7, RowEffect
<1>9. Tokens' = Tokens /\ \A t : Exchanged(t)' <=> Exchanged(t)
  BY <1>8, RowsFacts
<1>10. /\ \A g \in Handlers : \A t : Holds(g, t)' <=> Holds(g, t)
       /\ \A g \in Handlers : task[g].at \in Past => task'[g].at \in Past
  BY <1>1, <1>3, <1>5 DEF OnlyTask, Holds, Past
<1>11. TypeOK'
  BY <1>3, <1>4, <1>5, <1>8
  DEF TypeOK, RowsKeep, Row, OnlyTask, Calls, Places, pageVars
<1>12. UNCHANGED <<roles, store, awaiting, abandoned, troubled, ended>>
  BY <1>3 DEF pageVars, historyVars
<1>13. \A t \in Tokens : issued'[t].age = issued[t].age
  BY <1>7, <1>8
<1>14. HistoryOK'
  BY <1>5, <1>8, <1>9, <1>12, <1>13, TaskType DEF IInv, HistoryOK, RowsKeep, OnlyTask
<1>15. HeldOnce'
  <2> SUFFICES ASSUME NEW t \in Tokens, t \notin abandoned
               PROVE  /\ \A g, k \in Handlers : Holds(g, t) /\ Holds(k, t) => g = k
                      /\ \A r, s \in Tokens : issued[r].parent = t /\ issued[s].parent = t => r = s
                      /\ \A g \in Handlers : Holds(g, t) => ~Exchanged(t)
                      /\ issued'[t].revoked =>
                           \/ troubled \/ Exchanged(t)
                           \/ \E g \in Handlers : Holds(g, t) /\ task'[g].at \in Past
    BY <1>8, <1>9, <1>10, <1>12 DEF HeldOnce, Past, RowsKeep
  <2>1. CASE t = n
    BY <1>4, <1>5, <2>1 DEF IInv, HeldOnce, Past
  <2>2. CASE t # n
    <3>1. issued'[t] = issued[t]
      BY <1>8, <2>2
    <3>2. issued[t].revoked =>
            \/ troubled \/ Exchanged(t)
            \/ \E g \in Handlers : Holds(g, t) /\ task[g].at \in Past
      BY DEF IInv, HeldOnce, Past
    <3> QED BY <1>10, <3>1, <3>2 DEF IInv, HeldOnce
  <2> QED BY <2>1, <2>2
<1>16. PageHasToken'
  <2> SUFFICES ASSUME store.token # 0, store.token \notin abandoned
               PROVE  /\ \A g \in Handlers : Holds(g, store.token) => g = awaiting
                      /\ Exchanged(store.token) =>
                           awaiting # None /\ task'[awaiting].at \in {"granted", "failed"}
    BY <1>9, <1>10, <1>12 DEF PageHasToken
  <2>1. ASSUME Exchanged(store.token)
        PROVE  awaiting # None /\ task'[awaiting].at \in {"granted", "failed"}
    <3>1. awaiting # None /\ task[awaiting].at \in {"granted", "failed"}
      BY <2>1 DEF IInv, PageHasToken
    <3>2. awaiting \in Handlers /\ awaiting # h
      BY <1>3, <3>1 DEF IInv, TypeOK
    <3> QED BY <1>5, <3>1, <3>2 DEF OnlyTask
  <2> QED BY <2>1 DEF IInv, PageHasToken
<1>17. PageWaits'
  <2> SUFFICES ASSUME awaiting # None, store.token # 0
               PROVE  /\ ~task'[awaiting].login
                      /\ \/ Holds(awaiting, store.token)
                         \/ task'[awaiting].at \in {"granted", "refused", "failed"}
                      /\ task'[awaiting].at \in {"refused", "failed"} =>
                           troubled \/ store.token \in abandoned
    <3>1. awaiting # None => awaiting \in Handlers
      BY DEF IInv, TypeOK
    <3> QED BY <1>10, <1>12, <3>1 DEF PageWaits
  <2>1. awaiting \in Handlers
    BY DEF IInv, TypeOK
  <2>2. CASE awaiting = h
    BY <1>3, <1>5, <2>2 DEF IInv, PageWaits
  <2>3. CASE awaiting # h
    BY <1>5, <2>1, <2>3 DEF IInv, PageWaits, OnlyTask
  <2> QED BY <2>2, <2>3
<1>18. GrantedIsNew'
  <2> SUFFICES ASSUME NEW g \in Handlers, task'[g].at = "granted"
               PROVE  /\ task'[g].on \in Tokens /\ task'[g].on # store.token
                      /\ ~Exchanged(task'[g].on)
                      /\ \A k \in Handlers :
                           ~(task'[k].on = task'[g].on /\ task'[k].at \in Holding)
                      /\ \A k \in Handlers :
                           task'[k].at = "granted" /\ task'[k].on = task'[g].on => k = g
    BY <1>8, <1>9, <1>12 DEF GrantedIsNew, Holds, Holding, Exchanged, RowsKeep
  <2>1. g # h /\ task'[g] = task[g]
    BY <1>5 DEF OnlyTask
  <2>2. /\ task[g].on \in Tokens /\ task[g].on # store.token
        /\ ~Exchanged(task[g].on)
        /\ \A k \in Handlers : ~Holds(k, task[g].on)
        /\ \A k \in Handlers :
             task[k].at = "granted" /\ task[k].on = task[g].on => k = g
    BY <2>1 DEF IInv, GrantedIsNew
  <2> QED BY <1>4, <1>5, <2>1, <2>2 DEF OnlyTask, Holds, Holding
<1>19. RolesAdvance'
  <2>1. \A t \in Tokens : issued[t].parent # 0 => issued[t].parent \in Tokens
    BY <1>4, TaskType DEF IInv, HistoryOK, Row, Tokens
  <2>2. \A g \in Handlers : task[g].on # 0 => task[g].on \in Tokens
    BY <1>4, TaskType DEF Calls, Tokens
  <2>3. \A g \in Handlers : task'[g].at = "insert" => task'[g] = task[g]
    BY <1>5 DEF OnlyTask
  <2> QED BY <1>8, <1>9, <1>12, <2>1, <2>2, <2>3 DEF IInv, RolesAdvance, RowsKeep
<1>20. FoundInTime'
  <2>1. \A t \in ended.rows : issued'[t].revoked
    BY <1>7, <1>8 DEF IInv, FoundInTime, LogoutEndsSessions, HistoryOK
  <2>2. \A t \in Tokens : issued'[t].parent = issued[t].parent
    BY <1>8 DEF RowsKeep
  <2>3. n \in ended.rows => n \in ended.found
    BY <1>1, <1>3 DEF IInv, FoundInTime
  <2> QED
    BY <1>5, <1>9, <1>12, <2>1, <2>2, <2>3
    DEF IInv, FoundInTime, LogoutEndsSessions, OnlyTask
<1> QED BY <1>11, <1>14, <1>15, <1>16, <1>17, <1>18, <1>19, <1>20 DEF IInv

\* The successor of a token is given out by the handler that holds it, which
\* then holds no token any more.
LEMMA InsertTokenStep ==
  ASSUME IInv, NEW h \in Handlers, InsertToken(h) PROVE IInv'
<1>1. PICK n \in Nat, p \in Nat : n = Len(issued) /\ p = task[h].on /\ p \in 0..n
  BY TaskType DEF IInv, Calls
<1>2. PICK e : e = [parent |-> p, revoked |-> FALSE, age |-> 0, roles |-> task[h].roles]
  OBVIOUS
<1>3. PICK c : c = [task[h] EXCEPT !.at = "granted", !.roles = 0, !.on = n + 1]
  OBVIOUS
<1>4. /\ UNCHANGED <<account, roles, pageVars, historyVars>> /\ task[h].at = "insert"
      /\ issued' = Append(issued, e) /\ task' = [task EXCEPT ![h] = c]
  BY <1>1, <1>2, <1>3 DEF InsertToken
<1>5. /\ TypeOK /\ task[h] \in Calls(n) /\ issued \in Seq(Row)
      /\ task \in [Handlers -> Calls(n)]
  BY <1>1, TaskType DEF IInv
<1>6. /\ e \in Row /\ e.parent = p /\ e.revoked = FALSE /\ e.age = 0
      /\ e.roles = task[h].roles
  BY <1>1, <1>2, <1>5 DEF Row, Calls
<1>7. /\ c \in Calls(n + 1) /\ c.at = "granted" /\ c.on = n + 1
      /\ c.login = task[h].login
  <2>1. n + 1 \in 0..(n + 1) /\ "granted" \in Places /\ task[h].login \in BOOLEAN
    BY <1>5 DEF Calls, Places
  <2> QED BY <1>3, <1>5, <2>1 DEF Calls
<1>8. /\ issued' \in Seq(Row) /\ Len(issued') = n + 1 /\ issued'[n + 1] = e
      /\ \A t \in 1..n : issued'[t] = issued[t]
  BY <1>1, <1>4, <1>5, <1>6, AppendProperties
<1>9. /\ Tokens = 1..n /\ Tokens' = 1..(n + 1)
      /\ Tokens' = Tokens \cup {n + 1} /\ n + 1 \notin Tokens
      /\ \A t \in Tokens : issued'[t] = issued[t]
  BY <1>1, <1>8 DEF Tokens
<1>10. /\ task' \in [Handlers -> Calls(n + 1)] /\ task'[h] = c
       /\ \A g \in Handlers \ {h} : task'[g] = task[g]
  <2>1. Calls(n) \subseteq Calls(n + 1)
    BY DEF Calls
  <2> QED BY <1>4, <1>5, <1>7, <2>1
<1>11. Holds(h, p)
  BY <1>1, <1>4 DEF Holds
<1>12. \A t : Exchanged(t)' <=> Exchanged(t) \/ t = p
  BY <1>6, <1>8, <1>9 DEF Exchanged
<1>13. \A g \in Handlers : \A t : Holds(g, t)' <=> g # h /\ Holds(g, t)
  BY <1>7, <1>10 DEF Holds
<1>14. UNCHANGED <<roles, store, awaiting, abandoned, troubled, ended>>
  BY <1>4 DEF pageVars, historyVars
<1>15. TypeOK'
  <2>1. issued' \in Seq([parent : Nat, revoked : BOOLEAN, age : 0..2, roles : Nat])
    BY <1>8 DEF Row
  <2>2. 0..Len(issued) \subseteq 0..Len(issued')
    BY <1>1, <1>8
  <2>3. /\ store' \in [token : 0..Len(issued'), known : BOOLEAN]
        /\ request' \in [Requests -> [at : {"idle", "sent", "unauthorized", "waiting",
                                            "resent"}, token : 0..Len(issued')]]
    BY <1>4, <1>5, <2>2 DEF TypeOK, pageVars
  <2> QED BY <1>4, <1>5, <1>8, <1>10, <2>1, <2>3 DEF TypeOK, Calls, Places, pageVars
<1>16. \A t \in Tokens : /\ issued[t].parent \in 0..(t - 1) /\ issued[t].parent # n + 1
                         /\ issued[t].roles \in Nat
  BY <1>5, <1>9, TaskType DEF IInv, HistoryOK, Row
<1>17. \A g \in Handlers : task[g].on \in 0..n /\ task[g].roles \in Nat
  BY <1>5 DEF Calls
<1>18. store.token \in 0..n /\ p # n + 1
  BY <1>1, <1>5 DEF TypeOK
<1>19. HistoryOK'
  <2>1. \A t \in Tokens' : issued'[t].parent < t
    <3>1. \A t \in Tokens : issued[t].parent < t
      BY DEF IInv, HistoryOK
    <3> QED BY <1>1, <1>6, <1>8, <1>9, <3>1
  <2>2. \A t \in Tokens' : issued'[t].age = 2 => troubled
    BY <1>6, <1>8, <1>9 DEF IInv, HistoryOK
  <2>3. ended.rows \subseteq Tokens' /\ troubled \in BOOLEAN
    BY <1>9 DEF IInv, HistoryOK
  <2>4. \A g \in Handlers :
          /\ task'[g].at \in {"checkName", "createUser", "giveRole", "login"} =>
               task'[g].on = 0
          /\ task'[g].at \in {"find", "revoke"} => task'[g].on # 0
    BY <1>7, <1>10 DEF IInv, HistoryOK
  <2> QED BY <1>14, <2>1, <2>2, <2>3, <2>4 DEF HistoryOK
<1>20. HeldOnce'
  <2> SUFFICES ASSUME NEW t \in Tokens', t \notin abandoned
               PROVE  /\ \A g, k \in Handlers : Holds(g, t)' /\ Holds(k, t)' => g = k
                      /\ \A r, s \in Tokens' :
                           issued'[r].parent = t /\ issued'[s].parent = t => r = s
                      /\ \A g \in Handlers : Holds(g, t)' => ~Exchanged(t)'
                      /\ issued'[t].revoked =>
                           \/ troubled \/ Exchanged(t)'
                           \/ \E g \in Handlers : Holds(g, t)' /\ task'[g].at \in Past
    BY <1>14 DEF HeldOnce, Past
  <2>1. CASE t = n + 1
    <3>1. \A g \in Handlers : ~Holds(g, t)'
      BY <1>13, <1>17, <2>1 DEF Holds
    <3>2. \A r \in Tokens' : issued'[r].parent # t
      BY <1>6, <1>8, <1>9, <1>16, <1>18, <2>1
    <3>3. ~issued'[t].revoked
      BY <1>6, <1>8, <2>1
    <3> QED BY <3>1, <3>2, <3>3
  <2>2. CASE t \in Tokens /\ t = p
    <3>1. \A g \in Handlers : ~Holds(g, t)'
      BY <1>11, <1>13, <2>2 DEF IInv, HeldOnce
    <3>2. ~Exchanged(t)
      BY <1>11, <2>2 DEF IInv, HeldOnce
    <3>3. \A r \in Tokens' : issued'[r].parent = t => r = n + 1
      BY <1>9, <3>2 DEF Exchanged
    <3> QED BY <1>12, <2>2, <3>1, <3>3
  <2>3. CASE t \in Tokens /\ t # p
    <3>1. \A r \in Tokens' : issued'[r].parent = t => r \in Tokens /\ issued[r].parent = t
      BY <1>6, <1>8, <1>9, <2>3
    <3>2. ASSUME issued'[t].revoked, ~troubled, ~Exchanged(t)'
          PROVE  \E g \in Handlers : Holds(g, t)' /\ task'[g].at \in Past
      <4>1. PICK g \in Handlers : Holds(g, t) /\ task[g].at \in Past
        BY <1>9, <1>12, <2>3, <3>2 DEF IInv, HeldOnce, Past
      <4>2. g # h
        BY <1>11, <2>3, <4>1 DEF Holds
      <4> QED BY <1>10, <1>13, <4>1, <4>2
    <3> QED BY <1>12, <1>13, <2>3, <3>1, <3>2 DEF IInv, HeldOnce
  <2> QED BY <1>9, <2>1, <2>2, <2>3
<1>21. PageHasToken'
  <2> SUFFICES ASSUME store.token # 0, store.token \notin abandoned
               PROVE  /\ \A g \in Handlers : Holds(g, store.token) => g = awaiting
                      /\ Exchanged(store.token) \/ store.token = p =>
                           awaiting # None /\ task'[awaiting].at \in {"granted", "failed"}
    BY <1>12, <1>13, <1>14 DEF PageHasToken
  <2>1. \A g \in Handlers : Holds(g, store.token) => g = awaiting
    BY DEF IInv, PageHasToken
  <2>2. ASSUME Exchanged(store.token)
        PROVE  awaiting # None /\ task'[awaiting].at \in {"granted", "failed"}
    <3>1. awaiting # None /\ task[awaiting].at \in {"granted", "failed"}
      BY <2>2 DEF IInv, PageHasToken
    <3>2. awaiting \in Handlers /\ awaiting # h
      BY <1>4, <3>1 DEF IInv, TypeOK
    <3> QED BY <1>10, <3>1, <3>2
  <2>3. ASSUME store.token = p
        PROVE  awaiting # None /\ task'[awaiting].at \in {"granted", "failed"}
    BY <1>7, <1>10, <1>11, <2>1, <2>3, SessionsAssumption
  <2> QED BY <2>1, <2>2, <2>3
<1>22. PageWaits'
  <2> SUFFICES ASSUME awaiting # None, store.token # 0
               PROVE  /\ ~task'[awaiting].login
                      /\ \/ Holds(awaiting, store.token)'
                         \/ task'[awaiting].at \in {"granted", "refused", "failed"}
                      /\ task'[awaiting].at \in {"refused", "failed"} =>
                           troubled \/ store.token \in abandoned
    BY <1>14 DEF PageWaits, Holds
  <2>1. awaiting \in Handlers
    BY DEF IInv, TypeOK
  <2>2. CASE awaiting = h
    BY <1>7, <1>10, <2>2 DEF IInv, PageWaits
  <2>3. CASE awaiting # h
    <3>1. task'[awaiting] = task[awaiting]
      BY <1>10, <2>1, <2>3
    <3> QED BY <1>14, <3>1 DEF IInv, PageWaits, Holds
  <2> QED BY <2>2, <2>3
<1>23. GrantedIsNew'
  <2> SUFFICES ASSUME NEW g \in Handlers, task'[g].at = "granted"
               PROVE  /\ task'[g].on \in Tokens' /\ task'[g].on # store.token
                      /\ ~(\E s \in Tokens' : issued'[s].parent = task'[g].on)
                      /\ \A k \in Handlers :
                           ~(task'[k].on = task'[g].on /\ task'[k].at \in Holding)
                      /\ \A k \in Handlers :
                           task'[k].at = "granted" /\ task'[k].on = task'[g].on => k = g
    BY <1>14 DEF GrantedIsNew, Holds, Holding, Exchanged
  <2>1. CASE g = h
    <3>1. \A s \in Tokens' : issued'[s].parent # n + 1
      BY <1>6, <1>8, <1>9, <1>16, <1>18
    <3>2. \A k \in Handlers \ {h} : task'[k].on # n + 1
      BY <1>10, <1>17
    <3> QED BY <1>7, <1>9, <1>10, <1>18, <2>1, <3>1, <3>2 DEF Holding
  <2>2. CASE g # h
    <3>1. task'[g] = task[g]
      BY <1>10, <2>2
    <3>2. /\ task[g].on \in Tokens /\ task[g].on # store.token
          /\ ~Exchanged(task[g].on)
          /\ \A k \in Handlers : ~Holds(k, task[g].on)
          /\ \A k \in Handlers :
               task[k].at = "granted" /\ task[k].on = task[g].on => k = g
      BY <2>2, <3>1 DEF IInv, GrantedIsNew
    <3>3. task[g].on # p
      BY <1>11, <3>2
    <3>4. ~(\E s \in Tokens' : issued'[s].parent = task'[g].on)
      BY <1>6, <1>8, <1>9, <3>1, <3>2, <3>3 DEF Exchanged
    <3>5. \A k \in Handlers : ~(task'[k].on = task'[g].on /\ task'[k].at \in Holding)
      BY <1>7, <1>10, <3>1, <3>2 DEF Holds, Holding
    <3>6. \A k \in Handlers :
            task'[k].at = "granted" /\ task'[k].on = task'[g].on => k = g
      BY <1>7, <1>9, <1>10, <3>1, <3>2
    <3> QED BY <1>9, <3>1, <3>2, <3>4, <3>5, <3>6
  <2> QED BY <2>1, <2>2
<1>24. RolesAdvance'
  <2>1. \A t \in Tokens' : issued'[t].roles <= roles
    BY <1>4, <1>6, <1>8, <1>9 DEF IInv, RolesAdvance
  <2>2. p # 0 => p \in Tokens /\ issued'[n + 1].roles >= issued'[p].roles
    BY <1>1, <1>4, <1>6, <1>8, <1>9 DEF IInv, RolesAdvance
  <2>3. ASSUME NEW t \in Tokens, issued[t].parent # 0
        PROVE  issued'[t].roles >= issued'[issued[t].parent].roles
    <3>1. issued[t].parent \in Tokens
      BY <1>9, <1>16, <2>3
    <3> QED BY <1>9, <2>3, <3>1 DEF IInv, RolesAdvance
  <2>4. \A t \in Tokens' : issued'[t].parent # 0 =>
          issued'[t].roles >= issued'[issued'[t].parent].roles
    BY <1>6, <1>8, <1>9, <2>2, <2>3
  <2>5. ASSUME NEW g \in Handlers, task'[g].at = "insert"
        PROVE  /\ task'[g].roles <= roles
               /\ task'[g].on # 0 => task'[g].roles >= issued'[task'[g].on].roles
    <3>1. g # h /\ task'[g] = task[g]
      BY <1>7, <1>10, <2>5
    <3>2. task[g].on # 0 => task[g].on \in Tokens
      BY <1>9, <1>17
    <3> QED BY <1>9, <2>5, <3>1, <3>2 DEF IInv, RolesAdvance
  <2> QED BY <1>14, <2>1, <2>4, <2>5 DEF RolesAdvance
<1>25. FoundInTime'
  <2>1. p \in ended.rows => p \in ended.found
    BY <1>1, <1>4 DEF IInv, FoundInTime
  <2>2. \A t \in ended.rows : t \in Tokens /\ issued'[t].revoked
    BY <1>9 DEF IInv, HistoryOK, FoundInTime, LogoutEndsSessions
  <2>3. \A t \in Tokens' \ ended.rows :
          issued'[t].parent \in ended.rows => issued'[t].parent \in ended.found
    BY <1>6, <1>8, <1>9, <2>1 DEF IInv, FoundInTime, LogoutEndsSessions
  <2>4. \A g \in Handlers :
          task'[g].at \in {"revoke", "readRoles", "insert"} /\ task'[g].on \in ended.rows =>
            task'[g].on \in ended.found
    BY <1>7, <1>10 DEF IInv, FoundInTime
  <2> QED BY <1>14, <2>2, <2>3, <2>4 DEF FoundInTime, LogoutEndsSessions
<1> QED
  BY <1>15, <1>19, <1>20, <1>21, <1>22, <1>23, <1>24, <1>25 DEF IInv

-------------------------------------------------------------------------------
(***************************************************************************)
(* The theorems.                                                           *)
(***************************************************************************)

LEMMA InvInit == Init => IInv
<1> SUFFICES ASSUME Init PROVE IInv
  OBVIOUS
<1>1. /\ account = "absent" /\ roles = 0 /\ issued = <<>>
      /\ task = [h \in Handlers |-> Idle]
      /\ store = SignedOut /\ awaiting = None /\ leaving = FALSE
      /\ request = [r \in Requests |-> Resting]
      /\ troubled = FALSE /\ ended.rows = {} /\ ended.found = {}
  BY DEF Init
<1>2. issued \in Seq(Row) /\ Len(issued) = 0 /\ Tokens = {}
  <2>1. issued \in Seq(Row) /\ Len(issued) = 0
    BY <1>1, EmptySeq
  <2> QED BY <2>1 DEF Tokens
<1>3. /\ task \in [Handlers -> Calls(0)]
      /\ \A h \in Handlers : task[h].at = "idle" /\ task[h].on = 0
  BY <1>1, IdleFacts
<1>4. TypeOK
  <2>1. store \in [token : 0..0, known : BOOLEAN]
    BY <1>1 DEF SignedOut
  <2>2. request \in [Requests -> RequestType(0)]
    BY <1>1 DEF Resting, RequestType
  <2>3. issued \in Seq([parent : Nat, revoked : BOOLEAN, age : 0..2, roles : Nat])
    BY <1>2 DEF Row
  <2> QED
    BY <1>1, <1>2, <1>3, <2>1, <2>2, <2>3 DEF TypeOK, Calls, Places, RequestType
<1>5. HistoryOK /\ HeldOnce /\ RolesAdvance /\ FoundInTime
  BY <1>1, <1>2, <1>3
  DEF HistoryOK, HeldOnce, RolesAdvance, FoundInTime, LogoutEndsSessions
<1>6. PageHasToken /\ PageWaits /\ GrantedIsNew
  BY <1>1, <1>3, SignedOutFacts DEF PageHasToken, PageWaits, GrantedIsNew
<1> QED BY <1>4, <1>5, <1>6 DEF IInv

LEMMA InvNext == IInv /\ [Next]_vars => IInv'
<1> SUFFICES ASSUME IInv, [Next]_vars PROVE IInv'
  OBVIOUS
<1>1. CASE UNCHANGED vars
  <2>1. TypeOK'
    BY <1>1 DEF IInv, TypeOK, vars, serverVars, pageVars
  <2>2. roles' = roles /\ roles >= roles
    BY <1>1 DEF IInv, TypeOK, vars, serverVars
  <2> QED BY <1>1, <2>1, <2>2, PageStep DEF vars, serverVars, pageVars, historyVars
<1>2. CASE PressLogout \/ Load \/ LogoutEverywhere \/ UpdateStatus \/ ChangeRoles
  BY <1>2, PressLogoutStep, LoadStep, LogoutEverywhereStep, UserStep
<1>3. ASSUME NEW t \in Tokens, GrowOld(t) PROVE IInv'
  BY <1>3, GrowOldStep
<1>4. ASSUME NEW h \in Handlers, SubmitLogin(h) \/ SubmitRegistration(h) PROVE IInv'
  BY <1>4, SignInStep DEF SubmitLogin, SubmitRegistration
<1>5. ASSUME NEW h \in Handlers, Serve(h) PROVE IInv'
  BY <1>5, SignInServedStep, FindTokenStep, RevokeTokenStep, ReadRolesStep,
     InsertTokenStep DEF Serve
<1>6. ASSUME NEW h \in Handlers, Hear(h) \/ Fail(h) PROVE IInv'
  BY <1>6, GrantedStep, RefusedStep, UnheardStep, FailStep DEF Hear
<1>7. ASSUME NEW r \in Requests, Send(r) \/ Answer(r) \/ LoseRequest(r) PROVE IInv'
  BY <1>7, RequestStep, AttemptTokenRefreshStep, NothingToRefreshStep DEF Answer
<1> QED BY <1>1, <1>2, <1>3, <1>4, <1>5, <1>6, <1>7 DEF Next

\* The inductive invariant of the session: in particular a refresh token that
\* no reload interrupted has one handler or one successor, and the page holds
\* none that anybody else uses.
THEOREM Invariance == Spec => []IInv
<1>1. Init => IInv
  BY InvInit
<1>2. IInv /\ [Next]_vars => IInv'
  BY InvNext
<1> QED BY <1>1, <1>2, PTL DEF Spec

\* However many requests of the page meet an expired token, it is exchanged
\* once; the page is sent to the login page for a cause only; and a refresh
\* brings back no older roles.
THEOREM TokensAreRotatedOnce == Spec => []RotatedOnce
<1>1. IInv => RotatedOnce
  <2> SUFFICES ASSUME IInv PROVE RotatedOnce
    OBVIOUS
  <2>1. ASSUME NEW s \in Tokens, NEW t \in Tokens, issued[s].parent = issued[t].parent
        PROVE  s = t \/ issued[s].parent \in abandoned \cup {0}
    <3>1. CASE issued[s].parent \in Tokens
      BY <2>1, <3>1 DEF IInv, HeldOnce
    <3>2. CASE issued[s].parent \notin Tokens
      BY <3>2, TaskType DEF IInv, HistoryOK, Row, Tokens
    <3> QED BY <3>1, <3>2
  <2>2. awaiting # None /\ task[awaiting].at \in {"refused", "failed"} /\ store.token # 0 =>
          troubled \/ store.token \in abandoned
    BY DEF IInv, PageWaits
  <2> QED BY <2>1, <2>2 DEF RotatedOnce, IInv, RolesAdvance
<1> QED BY <1>1, Invariance, PTL

\* After a logout none of the tokens there were is live, and none is exchanged
\* but by a refresh that was past its check.
THEOREM LogoutIsFinal == Spec => []LogoutEndsSessions
<1>1. IInv => LogoutEndsSessions
  BY DEF IInv, FoundInTime
<1> QED BY <1>1, Invariance, PTL
===============================================================================
