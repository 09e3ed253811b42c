--------------------------- MODULE Redemption_proofs ---------------------------
(***************************************************************************)
(* Proofs about Redemption, for any entitlements, keys, requests and       *)
(* quantities.                                                             *)
(***************************************************************************)
EXTENDS Redemption, TLAPS

LEMMA TypeInit == Init => TypeOK
<1> SUFFICES ASSUME Init PROVE TypeOK
  OBVIOUS
<1> USE DEF Init
<1>1. total \in [Entitlements -> Nat] /\ remaining \in [Entitlements -> Int]
  <2>1. \A e \in Entitlements : total[e] \in Nat
    BY RedemptionAssumption
  <2> QED BY <2>1
<1>2. pc \in [Requests -> Places] /\ seen \in [Requests -> Int]
  BY DEF Places
<1>3. redeemed \in [Entitlements -> Nat]
  OBVIOUS
<1> QED BY <1>1, <1>2, <1>3 DEF TypeOK

LEMMA TypeNext == TypeOK /\ [Next]_vars => TypeOK'
<1> SUFFICES ASSUME TypeOK, [Next]_vars PROVE TypeOK'
  OBVIOUS
<1> USE DEF TypeOK
<1>1. ASSUME NEW r \in Requests, Arrive(r) PROVE TypeOK'
  BY <1>1 DEF Arrive, Goto, Places
<1>2. ASSUME NEW r \in Requests, LookUpKey(r) PROVE TypeOK'
  BY <1>2 DEF LookUpKey, Goto, Places
<1>3. ASSUME NEW r \in Requests, Replay(r) PROVE TypeOK'
  BY <1>3 DEF Replay, Goto, Places, RowsOf
<1>4. ASSUME NEW r \in Requests, Validate(r) PROVE TypeOK'
  BY <1>4 DEF Validate, Goto, Places, Request
<1>5. ASSUME NEW r \in Requests, Reject(r) PROVE TypeOK'
  BY <1>5 DEF Reject, Goto, Places, Insert, Request, Row
<1>6. ASSUME NEW r \in Requests, Redeem(r) PROVE TypeOK'
  <2>1. req[r].ent \in Entitlements /\ req[r].qty \in Nat
    BY RedemptionAssumption DEF Request
  <2>2. rows' \in SUBSET Row
    BY <1>6 DEF Redeem, Insert, Request, Row
  <2> QED BY <1>6, <2>1, <2>2 DEF Redeem, Goto, Places
<1>7. ASSUME NEW r \in Requests, DuplicateKey(r) PROVE TypeOK'
  BY <1>7 DEF DuplicateKey, Goto, Places
<1>8. ASSUME NEW r \in Requests, Audit(r) PROVE TypeOK'
  BY <1>8 DEF Audit, Goto, Places
<1>9. ASSUME NEW r \in Requests, Fail(r) PROVE TypeOK'
  BY <1>9 DEF Fail, Goto, Places
<1>10. ASSUME NEW e \in Entitlements, Expire(e) PROVE TypeOK'
  BY <1>10 DEF Expire
<1>11. CASE DayPasses
  BY <1>11 DEF DayPasses, Row
<1>12. CASE UNCHANGED vars
  BY <1>12 DEF vars
<1> QED
  <2>1. CASE Next
    BY <2>1, <1>1, <1>2, <1>3, <1>4, <1>5, <1>6, <1>7, <1>8, <1>9, <1>10, <1>11
       DEF Next, Step
  <2> QED BY <2>1, <1>12

\* Whatever the interleaving, every variable keeps its type: in particular the
\* stored quantity stays an integer and rows stay rows.
THEOREM TypeCorrect == Spec => []TypeOK
BY TypeInit, TypeNext, PTL DEF Spec
-------------------------------------------------------------------------------
LEMMA InvInit == Init => IInv
<1> SUFFICES ASSUME Init PROVE IInv
  OBVIOUS
<1>1. TypeOK
  BY TypeInit
<1>2. RemainingInBounds /\ NoUnitLost
  BY <1>1 DEF Init, RemainingInBounds, NoUnitLost, TypeOK
<1>3. LateRequestsRedeemNothing /\ UnauditedOnlyOnFailure
  BY DEF Init, LateRequestsRedeemNothing, UnauditedOnlyOnFailure
<1>4. RowsHaveWriters /\ OneRowPerKey /\ OnlyRowsAge /\ HandlersRely
  BY DEF Init, RowsHaveWriters, OneRowPerKey, OnlyRowsAge, HandlersRely
<1> QED BY <1>1, <1>2, <1>3, <1>4 DEF IInv

\* A step that only moves one handler on, without writing to the database.
LEMMA QuietStep ==
  ASSUME IInv, TypeOK', NEW r \in Requests, NEW place,
         Goto(r, place),
         UNCHANGED <<req, total, remaining, expired, rows, aged, audited,
                     redeemed>>,
         \A s \in Requests : s # r =>
           seen'[s] = seen[s] /\ answer'[s] = answer[s]
                              /\ (s \in late' <=> s \in late),
         \A row \in rows : row.id = r => place \in {"answered", "error"}
                                         /\ (r \in late' <=> r \in late),
         \A row \in rows : row.id = r /\ place = "answered" => r \in audited,
         r \in late' => expired[req[r].ent],
         place # "audit",
         place = "replay" => ~KeyIsFree(r),
         place = "answered" => answer'[r] \in RowsOf(req[r].ent, req[r].key),
         place = "redeem" =>
           /\ req[r].qty <= seen'[r] /\ seen'[r] <= total[req[r].ent]
           /\ seen'[r] + redeemed[req[r].ent] >= total[req[r].ent]
           /\ r \notin late'
  PROVE  IInv'
<1>1. pc' = [pc EXCEPT ![r] = place] /\ pc \in [Requests -> Places]
  BY DEF Goto, IInv, TypeOK
<1>2. pc'[r] = place /\ \A s \in Requests : s # r => pc'[s] = pc[s]
  BY <1>1
<1>3. RemainingInBounds' /\ NoUnitLost'
  BY DEF IInv, RemainingInBounds, NoUnitLost
<1>4. rows' = rows /\ \A row \in rows : row.id \in Requests
  BY DEF IInv, TypeOK, Row
<1>5. LateRequestsRedeemNothing'
  BY <1>4 DEF IInv, LateRequestsRedeemNothing
<1>6. UnauditedOnlyOnFailure'
  BY <1>2, <1>4 DEF IInv, UnauditedOnlyOnFailure
<1>7. RowsHaveWriters' /\ OneRowPerKey' /\ OnlyRowsAge'
  BY <1>2, <1>4 DEF IInv, RowsHaveWriters, OneRowPerKey, OnlyRowsAge
<1>8. HandlersRely'
  BY <1>2, <1>4 DEF IInv, HandlersRely, KeyIsFree, RowsOf
<1> QED BY <1>3, <1>5, <1>6, <1>7, <1>8 DEF IInv

LEMMA ArriveInv == ASSUME IInv, TypeOK', NEW r \in Requests, Arrive(r) PROVE IInv'
<1>1. pc[r] = "idle"
  BY DEF Arrive
<1>2. \A row \in rows : row.id # r
  BY <1>1 DEF IInv, RowsHaveWriters
<1>3. \A s \in Requests : s # r => (s \in late' <=> s \in late)
  BY DEF Arrive
<1>4. r \in late' => expired[req[r].ent]
  BY DEF Arrive, IInv, HandlersRely
<1>5. Goto(r, "lookup")
      /\ UNCHANGED <<req, total, remaining, expired, rows, aged, audited, redeemed,
                      seen, answer>>
  BY DEF Arrive
<1> QED BY <1>2, <1>3, <1>4, <1>5, QuietStep

LEMMA LookUpKeyInv ==
  ASSUME IInv, TypeOK', NEW r \in Requests, LookUpKey(r) PROVE IInv'
<1>0. r \in late => expired[req[r].ent]
  BY DEF IInv, HandlersRely
<1>1. \A row \in rows : row.id # r
  BY DEF LookUpKey, IInv, RowsHaveWriters
<1>2. Goto(r, IF KeyIsFree(r) THEN "validate" ELSE "replay")
      /\ UNCHANGED <<req, total, remaining, expired, rows, aged, audited, redeemed,
                      seen, answer, late>>
  BY DEF LookUpKey
<1>3. CASE KeyIsFree(r)
  <2>1. Goto(r, "validate")
    BY <1>2, <1>3
  <2> QED BY <1>0, <1>1, <1>2, <2>1, QuietStep
<1>4. CASE ~KeyIsFree(r)
  <2>1. Goto(r, "replay")
    BY <1>2, <1>4
  <2> QED BY <1>0, <1>1, <1>2, <1>4, <2>1, QuietStep
<1> QED BY <1>3, <1>4

LEMMA ReplayInv ==
  ASSUME IInv, TypeOK', NEW r \in Requests, Replay(r) PROVE IInv'
<1>0. r \in late => expired[req[r].ent]
  BY DEF IInv, HandlersRely
<1>1. \A row \in rows : row.id # r
  BY DEF Replay, IInv, RowsHaveWriters
<1>2. Goto(r, "answered")
      /\ UNCHANGED <<req, total, remaining, expired, rows, aged, audited, redeemed,
                      seen, late>>
  BY DEF Replay
<1>3. answer'[r] \in RowsOf(req[r].ent, req[r].key)
      /\ \A s \in Requests : s # r => answer'[s] = answer[s]
  BY DEF Replay, IInv, TypeOK
<1> QED BY <1>0, <1>1, <1>2, <1>3, QuietStep

LEMMA ValidateInv ==
  ASSUME IInv, TypeOK', NEW r \in Requests, Validate(r) PROVE IInv'
<1> DEFINE e == req[r].ent
<1>0. r \in late => expired[req[r].ent]
  BY DEF IInv, HandlersRely
<1>1. \A row \in rows : row.id # r
  BY DEF Validate, IInv, RowsHaveWriters
<1>2. UNCHANGED <<req, total, remaining, expired, rows, aged, audited, redeemed,
                  answer, late>>
  BY DEF Validate
<1>3. e \in Entitlements /\ req[r].qty \in Nat /\ remaining[e] \in Int
  BY RedemptionAssumption DEF IInv, TypeOK, Request
<1>4. seen'[r] = remaining[e] /\ \A s \in Requests : s # r => seen'[s] = seen[s]
  BY DEF Validate, IInv, TypeOK
<1>5. CASE expired[e] \/ remaining[e] < req[r].qty
  <2>1. Goto(r, "reject")
    BY <1>5 DEF Validate
  <2> QED BY <1>0, <1>1, <1>2, <1>4, <2>1, QuietStep
<1>6. CASE ~(expired[e] \/ remaining[e] < req[r].qty)
  <2>1. Goto(r, "redeem")
    BY <1>6 DEF Validate
  <2>2. r \notin late
    BY <1>0, <1>6 DEF Validate
  <2>3. /\ req[r].qty <= seen'[r] /\ seen'[r] <= total[e]
        /\ seen'[r] + redeemed[e] >= total[e]
    BY <1>3, <1>4, <1>6 DEF IInv, RemainingInBounds, NoUnitLost
  <2> QED BY <1>0, <1>1, <1>2, <1>4, <2>1, <2>2, <2>3, QuietStep
<1> QED BY <1>5, <1>6

LEMMA DuplicateKeyInv ==
  ASSUME IInv, TypeOK', NEW r \in Requests, DuplicateKey(r) PROVE IInv'
<1>0. r \in late => expired[req[r].ent]
  BY DEF IInv, HandlersRely
<1>1. \A row \in rows : row.id # r
  BY DEF DuplicateKey, IInv, RowsHaveWriters
<1>2. Goto(r, "error")
      /\ UNCHANGED <<req, total, remaining, expired, rows, aged, audited, redeemed,
                      seen, answer, late>>
  BY DEF DuplicateKey
<1> QED BY <1>0, <1>1, <1>2, QuietStep

LEMMA FailInv == ASSUME IInv, TypeOK', NEW r \in Requests, Fail(r) PROVE IInv'
<1>0. r \in late => expired[req[r].ent]
  BY DEF IInv, HandlersRely
<1>1. Goto(r, "error")
      /\ UNCHANGED <<req, total, remaining, expired, rows, aged, audited, redeemed,
                      seen, answer, late>>
  BY DEF Fail
<1> QED BY <1>0, <1>1, QuietStep

\* The INSERT of a redemption row, common to Reject and Redeem: the key was
\* free, so the new row is the only one of its pair.
LEMMA InsertKeepsRows ==
  ASSUME IInv, TypeOK', NEW r \in Requests, NEW status \in {"success", "failure"},
         pc[r] \in {"reject", "redeem"}, Goto(r, "audit"), KeyIsFree(r),
         Insert(r, status), UNCHANGED <<req, aged, audited, late>>,
         status = "success" => r \notin late
  PROVE  /\ RowsHaveWriters' /\ OneRowPerKey' /\ OnlyRowsAge'
         /\ UnauditedOnlyOnFailure' /\ LateRequestsRedeemNothing'
         /\ rows \subseteq rows' /\ \E row \in rows' : row.id = r
<1> DEFINE new == [id |-> r, ent |-> req[r].ent, key |-> req[r].key,
                   qty |-> req[r].qty, status |-> status]
<1>1. rows' = rows \cup {new}
  BY DEF Insert
<1>2. pc'[r] = "audit" /\ \A s \in Requests : s # r => pc'[s] = pc[s]
  BY DEF Goto, IInv, TypeOK
<1>3. \A row \in rows : row.id \in Requests /\ row.id # r
  BY DEF IInv, TypeOK, Row, RowsHaveWriters
<1>4. \A row \in rows : ~(row.ent = new.ent /\ row.key = new.key)
  BY DEF KeyIsFree, RowsOf
<1>5. RowsHaveWriters'
  BY <1>1, <1>2, <1>3 DEF IInv, RowsHaveWriters
<1>6. OneRowPerKey'
  BY <1>1, <1>4 DEF IInv, OneRowPerKey
<1>7. UnauditedOnlyOnFailure'
  BY <1>1, <1>2, <1>3 DEF IInv, UnauditedOnlyOnFailure
<1>8. LateRequestsRedeemNothing'
  BY <1>1 DEF IInv, LateRequestsRedeemNothing
<1>9. new \in rows' /\ new.id = r /\ rows \subseteq rows'
  BY <1>1
<1>10. \E row \in rows' : row.id = r
  BY <1>9
<1>11. OnlyRowsAge'
  BY <1>9 DEF IInv, OnlyRowsAge
<1> HIDE DEF new
<1> QED BY <1>5, <1>6, <1>7, <1>8, <1>9, <1>10, <1>11

LEMMA RejectInv ==
  ASSUME IInv, TypeOK', NEW r \in Requests, Reject(r) PROVE IInv'
<1>1. /\ RowsHaveWriters' /\ OneRowPerKey' /\ OnlyRowsAge'
      /\ UnauditedOnlyOnFailure' /\ LateRequestsRedeemNothing'
      /\ rows \subseteq rows' /\ \E row \in rows' : row.id = r
  BY InsertKeepsRows DEF Reject
<1>2. RemainingInBounds' /\ NoUnitLost'
  BY DEF Reject, IInv, RemainingInBounds, NoUnitLost
<1>3. pc'[r] = "audit" /\ \A s \in Requests : s # r => pc'[s] = pc[s]
  BY DEF Reject, Goto, IInv, TypeOK
<1>4. HandlersRely'
  BY <1>1, <1>3 DEF Reject, IInv, HandlersRely, KeyIsFree, RowsOf
<1> QED BY <1>1, <1>2, <1>4 DEF IInv

LEMMA RedeemInv ==
  ASSUME IInv, TypeOK', NEW r \in Requests, Redeem(r) PROVE IInv'
<1> DEFINE e == req[r].ent
           q == req[r].qty
<1>1. pc[r] = "redeem" /\ UNCHANGED <<req, total, expired, audited, seen, answer, late>>
  BY DEF Redeem
<1>2. e \in Entitlements /\ q \in Nat /\ q > 0 /\ seen[r] \in Int
      /\ redeemed[e] \in Nat /\ total[e] \in Nat
  <2>1. e \in Entitlements /\ q \in Quantities
    BY DEF IInv, TypeOK, Request
  <2>2. q \in Nat \ {0}
    BY <2>1, RedemptionAssumption
  <2> QED BY <2>1, <2>2 DEF IInv, TypeOK
<1>3. /\ q <= seen[r] /\ seen[r] <= total[e]
      /\ seen[r] + redeemed[e] >= total[e]
      /\ r \notin late
  BY <1>1 DEF IInv, HandlersRely
<1>4. /\ RowsHaveWriters' /\ OneRowPerKey' /\ OnlyRowsAge'
      /\ UnauditedOnlyOnFailure' /\ LateRequestsRedeemNothing'
      /\ rows \subseteq rows' /\ \E row \in rows' : row.id = r
  BY <1>3, InsertKeepsRows DEF Redeem
<1>5. /\ remaining'[e] = seen[r] - q /\ redeemed'[e] = redeemed[e] + q
      /\ \A f \in Entitlements : f # e =>
           remaining'[f] = remaining[f] /\ redeemed'[f] = redeemed[f]
  BY <1>2 DEF Redeem, IInv, TypeOK
<1>6. RemainingInBounds'
  BY <1>1, <1>2, <1>3, <1>5 DEF IInv, RemainingInBounds
<1>7. NoUnitLost'
  BY <1>1, <1>2, <1>3, <1>5 DEF IInv, NoUnitLost
<1>8. pc'[r] = "audit" /\ \A s \in Requests : s # r => pc'[s] = pc[s]
  BY DEF Redeem, Goto, IInv, TypeOK
<1>9. \A f \in Entitlements : redeemed'[f] >= redeemed[f] /\ redeemed[f] \in Nat
                                /\ redeemed'[f] \in Nat
  BY <1>2, <1>5 DEF IInv, TypeOK
<1>10. HandlersRely'
  <2> SUFFICES ASSUME NEW s \in Requests
               PROVE  /\ s \in late => expired[req[s].ent]
                      /\ pc'[s] = "replay" => ~KeyIsFree(s)'
                      /\ pc'[s] = "audit" => \E row \in rows' : row.id = s
                      /\ pc'[s] = "answered" =>
                           answer[s] \in RowsOf(req[s].ent, req[s].key)'
                      /\ pc'[s] = "redeem" =>
                           LET f == req[s].ent IN
                           /\ req[s].qty <= seen[s] /\ seen[s] <= total[f]
                           /\ seen[s] + redeemed'[f] >= total[f]
                           /\ s \notin late
    BY <1>1 DEF HandlersRely, KeyIsFree, RowsOf
  <2>1. s \in late => expired[req[s].ent]
    BY DEF IInv, HandlersRely
  <2>2. pc'[s] = "replay" => ~KeyIsFree(s)'
    BY <1>1, <1>4, <1>8 DEF IInv, HandlersRely, KeyIsFree, RowsOf
  <2>3. pc'[s] = "audit" => \E row \in rows' : row.id = s
    BY <1>4, <1>8 DEF IInv, HandlersRely
  <2>4. pc'[s] = "answered" => answer[s] \in RowsOf(req[s].ent, req[s].key)'
    BY <1>1, <1>4, <1>8 DEF IInv, HandlersRely, RowsOf
  <2>5. ASSUME pc'[s] = "redeem"
        PROVE  LET f == req[s].ent IN
               /\ req[s].qty <= seen[s] /\ seen[s] <= total[f]
               /\ seen[s] + redeemed'[f] >= total[f]
               /\ s \notin late
    <3>1. req[s].ent \in Entitlements /\ seen[s] \in Int
          /\ total[req[s].ent] \in Nat
      BY DEF IInv, TypeOK, Request
    <3>2. pc[s] = "redeem"
      BY <1>8, <2>5
    <3> QED BY <1>9, <3>1, <3>2 DEF IInv, HandlersRely
  <2> QED BY <2>1, <2>2, <2>3, <2>4, <2>5
<1> QED BY <1>4, <1>6, <1>7, <1>10 DEF IInv

LEMMA AuditInv ==
  ASSUME IInv, TypeOK', NEW r \in Requests, Audit(r) PROVE IInv'
<1>1. UNCHANGED <<req, total, remaining, expired, rows, aged, seen, late, redeemed>>
  BY DEF Audit
<1>2. pc'[r] = "answered" /\ \A s \in Requests : s # r => pc'[s] = pc[s]
  BY DEF Audit, Goto, IInv, TypeOK
<1>3. audited' = audited \cup {r}
  BY DEF Audit
<1>4. \A row \in rows : row.id \in Requests
  BY DEF IInv, TypeOK, Row
<1>5. answer'[r] \in RowsOf(req[r].ent, req[r].key)
      /\ \A s \in Requests : s # r => answer'[s] = answer[s]
  BY DEF Audit, IInv, TypeOK, RowsHaveWriters, RowsOf
<1>6. RemainingInBounds' /\ NoUnitLost' /\ LateRequestsRedeemNothing' /\ OneRowPerKey'
      /\ OnlyRowsAge'
  BY <1>1 DEF IInv, RemainingInBounds, NoUnitLost, LateRequestsRedeemNothing,
              OneRowPerKey, OnlyRowsAge
<1>7. UnauditedOnlyOnFailure'
  BY <1>1, <1>2, <1>3, <1>4 DEF IInv, UnauditedOnlyOnFailure
<1>8. RowsHaveWriters'
  BY <1>1, <1>2, <1>4 DEF IInv, RowsHaveWriters
<1>9. HandlersRely'
  BY <1>1, <1>2, <1>5 DEF IInv, HandlersRely, KeyIsFree, RowsOf
<1> QED BY <1>6, <1>7, <1>8, <1>9 DEF IInv

LEMMA ExpireInv ==
  ASSUME IInv, TypeOK', NEW e \in Entitlements, Expire(e) PROVE IInv'
<1>1. UNCHANGED <<req, total, remaining, rows, aged, audited, pc, seen, answer,
                  late, redeemed>>
  BY DEF Expire
<1>2. \A f \in Entitlements : expired[f] => expired'[f]
  BY DEF Expire, IInv, TypeOK
<1>3. \A r \in Requests : req[r].ent \in Entitlements
  BY DEF IInv, TypeOK, Request
<1>4. RemainingInBounds' /\ NoUnitLost' /\ LateRequestsRedeemNothing'
      /\ UnauditedOnlyOnFailure' /\ RowsHaveWriters' /\ OneRowPerKey'
      /\ OnlyRowsAge'
  BY <1>1 DEF IInv, RemainingInBounds, NoUnitLost, LateRequestsRedeemNothing,
              UnauditedOnlyOnFailure, RowsHaveWriters, OneRowPerKey, OnlyRowsAge
<1>5. HandlersRely'
  BY <1>1, <1>2, <1>3 DEF IInv, HandlersRely, KeyIsFree, RowsOf
<1> QED BY <1>4, <1>5 DEF IInv

\* Rows grow old, and nothing else changes.
LEMMA DayPassesInv == ASSUME IInv, TypeOK', DayPasses PROVE IInv'
<1>1. UNCHANGED <<req, total, remaining, expired, rows, audited, pc, seen, answer,
                  late, redeemed>>
  BY DEF DayPasses
<1>2. OnlyRowsAge'
  BY DEF DayPasses, OnlyRowsAge
<1>3. RemainingInBounds' /\ NoUnitLost' /\ LateRequestsRedeemNothing'
      /\ UnauditedOnlyOnFailure' /\ RowsHaveWriters' /\ OneRowPerKey'
      /\ HandlersRely'
  BY <1>1 DEF IInv, RemainingInBounds, NoUnitLost, LateRequestsRedeemNothing,
              UnauditedOnlyOnFailure, RowsHaveWriters, OneRowPerKey, HandlersRely,
              KeyIsFree, RowsOf
<1> QED BY <1>2, <1>3 DEF IInv

LEMMA InvNext == IInv /\ [Next]_vars => IInv'
<1> SUFFICES ASSUME IInv, [Next]_vars PROVE IInv'
  OBVIOUS
<1>1. TypeOK'
  BY TypeNext DEF IInv
<1>2. CASE Next
  BY <1>1, <1>2, ArriveInv, LookUpKeyInv, ReplayInv, ValidateInv, RejectInv,
     RedeemInv, DuplicateKeyInv, AuditInv, FailInv, ExpireInv, DayPassesInv
     DEF Next, Step
<1>3. CASE UNCHANGED vars
  BY <1>3 DEF vars, IInv, TypeOK, RemainingInBounds, NoUnitLost,
     LateRequestsRedeemNothing, UnauditedOnlyOnFailure, RowsHaveWriters,
     OneRowPerKey, OnlyRowsAge, HandlersRely, KeyIsFree, RowsOf
<1> QED BY <1>2, <1>3

\* Every reachable state satisfies the inductive invariant: the bounds of the
\* quantity, one row per key (for good), and what each handler relies on
\* between its steps.
THEOREM Invariance == Spec => []IInv
BY InvInit, InvNext, PTL DEF Spec

LEMMA SameKeySameAnswerFromInv == IInv => SameKeySameAnswer
BY DEF IInv, SameKeySameAnswer, HandlersRely, OneRowPerKey, RowsOf

\* However many handlers write from stale copies, the stored quantity stays
\* between zero and what was issued, and the holder never loses units.
THEOREM QuantitySafe == Spec => []QuantityHolds
<1>1. IInv => QuantityHolds
  BY DEF IInv, QuantityHolds
<1> QED BY <1>1, Invariance, PTL

\* While a key is tracked, requests with the same entitlement and key are told
\* of the same redemption, and a request that arrives after the expiry of its
\* entitlement redeems nothing.
THEOREM ReplaysAgree == Spec => []RequestsHold
<1>1. IInv => RequestsHold
  BY SameKeySameAnswerFromInv DEF IInv, RequestsHold
<1> QED BY <1>1, Invariance, PTL

\* A request that arrives after the expiry redeems nothing, and a redemption
\* without an audit entry belongs to a request that has not been answered.
THEOREM ExpiryAndTrail ==
  Spec => [](LateRequestsRedeemNothing /\ UnauditedOnlyOnFailure)
BY Invariance, PTL DEF IInv
-------------------------------------------------------------------------------
LEMMA QuantityStep ==
  ASSUME IInv, [Next]_vars, NEW e \in Entitlements, remaining'[e] # remaining[e]
  PROVE  \E row \in rows' \ rows :
           row.ent = e /\ row.status = "success" /\ RowsOf(e, row.key) = {}
<1>1. PICK r \in Requests : Redeem(r)
  BY DEF Next, Step, Arrive, LookUpKey, Replay, Validate, Reject, DuplicateKey,
         Audit, Fail, Expire, DayPasses, vars
<1> DEFINE new == [id |-> r, ent |-> req[r].ent, key |-> req[r].key,
                   qty |-> req[r].qty, status |-> "success"]
<1>2. e = req[r].ent
  BY <1>1 DEF Redeem, IInv, TypeOK
<1>3. rows' = rows \cup {new} /\ RowsOf(e, new.key) = {}
  BY <1>1, <1>2 DEF Redeem, Insert, KeyIsFree
<1>4. new \notin rows
  BY <1>2, <1>3 DEF RowsOf
<1>5. new \in rows' \ rows /\ new.ent = e /\ new.status = "success"
  BY <1>2, <1>3, <1>4
<1> HIDE DEF new
<1> QED BY <1>3, <1>5

\* The stored quantity changes only together with the success row that
\* accounts for it.
THEOREM QuantityIsAtomic == Spec => QuantityChangesWithItsRow
<1>1. IInv /\ [Next]_vars =>
        [\A e \in Entitlements : remaining'[e] # remaining[e] =>
          \E row \in rows' \ rows :
            row.ent = e /\ row.status = "success" /\ RowsOf(e, row.key) = {}]_vars
  BY QuantityStep
<1> QED BY <1>1, Invariance, PTL DEF Spec, QuantityChangesWithItsRow
-------------------------------------------------------------------------------
\* A pair that has a row is decided by that row, whichever CHOOSE picks.
LEMMA OutcomeOfRow ==
  ASSUME IInv, NEW row \in rows
  PROVE  Outcome[<<row.ent, row.key>>] = row.status
<1>1. row.ent \in Entitlements /\ row.key \in Keys
  BY DEF IInv, TypeOK, Row
<1>2. RowsOf(row.ent, row.key) = {row}
  BY DEF IInv, OneRowPerKey, RowsOf
<1>3. (CHOOSE x \in RowsOf(row.ent, row.key) : TRUE) = row
  BY <1>2
<1>4. <<row.ent, row.key>> \in Entitlements \X Keys
  BY <1>1
<1> QED BY <1>2, <1>3, <1>4 DEF Outcome, StatusOf

LEMMA SameRowsSameOutcome ==
  /\ rows' = rows => Outcome' = Outcome
  /\ rows' = rows /\ aged' = aged => Untracked' = Untracked
BY DEF Outcome, Untracked, Tracked, RowsOf

\* Moving one handler to a place where it has not ended changes nothing that
\* the callers see.
LEMMA QuietStutter ==
  ASSUME IInv, NEW r \in Requests, Active(r) \/ pc[r] = "idle",
         NEW place \in Places \ {"answered", "error"}, Goto(r, place),
         UNCHANGED <<req, answer>>
  PROVE  Ask' = Ask /\ Told' = Told
<1>1. \A s \in Requests : pc'[s] = IF s = r THEN place ELSE pc[s]
  BY DEF Goto, IInv, TypeOK
<1>2. pc[r] \notin {"answered", "error"}
  BY DEF Active
<1> QED BY <1>1, <1>2 DEF Ask, Told

\* A row goes in: its pair is decided.
LEMMA InsertDecides ==
  ASSUME IInv, IInv', NEW r \in Requests, NEW status \in {"success", "failure"},
         pc[r] \in {"reject", "redeem"}, Goto(r, "audit"), KeyIsFree(r),
         Insert(r, status), UNCHANGED <<req, aged, answer>>
  PROVE  Idem!Next
<1> DEFINE new == [id |-> r, ent |-> req[r].ent, key |-> req[r].key,
                   qty |-> req[r].qty, status |-> status]
           pair == <<req[r].ent, req[r].key>>
<1>1. rows' = rows \cup {new}
  BY DEF Insert
<1>2. req[r].ent \in Entitlements /\ req[r].key \in Keys
  BY DEF IInv, TypeOK, Request
<1>3. pair \in Entitlements \X Keys
  BY <1>2
<1>4. Outcome[pair] = "none"
  BY <1>3 DEF Outcome, StatusOf, KeyIsFree
<1>5. Outcome'[pair] = status
  <2>1. new \in rows' /\ new.ent = req[r].ent /\ new.key = req[r].key
        /\ new.status = status
    BY <1>1
  <2>2. RowsOf(req[r].ent, req[r].key)' = {new}
    BY <1>1, <2>1 DEF KeyIsFree, RowsOf
  <2>3. (CHOOSE x \in RowsOf(req[r].ent, req[r].key)' : TRUE) = new
    BY <2>2
  <2> QED BY <1>3, <2>1, <2>2, <2>3 DEF Outcome, StatusOf
<1>6. \A p \in Entitlements \X Keys : p # pair => Outcome'[p] = Outcome[p]
  <2> SUFFICES ASSUME NEW p \in Entitlements \X Keys, p # pair
               PROVE  Outcome'[p] = Outcome[p]
    OBVIOUS
  <2>1. p[1] # req[r].ent \/ p[2] # req[r].key
    OBVIOUS
  <2>2. RowsOf(p[1], p[2])' = RowsOf(p[1], p[2])
    BY <1>1, <2>1 DEF RowsOf
  <2> QED BY <2>2 DEF Outcome
<1>7. Outcome' = [Outcome EXCEPT ![pair] = status]
  BY <1>3, <1>5, <1>6 DEF Outcome
<1>8. Ask' = Ask /\ Told' = Told
  BY QuietStutter DEF Places, Active
<1>9. Untracked' = Untracked \ {pair}
  <2>1. \A p \in Entitlements \X Keys : p # pair =>
          RowsOf(p[1], p[2])' = RowsOf(p[1], p[2])
    BY <1>1 DEF RowsOf
  <2>2. r \notin aged'
    BY DEF IInv, OnlyRowsAge, RowsHaveWriters
  <2>3. new \in RowsOf(pair[1], pair[2])' /\ new.id = r
    BY <1>1 DEF RowsOf
  <2>4. pair \notin Untracked'
    BY <2>2, <2>3 DEF Untracked, Tracked
  <2>5. ASSUME NEW p \in Entitlements \X Keys, p # pair
        PROVE  p \in Untracked' <=> p \in Untracked
    BY <2>1, <2>5 DEF Untracked, Tracked
  <2>6. Untracked \subseteq Entitlements \X Keys
        /\ Untracked' \subseteq Entitlements \X Keys
    BY DEF Untracked
  <2> HIDE DEF pair
  <2> QED BY <2>4, <2>5, <2>6
<1> QED
  <2>1. Idem!Decide(pair)
    BY <1>4, <1>7, <1>8, <1>9 DEF Idem!Decide, Idem!Decisions
  <2> QED BY <1>3, <2>1 DEF Idem!Next, Idem!Pairs

\* A handler ends with an answer: its request is told the pair's decision.
LEMMA AnswerTells ==
  ASSUME IInv, NEW r \in Requests, Active(r), Goto(r, "answered"),
         NEW row \in RowsOf(req[r].ent, req[r].key),
         answer' = [answer EXCEPT ![r] = row], UNCHANGED <<req, rows, aged>>
  PROVE  Idem!Next
<1>1. \A s \in Requests : pc'[s] = IF s = r THEN "answered" ELSE pc[s]
  BY DEF Goto, IInv, TypeOK
<1>2. \A s \in Requests : answer'[s] = IF s = r THEN row ELSE answer[s]
  BY DEF IInv, TypeOK
<1>3. Told' = [Told EXCEPT ![r] = row.status] /\ Told[r] = "nothing"
  <2>1. Told[r] = "nothing" /\ Told'[r] = row.status
    BY <1>1, <1>2 DEF Told, Active
  <2>2. \A s \in Requests : s # r => Told'[s] = Told[s]
    BY <1>1, <1>2 DEF Told
  <2> QED BY <2>1, <2>2 DEF Told
<1>4. Outcome[Ask[r]] = row.status /\ row.status # "none"
  <2>1. row \in rows /\ row.ent = req[r].ent /\ row.key = req[r].key
    BY DEF RowsOf
  <2>2. row.status # "none"
    BY <2>1 DEF IInv, TypeOK, Row
  <2> QED BY <2>1, <2>2, OutcomeOfRow DEF Ask
<1>5. Idem!Tell(r)
  BY <1>3, <1>4, SameRowsSameOutcome DEF Idem!Tell, Ask
<1> QED BY <1>5 DEF Idem!Next

\* A handler ends with an error: its request is told just that.
LEMMA ErrorBreaks ==
  ASSUME IInv, NEW r \in Requests, Active(r), Goto(r, "error"),
         UNCHANGED <<req, rows, aged, answer>>
  PROVE  Idem!Next
<1>1. \A s \in Requests : pc'[s] = IF s = r THEN "error" ELSE pc[s]
  BY DEF Goto, IInv, TypeOK
<1>2. Told' = [Told EXCEPT ![r] = "error"] /\ Told[r] = "nothing"
  BY <1>1 DEF Told, Active
<1>3. Idem!Break(r)
  BY <1>2, SameRowsSameOutcome DEF Idem!Break, Ask
<1> QED BY <1>3 DEF Idem!Next

\* 24 hours pass: the pairs that are decided by then are those that have rows.
LEMMA DayLapses == ASSUME IInv, DayPasses PROVE Idem!Next
<1>1. UNCHANGED <<req, rows, pc, answer>> /\ aged' = {row.id : row \in rows}
  BY DEF DayPasses
<1>2. Ask' = Ask /\ Outcome' = Outcome /\ Told' = Told
  BY <1>1, SameRowsSameOutcome DEF Ask, Told
<1>3. ASSUME NEW p \in Entitlements \X Keys
      PROVE  Outcome[p] # "none" <=> RowsOf(p[1], p[2]) # {}
  <2>1. CASE RowsOf(p[1], p[2]) = {}
    BY <2>1 DEF Outcome, StatusOf
  <2>2. CASE RowsOf(p[1], p[2]) # {}
    <3>1. PICK row \in RowsOf(p[1], p[2]) : TRUE
      BY <2>2
    <3>2. row \in rows /\ row.ent = p[1] /\ row.key = p[2]
      BY DEF RowsOf
    <3>3. row.status # "none"
      BY <3>2 DEF IInv, TypeOK, Row
    <3>4. p = <<row.ent, row.key>>
      BY <3>2
    <3> QED BY <2>2, <3>2, <3>3, <3>4, OutcomeOfRow
  <2> QED BY <2>1, <2>2
<1>4. ASSUME NEW p \in Entitlements \X Keys
      PROVE  p \in Untracked' <=> RowsOf(p[1], p[2]) # {}
  BY <1>1 DEF Untracked, Tracked, RowsOf
<1>5. Untracked' = {p \in Entitlements \X Keys : Outcome[p] # "none"}
  <2>1. Untracked' \subseteq Entitlements \X Keys
    BY DEF Untracked
  <2> QED BY <1>3, <1>4, <2>1
<1>6. Idem!Lapse
  BY <1>2, <1>5 DEF Idem!Lapse, Idem!Pairs
<1> QED BY <1>6 DEF Idem!Next

LEMMA PromiseInit == Init => Idem!Init
<1> SUFFICES ASSUME Init PROVE Idem!Init
  OBVIOUS
<1>1. Ask \in [Requests -> Entitlements \X Keys]
  BY DEF Init, Ask, Request
<1>2. Outcome = [p \in Entitlements \X Keys |-> "none"]
  BY DEF Init, Outcome, StatusOf, RowsOf
<1>3. Told = [r \in Requests |-> "nothing"]
  BY DEF Init, Told
<1>4. Untracked = {}
  BY DEF Init, Untracked, RowsOf
<1> QED BY <1>1, <1>2, <1>3, <1>4 DEF Idem!Init, Idem!Pairs

LEMMA PromiseNext == IInv /\ IInv' /\ [Next]_vars => [Idem!Next]_(Idem!vars)
<1> SUFFICES ASSUME IInv, IInv', [Next]_vars
             PROVE  Idem!Next \/ UNCHANGED <<Ask, Outcome, Untracked, Told>>
  BY DEF Idem!vars
<1>1. ASSUME NEW r \in Requests, Arrive(r) \/ LookUpKey(r) \/ Validate(r)
      PROVE  UNCHANGED <<Ask, Outcome, Untracked, Told>>
  <2>1. Active(r) \/ pc[r] = "idle"
    BY <1>1 DEF Arrive, LookUpKey, Validate, Active
  <2>2. \E place \in Places \ {"answered", "error"} : Goto(r, place)
    BY <1>1 DEF Arrive, LookUpKey, Validate, Places
  <2>3. UNCHANGED <<req, answer, rows, aged>>
    BY <1>1 DEF Arrive, LookUpKey, Validate
  <2> QED BY <2>1, <2>2, <2>3, QuietStutter, SameRowsSameOutcome
<1>2. ASSUME NEW r \in Requests, Reject(r) \/ Redeem(r)
      PROVE  Idem!Next
  BY <1>2, InsertDecides DEF Reject, Redeem, Active
<1>3. ASSUME NEW r \in Requests, Replay(r)
      PROVE  Idem!Next
  BY <1>3, AnswerTells DEF Replay, Active
<1>4. ASSUME NEW r \in Requests, Audit(r)
      PROVE  Idem!Next
  <2>1. PICK row \in rows : row.id = r /\ answer' = [answer EXCEPT ![r] = row]
    BY <1>4 DEF Audit
  <2>2. row \in RowsOf(req[r].ent, req[r].key)
    BY <2>1 DEF IInv, RowsHaveWriters, RowsOf
  <2>3. Active(r) /\ Goto(r, "answered") /\ UNCHANGED <<req, rows, aged>>
    BY <1>4 DEF Audit, Active
  <2> QED BY <2>1, <2>2, <2>3, AnswerTells
<1>5. ASSUME NEW r \in Requests, DuplicateKey(r) \/ Fail(r)
      PROVE  Idem!Next
  BY <1>5, ErrorBreaks DEF DuplicateKey, Fail, Active
<1>6. ASSUME NEW e \in Entitlements, Expire(e)
      PROVE  UNCHANGED <<Ask, Outcome, Untracked, Told>>
  <2>1. UNCHANGED <<req, rows, aged, pc, answer>>
    BY <1>6 DEF Expire
  <2> QED BY <2>1, SameRowsSameOutcome DEF Ask, Told
<1>7. CASE DayPasses
  BY <1>7, DayLapses
<1>8. CASE UNCHANGED vars
  <2>1. UNCHANGED <<req, rows, aged, pc, answer>>
    BY <1>8 DEF vars
  <2> QED BY <2>1, SameRowsSameOutcome DEF Ask, Told
<1>9. CASE Next
  BY <1>9, <1>1, <1>2, <1>3, <1>4, <1>5, <1>6, <1>7 DEF Next, Step
<1> QED BY <1>8, <1>9

\* The handlers of redeem implement the promise of IdempotentRedemption.
THEOREM KeepsPromise == Spec => KeepsIdempotencyPromise
BY PromiseInit, PromiseNext, Invariance, PTL
   DEF Spec, KeepsIdempotencyPromise, Idem!Spec
-------------------------------------------------------------------------------
\* When requests take turns, nobody writes between a handler's read and its
\* write, so the copy it writes from is the stored quantity.
TakeTurns ==
  /\ \A r, s \in Requests :
       /\ Active(r) /\ Active(s)
       /\ req[r].ent \in Serial /\ req[r].ent = req[s].ent
       => r = s
  /\ \A r \in Requests : pc[r] = "redeem" /\ req[r].ent \in Serial =>
       seen[r] = remaining[req[r].ent]
  /\ \A e \in Serial : remaining[e] + redeemed[e] = total[e]

LEMMA TurnsInit == Init => TakeTurns
<1> SUFFICES ASSUME Init PROVE TakeTurns
  OBVIOUS
<1>1. \A e \in Serial : remaining[e] + redeemed[e] = total[e]
  <2> SUFFICES ASSUME NEW e \in Serial, e \in Entitlements
               PROVE  remaining[e] + redeemed[e] = total[e]
    BY RedemptionAssumption
  <2>1. total[e] \in Nat
    BY TypeInit DEF TypeOK
  <2>2. remaining[e] = total[e] /\ redeemed[e] = 0
    BY DEF Init
  <2> QED BY <2>1, <2>2
<1> QED BY <1>1 DEF Init, TakeTurns, Active

\* A step that ends a handler or moves it on, other than to "redeem".
LEMMA TurnsQuiet ==
  ASSUME TypeOK, TakeTurns, NEW r \in Requests, Active(r), NEW place \in Places,
         place # "redeem", Goto(r, place),
         UNCHANGED <<req, total, remaining, seen, redeemed>>
  PROVE  TakeTurns'
<1>1. \A s \in Requests : pc'[s] = IF s = r THEN place ELSE pc[s]
  BY DEF Goto, TypeOK
<1>2. \A s \in Requests : Active(s)' => Active(s)
  BY <1>1 DEF Active
<1> QED BY <1>1, <1>2 DEF TakeTurns

LEMMA TurnsNext == TypeOK /\ TakeTurns /\ [Next]_vars => TakeTurns'
<1> SUFFICES ASSUME TypeOK, TakeTurns, [Next]_vars PROVE TakeTurns'
  OBVIOUS
<1>1. ASSUME NEW r \in Requests, Arrive(r) PROVE TakeTurns'
  <2>1. \A s \in Requests : pc'[s] = IF s = r THEN "lookup" ELSE pc[s]
    BY <1>1 DEF Arrive, Goto, TypeOK
  <2>2. req[r].ent \in Serial =>
          \A s \in Requests : Active(s) => req[s].ent # req[r].ent
    BY <1>1 DEF Arrive
  <2>3. UNCHANGED <<req, total, remaining, seen, redeemed>>
    BY <1>1 DEF Arrive
  <2>4. \A s \in Requests : s # r => (Active(s)' <=> Active(s))
    BY <2>1 DEF Active
  <2> QED BY <2>1, <2>2, <2>3, <2>4 DEF TakeTurns
<1>2. ASSUME NEW r \in Requests,
             LookUpKey(r) \/ Replay(r) \/ Reject(r) \/ DuplicateKey(r)
               \/ Audit(r) \/ Fail(r)
      PROVE  TakeTurns'
  BY <1>2, TurnsQuiet DEF LookUpKey, Replay, Reject, DuplicateKey, Audit, Fail,
                          Active, Places
<1>3. ASSUME NEW r \in Requests, Validate(r) PROVE TakeTurns'
  <2>1. /\ \A s \in Requests : s # r => pc'[s] = pc[s] /\ seen'[s] = seen[s]
        /\ seen'[r] = remaining[req[r].ent] /\ Active(r)
    BY <1>3 DEF Validate, Goto, TypeOK, Active
  <2>2. UNCHANGED <<req, total, remaining, redeemed>>
    BY <1>3 DEF Validate
  <2>3. \A s \in Requests : Active(s)' => Active(s)
    BY <2>1 DEF Active
  <2> QED BY <2>1, <2>2, <2>3 DEF TakeTurns
<1>4. ASSUME NEW r \in Requests, Redeem(r) PROVE TakeTurns'
  <2> DEFINE e == req[r].ent
             q == req[r].qty
  <2>1. e \in Entitlements /\ q \in Nat
    BY RedemptionAssumption DEF TypeOK, Request
  <2>2. /\ \A s \in Requests : s # r => pc'[s] = pc[s]
        /\ pc'[r] = "audit" /\ Active(r) /\ pc[r] = "redeem"
    BY <1>4 DEF Redeem, Goto, TypeOK, Active
  <2>3. UNCHANGED <<req, total, seen>>
    BY <1>4 DEF Redeem
  <2>4. /\ remaining'[e] = seen[r] - q /\ redeemed'[e] = redeemed[e] + q
        /\ \A f \in Entitlements : f # e =>
             remaining'[f] = remaining[f] /\ redeemed'[f] = redeemed[f]
    BY <1>4, <2>1 DEF Redeem, TypeOK
  <2>5. e \in Serial =>
          seen[r] = remaining[e] /\ remaining[e] + redeemed[e] = total[e]
    BY <2>1, <2>2 DEF TakeTurns
  <2>6. remaining[e] \in Int /\ redeemed[e] \in Nat /\ total[e] \in Nat
    BY <2>1 DEF TypeOK
  <2>7. e \in Serial => remaining'[e] + redeemed'[e] = total[e]
    BY <2>1, <2>4, <2>5, <2>6
  <2>8. \A f \in Serial : remaining'[f] + redeemed'[f] = total'[f]
    BY <2>3, <2>4, <2>7, RedemptionAssumption DEF TakeTurns
  <2>9. \A s \in Requests : Active(s)' => Active(s)
    BY <2>2 DEF Active
  <2>10. \A s \in Requests : pc'[s] = "redeem" /\ req'[s].ent \in Serial =>
           seen'[s] = remaining'[req'[s].ent]
    <3> SUFFICES ASSUME NEW s \in Requests, pc'[s] = "redeem", req[s].ent \in Serial
                 PROVE  seen[s] = remaining'[req[s].ent]
      BY <2>3
    <3>1. s # r /\ pc[s] = "redeem" /\ Active(s)
      BY <2>2 DEF Active
    <3>2. req[s].ent # e
      BY <2>2, <3>1 DEF TakeTurns
    <3>3. req[s].ent \in Entitlements
      BY DEF TypeOK, Request
    <3> QED BY <2>4, <3>1, <3>2, <3>3 DEF TakeTurns
  <2> QED BY <2>3, <2>8, <2>9, <2>10 DEF TakeTurns
<1>5. ASSUME NEW e \in Entitlements, Expire(e) PROVE TakeTurns'
  BY <1>5 DEF Expire, TakeTurns, Active
<1>6. CASE DayPasses
  BY <1>6 DEF DayPasses, TakeTurns, Active
<1>7. CASE UNCHANGED vars
  BY <1>7 DEF vars, TakeTurns, Active
<1>8. CASE Next
  BY <1>8, <1>1, <1>2, <1>3, <1>4, <1>5, <1>6 DEF Next, Step
<1> QED BY <1>7, <1>8

\* If the requests of an entitlement do not overlap, what is left and what was
\* redeemed add up to what was issued, to the unit: overlap is the only way
\* the books can go wrong.
THEOREM SerialBooksBalance == Spec => []BooksBalance
<1>1. TakeTurns => BooksBalance
  BY DEF TakeTurns, BooksBalance
<1> QED BY <1>1, TurnsInit, TurnsNext, TypeCorrect, PTL DEF Spec
===============================================================================
