----------------------------- MODULE Events_proofs -----------------------------
(***************************************************************************)
(* Proofs about Events, for any approvals, users, editors, amounts and     *)
(* rules: first the decisions on approvals, then the edits of the event,   *)
(* then edits that take turns.                                             *)
(***************************************************************************)
EXTENDS Events, SequenceTheorems, TLAPS

OverrideSigned == \E a \in Overrides : Enough(a)

\* The states and what may follow what.
LEMMA StateFacts ==
  StateSet = {"draft", "submitted", "approved", "in_service", "closed"}
<1>1. StateSet = {States[i] : i \in 1..5}
  BY DEF StateSet, States
<1>2. /\ States[1] = "draft" /\ States[2] = "submitted" /\ States[3] = "approved"
      /\ States[4] = "in_service" /\ States[5] = "closed"
  BY DEF States
<1>3. 1..5 = {1, 2, 3, 4, 5}
  OBVIOUS
<1> HIDE DEF States
<1> QED BY <1>1, <1>2, <1>3

LEMMA TransitionFacts ==
  Transitions = {<<"draft", "submitted">>, <<"submitted", "approved">>,
                 <<"approved", "in_service">>, <<"in_service", "closed">>}
<1>2. /\ States[1] = "draft" /\ States[2] = "submitted" /\ States[3] = "approved"
      /\ States[4] = "in_service" /\ States[5] = "closed"
  BY DEF States
<1>3. 1..4 = {1, 2, 3, 4} /\ 1 + 1 = 2 /\ 2 + 1 = 3 /\ 3 + 1 = 4 /\ 4 + 1 = 5
  OBVIOUS
<1> HIDE DEF States
<1>4. Transitions = {<<States[1], States[1 + 1]>>, <<States[2], States[2 + 1]>>,
                     <<States[3], States[3 + 1]>>, <<States[4], States[4 + 1]>>}
  BY <1>3 DEF Transitions
<1> QED BY <1>2, <1>3, <1>4

InOrder(S) ==
  /\ "submitted" \in S => "draft" \in S
  /\ "approved" \in S => "submitted" \in S
  /\ "in_service" \in S => "approved" \in S
  /\ "closed" \in S => "in_service" \in S

LEMMA OrderFacts ==
  ASSUME NEW S
  PROVE  (\A t \in Transitions : t[2] \in S => t[1] \in S) <=> InOrder(S)
BY TransitionFacts DEF InOrder

LEMMA FollowsFacts ==
  ASSUME NEW s, NEW t
  PROVE  <<s, t>> \in Transitions <=>
           \/ s = "draft" /\ t = "submitted"
           \/ s = "submitted" /\ t = "approved"
           \/ s = "approved" /\ t = "in_service"
           \/ s = "in_service" /\ t = "closed"
BY TransitionFacts

-------------------------------------------------------------------------------
(***************************************************************************)
(* The decisions on approvals.                                             *)
(***************************************************************************)

\* What ApprovalsRely says of one row, and of one handler.
RowOK(a) ==
  /\ approval[a].status = "absent" =>
       signed[a] = {} /\ applied[a] = 0 /\ approval[a].kind = "other"
  /\ approval[a].status # "absent" => approval[a].by \in Users
  /\ approval[a].kind # "other" => approval[a].amount \in Amounts
  /\ approval[a].first # None =>
       approval[a].first \in signed[a] \/ approval[a].status # "pending"
  /\ approval[a].status = "approved" \/ applied[a] > 0 => Enough(a)
  /\ approval[a].kind = "budget_change" /\ approval[a].amount > SystemCap =>
       OverrideSigned

HandlerOK(h) == pc[h] # "idle" =>
  /\ on[h] \in Approvals /\ who[h] \in Users
  /\ approval[on[h]].status # "absent"
  /\ pc[h] \in Reviews!Signing => who[h] # approval[on[h]].by
  /\ pc[h] = "signOnly" => ~approval[on[h]].dual
  /\ pc[h] = "signSecond" => \E u \in signed[on[h]] : u # who[h]
  /\ pc[h] = "apply" => Enough(on[h]) /\ approval[on[h]].kind # "other"

LEMMA RelySplit ==
  ApprovalsRely <=> /\ \A a \in Approvals : RowOK(a)
                    /\ \A h \in Handlers : HandlerOK(h)
BY DEF ApprovalsRely, Reviews!HandlersRely, Reviews!SignedByEnough, RowOK,
       HandlerOK, Enough, OverrideSigned

LEMMA RelySplitNext ==
  ApprovalsRely' <=> /\ \A a \in Approvals : RowOK(a)'
                     /\ \A h \in Handlers : HandlerOK(h)'
BY DEF ApprovalsRely, Reviews!HandlersRely, Reviews!SignedByEnough, RowOK,
       HandlerOK, Enough, OverrideSigned

\* What a step may do to the rows of approvals: what was asked for stays, and
\* so does who has signed it; a decision is never taken back.
RowsGrow ==
  \A a \in Approvals :
    /\ signed[a] \subseteq signed'[a]
    /\ approval[a].status # "absent" =>
         /\ approval'[a].status # "absent"
         /\ approval'[a].kind = approval[a].kind
         /\ approval'[a].by = approval[a].by
         /\ approval'[a].dual = approval[a].dual
         /\ approval'[a].amount = approval[a].amount
         /\ approval'[a].status = "pending" => approval[a].status = "pending"

LEMMA SignedStays ==
  ASSUME ApprovalsRely, RowsGrow
  PROVE  /\ \A a \in Approvals : Enough(a) /\ approval[a].status # "absent" => Enough(a)'
         /\ OverrideSigned => OverrideSigned'
<1>1. \A a \in Approvals : Enough(a) /\ approval[a].status # "absent" => Enough(a)'
  BY DEF RowsGrow, Enough
<1>2. ASSUME NEW a \in Overrides, Enough(a) PROVE OverrideSigned'
  <2>1. a \in Approvals /\ approval[a].kind = "budget_override"
    BY DEF Overrides
  <2>2. approval[a].status # "absent"
    BY <2>1 DEF ApprovalsRely
  <2>3. Enough(a)'
    BY <1>1, <1>2, <2>1, <2>2
  <2>4. approval'[a].kind = "budget_override"
    BY <2>1, <2>2 DEF RowsGrow
  <2> QED BY <2>1, <2>3, <2>4 DEF Overrides, OverrideSigned
<1> QED BY <1>1, <1>2 DEF OverrideSigned

LEMMA RowStays ==
  ASSUME ApprovalsRely, RowsGrow, NEW a \in Approvals,
         approval'[a] = approval[a], signed'[a] = signed[a],
         applied'[a] = applied[a]
  PROVE  RowOK(a)'
<1>1. RowOK(a)
  BY RelySplit
<1>2. Enough(a)' <=> Enough(a)
  BY DEF Enough
<1> QED BY <1>1, <1>2, SignedStays DEF RowOK

LEMMA HandlerStays ==
  ASSUME ApprovalsRely, RowsGrow, NEW h \in Handlers,
         pc'[h] = pc[h], on'[h] = on[h], who'[h] = who[h]
  PROVE  HandlerOK(h)'
<1> SUFFICES ASSUME pc[h] # "idle" PROVE HandlerOK(h)'
  BY DEF HandlerOK
<1> DEFINE a == on[h]
<1>1. HandlerOK(h)
  BY RelySplit
<1>2. a \in Approvals /\ approval[a].status # "absent"
  BY <1>1 DEF HandlerOK
<1>3. /\ signed[a] \subseteq signed'[a] /\ approval'[a].status # "absent"
      /\ approval'[a].kind = approval[a].kind
      /\ approval'[a].by = approval[a].by
      /\ approval'[a].dual = approval[a].dual
  BY <1>2 DEF RowsGrow
<1>4. pc[h] = "apply" =>
        \E u \in signed'[a] : approval'[a].dual => \E v \in signed'[a] : u # v
  BY <1>1, <1>2, <1>3 DEF HandlerOK, Enough
<1> QED BY <1>1, <1>2, <1>3, <1>4 DEF HandlerOK, Enough

\* A step of one handler on one row, or of one of the two.
LEMMA ReviewStep ==
  ASSUME ApprovalsRely, RowsGrow,
         \A a \in Approvals :
           \/ /\ approval'[a] = approval[a] /\ signed'[a] = signed[a]
              /\ applied'[a] = applied[a]
           \/ RowOK(a)',
         \A h \in Handlers :
           \/ pc'[h] = pc[h] /\ on'[h] = on[h] /\ who'[h] = who[h]
           \/ HandlerOK(h)'
  PROVE  ApprovalsRely'
BY RowStays, HandlerStays, RelySplitNext

Others(h) ==
  \A g \in Handlers : g # h =>
    pc'[g] = pc[g] /\ on'[g] = on[g] /\ who'[g] = who[g]

\* A decision leaves a row that differs in its status and its signatures only.
LEMMA SignedFacts ==
  ASSUME NEW row \in Reviews!Approval, NEW place \in Reviews!Signing, NEW u \in Users
  PROVE  LET new == Reviews!Signed(row, place, u) IN
         /\ new \in Reviews!Approval
         /\ new.kind = row.kind /\ new.by = row.by /\ new.dual = row.dual
         /\ new.amount = row.amount
         /\ new.status = IF place = "signFirst" THEN row.status ELSE "approved"
         /\ new.first = IF place = "signSecond" THEN row.first ELSE u
<1>1. CASE place = "signFirst"
  BY <1>1 DEF Reviews!Signed, Reviews!Approval
<1>2. CASE place = "signOnly"
  BY <1>2 DEF Reviews!Signed, Reviews!Approval
<1>3. CASE place = "signSecond"
  BY <1>3 DEF Reviews!Signed, Reviews!Approval
<1> QED BY <1>1, <1>2, <1>3 DEF Reviews!Signing

LEMMA RejectedFacts ==
  ASSUME NEW row \in Reviews!Approval, NEW place \in Reviews!Rejecting,
         NEW u \in Users
  PROVE  LET new == Reviews!Rejected(row, place, u) IN
         /\ new \in Reviews!Approval
         /\ new.kind = row.kind /\ new.by = row.by /\ new.dual = row.dual
         /\ new.amount = row.amount
         /\ new.status = "rejected"
<1>1. CASE place = "rejectFirst"
  BY <1>1 DEF Reviews!Rejected, Reviews!Approval
<1>2. CASE place = "rejectSecond"
  BY <1>2 DEF Reviews!Rejected, Reviews!Approval
<1> QED BY <1>1, <1>2 DEF Reviews!Rejecting

\* The row and the user a handler works for.
LEMMA Working ==
  ASSUME Reviews!TypeOK, ApprovalsRely, NEW h \in Handlers, pc[h] # "idle"
  PROVE  /\ on[h] \in Approvals /\ who[h] \in Users
         /\ approval[on[h]] \in Reviews!Approval
         /\ approval[on[h]].status # "absent"
         /\ RowOK(on[h]) /\ HandlerOK(h)
<1>1. RowOK(on[h]) \/ on[h] \notin Approvals
  BY RelySplit
<1>2. HandlerOK(h)
  BY RelySplit
<1> QED BY <1>1, <1>2 DEF HandlerOK, Reviews!TypeOK

\* An approval keeps the signatures it has when another is added.
LEMMA EnoughGrows ==
  ASSUME NEW a \in Approvals, Enough(a), signed[a] \subseteq signed'[a],
         approval'[a].dual = approval[a].dual
  PROVE  Enough(a)'
BY DEF Enough

LEMMA SignStep ==
  ASSUME Reviews!TypeOK, ApprovalsRely, NEW h \in Handlers, Reviews!Sign(h)
  PROVE  Reviews!TypeOK' /\ ApprovalsRely' /\ RowsGrow /\ UNCHANGED <<event, applied>>
<1>1. pc[h] \in Reviews!Signing /\ pc[h] \notin {"idle", "apply"}
  BY DEF Reviews!Sign, Reviews!Signing
<1>0. PICK a \in Approvals, u \in Users : a = on[h] /\ u = who[h]
  BY <1>1, Working
<1> DEFINE row == approval[a]
           new == Reviews!Signed(row, pc[h], u)
<1>2. a \in Approvals /\ u \in Users /\ row \in Reviews!Approval
      /\ row.status # "absent" /\ RowOK(a) /\ HandlerOK(h)
  BY <1>0, <1>1, Working
<1>3. /\ new \in Reviews!Approval
      /\ new.kind = row.kind /\ new.by = row.by /\ new.dual = row.dual
      /\ new.amount = row.amount
      /\ new.status = IF pc[h] = "signFirst" THEN row.status ELSE "approved"
      /\ new.first = IF pc[h] = "signSecond" THEN row.first ELSE u
  BY <1>1, <1>2, SignedFacts
<1>4. /\ approval' = [approval EXCEPT ![a] = new]
      /\ signed' = [signed EXCEPT ![a] = @ \cup {u}]
      /\ UNCHANGED <<event, applied, start, cutShort>>
  BY <1>0 DEF Reviews!Sign
<1>5. /\ pc' \in [Handlers -> Reviews!Deciding \cup {"idle", "apply"}]
      /\ on' \in [Handlers -> Approvals \cup {None}]
      /\ who' \in [Handlers -> Users \cup {None}]
      /\ Others(h)
      /\ \/ pc'[h] = "idle"
         \/ /\ pc'[h] = "apply" /\ on'[h] = a /\ who'[h] = u
            /\ new.status = "approved" /\ new.kind # "other"
  <2>1. CASE new.status = "approved" /\ new.kind # "other"
    BY <1>0, <2>1 DEF Reviews!Sign, Reviews!Goto, Others, Reviews!TypeOK
  <2>2. CASE ~(new.status = "approved" /\ new.kind # "other")
    BY <1>0, <2>2 DEF Reviews!Sign, Reviews!Done, Others, Reviews!TypeOK
  <2> QED BY <2>1, <2>2
<1> HIDE DEF new
<1>6. /\ approval' \in [Approvals -> Reviews!Approval] /\ approval'[a] = new
      /\ \A b \in Approvals : b # a => approval'[b] = approval[b]
  BY <1>2, <1>3, <1>4 DEF Reviews!TypeOK
<1>7. /\ signed' \in [Approvals -> SUBSET Users] /\ signed'[a] = signed[a] \cup {u}
      /\ \A b \in Approvals : b # a => signed'[b] = signed[b]
  BY <1>2, <1>4 DEF Reviews!TypeOK
<1>8. Reviews!TypeOK'
  BY <1>4, <1>5, <1>6, <1>7 DEF Reviews!TypeOK
<1>9. RowsGrow
  BY <1>2, <1>3, <1>6, <1>7 DEF RowsGrow
<1>10. new.status = "approved" \/ applied[a] > 0 => Enough(a)'
  <2>1. row.status = "approved" \/ applied[a] > 0 => Enough(a)'
    BY <1>2, <1>3, <1>6, <1>7, EnoughGrows DEF RowOK
  <2>2. CASE pc[h] = "signFirst"
    BY <1>3, <2>1, <2>2
  <2>3. CASE pc[h] = "signOnly"
    <3>1. ~new.dual
      BY <1>0, <1>1, <1>2, <1>3, <2>3 DEF HandlerOK
    <3> QED BY <1>6, <1>7, <3>1 DEF Enough
  <2>4. CASE pc[h] = "signSecond"
    <3>1. PICK v \in signed[a] : v # u
      BY <1>0, <1>1, <1>2, <2>4 DEF HandlerOK
    <3> QED BY <1>6, <1>7, <3>1 DEF Enough
  <2> QED BY <1>1, <2>2, <2>3, <2>4 DEF Reviews!Signing
<1>11. OverrideSigned => OverrideSigned'
  BY <1>9, SignedStays
<1>12. RowOK(a)'
  BY <1>2, <1>3, <1>4, <1>6, <1>7, <1>10, <1>11 DEF RowOK
<1>13. HandlerOK(h)'
  BY <1>2, <1>3, <1>5, <1>6, <1>10 DEF HandlerOK, Reviews!Signing
<1>14. ApprovalsRely'
  BY <1>4, <1>5, <1>6, <1>7, <1>9, <1>12, <1>13, ReviewStep DEF Others
<1> QED BY <1>4, <1>8, <1>9, <1>14

LEMMA RejectStep ==
  ASSUME Reviews!TypeOK, ApprovalsRely, NEW h \in Handlers, Reviews!Reject(h)
  PROVE  Reviews!TypeOK' /\ ApprovalsRely' /\ RowsGrow /\ UNCHANGED <<event, applied>>
<1>1. pc[h] \in Reviews!Rejecting /\ pc[h] \notin {"idle", "apply"}
  BY DEF Reviews!Reject, Reviews!Rejecting
<1>0. PICK a \in Approvals : a = on[h]
  BY <1>1, Working
<1> DEFINE row == approval[a]
           new == Reviews!Rejected(row, pc[h], who[h])
<1>2. a \in Approvals /\ who[h] \in Users /\ row \in Reviews!Approval
      /\ row.status # "absent" /\ RowOK(a)
  BY <1>0, <1>1, Working
<1>3. /\ new \in Reviews!Approval
      /\ new.kind = row.kind /\ new.by = row.by /\ new.dual = row.dual
      /\ new.amount = row.amount /\ new.status = "rejected"
  BY <1>1, <1>2, RejectedFacts
<1>4. /\ approval' = [approval EXCEPT ![a] = new]
      /\ UNCHANGED <<event, signed, applied, start, cutShort>>
  BY <1>0 DEF Reviews!Reject, Reviews!historyVars
<1>5. /\ pc' \in [Handlers -> Reviews!Deciding \cup {"idle", "apply"}]
      /\ on' \in [Handlers -> Approvals \cup {None}]
      /\ who' \in [Handlers -> Users \cup {None}]
      /\ Others(h) /\ pc'[h] = "idle"
  BY DEF Reviews!Reject, Reviews!Done, Others, Reviews!TypeOK
<1> HIDE DEF new
<1>6. /\ approval' \in [Approvals -> Reviews!Approval] /\ approval'[a] = new
      /\ \A b \in Approvals : b # a => approval'[b] = approval[b]
  BY <1>2, <1>3, <1>4 DEF Reviews!TypeOK
<1>7. Reviews!TypeOK'
  BY <1>4, <1>5, <1>6 DEF Reviews!TypeOK
<1>8. RowsGrow
  BY <1>2, <1>3, <1>4, <1>6 DEF RowsGrow
<1>9. OverrideSigned => OverrideSigned'
  BY <1>8, SignedStays
<1>10. applied[a] > 0 => Enough(a)'
  BY <1>2, <1>3, <1>4, <1>6, EnoughGrows DEF RowOK
<1>11. RowOK(a)'
  BY <1>2, <1>3, <1>4, <1>6, <1>9, <1>10 DEF RowOK
<1>12. HandlerOK(h)'
  BY <1>5 DEF HandlerOK
<1>13. ApprovalsRely'
  BY <1>4, <1>5, <1>6, <1>8, <1>11, <1>12, ReviewStep DEF Others
<1> QED BY <1>4, <1>7, <1>8, <1>13

\* The event takes an amount beyond the cap only when there is an override.
LEMMA ApplyStep ==
  ASSUME Reviews!TypeOK, ApprovalsRely, OverCapNeedsOverride, NEW h \in Handlers,
         Reviews!Apply(h)
  PROVE  /\ Reviews!TypeOK' /\ ApprovalsRely' /\ RowsGrow /\ OverCapNeedsOverride'
         /\ \E a \in Approvals : applied'[a] > applied[a]
<1>1. pc[h] = "apply" /\ UNCHANGED <<approval, signed, start, cutShort>>
  BY DEF Reviews!Apply
<1>0. PICK a \in Approvals : a = on[h]
  BY <1>1, Working
<1>2. /\ a \in Approvals /\ RowOK(a) /\ Enough(a)
      /\ approval[a].kind \in {"budget_override", "budget_change"}
      /\ approval[a].status # "absent" /\ approval[a].amount \in Amounts
  BY <1>0, <1>1, Working DEF HandlerOK, RowOK, Reviews!Approval, Reviews!Kinds
<1>3. /\ applied' \in [Approvals -> Nat] /\ applied'[a] = applied[a] + 1
      /\ applied[a] \in Nat
      /\ \A b \in Approvals : b # a => applied'[b] = applied[b]
  BY <1>0, <1>2 DEF Reviews!Apply, Reviews!TypeOK
<1>4. /\ pc' \in [Handlers -> Reviews!Deciding \cup {"idle", "apply"}]
      /\ on' \in [Handlers -> Approvals \cup {None}]
      /\ who' \in [Handlers -> Users \cup {None}]
      /\ Others(h) /\ pc'[h] = "idle"
  BY DEF Reviews!Apply, Reviews!Done, Others, Reviews!TypeOK
<1>5. /\ event' \in Reviews!Event
      /\ IF approval[a].kind = "budget_override"
         THEN event'.cap = approval[a].amount /\ event'.budget = event.budget
         ELSE event'.budget = approval[a].amount /\ event'.cap = event.cap
  BY <1>0, <1>2 DEF Reviews!Apply, Reviews!TypeOK, Reviews!Event
<1>6. Reviews!TypeOK'
  BY <1>1, <1>3, <1>4, <1>5 DEF Reviews!TypeOK
<1>7. RowsGrow
  BY <1>1 DEF RowsGrow
<1>8. OverrideSigned => OverrideSigned'
  BY <1>7, SignedStays
<1>9. Enough(a)'
  BY <1>1, <1>2 DEF Enough
<1>10. RowOK(a)'
  BY <1>1, <1>2, <1>8, <1>9 DEF RowOK
<1>11. HandlerOK(h)'
  BY <1>4 DEF HandlerOK
<1>12. ApprovalsRely'
  BY <1>1, <1>3, <1>4, <1>7, <1>10, <1>11, ReviewStep DEF Others
<1>13. OverCapNeedsOverride'
  <2>1. CASE approval[a].kind = "budget_override"
    <3>1. OverrideSigned'
      BY <1>1, <1>2, <1>9, <2>1 DEF OverrideSigned, Overrides
    <3> QED BY <3>1 DEF OverrideSigned, OverCapNeedsOverride
  <2>2. CASE approval[a].kind = "budget_change"
    <3>1. event'.cap > SystemCap \/ event'.budget > SystemCap => OverrideSigned
      BY <1>2, <1>5, <2>2 DEF OverCapNeedsOverride, OverrideSigned, RowOK
    <3> QED BY <1>8, <3>1 DEF OverrideSigned, OverCapNeedsOverride
  <2> QED BY <1>2, <2>1, <2>2
<1>14. applied'[a] > applied[a]
  BY <1>3
<1> QED BY <1>2, <1>6, <1>7, <1>12, <1>13, <1>14

\* Handlers that start, and those that fail, write nothing to the tables.
LEMMA HandlerStep ==
  ASSUME Reviews!TypeOK, ApprovalsRely, NEW h \in Handlers,
         \/ Reviews!Fail(h)
         \/ \E u \in Users, a \in Approvals :
              Reviews!LoadToApprove(h, u, a) \/ Reviews!LoadToReject(h, u, a)
  PROVE  /\ Reviews!TypeOK' /\ ApprovalsRely' /\ RowsGrow
         /\ UNCHANGED <<approval, event, signed, applied>>
<1>1. UNCHANGED <<approval, event, signed, applied, start>>
  BY DEF Reviews!Fail, Reviews!LoadToApprove, Reviews!LoadToReject,
         Reviews!historyVars
<1>2. RowsGrow
  BY <1>1 DEF RowsGrow
<1>3. CASE Reviews!Fail(h)
  <2>1. Others(h) /\ pc'[h] = "idle"
    BY <1>3 DEF Reviews!Fail, Reviews!Done, Others, Reviews!TypeOK
  <2>2. HandlerOK(h)'
    BY <2>1 DEF HandlerOK
  <2>3. ApprovalsRely'
    BY <1>1, <1>2, <2>1, <2>2, ReviewStep DEF Others
  <2>4. on[h] \in Approvals
    BY <1>3, Working DEF Reviews!Fail
  <2>5. Reviews!TypeOK'
    BY <1>1, <1>3, <2>4 DEF Reviews!Fail, Reviews!Done, Reviews!TypeOK
  <2> QED BY <1>1, <1>2, <2>3, <2>5
<1>4. ASSUME NEW u \in Users, NEW a \in Approvals,
             Reviews!LoadToApprove(h, u, a) \/ Reviews!LoadToReject(h, u, a)
      PROVE  Reviews!TypeOK' /\ ApprovalsRely'
  <2>1. RowOK(a) /\ approval[a].status = "pending"
    BY <1>4, RelySplit DEF Reviews!LoadToApprove, Reviews!LoadToReject
  <2>2. /\ Others(h) /\ on'[h] = a /\ who'[h] = u /\ cutShort' = cutShort
        /\ pc' \in [Handlers -> Reviews!Deciding \cup {"idle", "apply"}]
        /\ on' \in [Handlers -> Approvals \cup {None}]
        /\ who' \in [Handlers -> Users \cup {None}]
    BY <1>4 DEF Reviews!LoadToApprove, Reviews!LoadToReject, Reviews!TypeOK,
       Reviews!Deciding, Reviews!Signing, Reviews!Rejecting, Others,
       Reviews!historyVars
  <2>3. Reviews!TypeOK'
    BY <1>1, <2>2 DEF Reviews!TypeOK
  <2>4. HandlerOK(h)'
    <3>1. CASE Reviews!LoadToApprove(h, u, a)
      <4>1. /\ pc'[h] = IF approval[a].first # None THEN "signSecond"
                        ELSE IF approval[a].dual THEN "signFirst" ELSE "signOnly"
            /\ approval[a].by # u /\ approval[a].first # u
        BY <3>1 DEF Reviews!LoadToApprove, Reviews!TypeOK
      <4>2. approval[a].first # None => \E v \in signed[a] : v # u
        BY <2>1, <4>1 DEF RowOK
      <4> QED BY <1>1, <2>1, <2>2, <4>1, <4>2 DEF HandlerOK
    <3>2. CASE Reviews!LoadToReject(h, u, a)
      <4>1. pc'[h] \in {"rejectFirst", "rejectSecond"}
        BY <3>2 DEF Reviews!LoadToReject, Reviews!TypeOK
      <4> QED BY <1>1, <2>1, <2>2, <4>1 DEF HandlerOK, Reviews!Signing
    <3> QED BY <1>4, <3>1, <3>2
  <2>5. ApprovalsRely'
    BY <1>1, <1>2, <2>2, <2>4, ReviewStep DEF Others
  <2> QED BY <2>3, <2>5
<1> QED BY <1>1, <1>2, <1>3, <1>4

\* A new approval is not signed yet.
LEMMA InsertStep ==
  ASSUME Reviews!TypeOK, ApprovalsRely, NEW a \in Approvals, NEW u \in Users,
         NEW kind \in Reviews!Kinds, NEW m \in Amounts \cup {None},
         Reviews!Insert(a, kind, u, FALSE, m),
         kind # "other" => m \in Amounts,
         kind = "budget_change" /\ m > SystemCap => OverrideSigned,
         UNCHANGED <<event, pc, on, who, signed, applied, start, cutShort>>
  PROVE  /\ Reviews!TypeOK' /\ ApprovalsRely'
         /\ approval[a].status = "absent" /\ approval'[a].kind = kind
         /\ approval'[a].amount = m
         /\ \A b \in Approvals : b # a => approval'[b] = approval[b]
         /\ RowsGrow
<1> DEFINE new == [status |-> "pending", kind |-> kind, by |-> u, first |-> None,
                   second |-> None, dual |-> FALSE, amount |-> m]
<1>1. new \in Reviews!Approval
  BY DEF Reviews!Approval
<1>2. /\ new.status = "pending" /\ new.kind = kind /\ new.by = u /\ new.first = None
      /\ new.amount = m
  OBVIOUS
<1>3. approval' = [approval EXCEPT ![a] = new] /\ approval[a].status = "absent"
  BY DEF Reviews!Insert
<1> HIDE DEF new
<1>4. /\ approval' \in [Approvals -> Reviews!Approval] /\ approval'[a] = new
      /\ \A b \in Approvals : b # a => approval'[b] = approval[b]
  BY <1>1, <1>3 DEF Reviews!TypeOK
<1>5. Reviews!TypeOK'
  BY <1>4 DEF Reviews!TypeOK
<1>6. RowsGrow
  BY <1>3, <1>4 DEF RowsGrow
<1>7. OverrideSigned => OverrideSigned'
  BY <1>6, SignedStays
<1>8. RowOK(a)
  BY RelySplit
<1>9. RowOK(a)'
  BY <1>2, <1>3, <1>4, <1>7, <1>8 DEF RowOK
<1>10. ApprovalsRely'
  BY <1>4, <1>6, <1>9, ReviewStep
<1> QED BY <1>2, <1>3, <1>4, <1>5, <1>6, <1>10

-------------------------------------------------------------------------------
(***************************************************************************)
(* The handlers of the event: what their locals are after each step.       *)
(***************************************************************************)

LEMMA IdleFacts ==
  /\ Idle \in Task /\ Idle.at = "idle" /\ Idle.asked = None
  /\ Idle.cap = None /\ Idle.amount = None /\ Idle.new = None
BY DEF Idle, Task, Places

LEMMA GotoFacts ==
  ASSUME NEW t \in Task, NEW place \in Places
  PROVE  LET new == [t EXCEPT !.at = place] IN
         /\ new \in Task /\ new.at = place
         /\ new.cap = t.cap /\ new.amount = t.amount /\ new.new = t.new
         /\ new.draft = t.draft /\ new.base = t.base /\ new.no = t.no
         /\ new.asked = t.asked /\ new.to = t.to /\ new.rules = t.rules
BY DEF Task

LEMMA LoadTransitionFacts ==
  ASSUME NEW t \in Task, NEW place \in Places, NEW to \in StateSet
  PROVE  LET new == [t EXCEPT !.at = place, !.to = to] IN
         new \in Task /\ new.at = place /\ new.to = to
BY DEF Task

LEMMA AskFacts ==
  ASSUME NEW t \in Task, NEW a \in Approvals
  PROVE  LET new == [t EXCEPT !.at = "record", !.amount = None, !.asked = a] IN
         /\ new \in Task /\ new.at = "record"
         /\ new.cap = t.cap /\ new.amount = None /\ new.new = t.new
         /\ new.base = t.base /\ new.no = t.no /\ new.asked = a
BY DEF Task, Places

LEMMA IssueFacts ==
  ASSUME NEW t \in Task, NEW rules \in SUBSET Rules
  PROVE  /\ LET new == [t EXCEPT !.at = "issue", !.rules = rules] IN
            new \in Task /\ new.at = "issue" /\ new.rules = rules
         /\ LET new == [t EXCEPT !.rules = rules] IN
            new \in Task /\ new.at = t.at /\ new.rules = rules
BY DEF Task, Places

LEMMA BecomeFacts ==
  ASSUME task \in [Editors -> Task], NEW h \in Editors, NEW t \in Task, Become(h, t)
  PROVE  /\ task' \in [Editors -> Task] /\ task'[h] = t
         /\ \A g \in Editors : g # h => task'[g] = task[g]
BY DEF Become

\* What other steps leave of what an editor relies on.
Kept ==
  /\ OverrideSigned => OverrideSigned'
  /\ \A a \in Approvals : approval[a].kind = "budget_change" =>
       approval'[a].kind = "budget_change" /\ approval'[a].amount = approval[a].amount
  /\ revisions' \in Seq(Revision) /\ Len(revisions) <= Len(revisions')
  /\ \A i \in 1..Len(revisions) : revisions'[i] = revisions[i]
  /\ reached \subseteq reached'

LEMMA NamedStays ==
  ASSUME Kept, NEW old, NEW new, NEW a \in Approvals \cup {None}, Named(old, new, a)
  PROVE  Named(old, new, a)'
BY DEF Kept, Named

\* An editor that does not move keeps what it relies on, whatever the others do.
LEMMA EditorStays ==
  ASSUME TypeOK, Kept, NEW g \in Editors, Relies(task[g]), task'[g] = task[g]
  PROVE  Relies(task[g])'
<1>1. PICK t \in Task : t = task[g]
  BY DEF TypeOK
<1>2. t = task'[g]
  BY <1>1
<1>3. Len(revisions) \in Nat /\ Len(revisions') \in Nat
  BY LenProperties DEF TypeOK, Kept
<1>4. t.no \in Nat /\ t.asked \in Approvals \cup {None}
  BY DEF Task
<1>5. t.at \in {"revise", "ask", "record", "write"} =>
        \A m \in {t.cap, t.amount, t.new} \ {None} :
          m > SystemCap => \E a \in Overrides' : Enough(a)'
  BY <1>1 DEF Relies, Kept, OverrideSigned
<1>6. t.at \in {"ask", "record"} =>
        /\ t.no \in 1..(Len(revisions') + 1)
        /\ t.no > 1 => t.base = revisions'[t.no - 1].new
  <2> SUFFICES ASSUME t.at \in {"ask", "record"}
               PROVE  /\ t.no \in 1..(Len(revisions') + 1)
                      /\ t.no > 1 => t.base = revisions'[t.no - 1].new
    OBVIOUS
  <2>1. /\ t.no \in 1..(Len(revisions) + 1)
        /\ t.no > 1 => t.base = revisions[t.no - 1].new
    BY <1>1 DEF Relies
  <2>2. Len(revisions) <= Len(revisions')
        /\ \A i \in 1..Len(revisions) : revisions'[i] = revisions[i]
    BY DEF Kept
  <2>3. t.no > 1 => t.no - 1 \in 1..Len(revisions)
    BY <1>3, <1>4, <2>1
  <2> QED BY <1>3, <1>4, <2>1, <2>2, <2>3
<1>7. t.at = "record" => Named(t.base, t.new, t.asked)'
  BY <1>1, <1>4, NamedStays DEF Relies
<1>8. t.at \in {"checkPending", "setState"} =>
        \E s \in reached' : <<s, t.to>> \in Transitions
  BY <1>1 DEF Relies, Kept
<1>9. t.at = "issue" => "approved" \in reached'
  BY <1>1 DEF Relies, Kept
<1>10. /\ t.at \in {"override", "revise", "ask", "record"} => t.base \in Amounts
       /\ t.at \in {"revise", "ask", "record"} => t.new \in Amounts
       /\ t.at \in {"override", "revise", "ask"} => t.asked = None
       /\ t.at = "ask" => Exceeds(t.base, t.new)
  BY <1>1 DEF Relies
<1> QED BY <1>2, <1>5, <1>6, <1>7, <1>8, <1>9, <1>10 DEF Relies, Named

-------------------------------------------------------------------------------
(***************************************************************************)
(* The inductive invariant, one step after the other.                      *)
(***************************************************************************)

LEMMA InvInit == Init => IInv
<1> SUFFICES ASSUME Init PROVE IInv
  OBVIOUS
<1>1. /\ \A a \in Approvals : approval[a].status = "absent"
                              /\ approval[a].kind = "other"
                              /\ approval[a].first = None
      /\ \A h \in Handlers : pc[h] = "idle"
      /\ \A a \in Approvals : signed[a] = {} /\ applied[a] = 0
  BY DEF Init, Reviews!Init
<1>2. ApprovalsRely
  BY <1>1 DEF ApprovalsRely, Reviews!HandlersRely, Reviews!SignedByEnough
<1>3. Reviews!TypeOK
  <2>1. approval \in [Approvals -> Reviews!Approval]
    BY DEF Init, Reviews!Init, Reviews!Approval, Reviews!Kinds
  <2> QED BY <2>1 DEF Init, Reviews!Init, Reviews!TypeOK
<1>4. task \in [Editors -> Task] /\ \A h \in Editors : task[h] = Idle
  BY IdleFacts DEF Init
<1>5. revisions \in Seq(Revision) /\ Len(revisions) = 0
  BY EmptySeq DEF Init
<1>6. TypeOK
  BY <1>3, <1>4, <1>5, StateFacts DEF Init, TypeOK
<1>7. EditorsRely
  BY <1>4, IdleFacts DEF EditorsRely, Relies
<1>8. ReachedInOrder
  <2>1. InOrder(reached)
    BY DEF Init, InOrder
  <2> QED BY <2>1, OrderFacts DEF Init, ReachedInOrder
<1>9. event.cap \in Nat /\ event.budget \in Nat
  BY <1>3, EventsAssumption DEF Reviews!TypeOK, Reviews!Event
<1>10. OverCapNeedsOverride
  BY <1>9, EventsAssumption DEF Init, OverCapNeedsOverride
<1>11. RevisionsChain
  BY <1>5 DEF RevisionsChain
<1> QED BY <1>2, <1>6, <1>7, <1>8, <1>10, <1>11 DEF IInv

LEMMA KeptWhen ==
  ASSUME IInv, RowsGrow, revisions' = revisions, reached \subseteq reached'
  PROVE  Kept
<1>1. OverrideSigned => OverrideSigned'
  BY SignedStays DEF IInv
<1>2. \A a \in Approvals : approval[a].kind = "budget_change" =>
        approval[a].status # "absent"
  BY DEF IInv, ApprovalsRely
<1> QED BY <1>1, <1>2, LenProperties DEF Kept, RowsGrow, IInv, TypeOK

LEMMA EditorStep ==
  ASSUME IInv, Kept, NEW h \in Editors, Relies(task[h])',
         \A g \in Editors : g # h => task'[g] = task[g]
  PROVE  EditorsRely'
BY EditorStays DEF EditorsRely, IInv

LEMMA EditorsStay == ASSUME IInv, Kept, task' = task PROVE EditorsRely'
BY EditorStays DEF EditorsRely, IInv

LEMMA ChainKept ==
  ASSUME IInv, Kept, NEW i \in 1..Len(revisions)
  PROVE  /\ i > 1 => revisions'[i].old = revisions'[i - 1].new
         /\ Named(revisions[i].old, revisions[i].new, revisions[i].approval)'
<1>1. revisions[i] \in Revision
  BY ElementOfSeq DEF IInv, TypeOK
<1>2. PICK old \in Amounts, new \in Amounts, a \in Approvals \cup {None} :
        old = revisions[i].old /\ new = revisions[i].new
        /\ a = revisions[i].approval
  BY <1>1 DEF Revision
<1>3. Named(old, new, a)
  BY <1>2 DEF IInv, RevisionsChain
<1>4. Named(old, new, a)'
  BY <1>3, NamedStays
<1>5. revisions'[i] = revisions[i]
  BY DEF Kept
<1>6. Named(revisions[i].old, revisions[i].new, revisions[i].approval)'
  BY <1>2, <1>4, <1>5 DEF Named
<1>7. i > 1 => /\ revisions[i].old = revisions[i - 1].new
               /\ revisions'[i - 1] = revisions[i - 1]
  <2>1. Len(revisions) \in Nat
    BY LenProperties DEF IInv, TypeOK
  <2>2. i > 1 => i - 1 \in 1..Len(revisions)
    BY <2>1
  <2> QED BY <2>2 DEF IInv, RevisionsChain, Kept
<1> QED BY <1>5, <1>6, <1>7

LEMMA ChainStays == ASSUME IInv, Kept, revisions' = revisions PROVE RevisionsChain'
BY ChainKept DEF RevisionsChain

LEMMA OverCapStays ==
  ASSUME IInv, Kept, event' = event PROVE OverCapNeedsOverride'
BY DEF IInv, Kept, OverCapNeedsOverride, OverrideSigned

\* A step that moves one editor and writes nothing.
LEMMA TaskStep ==
  ASSUME IInv, NEW h \in Editors, NEW t \in Task, Become(h, t), Relies(t),
         UNCHANGED <<reviewVars, lifeVars, revisions>>,
         edits' \in Nat, overlapped' \in BOOLEAN
  PROVE  IInv'
<1>1. /\ UNCHANGED <<approval, event, pc, on, who, signed, applied, start, cutShort>>
      /\ UNCHANGED <<state, issued, reached, revisions>>
  BY DEF reviewVars, approvalVars, lifeVars
<1>2. /\ task' \in [Editors -> Task] /\ task'[h] = t
      /\ \A g \in Editors : g # h => task'[g] = task[g]
  BY BecomeFacts DEF IInv, TypeOK
<1>3. TypeOK'
  BY <1>1, <1>2 DEF IInv, TypeOK, Reviews!TypeOK
<1>4. RowsGrow
  BY <1>1 DEF RowsGrow
<1>5. ApprovalsRely'
  BY <1>1, <1>4, ReviewStep DEF IInv
<1>6. Kept
  BY <1>1, <1>4, KeptWhen
<1>7. Relies(task[h])'
  BY <1>1, <1>2 DEF Relies, Named, Enough, Overrides
<1>8. EditorsRely'
  BY <1>2, <1>6, <1>7, EditorStep
<1>9. ReachedInOrder'
  BY <1>1 DEF IInv, ReachedInOrder
<1> QED BY <1>1, <1>3, <1>5, <1>6, <1>8, <1>9, ChainStays, OverCapStays DEF IInv

\* The checks that are due on an update: what needs an override goes to it.
LEMMA LoadUpdateTask ==
  ASSUME IInv, NEW h \in Editors, LoadUpdate(h)
  PROVE  \E t \in Task : /\ Start(h, t) /\ Relies(t)
                         /\ t.at \in {"override", "revise", "write"}
<1>1. PICK cap \in Amounts \cup {None}, amount \in Amounts \cup {None} :
        LET changes == amount # None /\ amount # event.budget
            newCap == IF cap = None THEN event.cap ELSE cap
            raises == newCap > event.cap /\ newCap > SystemCap
            next == IF raises \/ (changes /\ amount > newCap) THEN "override"
                    ELSE IF changes /\ state # "draft" THEN "revise"
                    ELSE "write"
        IN Start(h, [Idle EXCEPT !.at = next, !.cap = cap, !.amount = amount,
                                 !.new = IF changes THEN amount ELSE None,
                                 !.draft = (state = "draft"),
                                 !.base = event.budget])
  BY DEF LoadUpdate
<1> DEFINE changes == amount # None /\ amount # event.budget
           newCap == IF cap = None THEN event.cap ELSE cap
           raises == newCap > event.cap /\ newCap > SystemCap
           next == IF raises \/ (changes /\ amount > newCap) THEN "override"
                   ELSE IF changes /\ state # "draft" THEN "revise" ELSE "write"
           new == IF changes THEN amount ELSE None
           t == [Idle EXCEPT !.at = next, !.cap = cap, !.amount = amount,
                             !.new = new, !.draft = (state = "draft"),
                             !.base = event.budget]
<1>2. event.cap \in Amounts /\ event.budget \in Amounts
  BY DEF IInv, TypeOK, Reviews!TypeOK, Reviews!Event
<1>3. event.cap \in Nat /\ event.budget \in Nat /\ SystemCap \in Nat
      /\ (cap # None => cap \in Nat) /\ (amount # None => amount \in Nat)
  BY <1>2, EventsAssumption
<1>4. next \in {"override", "revise", "write"} /\ next \in Places
      /\ new \in Amounts \cup {None}
      /\ (next = "revise" => new \in Amounts)
  BY DEF Places
<1>5. next # "override" =>
        \A m \in {cap, amount, new} \ {None} : m > SystemCap => OverrideSigned
  <2> SUFFICES ASSUME next # "override", NEW m \in {cap, amount, new} \ {None},
                      m > SystemCap
               PROVE  event.cap > SystemCap \/ event.budget > SystemCap
    BY DEF IInv, OverCapNeedsOverride, OverrideSigned
  <2>1. ~raises /\ ~(changes /\ amount > newCap)
    OBVIOUS
  <2>2. CASE m = cap
    BY <1>3, <2>1, <2>2
  <2>3. CASE m = amount
    BY <1>3, <2>1, <2>3
  <2> QED BY <2>2, <2>3
<1>6. Start(h, t)
  BY <1>1
<1>7. /\ t \in Task /\ t.at = next /\ t.cap = cap /\ t.amount = amount /\ t.new = new
      /\ t.base = event.budget /\ t.asked = None
  <2> HIDE DEF next, new
  <2>1. PICK draft \in BOOLEAN : draft <=> state = "draft"
    OBVIOUS
  <2>2. t = [Idle EXCEPT !.at = next, !.cap = cap, !.amount = amount, !.new = new,
                         !.draft = draft, !.base = event.budget]
    BY <2>1
  <2> QED BY <1>2, <1>4, <2>2, IdleFacts DEF Task
<1>8. Relies(t)
  <2> HIDE DEF t, next, new
  <2> QED BY <1>2, <1>4, <1>5, <1>7 DEF Relies, OverrideSigned
<1> HIDE DEF t, next
<1> QED BY <1>4, <1>6, <1>7, <1>8

\* A request arrives.
LEMMA StartInv ==
  ASSUME IInv, NEW h \in Editors, NEW t \in Task, Start(h, t), Relies(t),
         UNCHANGED <<reviewVars, lifeVars, revisions>>, edits' \in Nat
  PROVE  IInv'
<1>1. overlapped' \in BOOLEAN /\ Become(h, t)
  BY DEF Start, IInv, TypeOK
<1> QED BY <1>1, TaskStep

LEMMA LoadUpdateInv == ASSUME IInv, NEW h \in Editors, LoadUpdate(h) PROVE IInv'
<1>1. UNCHANGED <<reviewVars, lifeVars, revisions>> /\ edits' \in Nat
  BY DEF LoadUpdate, IInv, TypeOK
<1>2. PICK t \in Task : Start(h, t) /\ Relies(t)
  BY LoadUpdateTask
<1> QED BY <1>1, <1>2, StartInv

LEMMA DoneInv ==
  ASSUME IInv, NEW h \in Editors, Done(h),
         UNCHANGED <<reviewVars, lifeVars, revisions, historyVars>>
  PROVE  IInv'
<1>1. Relies(Idle)
  BY IdleFacts DEF Relies
<1> QED BY <1>1, IdleFacts, TaskStep DEF Done, historyVars, IInv, TypeOK

LEMMA CheckOverrideInv ==
  ASSUME IInv, NEW h \in Editors, CheckOverride(h) PROVE IInv'
<1>1. UNCHANGED <<reviewVars, lifeVars, revisions, historyVars>>
      /\ task[h].at = "override" /\ task[h] \in Task
  BY DEF CheckOverride, IInv, TypeOK
<1>2. CASE \E a \in Overrides : Approved(a)
  <2> DEFINE place == IF task[h].new # None /\ ~task[h].draft
                      THEN "revise" ELSE "write"
             t == [task[h] EXCEPT !.at = place]
  <2>1. OverrideSigned
    BY <1>2 DEF IInv, ApprovalsRely, Reviews!SignedByEnough, Approved, Overrides,
                OverrideSigned, Enough
  <2>2. place \in Places /\ place \in {"revise", "write"}
        /\ (place = "revise" => task[h].new \in Amounts)
    BY <1>1 DEF Places, Task
  <2>3. /\ t \in Task /\ t.at = place /\ t.base = task[h].base
        /\ t.asked = task[h].asked /\ t.new = task[h].new
    <3> HIDE DEF place
    <3> QED BY <1>1, <2>2, GotoFacts
  <2>4. Relies(task[h]) /\ Become(h, t)
    BY <1>2 DEF CheckOverride, Goto, IInv, EditorsRely
  <2>5. Relies(t)
    <3> HIDE DEF t, place
    <3> QED BY <1>1, <2>1, <2>2, <2>3, <2>4 DEF Relies, OverrideSigned
  <2> HIDE DEF t
  <2> QED BY <1>1, <2>3, <2>4, <2>5, TaskStep DEF historyVars, IInv, TypeOK
<1>3. CASE ~ \E a \in Overrides : Approved(a)
  BY <1>1, <1>3, DoneInv DEF CheckOverride
<1> QED BY <1>2, <1>3

LEMMA ReviseTask ==
  ASSUME IInv, NEW h \in Editors, Revise(h)
  PROVE  \E t \in Task : /\ Become(h, t) /\ Relies(t) /\ t.at \in {"ask", "record"}
<1> DEFINE count == Len(revisions)
           base == IF count > 0 THEN revisions[count].new ELSE task[h].base
           place == IF Exceeds(base, task[h].new) THEN "ask" ELSE "record"
           no == count + 1
           t == [task[h] EXCEPT !.at = place, !.base = base, !.no = no]
<1>1. /\ UNCHANGED <<reviewVars, lifeVars, revisions, historyVars>>
      /\ task[h].at = "revise" /\ task[h] \in Task /\ Relies(task[h])
  BY DEF Revise, IInv, TypeOK, EditorsRely
<1>2. count \in Nat /\ (count > 0 => revisions[count] \in Revision)
  BY LenProperties, ElementOfSeq DEF IInv, TypeOK
<1>3. task[h].new \in Amounts /\ task[h].base \in Amounts /\ task[h].asked = None
  BY <1>1 DEF Relies
<1>4. /\ base \in Amounts /\ no \in Nat /\ no \in 1..(count + 1)
      /\ no > 1 => base = revisions[no - 1].new
  BY <1>2, <1>3 DEF Revision
<1>5. place \in Places /\ place \in {"ask", "record"}
      /\ (place = "ask" <=> Exceeds(base, task[h].new))
  BY DEF Places
<1>6. Become(h, t)
  BY DEF Revise
<1> HIDE DEF count, base, place, no
<1>7. /\ t \in Task /\ t.at = place /\ t.base = base /\ t.no = no
      /\ t.cap = task[h].cap /\ t.amount = task[h].amount /\ t.new = task[h].new
      /\ t.asked = task[h].asked
  BY <1>1, <1>4, <1>5 DEF Task
<1> HIDE DEF t
<1>8. Relies(t)
  BY <1>1, <1>3, <1>4, <1>5, <1>7 DEF Relies, Named, count
<1> HIDE DEF place
<1> QED BY <1>5, <1>6, <1>7, <1>8

LEMMA ReviseInv == ASSUME IInv, NEW h \in Editors, Revise(h) PROVE IInv'
<1>1. UNCHANGED <<reviewVars, lifeVars, revisions, historyVars>>
  BY DEF Revise
<1>2. PICK t \in Task : Become(h, t) /\ Relies(t)
  BY ReviseTask
<1> QED BY <1>1, <1>2, TaskStep DEF historyVars, IInv, TypeOK

LEMMA LoadTransitionTask ==
  ASSUME IInv, NEW h \in Editors, LoadTransition(h)
  PROVE  \E t \in Task :
           /\ Start(h, t) /\ Relies(t) /\ <<state, t.to>> \in Transitions
           /\ t.at = IF t.to = "approved" THEN "checkPending" ELSE "setState"
<1>1. PICK to \in StateSet :
        /\ <<state, to>> \in Transitions
        /\ Start(h, [Idle EXCEPT
             !.at = IF to = "approved" THEN "checkPending" ELSE "setState",
             !.to = to])
  BY DEF LoadTransition
<1> DEFINE place == IF to = "approved" THEN "checkPending" ELSE "setState"
           t == [Idle EXCEPT !.at = place, !.to = to]
<1>2. place \in Places /\ place \in {"checkPending", "setState"}
  BY DEF Places
<1>3. t \in Task /\ t.at = place /\ t.to = to
  <2> HIDE DEF place
  <2> QED BY <1>2, IdleFacts, LoadTransitionFacts
<1>4. Start(h, t)
  BY <1>1
<1> HIDE DEF t
<1>5. Relies(t)
  BY <1>1, <1>2, <1>3 DEF Relies, IInv, ReachedInOrder
<1> QED BY <1>1, <1>3, <1>4, <1>5

LEMMA LoadTransitionInv ==
  ASSUME IInv, NEW h \in Editors, LoadTransition(h) PROVE IInv'
BY LoadTransitionTask, StartInv DEF LoadTransition, IInv, TypeOK

LEMMA CheckPendingInv ==
  ASSUME IInv, NEW h \in Editors, CheckPending(h) PROVE IInv'
<1>1. UNCHANGED <<reviewVars, lifeVars, revisions, historyVars>>
      /\ task[h].at = "checkPending" /\ task[h] \in Task /\ Relies(task[h])
  BY DEF CheckPending, IInv, TypeOK, EditorsRely
<1>2. CASE Goto(h, "setState")
  <2> DEFINE t == [task[h] EXCEPT !.at = "setState"]
  <2>1. t \in Task /\ t.at = "setState" /\ t.to = task[h].to
    <3>1. "setState" \in Places
      BY DEF Places
    <3> QED BY <1>1, <3>1, GotoFacts
  <2>2. Become(h, t)
    BY <1>2 DEF Goto
  <2> HIDE DEF t
  <2>3. Relies(t)
    BY <1>1, <2>1 DEF Relies
  <2> QED BY <1>1, <2>1, <2>2, <2>3, TaskStep DEF historyVars, IInv, TypeOK
<1>3. CASE Done(h)
  BY <1>1, <1>3, DoneInv
<1> QED BY <1>2, <1>3 DEF CheckPending

\* A step that moves one editor, and may write.
LEMMA MoveStep ==
  ASSUME IInv, Kept, NEW h \in Editors, NEW t \in Task, Become(h, t), Relies(t)'
  PROVE  EditorsRely' /\ task' \in [Editors -> Task]
<1>1. /\ task' \in [Editors -> Task] /\ task'[h] = t
      /\ \A g \in Editors : g # h => task'[g] = task[g]
  BY BecomeFacts DEF IInv, TypeOK
<1>2. Relies(task[h])'
  BY <1>1 DEF Relies, Named
<1> QED BY <1>1, <1>2, EditorStep

LEMMA IdleRelies == Relies(Idle)'
BY IdleFacts DEF Relies

\* The revision that follows names the approval that has just been asked for.
LEMMA AskInv == ASSUME IInv, NEW h \in Editors, Ask(h) PROVE IInv'
<1>1. PICK a \in Approvals :
        /\ Reviews!Insert(a, "budget_change", Creator, FALSE, task[h].new)
        /\ Become(h, [task[h] EXCEPT !.at = "record", !.amount = None, !.asked = a])
  BY DEF Ask
<1> DEFINE new == [task[h] EXCEPT !.at = "record", !.amount = None, !.asked = a]
<1>2. /\ UNCHANGED <<event, pc, on, who, signed, applied, start, cutShort>>
      /\ UNCHANGED <<state, issued, reached, revisions, edits, overlapped>>
      /\ task[h].at = "ask" /\ task[h] \in Task /\ Relies(task[h])
  BY DEF Ask, lifeVars, historyVars, IInv, TypeOK, EditorsRely
<1>3. PICK m \in Amounts : m = task[h].new
  BY <1>2 DEF Relies
<1>4. m # None
  BY EventsAssumption
<1>5. m > SystemCap => OverrideSigned
  BY <1>2, <1>3, <1>4 DEF Relies, OverrideSigned
<1>6. /\ Reviews!TypeOK' /\ ApprovalsRely' /\ RowsGrow
      /\ approval'[a].kind = "budget_change" /\ approval'[a].amount = m
  <2>1. Reviews!Insert(a, "budget_change", Creator, FALSE, m)
    BY <1>1, <1>3
  <2>2. "budget_change" \in Reviews!Kinds /\ m \in Amounts \cup {None}
    BY DEF Reviews!Kinds
  <2> QED BY <1>2, <1>5, <2>1, <2>2, InsertStep, EventsAssumption DEF IInv, TypeOK
<1>7. Kept
  BY <1>2, <1>6, KeptWhen
<1>8. /\ new \in Task /\ new.at = "record" /\ new.cap = task[h].cap
      /\ new.amount = None /\ new.new = m /\ new.base = task[h].base
      /\ new.no = task[h].no /\ new.asked = a
  BY <1>2, <1>3, AskFacts
<1>9. PICK t \in Task : t = new /\ Become(h, t)
  BY <1>1, <1>8
<1> HIDE DEF new
<1>10. Named(t.base, t.new, t.asked)'
  BY <1>2, <1>3, <1>6, <1>8, <1>9, EventsAssumption DEF Relies, Named
<1>11. Relies(t)'
  <2>1. \A n \in {t.cap, t.amount, t.new} \ {None} : n > SystemCap => OverrideSigned'
    <3>1. \A n \in {t.cap, t.amount, t.new} \ {None} : n > SystemCap => OverrideSigned
      BY <1>2, <1>3, <1>8, <1>9 DEF Relies, OverrideSigned
    <3> QED BY <1>7, <3>1 DEF Kept
  <2> QED BY <1>2, <1>3, <1>8, <1>9, <1>10, <2>1 DEF Relies, OverrideSigned
<1>12. EditorsRely' /\ task' \in [Editors -> Task]
  BY <1>7, <1>8, <1>9, <1>11, MoveStep
<1>13. TypeOK' /\ ReachedInOrder'
  BY <1>2, <1>6, <1>12 DEF IInv, TypeOK, ReachedInOrder
<1> QED BY <1>2, <1>6, <1>7, <1>12, <1>13, ChainStays, OverCapStays DEF IInv

\* A revision gets the number after the last one, or none.
LEMMA RecordInv == ASSUME IInv, NEW h \in Editors, Record(h) PROVE IInv'
<1>1. /\ UNCHANGED <<approval, event, pc, on, who, signed, applied, start, cutShort>>
      /\ UNCHANGED <<state, issued, reached, edits, overlapped>>
      /\ task[h].at = "record" /\ task[h] \in Task /\ Relies(task[h])
  BY DEF Record, reviewVars, approvalVars, lifeVars, historyVars, IInv, TypeOK,
         EditorsRely
<1>2. CASE task[h].no = Len(revisions) + 1
  <2> DEFINE entry == [old |-> task[h].base, new |-> task[h].new,
                       approval |-> task[h].asked]
             next == [task[h] EXCEPT !.at = "write"]
  <2>1. entry \in Revision
    BY <1>1 DEF Revision, Relies, Task
  <2>2. PICK rev \in Revision : rev = entry /\ revisions' = Append(revisions, rev)
    BY <1>2, <2>1 DEF Record
  <2>3. /\ rev.old = task[h].base /\ rev.new = task[h].new
        /\ rev.approval = task[h].asked
    BY <2>2
  <2>4. PICK t \in Task : /\ t = next /\ Become(h, t) /\ t.at = "write"
                          /\ t.cap = task[h].cap /\ t.amount = task[h].amount
                          /\ t.new = task[h].new
    <3>1. "write" \in Places
      BY DEF Places
    <3> QED BY <1>1, <1>2, <3>1, GotoFacts DEF Record, Goto
  <2> HIDE DEF entry, next
  <2>5. /\ revisions' \in Seq(Revision) /\ Len(revisions') = Len(revisions) + 1
        /\ \A i \in 1..Len(revisions) : revisions'[i] = revisions[i]
        /\ revisions'[Len(revisions) + 1] = rev /\ Len(revisions) \in Nat
    BY <2>2, AppendProperties, LenProperties DEF IInv, TypeOK
  <2>6. RowsGrow
    BY <1>1 DEF RowsGrow
  <2>7. Kept
    BY <1>1, <2>5, <2>6, SignedStays DEF Kept, IInv
  <2>8. Relies(t)'
    <3>1. \A n \in {t.cap, t.amount, t.new} \ {None} : n > SystemCap => OverrideSigned
      BY <1>1, <2>4 DEF Relies, OverrideSigned
    <3> QED BY <2>4, <2>7, <3>1 DEF Relies, Kept, OverrideSigned
  <2>9. EditorsRely' /\ task' \in [Editors -> Task]
    BY <2>4, <2>7, <2>8, MoveStep
  <2>10. RevisionsChain'
    <3> DEFINE n == Len(revisions) + 1
    <3>1. Named(rev.old, rev.new, rev.approval)'
      <4>1. /\ rev.old \in Amounts /\ rev.new \in Amounts
            /\ rev.approval \in Approvals \cup {None}
        BY DEF Revision
      <4>2. Named(rev.old, rev.new, rev.approval)
        BY <1>1, <2>3 DEF Relies
      <4> QED BY <2>7, <4>1, <4>2, NamedStays
    <3>2. n > 1 => rev.old = revisions'[n - 1].new
      <4>1. n > 1 => rev.old = revisions[n - 1].new
        BY <1>1, <1>2, <2>3 DEF Relies
      <4> QED BY <2>5, <4>1
    <3>3. PICK k \in Nat : k = n
      BY <2>5
    <3>4. ASSUME NEW i \in 1..k
          PROVE  /\ i > 1 => revisions'[i].old = revisions'[i - 1].new
                 /\ Named(revisions[i].old, revisions[i].new, revisions[i].approval)'
      <4>1. CASE i = n
        BY <2>5, <3>1, <3>2, <4>1 DEF Named
      <4>2. CASE i # n
        BY <2>5, <2>7, <3>3, <4>2, ChainKept
      <4> QED BY <4>1, <4>2
    <3> QED BY <2>5, <3>3, <3>4 DEF RevisionsChain
  <2>11. TypeOK' /\ ReachedInOrder'
    BY <1>1, <2>5, <2>9 DEF IInv, TypeOK, Reviews!TypeOK, ReachedInOrder
  <2>12. ApprovalsRely'
    BY <1>1, <2>6, ReviewStep DEF IInv
  <2> QED BY <1>1, <2>7, <2>9, <2>10, <2>11, <2>12, OverCapStays DEF IInv
<1>3. CASE task[h].no # Len(revisions) + 1
  BY <1>3, DoneInv DEF Record
<1> QED BY <1>2, <1>3

\* What is written beyond the system cap has its override.
LEMMA WriteInv == ASSUME IInv, NEW h \in Editors, Write(h) PROVE IInv'
<1>1. /\ UNCHANGED <<approval, pc, on, who, signed, applied, start, cutShort>>
      /\ UNCHANGED <<state, issued, reached, revisions, edits, overlapped>>
      /\ task[h].at = "write" /\ task[h] \in Task /\ Relies(task[h]) /\ Done(h)
  BY DEF Write, approvalVars, lifeVars, historyVars, IInv, TypeOK, EditorsRely
<1>2. event' = [cap |-> IF task[h].cap = None THEN event.cap ELSE task[h].cap,
                budget |-> IF task[h].amount = None THEN event.budget
                           ELSE task[h].amount]
  BY DEF Write
<1>3. /\ event' \in Reviews!Event
      /\ event'.cap \in {event.cap} \cup ({task[h].cap} \ {None})
      /\ event'.budget \in {event.budget} \cup ({task[h].amount} \ {None})
  BY <1>1, <1>2 DEF Reviews!Event, Task, IInv, TypeOK, Reviews!TypeOK
<1>4. RowsGrow
  BY <1>1 DEF RowsGrow
<1>5. Kept
  BY <1>1, <1>4, KeptWhen
<1>6. OverCapNeedsOverride'
  <2>1. event'.cap > SystemCap \/ event'.budget > SystemCap => OverrideSigned
    BY <1>1, <1>3 DEF Relies, IInv, OverCapNeedsOverride, OverrideSigned
  <2> QED BY <1>5, <2>1 DEF Kept, OverCapNeedsOverride, OverrideSigned
<1>7. EditorsRely' /\ task' \in [Editors -> Task]
  BY <1>1, <1>5, IdleFacts, IdleRelies, MoveStep DEF Done
<1>8. TypeOK' /\ ReachedInOrder'
  BY <1>1, <1>3, <1>7 DEF IInv, TypeOK, Reviews!TypeOK, ReachedInOrder
<1>9. ApprovalsRely'
  BY <1>1, <1>4, ReviewStep DEF IInv
<1> QED BY <1>1, <1>5, <1>6, <1>7, <1>8, <1>9, ChainStays DEF IInv

\* A step of the event's life: the tables of approvals and revisions stay.
LEMMA LifeStep ==
  ASSUME IInv, NEW h \in Editors, NEW t \in Task, Become(h, t), Relies(t)',
         UNCHANGED <<reviewVars, revisions, historyVars>>,
         state' \in StateSet, reached' \in SUBSET StateSet, reached \subseteq reached',
         issued' \in [Rules -> Nat], ReachedInOrder'
  PROVE  IInv'
<1>1. /\ UNCHANGED <<approval, event, pc, on, who, signed, applied, start, cutShort>>
      /\ UNCHANGED <<revisions, edits, overlapped>>
  BY DEF reviewVars, approvalVars, historyVars
<1>2. RowsGrow
  BY <1>1 DEF RowsGrow
<1>3. Kept
  BY <1>1, <1>2, KeptWhen
<1>4. EditorsRely' /\ task' \in [Editors -> Task]
  BY <1>3, MoveStep
<1>5. TypeOK'
  BY <1>1, <1>4 DEF IInv, TypeOK, Reviews!TypeOK
<1>6. ApprovalsRely'
  BY <1>1, <1>2, ReviewStep DEF IInv
<1> QED BY <1>1, <1>3, <1>4, <1>5, <1>6, ChainStays, OverCapStays DEF IInv

\* However late the write, the state it sets follows one that was reached.
LEMMA SetStateInv == ASSUME IInv, NEW h \in Editors, SetState(h) PROVE IInv'
<1>1. PICK to : to = task[h].to
  OBVIOUS
<1>2. /\ UNCHANGED <<reviewVars, revisions, issued, historyVars>>
      /\ state' = to /\ reached' = reached \cup {to}
      /\ task[h].at = "setState" /\ task[h] \in Task /\ Relies(task[h])
  BY <1>1 DEF SetState, IInv, TypeOK, EditorsRely
<1>3. PICK s \in reached : <<s, to>> \in Transitions
  BY <1>1, <1>2 DEF Relies
<1>4. to \in StateSet
  BY <1>3, FollowsFacts, StateFacts
<1>5. InOrder(reached')
  <2>1. InOrder(reached)
    BY OrderFacts DEF IInv, ReachedInOrder
  <2> QED BY <1>2, <1>3, <2>1, FollowsFacts DEF InOrder
<1>6. ReachedInOrder'
  <2>1. \A t \in Transitions : t[2] \in reached' => t[1] \in reached'
    BY <1>5, OrderFacts
  <2> QED BY <1>2, <2>1 DEF ReachedInOrder, IInv
<1>7. state' \in StateSet /\ reached' \in SUBSET StateSet /\ issued' \in [Rules -> Nat]
  BY <1>2, <1>4 DEF IInv, TypeOK
<1>8. CASE to = "approved" /\ Rules # {}
  <2> DEFINE next == [task[h] EXCEPT !.at = "issue", !.rules = Rules]
  <2>1. next \in Task /\ next.at = "issue" /\ Become(h, next)
    BY <1>1, <1>2, <1>8, IssueFacts DEF SetState
  <2> HIDE DEF next
  <2>2. PICK t \in Task : t.at = "issue" /\ Become(h, t)
    BY <2>1
  <2>3. Relies(t)'
    BY <1>2, <1>8, <2>2 DEF Relies
  <2> QED BY <1>2, <1>6, <1>7, <2>2, <2>3, LifeStep
<1>9. CASE ~(to = "approved" /\ Rules # {})
  <2>1. Done(h)
    BY <1>1, <1>9 DEF SetState
  <2> QED BY <1>2, <1>6, <1>7, <2>1, IdleFacts, IdleRelies, LifeStep DEF Done
<1> QED BY <1>8, <1>9

LEMMA IssueInv == ASSUME IInv, NEW h \in Editors, Issue(h) PROVE IInv'
<1>1. /\ UNCHANGED <<reviewVars, state, reached, revisions, historyVars>>
      /\ task[h].at = "issue" /\ task[h] \in Task /\ Relies(task[h])
  BY DEF Issue, IInv, TypeOK, EditorsRely
<1>2. PICK r \in task[h].rules :
        /\ issued' = [issued EXCEPT ![r] = @ + 1]
        /\ IF task[h].rules = {r} THEN Done(h)
           ELSE Become(h, [task[h] EXCEPT !.rules = @ \ {r}])
  BY DEF Issue
<1>3. issued' \in [Rules -> Nat]
  BY <1>1, <1>2 DEF IInv, TypeOK, Task
<1>4. ReachedInOrder'
  BY <1>1 DEF IInv, ReachedInOrder, Relies
<1>5. state' \in StateSet /\ reached' \in SUBSET StateSet /\ reached \subseteq reached'
  BY <1>1 DEF IInv, TypeOK
<1>6. CASE task[h].rules = {r}
  BY <1>1, <1>2, <1>3, <1>4, <1>5, <1>6, IdleFacts, IdleRelies, LifeStep DEF Done
<1>7. CASE task[h].rules # {r}
  <2> DEFINE next == [task[h] EXCEPT !.rules = @ \ {r}]
  <2>1. task[h].rules \ {r} \in SUBSET Rules
    BY <1>1 DEF Task
  <2>2. next \in Task /\ next.at = "issue" /\ Become(h, next)
    BY <1>1, <1>2, <1>7, <2>1, IssueFacts
  <2> HIDE DEF next
  <2>3. PICK t \in Task : t.at = "issue" /\ Become(h, t)
    BY <2>2
  <2>4. Relies(t)'
    BY <1>1, <2>3 DEF Relies
  <2> QED BY <1>1, <1>3, <1>4, <1>5, <2>3, <2>4, LifeStep
<1> QED BY <1>6, <1>7

\* Steps on the table of approvals: the editors go on relying on what they did.
LEMMA RowsStep ==
  ASSUME IInv, Reviews!TypeOK', ApprovalsRely', RowsGrow, OverCapNeedsOverride',
         UNCHANGED <<lifeVars, revisions, task, historyVars>>
  PROVE  IInv'
<1>1. UNCHANGED <<state, issued, reached, revisions, task, edits, overlapped>>
  BY DEF lifeVars, historyVars
<1>2. Kept
  BY <1>1, KeptWhen
<1>3. TypeOK' /\ ReachedInOrder'
  BY <1>1 DEF IInv, TypeOK, ReachedInOrder
<1>4. EditorsRely'
  BY <1>1, <1>2, EditorsStay
<1> QED BY <1>1, <1>2, <1>3, <1>4, ChainStays DEF IInv

LEMMA ReviewInv == ASSUME IInv, Review PROVE IInv' /\ RowsGrow
<1>1. Reviews!TypeOK /\ ApprovalsRely /\ OverCapNeedsOverride
  BY DEF IInv, TypeOK
<1>2. UNCHANGED <<lifeVars, revisions, task, historyVars>>
  BY DEF Review
<1>3. ASSUME NEW h \in Handlers, Reviews!Sign(h) PROVE IInv' /\ RowsGrow
  <2>1. Reviews!TypeOK' /\ ApprovalsRely' /\ RowsGrow /\ event' = event
    BY <1>1, <1>3, SignStep
  <2> QED BY <1>1, <1>2, <2>1, SignedStays, RowsStep DEF OverCapNeedsOverride, OverrideSigned
<1>4. ASSUME NEW h \in Handlers, Reviews!Reject(h) PROVE IInv' /\ RowsGrow
  <2>1. Reviews!TypeOK' /\ ApprovalsRely' /\ RowsGrow /\ event' = event
    BY <1>1, <1>4, RejectStep
  <2> QED BY <1>1, <1>2, <2>1, SignedStays, RowsStep DEF OverCapNeedsOverride, OverrideSigned
<1>5. ASSUME NEW h \in Handlers, Reviews!Apply(h) PROVE IInv' /\ RowsGrow
  BY <1>1, <1>2, <1>5, ApplyStep, RowsStep
<1>6. ASSUME NEW h \in Handlers,
             \/ Reviews!Fail(h)
             \/ \E u \in Users, a \in Approvals :
                  Reviews!LoadToApprove(h, u, a) \/ Reviews!LoadToReject(h, u, a)
      PROVE  IInv' /\ RowsGrow
  <2>1. Reviews!TypeOK' /\ ApprovalsRely' /\ RowsGrow /\ event' = event
    BY <1>1, <1>6, HandlerStep
  <2> QED BY <1>1, <1>2, <2>1, SignedStays, RowsStep DEF OverCapNeedsOverride, OverrideSigned
<1> QED BY <1>3, <1>4, <1>5, <1>6 DEF Review

LEMMA RequestReviewInv ==
  ASSUME IInv, NEW a \in Approvals, RequestReview(a)
  PROVE  /\ IInv' /\ RowsGrow
         /\ approval'[a].kind # "budget_change"
         /\ \A b \in Approvals : b # a => approval'[b] = approval[b]
<1>1. PICK kind \in Reviews!Kinds \ {"budget_change"}, u \in Users, m \in Amounts :
        Reviews!Insert(a, kind, u, FALSE, IF kind = "other" THEN None ELSE m)
  BY DEF RequestReview
<1>2. /\ UNCHANGED <<event, pc, on, who, signed, applied, start, cutShort>>
      /\ UNCHANGED <<lifeVars, revisions, task, historyVars>>
  BY DEF RequestReview
<1>3. PICK n \in Amounts \cup {None} : n = IF kind = "other" THEN None ELSE m
  OBVIOUS
<1>4. kind # "other" => n \in Amounts
  BY <1>3
<1>5. Reviews!Insert(a, kind, u, FALSE, n)
  BY <1>1, <1>3
<1>6. /\ Reviews!TypeOK' /\ ApprovalsRely' /\ RowsGrow /\ approval'[a].kind = kind
      /\ \A b \in Approvals : b # a => approval'[b] = approval[b]
  BY <1>2, <1>4, <1>5, InsertStep DEF IInv, TypeOK
<1>7. OverCapNeedsOverride'
  BY <1>2, <1>6, SignedStays DEF OverCapNeedsOverride, OverrideSigned, IInv
<1>8. IInv'
  BY <1>2, <1>6, <1>7, RowsStep
<1> QED BY <1>6, <1>8

LEMMA FailInv == ASSUME IInv, NEW h \in Editors, Fail(h) PROVE IInv'
BY DoneInv DEF Fail

LEMMA InvStay == ASSUME IInv, UNCHANGED vars PROVE IInv'
<1>1. /\ UNCHANGED <<approval, event, pc, on, who, signed, applied, start, cutShort>>
      /\ UNCHANGED <<state, issued, reached, revisions, task, edits, overlapped>>
  BY DEF vars, reviewVars, approvalVars, lifeVars, historyVars
<1>2. RowsGrow
  BY <1>1 DEF RowsGrow
<1>3. ApprovalsRely'
  BY <1>1, <1>2, ReviewStep DEF IInv
<1>4. Reviews!TypeOK' /\ OverCapNeedsOverride'
  BY <1>1, KeptWhen, <1>2, OverCapStays DEF IInv, TypeOK, Reviews!TypeOK
<1> QED BY <1>1, <1>2, <1>3, <1>4, RowsStep DEF lifeVars, historyVars

LEMMA InvNext == ASSUME IInv, [Next]_vars PROVE IInv'
<1>1. ASSUME NEW h \in Editors, Edit(h) PROVE IInv'
  BY <1>1, LoadUpdateInv, CheckOverrideInv, ReviseInv, AskInv, RecordInv, WriteInv
     DEF Edit
<1>2. ASSUME NEW h \in Editors, Transition(h) PROVE IInv'
  BY <1>2, LoadTransitionInv, CheckPendingInv, SetStateInv, IssueInv DEF Transition
<1>3. ASSUME NEW h \in Editors, Fail(h) PROVE IInv'
  BY <1>3, FailInv
<1>4. ASSUME NEW a \in Approvals, RequestReview(a) PROVE IInv'
  BY <1>4, RequestReviewInv
<1>5. CASE Review
  BY <1>5, ReviewInv
<1>6. CASE UNCHANGED vars
  BY <1>6, InvStay
<1> QED BY <1>1, <1>2, <1>3, <1>4, <1>5, <1>6 DEF Next

\* The inductive invariant: what every handler of the event relies on while the
\* others write, with the types, the order of the states, the override behind
\* every amount beyond the system cap and the chain of revisions.
THEOREM Invariance == Spec => []IInv
<1>1. Init => IInv
  BY InvInit
<1>2. IInv /\ [Next]_vars => IInv'
  BY InvNext
<1> QED BY <1>1, <1>2, PTL DEF Spec

\* No event is approved that was not submitted, nor in service before it is
\* approved, nor closed before it is in service, however late a handler writes
\* its state; and no entitlement is issued before an approval.
THEOREM StatesInOrder == Spec => []ReachedInOrder
<1>1. IInv => ReachedInOrder
  BY DEF IInv
<1> QED BY <1>1, Invariance, PTL

\* The cap and the budget are beyond the system cap only when an override of the
\* event has the approvals it needs, whatever updates and decisions overlap.
THEOREM OverCapIsSigned == Spec => []OverCapNeedsOverride
<1>1. IInv => OverCapNeedsOverride
  BY DEF IInv
<1> QED BY <1>1, Invariance, PTL

\* The revisions of the budget form one chain, and each beyond the threshold
\* names an approval of its amount, however updates overlap.
THEOREM RevisionsAreOneChain == Spec => []RevisionsChain
<1>1. IInv => RevisionsChain
  BY DEF IInv
<1> QED BY <1>1, Invariance, PTL

-------------------------------------------------------------------------------
(***************************************************************************)
(* Edits that take turns.                                                  *)
(***************************************************************************)

Open == state \in {"draft", "submitted"}
NoChangePending ==
  \A a \in Approvals :
    approval[a].kind = "budget_change" => approval[a].status # "pending"

\* What TurnsInv says, of edits that have taken turns so far.
LEMMA TurnsFacts ==
  ASSUME IInv, TurnsInv, ~overlapped
  PROVE  /\ \A g, h \in Editors : task[g] # Idle /\ task[h] # Idle => g = h
         /\ \A h \in Editors : TakesTurn(task[h])
         /\ Open => \A r \in Rules : issued[r] = 0
         /\ ~Open => NoChangePending
         /\ \A r \in Rules : issued[r] <= 1
BY StateFacts DEF TurnsInv, Open, NoChangePending, NoChangePendingOnceApproved,
                  IssuedOnce, IInv, TypeOK

LEMMA IdleTakesTurn == TakesTurn(Idle)'
BY IdleFacts DEF TakesTurn

\* An editor at work is alone, when no two have been at work at once.
LEMMA Alone ==
  ASSUME IInv, TurnsInv, ~overlapped', NEW h \in Editors,
         \/ task[h] # Idle /\ overlapped' = overlapped
         \/ \E t \in Task : Start(h, t)
  PROVE  ~overlapped /\ \A g \in Editors : g # h => task[g] = Idle
<1>1. ~overlapped
  BY DEF Start, IInv, TypeOK
<1>2. CASE task[h] # Idle
  BY <1>1, <1>2, TurnsFacts
<1>3. CASE \E t \in Task : Start(h, t)
  BY <1>1, <1>3 DEF Start
<1> QED BY <1>1, <1>2, <1>3

LEMMA TurnStep ==
  ASSUME IInv, NEW h \in Editors, NEW t \in Task, Become(h, t), TakesTurn(t)',
         \A g \in Editors : g # h => task[g] = Idle,
         Open' => \A r \in Rules : issued'[r] = 0,
         ~Open' => NoChangePending',
         \A r \in Rules : issued'[r] <= 1
  PROVE  TurnsInv'
<1>1. /\ task' \in [Editors -> Task] /\ task'[h] = t
      /\ \A g \in Editors : g # h => task'[g] = Idle
  BY BecomeFacts DEF IInv, TypeOK
<1>2. \A g \in Editors : g # h => TakesTurn(task[g])'
  BY <1>1, IdleTakesTurn DEF TakesTurn
<1>3. TakesTurn(task[h])'
  BY <1>1 DEF TakesTurn
<1>4. NoChangePendingOnceApproved' /\ IssuedOnce'
  BY DEF NoChangePendingOnceApproved, IssuedOnce, NoChangePending, Open
<1>5. \A g \in Editors : TakesTurn(task[g])'
  BY <1>2, <1>3
<1>6. \A f, g \in Editors : task'[f] # Idle /\ task'[g] # Idle => f = g
  BY <1>1
<1> QED BY <1>4, <1>5, <1>6 DEF TurnsInv, Open

\* A step of an editor that leaves the event's life and the approvals alone.
LEMMA QuietStep ==
  ASSUME IInv, TurnsInv, ~overlapped', NEW h \in Editors, NEW t \in Task,
         Become(h, t), TakesTurn(t),
         \A g \in Editors : g # h => task[g] = Idle, ~overlapped,
         approval' = approval, state' = state, issued' = issued
  PROVE  TurnsInv'
<1>1. TakesTurn(t)'
  BY DEF TakesTurn
<1> QED BY <1>1, TurnsFacts, TurnStep DEF Open, NoChangePending

\* An editor that ends in the middle leaves nothing behind.
LEMMA DoneTurn ==
  ASSUME IInv, TurnsInv, ~overlapped', NEW h \in Editors, Done(h),
         task[h] # Idle, overlapped' = overlapped,
         approval' = approval, state' = state, issued' = issued
  PROVE  TurnsInv'
<1>1. TakesTurn(Idle)
  BY IdleFacts DEF TakesTurn
<1> QED BY <1>1, IdleFacts, Alone, QuietStep DEF Done

LEMMA LoadUpdateTurn ==
  ASSUME IInv, TurnsInv, ~overlapped', NEW h \in Editors, LoadUpdate(h)
  PROVE  TurnsInv'
<1>1. PICK t \in Task : Start(h, t) /\ t.at \in {"override", "revise", "write"}
  BY LoadUpdateTask
<1>2. /\ approval' = approval /\ state' = state /\ issued' = issued
      /\ state \in {"draft", "submitted"}
  BY DEF LoadUpdate, reviewVars, approvalVars, lifeVars
<1>3. TakesTurn(t)
  BY <1>1, <1>2 DEF TakesTurn
<1> QED BY <1>1, <1>2, <1>3, Alone, QuietStep DEF Start

LEMMA LoadTransitionTurn ==
  ASSUME IInv, TurnsInv, ~overlapped', NEW h \in Editors, LoadTransition(h)
  PROVE  TurnsInv'
<1>1. PICK t \in Task :
        /\ Start(h, t) /\ <<state, t.to>> \in Transitions
        /\ t.at = IF t.to = "approved" THEN "checkPending" ELSE "setState"
  BY LoadTransitionTask
<1>2. approval' = approval /\ state' = state /\ issued' = issued
  BY DEF LoadTransition, reviewVars, approvalVars, lifeVars
<1>3. TakesTurn(t)
  BY <1>1 DEF TakesTurn
<1> QED BY <1>1, <1>2, <1>3, Alone, QuietStep DEF Start

LEMMA AtWork ==
  ASSUME NEW h \in Editors, task[h].at # "idle" PROVE task[h] # Idle
BY IdleFacts

\* The steps of an update, of which each leaves the event open.
LEMMA EditTurn ==
  ASSUME IInv, TurnsInv, ~overlapped', NEW h \in Editors,
         task[h].at \in {"override", "revise", "ask", "record", "write"},
         overlapped' = overlapped, state' = state, issued' = issued,
         NEW t \in Task, Become(h, t),
         t.at \in {"idle", "revise", "ask", "record", "write"}
  PROVE  TurnsInv'
<1>1. task[h] # Idle
  BY AtWork
<1>2. ~overlapped /\ \A g \in Editors : g # h => task[g] = Idle
  BY <1>1, Alone
<1>3. Open
  BY <1>2, TurnsFacts DEF TakesTurn, Open
<1>4. TakesTurn(t)'
  BY <1>3 DEF TakesTurn, Open
<1> QED BY <1>2, <1>3, <1>4, TurnsFacts, TurnStep DEF Open

LEMMA EditsTurn ==
  ASSUME IInv, TurnsInv, ~overlapped', NEW h \in Editors,
         \/ CheckOverride(h) \/ Revise(h) \/ Ask(h) \/ Record(h) \/ Write(h)
  PROVE  TurnsInv'
<1>1. /\ task[h].at \in {"override", "revise", "ask", "record", "write"}
      /\ task[h] \in Task
      /\ overlapped' = overlapped /\ state' = state /\ issued' = issued
  BY DEF CheckOverride, Revise, Ask, Record, Write, lifeVars, historyVars, IInv, TypeOK
<1>2. \E t \in Task : Become(h, t) /\ t.at \in {"idle", "revise", "ask", "record", "write"}
  <2>1. CASE Done(h)
    BY <2>1, IdleFacts DEF Done
  <2>2. ASSUME NEW place \in {"revise", "write"}, Goto(h, place)
        PROVE  \E t \in Task :
                 Become(h, t) /\ t.at \in {"idle", "revise", "ask", "record", "write"}
    <3> DEFINE t == [task[h] EXCEPT !.at = place]
    <3>1. place \in Places
      BY DEF Places
    <3>2. t \in Task /\ t.at = place
      BY <1>1, <3>1, GotoFacts
    <3>3. Become(h, t)
      BY <2>2 DEF Goto
    <3> HIDE DEF t
    <3> QED BY <3>2, <3>3
  <2>3. CASE CheckOverride(h)
    BY <2>1, <2>2, <2>3 DEF CheckOverride
  <2>4. CASE Record(h)
    BY <2>1, <2>2, <2>4 DEF Record
  <2>5. CASE Write(h)
    BY <2>1, <2>5 DEF Write
  <2>6. CASE Revise(h)
    BY <1>1, <2>6, ReviseTask
  <2>7. CASE Ask(h)
    <3>1. PICK a \in Approvals :
            Become(h, [task[h] EXCEPT !.at = "record", !.amount = None, !.asked = a])
      BY <2>7 DEF Ask
    <3> DEFINE t == [task[h] EXCEPT !.at = "record", !.amount = None, !.asked = a]
    <3>2. t \in Task /\ t.at = "record"
      BY <1>1, AskFacts
    <3>3. Become(h, t)
      BY <3>1
    <3> HIDE DEF t
    <3> QED BY <3>2, <3>3
  <2> QED BY <2>3, <2>4, <2>5, <2>6, <2>7
<1> QED BY <1>1, <1>2, EditTurn

\* An event is approved only when no change of its budget waits for a decision.
LEMMA CheckPendingTurn ==
  ASSUME IInv, TurnsInv, ~overlapped', NEW h \in Editors, CheckPending(h)
  PROVE  TurnsInv'
<1>1. /\ task[h].at = "checkPending" /\ task[h] \in Task /\ overlapped' = overlapped
      /\ approval' = approval /\ state' = state /\ issued' = issued
  BY DEF CheckPending, reviewVars, approvalVars, lifeVars, historyVars, IInv, TypeOK
<1>2. task[h] # Idle
  BY <1>1, AtWork
<1>3. ~overlapped /\ \A g \in Editors : g # h => task[g] = Idle
  BY <1>1, <1>2, Alone
<1>4. TakesTurn(task[h])
  BY <1>3, TurnsFacts
<1>5. CASE \E a \in Approvals : approval[a].status = "pending"
  <2>1. Done(h)
    BY <1>5 DEF CheckPending
  <2> QED BY <1>1, <1>2, <2>1, DoneTurn
<1>6. CASE ~ \E a \in Approvals : approval[a].status = "pending"
  <2> DEFINE t == [task[h] EXCEPT !.at = "setState"]
  <2>1. t \in Task /\ t.at = "setState" /\ t.to = task[h].to
    <3>1. "setState" \in Places
      BY DEF Places
    <3> QED BY <1>1, <3>1, GotoFacts
  <2>2. Become(h, t)
    BY <1>6 DEF CheckPending, Goto
  <2> HIDE DEF t
  <2>3. TakesTurn(t)
    BY <1>1, <1>4, <1>6, <2>1 DEF TakesTurn
  <2> QED BY <1>1, <1>3, <2>1, <2>2, <2>3, QuietStep
<1> QED BY <1>5, <1>6

\* The state that is set is still the one after the event's own.
LEMMA SetStateFacts ==
  ASSUME IInv, TurnsInv, ~overlapped', NEW h \in Editors, SetState(h)
  PROVE  /\ ~overlapped /\ \A g \in Editors : g # h => task[g] = Idle
         /\ <<state, state'>> \in Transitions /\ task[h] \in Task
         /\ state' = "approved" => NoChangePending
         /\ approval' = approval /\ issued' = issued /\ task[h].to = state'
<1>1. /\ task[h].at = "setState" /\ task[h] \in Task /\ overlapped' = overlapped
      /\ approval' = approval /\ issued' = issued /\ task[h].to = state'
  BY DEF SetState, reviewVars, approvalVars, historyVars, IInv, TypeOK
<1>2. ~overlapped /\ \A g \in Editors : g # h => task[g] = Idle
  BY <1>1, AtWork, Alone
<1>3. TakesTurn(task[h])
  BY <1>2, TurnsFacts
<1> QED BY <1>1, <1>2, <1>3 DEF TakesTurn, NoChangePending

LEMMA SetStateTurn ==
  ASSUME IInv, TurnsInv, ~overlapped', NEW h \in Editors, SetState(h)
  PROVE  TurnsInv'
<1>1. /\ ~overlapped /\ \A g \in Editors : g # h => task[g] = Idle
      /\ <<state, state'>> \in Transitions /\ task[h] \in Task
      /\ state' = "approved" => NoChangePending
      /\ approval' = approval /\ issued' = issued /\ task[h].to = state'
  BY SetStateFacts
<1>2. /\ \A g, f \in Editors : task[g] # Idle /\ task[f] # Idle => g = f
      /\ Open => \A r \in Rules : issued[r] = 0
      /\ ~Open => NoChangePending
      /\ \A r \in Rules : issued[r] <= 1
  BY <1>1, TurnsFacts
<1>3. Open' => \A r \in Rules : issued'[r] = 0
  BY <1>1, <1>2, FollowsFacts DEF Open
<1>4. ~Open' => NoChangePending'
  <2>1. ~Open' => NoChangePending
    BY <1>1, <1>2, FollowsFacts DEF Open
  <2> QED BY <1>1, <2>1 DEF NoChangePending
<1>5. CASE state' = "approved" /\ Rules # {}
  <2> DEFINE next == [task[h] EXCEPT !.at = "issue", !.rules = Rules]
  <2>1. next \in Task /\ next.at = "issue" /\ next.rules = Rules
    BY <1>1, IssueFacts
  <2>2. Become(h, next)
    BY <1>1, <1>5 DEF SetState
  <2> HIDE DEF next
  <2>3. PICK t \in Task : t.at = "issue" /\ t.rules = Rules /\ Become(h, t)
    BY <2>1, <2>2
  <2>4. \A r \in Rules : issued[r] = 0
    BY <1>1, <1>2, <1>5, FollowsFacts DEF Open
  <2>5. TakesTurn(t)'
    BY <1>1, <1>5, <2>3, <2>4 DEF TakesTurn
  <2> QED BY <1>1, <1>2, <1>3, <1>4, <2>3, <2>5, TurnStep
<1>6. CASE ~(state' = "approved" /\ Rules # {})
  <2>1. Become(h, Idle)
    BY <1>1, <1>6 DEF SetState, Done
  <2> QED BY <1>1, <1>2, <1>3, <1>4, <2>1, IdleFacts, IdleTakesTurn, TurnStep
<1> QED BY <1>5, <1>6

LEMMA IssueTurn ==
  ASSUME IInv, TurnsInv, ~overlapped', NEW h \in Editors, Issue(h)
  PROVE  TurnsInv'
<1>1. /\ task[h].at = "issue" /\ task[h] \in Task /\ overlapped' = overlapped
      /\ approval' = approval /\ state' = state
  BY DEF Issue, reviewVars, approvalVars, historyVars, IInv, TypeOK
<1>2. PICK r \in task[h].rules :
        /\ issued' = [issued EXCEPT ![r] = @ + 1]
        /\ IF task[h].rules = {r} THEN Done(h)
           ELSE Become(h, [task[h] EXCEPT !.rules = @ \ {r}])
  BY DEF Issue
<1>3. ~overlapped /\ \A g \in Editors : g # h => task[g] = Idle
  BY <1>1, AtWork, Alone
<1>4. /\ TakesTurn(task[h])
      /\ ~Open => NoChangePending
      /\ \A s \in Rules : issued[s] <= 1
  BY <1>3, TurnsFacts
<1>5. /\ state = "approved" /\ \A s \in task[h].rules : issued[s] = 0
      /\ task[h].rules \in SUBSET Rules
  BY <1>1, <1>4 DEF TakesTurn, Task
<1>6. /\ issued'[r] = 1
      /\ \A s \in Rules : s # r => issued'[s] = issued[s]
  BY <1>2, <1>5 DEF IInv, TypeOK
<1>7. ~Open' /\ NoChangePending' /\ \A s \in Rules : issued'[s] <= 1
  BY <1>1, <1>4, <1>5, <1>6 DEF Open, NoChangePending
<1>8. CASE task[h].rules = {r}
  BY <1>2, <1>3, <1>7, <1>8, IdleFacts, IdleTakesTurn, TurnStep DEF Done
<1>9. CASE task[h].rules # {r}
  <2> DEFINE rest == task[h].rules \ {r}
             next == [task[h] EXCEPT !.rules = @ \ {r}]
  <2>1. next \in Task /\ next.at = "issue" /\ next.rules = rest
    BY <1>1, <1>5, IssueFacts
  <2>2. Become(h, next)
    BY <1>2, <1>9
  <2> HIDE DEF next
  <2>3. PICK t \in Task : t.at = "issue" /\ t.rules = rest /\ Become(h, t)
    BY <2>1, <2>2
  <2>4. t.rules # {} /\ \A s \in t.rules : issued'[s] = 0
    BY <1>2, <1>5, <1>6, <1>9, <2>3
  <2>5. TakesTurn(t)'
    BY <1>1, <1>5, <2>3, <2>4 DEF TakesTurn
  <2> QED BY <1>3, <1>7, <2>3, <2>5, TurnStep
<1> QED BY <1>8, <1>9

\* Only a handler of the event asks for a change of its budget.
LEMMA NoChangeAsked ==
  ASSUME IInv, RowsGrow, NoChangePending,
         \A a \in Approvals :
           \/ approval[a].status # "absent"
           \/ approval'[a] = approval[a]
           \/ approval'[a].kind # "budget_change"
  PROVE  NoChangePending'
BY DEF RowsGrow, NoChangePending

LEMMA ReviewKeepsAbsent ==
  ASSUME IInv, Review, NEW a \in Approvals
  PROVE  approval[a].status # "absent" \/ approval'[a] = approval[a]
<1>1. Reviews!TypeOK /\ ApprovalsRely
  BY DEF IInv, TypeOK
<1>2. ASSUME NEW h \in Handlers, Reviews!Sign(h) \/ Reviews!Reject(h)
      PROVE  approval[a].status # "absent" \/ approval'[a] = approval[a]
  <2>1. pc[h] # "idle"
    BY <1>2 DEF Reviews!Sign, Reviews!Reject, Reviews!Signing, Reviews!Rejecting
  <2>2. approval[on[h]].status # "absent"
    BY <1>1, <2>1, Working
  <2>3. \E new : approval' = [approval EXCEPT ![on[h]] = new]
    BY <1>2 DEF Reviews!Sign, Reviews!Reject
  <2> QED BY <1>1, <2>2, <2>3 DEF Reviews!TypeOK
<1>3. ASSUME NEW h \in Handlers,
             \/ Reviews!Apply(h) \/ Reviews!Fail(h)
             \/ \E u \in Users, b \in Approvals :
                  Reviews!LoadToApprove(h, u, b) \/ Reviews!LoadToReject(h, u, b)
      PROVE  approval' = approval
  BY <1>3 DEF Reviews!Apply, Reviews!Fail, Reviews!LoadToApprove, Reviews!LoadToReject
<1> QED BY <1>2, <1>3 DEF Review

\* Steps on the table of approvals, while edits take turns.
LEMMA RowsTurn ==
  ASSUME IInv, TurnsInv, ~overlapped', NoChangePending => NoChangePending',
         UNCHANGED <<lifeVars, task, historyVars>>
  PROVE  TurnsInv'
<1>1. UNCHANGED <<state, issued, task, overlapped>>
  BY DEF lifeVars, historyVars
<1>2. \A h \in Editors : TakesTurn(task[h])'
  <2>1. ASSUME NEW h \in Editors PROVE TakesTurn(task[h])'
    <3>1. TakesTurn(task[h])
      BY <1>1, TurnsFacts
    <3> QED BY <1>1, <3>1 DEF TakesTurn, NoChangePending
  <2> QED BY <2>1
<1>3. NoChangePendingOnceApproved'
  BY <1>1, TurnsFacts DEF NoChangePendingOnceApproved, NoChangePending, Open
<1> QED BY <1>1, <1>2, <1>3 DEF TurnsInv, IssuedOnce

LEMMA TurnsNext == ASSUME IInv, TurnsInv, [Next]_vars PROVE TurnsInv'
<1> SUFFICES ASSUME ~overlapped' PROVE TurnsInv'
  BY DEF TurnsInv
<1>1. ASSUME NEW h \in Editors, Edit(h) PROVE TurnsInv'
  BY <1>1, LoadUpdateTurn, EditsTurn DEF Edit
<1>2. ASSUME NEW h \in Editors, Transition(h) PROVE TurnsInv'
  BY <1>2, LoadTransitionTurn, CheckPendingTurn, SetStateTurn, IssueTurn DEF Transition
<1>3. ASSUME NEW h \in Editors, Fail(h) PROVE TurnsInv'
  BY <1>3, DoneTurn DEF Fail, reviewVars, approvalVars, lifeVars, historyVars
<1>4. ASSUME NEW a \in Approvals, RequestReview(a) PROVE TurnsInv'
  BY <1>4, RequestReviewInv, NoChangeAsked, RowsTurn DEF RequestReview
<1>5. CASE Review
  BY <1>5, ReviewInv, ReviewKeepsAbsent, NoChangeAsked, RowsTurn DEF Review
<1>6. CASE UNCHANGED vars
  BY <1>6, RowsTurn
     DEF vars, reviewVars, approvalVars, lifeVars, historyVars, NoChangePending
<1> QED BY <1>1, <1>2, <1>3, <1>4, <1>5, <1>6 DEF Next

LEMMA TurnsInit == Init => TurnsInv
<1> SUFFICES ASSUME Init PROVE TurnsInv
  OBVIOUS
<1>1. /\ \A h \in Editors : task[h] = Idle
      /\ \A r \in Rules : issued[r] = 0
      /\ state = "draft"
  BY DEF Init
<1>2. \A h \in Editors : TakesTurn(task[h])
  BY <1>1, IdleFacts DEF TakesTurn
<1> QED BY <1>1, <1>2 DEF TurnsInv, NoChangePendingOnceApproved, IssuedOnce

\* When no two edits of the event have been at work at once, what each found
\* when it read the event is still so when it writes.
THEOREM TurnsInvariance == Spec => []TurnsInv
<1>1. Init => TurnsInv
  BY TurnsInit
<1>2. IInv /\ TurnsInv /\ [Next]_vars => TurnsInv'
  BY TurnsNext
<1> QED BY <1>1, <1>2, Invariance, PTL DEF Spec

\* The life of the event: its states come in order, and each rule issues at most
\* once for it when edits take turns.
THEOREM LifeIsInOrder == Spec => []LifeHolds
<1>1. IInv /\ TurnsInv => LifeHolds
  BY DEF IInv, TurnsInv, LifeHolds, IssuedOnce
<1> QED BY <1>1, Invariance, TurnsInvariance, PTL

\* The budget of the event: an amount beyond the system cap has its override,
\* the revisions are one chain, and an approved event has no change of its
\* budget waiting for a decision when edits take turns.
THEOREM BudgetIsKept == Spec => []BudgetHolds
<1>1. IInv /\ TurnsInv => BudgetHolds
  BY DEF IInv, TurnsInv, BudgetHolds, NoChangePendingOnceApproved
<1> QED BY <1>1, Invariance, TurnsInvariance, PTL

LEMMA StepForward ==
  ASSUME IInv, TurnsInv, Next, ~overlapped'
  PROVE  /\ state' # state => <<state, state'>> \in Transitions
         /\ event' # event /\ state \in {"approved", "in_service", "closed"} =>
              \E a \in Approvals : applied'[a] > applied[a]
<1>1. ASSUME NEW h \in Editors, SetState(h)
      PROVE  <<state, state'>> \in Transitions /\ event' = event
  BY <1>1, SetStateFacts DEF SetState, reviewVars
<1>2. ASSUME NEW h \in Editors, Write(h)
      PROVE  state' = state /\ state \notin {"approved", "in_service", "closed"}
  <2>1. task[h].at = "write" /\ state' = state /\ overlapped' = overlapped
    BY <1>2 DEF Write, lifeVars, historyVars
  <2>2. TakesTurn(task[h])
    BY <2>1, TurnsFacts
  <2> QED BY <2>1, <2>2 DEF TakesTurn
<1>3. ASSUME NEW h \in Editors,
             \/ LoadUpdate(h) \/ CheckOverride(h) \/ Revise(h) \/ Ask(h) \/ Record(h)
             \/ LoadTransition(h) \/ CheckPending(h) \/ Issue(h) \/ Fail(h)
      PROVE  state' = state /\ event' = event
  BY <1>3 DEF LoadUpdate, CheckOverride, Revise, Ask, Record, LoadTransition,
     CheckPending, Issue, Fail, reviewVars, lifeVars
<1>4. ASSUME NEW a \in Approvals, RequestReview(a) PROVE state' = state /\ event' = event
  BY <1>4 DEF RequestReview, lifeVars
<1>5. CASE Review
  <2>1. Reviews!TypeOK /\ ApprovalsRely /\ OverCapNeedsOverride
    BY DEF IInv, TypeOK
  <2>2. state' = state
    BY <1>5 DEF Review, lifeVars
  <2>3. ASSUME NEW h \in Handlers, Reviews!Apply(h)
        PROVE  \E a \in Approvals : applied'[a] > applied[a]
    BY <2>1, <2>3, ApplyStep
  <2>4. ASSUME NEW h \in Handlers,
               \/ Reviews!Sign(h) \/ Reviews!Reject(h) \/ Reviews!Fail(h)
               \/ \E u \in Users, a \in Approvals :
                    Reviews!LoadToApprove(h, u, a) \/ Reviews!LoadToReject(h, u, a)
        PROVE  event' = event
    BY <2>4 DEF Reviews!Sign, Reviews!Reject, Reviews!Fail, Reviews!LoadToApprove,
       Reviews!LoadToReject
  <2> QED BY <1>5, <2>2, <2>3, <2>4 DEF Review
<1> QED BY <1>1, <1>2, <1>3, <1>4, <1>5 DEF Next, Edit, Transition

\* When edits take turns, no state is skipped or taken back, and once the event
\* is approved its cap and its budget change by decisions on approvals only.
THEOREM EventMovesForward == Spec => ForwardOnly
<1>1. IInv /\ TurnsInv /\ [Next]_vars =>
        [~overlapped' =>
           /\ state' # state => <<state, state'>> \in Transitions
           /\ event' # event /\ state \in {"approved", "in_service", "closed"} =>
                \E a \in Approvals : applied'[a] > applied[a]]_vars
  BY StepForward
<1> QED BY <1>1, Invariance, TurnsInvariance, PTL DEF Spec, ForwardOnly
===============================================================================
