--------------------------- MODULE Approvals_proofs ---------------------------
(***************************************************************************)
(* Proofs about Approvals, for any approvals, users, handlers and amounts, *)
(* whether handlers overlap or not.                                        *)
(***************************************************************************)
EXTENDS Approvals, TLAPS

LEMMA TypeInit == Init => TypeOK
<1> SUFFICES ASSUME Init PROVE TypeOK
  OBVIOUS
<1>1. approval \in [Approvals -> Approval]
  BY DEF Init, Approval, Kinds
<1>2. pc \in [Handlers -> Deciding \cup {"idle", "apply"}]
  BY DEF Init
<1> QED BY <1>1, <1>2 DEF Init, TypeOK

\* A decision leaves a row that differs in its status and its signatures only.
LEMMA SignedFacts ==
  ASSUME NEW row \in Approval, NEW place \in Signing, NEW u \in Users
  PROVE  LET new == Signed(row, place, u) IN
         /\ new \in Approval
         /\ new.kind = row.kind /\ new.by = row.by /\ new.dual = row.dual
         /\ new.amount = row.amount
         /\ new.status = IF place = "signFirst" THEN row.status ELSE "approved"
         /\ new.first = IF place = "signSecond" THEN row.first ELSE u
<1>1. CASE place = "signFirst"
  BY <1>1 DEF Signed, Approval
<1>2. CASE place = "signOnly"
  BY <1>2 DEF Signed, Approval
<1>3. CASE place = "signSecond"
  BY <1>3 DEF Signed, Approval
<1> QED BY <1>1, <1>2, <1>3 DEF Signing

LEMMA RejectedFacts ==
  ASSUME NEW row \in Approval, NEW place \in Rejecting, NEW u \in Users
  PROVE  LET new == Rejected(row, place, u) IN
         /\ new \in Approval
         /\ new.kind = row.kind /\ new.by = row.by /\ new.dual = row.dual
         /\ new.amount = row.amount
         /\ new.status = "rejected"
<1>1. CASE place = "rejectFirst"
  BY <1>1 DEF Rejected, Approval
<1>2. CASE place = "rejectSecond"
  BY <1>2 DEF Rejected, Approval
<1> QED BY <1>1, <1>2 DEF Rejecting

\* What holds of the row and the user a handler works for.
LEMMA Working ==
  ASSUME TypeOK, HandlersRely, NEW h \in Handlers, pc[h] # "idle"
  PROVE  /\ on[h] \in Approvals /\ who[h] \in Users
         /\ approval[on[h]] \in Approval
         /\ approval[on[h]].status # "absent"
BY DEF TypeOK, HandlersRely

LEMMA TypeNext == TypeOK /\ HandlersRely /\ [Next]_vars => TypeOK'
<1> SUFFICES ASSUME TypeOK, HandlersRely, [Next]_vars PROVE TypeOK'
  OBVIOUS
<1> USE DEF TypeOK
<1>1. ASSUME NEW a \in Approvals, CreateApproval(a) PROVE TypeOK'
  <2>1. PICK kind \in Kinds, u \in Users, d \in Dual, m \in Amounts :
          approval' = [approval EXCEPT ![a] = [status |-> "pending",
                         kind |-> kind, by |-> u, first |-> None,
                         second |-> None, dual |-> d,
                         amount |-> IF kind = "other" THEN None ELSE m]]
    BY <1>1 DEF CreateApproval, Insert
  <2>2. d \in BOOLEAN
    BY ApprovalsAssumption
  <2>3. approval' \in [Approvals -> Approval]
    BY <2>1, <2>2 DEF Approval
  <2> QED BY <1>1, <2>3 DEF CreateApproval, Insert, handlerVars, historyVars
<1>2. ASSUME NEW h \in Handlers, NEW u \in Users, NEW a \in Approvals,
             LoadToApprove(h, u, a)
      PROVE  TypeOK'
  BY <1>2 DEF LoadToApprove, Deciding, Signing, historyVars
<1>3. ASSUME NEW h \in Handlers, NEW u \in Users, NEW a \in Approvals,
             LoadToReject(h, u, a)
      PROVE  TypeOK'
  BY <1>3 DEF LoadToReject, Deciding, Rejecting, historyVars
<1>4. ASSUME NEW h \in Handlers, Sign(h) PROVE TypeOK'
  <2>1. pc[h] \in Signing /\ pc[h] # "idle"
    BY <1>4 DEF Sign, Signing
  <2>2. Signed(approval[on[h]], pc[h], who[h]) \in Approval
    BY <2>1, Working, SignedFacts
  <2>3. approval' \in [Approvals -> Approval]
    BY <1>4, <2>2 DEF Sign
  <2>4. signed' \in [Approvals -> SUBSET Users]
    BY <1>4, <2>1, Working DEF Sign
  <2> QED BY <1>4, <2>3, <2>4 DEF Sign, Goto, Done
<1>5. ASSUME NEW h \in Handlers, Reject(h) PROVE TypeOK'
  <2>1. pc[h] \in Rejecting /\ pc[h] # "idle"
    BY <1>5 DEF Reject, Rejecting
  <2>2. Rejected(approval[on[h]], pc[h], who[h]) \in Approval
    BY <2>1, Working, RejectedFacts
  <2>3. approval' \in [Approvals -> Approval]
    BY <1>5, <2>1, <2>2, Working DEF Reject
  <2> QED BY <1>5, <2>3 DEF Reject, Done, historyVars
<1>6. ASSUME NEW h \in Handlers, Apply(h) PROVE TypeOK'
  <2>1. on[h] \in Approvals /\ approval[on[h]].amount \in Amounts
    BY <1>6 DEF Apply, HandlersRely
  <2>2. event' \in Event
    BY <1>6, <2>1 DEF Apply, Event
  <2>3. applied' \in [Approvals -> Nat]
    BY <1>6, <2>1 DEF Apply
  <2> QED BY <1>6, <2>2, <2>3 DEF Apply, Done
<1>7. ASSUME NEW h \in Handlers, Fail(h) PROVE TypeOK'
  <2>1. on[h] \in Approvals
    BY <1>7, Working DEF Fail
  <2> QED BY <1>7, <2>1 DEF Fail, Done
<1>8. CASE UNCHANGED vars
  BY <1>8 DEF vars
<1> QED
  <2>1. CASE Next
    BY <2>1, <1>1, <1>2, <1>3, <1>4, <1>5, <1>6, <1>7 DEF Next
  <2> QED BY <2>1, <1>8

-------------------------------------------------------------------------------
LEMMA InvInit == Init => IInv
<1> SUFFICES ASSUME Init PROVE IInv
  OBVIOUS
<1>1. TypeOK
  BY TypeInit
<1>2. approval = [a \in Approvals |-> [status |-> "absent", kind |-> "other",
                      by |-> None, first |-> None, second |-> None,
                      dual |-> FALSE, amount |-> None]]
  BY DEF Init
<1>3. \A a \in Approvals : approval[a].status = "absent"
                           /\ approval[a].first = None
                           /\ approval[a].kind = "other"
  BY <1>2
<1>4. HandlersRely /\ NobodySignsTheirOwn /\ SignedByEnough
      /\ ApprovedTakesEffect
  BY <1>3 DEF Init, HandlersRely, NobodySignsTheirOwn, SignedByEnough,
              ApprovedTakesEffect
<1>5. BudgetHasItsApproval
  BY DEF Init, BudgetHasItsApproval
<1> QED BY <1>1, <1>4, <1>5 DEF IInv

\* The handlers other than h are where they were.
Others(h) ==
  \A g \in Handlers : g # h =>
    pc'[g] = pc[g] /\ on'[g] = on[g] /\ who'[g] = who[g]

LEMMA DoneFacts ==
  ASSUME TypeOK, NEW h \in Handlers, Done(h)
  PROVE  pc'[h] = "idle" /\ Others(h)
BY DEF TypeOK, Done, Others

\* A step that writes nothing to the tables: a read that starts a handler, or
\* the end of a handler that failed.
LEMMA QuietStep ==
  ASSUME IInv, TypeOK', NEW h \in Handlers, Others(h),
         UNCHANGED <<approval, event, signed, applied, start>>,
         cutShort \subseteq cutShort',
         pc[h] = "apply" => on[h] \in cutShort',
         pc'[h] # "idle" =>
           LET row == approval[on'[h]] IN
           /\ on'[h] \in Approvals /\ who'[h] \in Users
           /\ row.status # "absent"
           /\ pc'[h] \in Signing => who'[h] # row.by
           /\ pc'[h] = "signOnly" => ~row.dual
           /\ pc'[h] = "signSecond" => \E u \in signed[on'[h]] : u # who'[h]
           /\ pc'[h] # "apply"
  PROVE  IInv'
<1>1. NobodySignsTheirOwn' /\ SignedByEnough' /\ BudgetHasItsApproval'
  BY DEF IInv, NobodySignsTheirOwn, SignedByEnough, BudgetHasItsApproval
<1>2. ApprovedTakesEffect'
  BY DEF IInv, ApprovedTakesEffect, Others
<1>3. \A g \in Handlers : g # h /\ pc'[g] # "idle" =>
        LET row == approval[on'[g]] IN
        /\ on'[g] \in Approvals /\ who'[g] \in Users
        /\ row.status # "absent"
        /\ pc'[g] \in Signing => who'[g] # row.by
        /\ pc'[g] = "signOnly" => ~row.dual
        /\ pc'[g] = "signSecond" => \E u \in signed[on'[g]] : u # who'[g]
        /\ pc'[g] = "apply" =>
             \E u \in signed[on'[g]] :
               row.dual => \E v \in signed[on'[g]] : u # v
        /\ pc'[g] = "apply" => row.kind # "other"
  BY DEF IInv, HandlersRely, Others
<1>4. HandlersRely'
  BY <1>3 DEF IInv, HandlersRely
<1> QED BY <1>1, <1>2, <1>4 DEF IInv

LEMMA LoadToApproveInv ==
  ASSUME IInv, TypeOK', NEW h \in Handlers, NEW u \in Users, NEW a \in Approvals,
         LoadToApprove(h, u, a)
  PROVE  IInv'
<1>1. Others(h) /\ on'[h] = a /\ who'[h] = u
      /\ pc'[h] = IF approval[a].first # None THEN "signSecond"
                  ELSE IF approval[a].dual THEN "signFirst" ELSE "signOnly"
  BY DEF LoadToApprove, Others, IInv, TypeOK
<1>2. approval[a].first # None => \E v \in signed[a] : v # u
  BY DEF LoadToApprove, IInv, HandlersRely
<1> QED BY <1>1, <1>2, QuietStep DEF LoadToApprove, historyVars, Signing

LEMMA LoadToRejectInv ==
  ASSUME IInv, TypeOK', NEW h \in Handlers, NEW u \in Users, NEW a \in Approvals,
         LoadToReject(h, u, a)
  PROVE  IInv'
<1>1. Others(h) /\ on'[h] = a /\ who'[h] = u
      /\ pc'[h] \in Rejecting
  BY DEF LoadToReject, Others, IInv, TypeOK, Rejecting
<1> QED BY <1>1, QuietStep DEF LoadToReject, historyVars, Signing, Rejecting

LEMMA FailInv == ASSUME IInv, TypeOK', NEW h \in Handlers, Fail(h) PROVE IInv'
<1>1. pc'[h] = "idle" /\ Others(h)
  BY DoneFacts DEF Fail, IInv
<1> QED BY <1>1, QuietStep DEF Fail

\* A step that writes to the row of its approval, and nothing else but the
\* history of signatures: what the row was asked for stays as it is.
LEMMA RowStep ==
  ASSUME IInv, TypeOK', NEW h \in Handlers, NEW a \in Approvals, Others(h),
         UNCHANGED <<event, applied, start, cutShort>>,
         \A b \in Approvals : b # a =>
           approval'[b] = approval[b] /\ signed'[b] = signed[b],
         signed[a] \subseteq signed'[a],
         approval[a].status # "absent",
         /\ approval'[a].kind = approval[a].kind
         /\ approval'[a].by = approval[a].by
         /\ approval'[a].dual = approval[a].dual
         /\ approval'[a].amount = approval[a].amount,
         approval'[a].status # "absent",
         approval'[a].by \in Users \ signed'[a],
         approval'[a].first # None =>
           approval'[a].first \in signed'[a] \/ approval'[a].status # "pending",
         approval'[a].status = "approved" => applied[a] > 0
           \/ \E u \in signed'[a] :
                approval'[a].dual => \E v \in signed'[a] : u # v,
         approval'[a].status = "approved" /\ approval'[a].kind # "other" =>
           \/ approval[a].status = "approved"
           \/ pc'[h] = "apply" /\ on'[h] = a,
         pc[h] # "apply",
         pc'[h] \in {"idle", "apply"},
         pc'[h] = "apply" =>
           /\ on'[h] = a /\ who'[h] \in Users
           /\ approval'[a].kind # "other"
           /\ \E u \in signed'[a] :
                approval'[a].dual => \E v \in signed'[a] : u # v
  PROVE  IInv'
<1>1. NobodySignsTheirOwn'
  BY DEF IInv, NobodySignsTheirOwn
<1>2. SignedByEnough'
  <2> SUFFICES ASSUME NEW b \in Approvals,
                      approval'[b].status = "approved" \/ applied[b] > 0
               PROVE  \E u \in signed'[b] :
                        approval'[b].dual => \E v \in signed'[b] : u # v
    BY DEF SignedByEnough
  <2>1. CASE b # a
    BY <2>1 DEF IInv, SignedByEnough
  <2>2. CASE b = a /\ applied[a] > 0
    <3>1. approval'[a].dual = approval[a].dual
      BY <2>2
    <3>2. PICK u \in signed[a] :
            approval[a].dual => \E v \in signed[a] : u # v
      BY <2>2 DEF IInv, SignedByEnough
    <3> QED BY <2>2, <3>1, <3>2
  <2>3. CASE b = a /\ ~(applied[a] > 0)
    BY <2>3
  <2> QED BY <2>1, <2>2, <2>3
<1>3. BudgetHasItsApproval'
  <2>1. \A b \in Approvals : applied[b] > 0 =>
          approval'[b].kind = approval[b].kind
          /\ approval'[b].amount = approval[b].amount
    OBVIOUS
  <2> QED BY <2>1 DEF IInv, BudgetHasItsApproval
<1>4. ApprovedTakesEffect'
  <2> SUFFICES ASSUME NEW b \in Approvals,
                      approval'[b].status = "approved",
                      approval'[b].kind # "other"
               PROVE  \/ applied[b] > 0
                      \/ \E g \in Handlers : on'[g] = b /\ pc'[g] = "apply"
                      \/ b \in cutShort
    BY DEF ApprovedTakesEffect
  <2>1. CASE approval[b].status = "approved"
    <3>1. approval[b].kind # "other"
      BY <2>1
    <3>2. \/ applied[b] > 0
          \/ \E g \in Handlers : on[g] = b /\ pc[g] = "apply"
          \/ b \in cutShort
      BY <2>1, <3>1 DEF IInv, ApprovedTakesEffect
    <3>3. \A g \in Handlers : pc[g] = "apply" =>
            pc'[g] = "apply" /\ on'[g] = on[g]
      BY DEF Others
    <3> QED BY <3>2, <3>3
  <2>2. CASE approval[b].status # "approved"
    <3>1. b = a
      BY <2>2
    <3>2. pc'[h] = "apply" /\ on'[h] = a
      BY <2>2, <3>1
    <3> QED BY <3>1, <3>2
  <2> QED BY <2>1, <2>2
<1>5. HandlersRely'
  <2>1. \A b \in Approvals :
          /\ approval'[b].status = "absent" => signed'[b] = {} /\ applied[b] = 0
          /\ approval'[b].status # "absent" => approval'[b].by \in Users
          /\ approval'[b].kind # "other" => approval'[b].amount \in Amounts
          /\ approval'[b].first # None =>
               \/ approval'[b].first \in signed'[b]
               \/ approval'[b].status # "pending"
    <3> SUFFICES ASSUME NEW b \in Approvals
                 PROVE
          /\ approval'[b].status = "absent" => signed'[b] = {} /\ applied[b] = 0
          /\ approval'[b].status # "absent" => approval'[b].by \in Users
          /\ approval'[b].kind # "other" => approval'[b].amount \in Amounts
          /\ approval'[b].first # None =>
               \/ approval'[b].first \in signed'[b]
               \/ approval'[b].status # "pending"
      OBVIOUS
    <3>1. CASE b # a
      BY <3>1 DEF IInv, HandlersRely
    <3>2. CASE b = a
      BY <3>2 DEF IInv, HandlersRely
    <3> QED BY <3>1, <3>2
  <2>2. ASSUME NEW g \in Handlers, pc'[g] # "idle"
        PROVE  LET row == approval'[on'[g]] IN
               /\ on'[g] \in Approvals /\ who'[g] \in Users
               /\ row.status # "absent"
               /\ pc'[g] \in Signing => who'[g] # row.by
               /\ pc'[g] = "signOnly" => ~row.dual
               /\ pc'[g] = "signSecond" => \E u \in signed'[on'[g]] : u # who'[g]
               /\ pc'[g] = "apply" =>
                    \E u \in signed'[on'[g]] :
                      row.dual => \E v \in signed'[on'[g]] : u # v
               /\ pc'[g] = "apply" => row.kind # "other"
    <3>1. CASE g = h
      BY <2>2, <3>1 DEF Signing
    <3>2. CASE g # h
      <4>1. pc'[g] = pc[g] /\ on'[g] = on[g] /\ who'[g] = who[g]
        BY <3>2 DEF Others
      <4>2. on[g] \in Approvals /\ approval[on[g]].status # "absent"
        BY <2>2, <4>1 DEF IInv, HandlersRely
      <4>3. CASE on[g] # a
        BY <2>2, <4>1, <4>2, <4>3 DEF IInv, HandlersRely
      <4>4. CASE on[g] = a
        BY <2>2, <4>1, <4>2, <4>4 DEF IInv, HandlersRely
      <4> QED BY <4>3, <4>4
    <3> QED BY <3>1, <3>2
  <2> QED BY <2>1, <2>2 DEF HandlersRely
<1> QED BY <1>1, <1>2, <1>3, <1>4, <1>5 DEF IInv

LEMMA SignInv == ASSUME IInv, TypeOK', NEW h \in Handlers, Sign(h) PROVE IInv'
<1> DEFINE a == on[h]
           u == who[h]
           row == approval[a]
           new == Signed(row, pc[h], u)
<1>1. pc[h] \in Signing /\ pc[h] \notin {"idle", "apply"}
  BY DEF Sign, Signing
<1>2. a \in Approvals /\ u \in Users /\ row \in Approval
      /\ row.status # "absent"
  BY <1>1, Working DEF IInv
<1>3. /\ new \in Approval
      /\ new.kind = row.kind /\ new.by = row.by /\ new.dual = row.dual
      /\ new.amount = row.amount
      /\ new.status = IF pc[h] = "signFirst" THEN row.status ELSE "approved"
      /\ new.first = IF pc[h] = "signSecond" THEN row.first ELSE u
  BY <1>1, <1>2, SignedFacts
<1>4. /\ u # row.by
      /\ pc[h] = "signOnly" => ~row.dual
      /\ pc[h] = "signSecond" => \E v \in signed[a] : v # u
      /\ row.by \in Users /\ row.by \notin signed[a]
      /\ row.first # None => row.first \in signed[a] \/ row.status # "pending"
  BY <1>1, <1>2 DEF IInv, HandlersRely, NobodySignsTheirOwn
<1>5. approval'[a] = new /\ signed'[a] = signed[a] \cup {u}
      /\ \A b \in Approvals : b # a =>
           approval'[b] = approval[b] /\ signed'[b] = signed[b]
  BY <1>2 DEF Sign, IInv, TypeOK
<1>6. row.status = "approved" =>
        \E v \in signed[a] : row.dual => \E w \in signed[a] : v # w
  BY <1>2 DEF IInv, SignedByEnough
<1>7. new.status = "approved" =>
        \E v \in signed'[a] : new.dual => \E w \in signed'[a] : v # w
  <2>1. CASE pc[h] = "signFirst"
    BY <1>3, <1>5, <1>6, <2>1
  <2>2. CASE pc[h] = "signOnly"
    BY <1>3, <1>4, <1>5, <2>2
  <2>3. CASE pc[h] = "signSecond"
    BY <1>4, <1>5, <2>3
  <2> QED BY <1>1, <2>1, <2>2, <2>3 DEF Signing
<1>8. CASE new.status = "approved" /\ new.kind # "other"
  <2>1. pc'[h] = "apply" /\ on'[h] = a /\ who'[h] = u /\ Others(h)
    BY <1>8 DEF Sign, Goto, Others, IInv, TypeOK
  <2> HIDE DEF new
  <2> QED BY <1>1, <1>2, <1>3, <1>4, <1>5, <1>7, <1>8, <2>1, RowStep DEF Sign
<1>9. CASE ~(new.status = "approved" /\ new.kind # "other")
  <2>1. Done(h)
    BY <1>9 DEF Sign
  <2>2. pc'[h] = "idle" /\ Others(h)
    BY <2>1, DoneFacts DEF IInv
  <2> HIDE DEF new
  <2> QED BY <1>1, <1>2, <1>3, <1>4, <1>5, <1>7, <1>9, <2>2, RowStep DEF Sign
<1> QED BY <1>8, <1>9

LEMMA RejectInv == ASSUME IInv, TypeOK', NEW h \in Handlers, Reject(h) PROVE IInv'
<1> DEFINE a == on[h]
           row == approval[a]
           new == Rejected(row, pc[h], who[h])
<1>1. pc[h] \in Rejecting /\ pc[h] \notin {"idle", "apply"}
  BY DEF Reject, Rejecting
<1>2. a \in Approvals /\ who[h] \in Users /\ row \in Approval
      /\ row.status # "absent"
  BY <1>1, Working DEF IInv
<1>3. /\ new.kind = row.kind /\ new.by = row.by /\ new.dual = row.dual
      /\ new.amount = row.amount /\ new.status = "rejected"
  BY <1>1, <1>2, RejectedFacts
<1>4. row.by \in Users /\ row.by \notin signed[a]
  BY <1>2 DEF IInv, HandlersRely, NobodySignsTheirOwn
<1>5. approval'[a] = new /\ signed' = signed
      /\ \A b \in Approvals : b # a => approval'[b] = approval[b]
  BY <1>2 DEF Reject, historyVars, IInv, TypeOK
<1>6. pc'[h] = "idle" /\ Others(h)
  BY DoneFacts DEF Reject, IInv
<1> HIDE DEF new
<1> QED BY <1>1, <1>2, <1>3, <1>4, <1>5, <1>6, RowStep DEF Reject, historyVars

LEMMA CreateInv ==
  ASSUME IInv, TypeOK', NEW a \in Approvals, CreateApproval(a) PROVE IInv'
<1>1. PICK kind \in Kinds, u \in Users, d \in Dual, m \in Amounts :
        approval' = [approval EXCEPT ![a] = [status |-> "pending",
                       kind |-> kind, by |-> u, first |-> None,
                       second |-> None, dual |-> d,
                       amount |-> IF kind = "other" THEN None ELSE m]]
  BY DEF CreateApproval, Insert
<1>2. /\ approval'[a].status = "pending" /\ approval'[a].by \in Users
      /\ approval'[a].first = None
      /\ approval'[a].kind # "other" => approval'[a].amount \in Amounts
      /\ \A b \in Approvals : b # a => approval'[b] = approval[b]
  BY <1>1 DEF IInv, TypeOK
<1>3. /\ UNCHANGED <<event, pc, on, who, signed, applied, start, cutShort>>
      /\ approval[a].status = "absent"
  BY DEF CreateApproval, Insert, handlerVars, historyVars
<1>4. signed[a] = {} /\ applied[a] = 0
      /\ \A h \in Handlers : pc[h] # "idle" => on[h] # a
  BY <1>3 DEF IInv, HandlersRely
<1>5. NobodySignsTheirOwn' /\ SignedByEnough'
  BY <1>2, <1>3, <1>4 DEF IInv, NobodySignsTheirOwn, SignedByEnough
<1>6. BudgetHasItsApproval'
  <2>1. \A b \in Approvals : applied[b] > 0 => approval'[b] = approval[b]
    BY <1>2, <1>4
  <2> QED BY <1>3, <2>1 DEF IInv, BudgetHasItsApproval
<1>7. ApprovedTakesEffect'
  BY <1>2, <1>3 DEF IInv, ApprovedTakesEffect
<1>8. HandlersRely'
  BY <1>2, <1>3, <1>4 DEF IInv, HandlersRely
<1> QED BY <1>5, <1>6, <1>7, <1>8 DEF IInv

LEMMA ApplyInv == ASSUME IInv, TypeOK', NEW h \in Handlers, Apply(h) PROVE IInv'
<1> DEFINE a == on[h]
<1>1. pc[h] = "apply" /\ UNCHANGED <<approval, signed, start, cutShort>>
  BY DEF Apply
<1>2. a \in Approvals /\ approval[a].kind \in {"budget_override", "budget_change"}
      /\ \E u \in signed[a] :
           approval[a].dual => \E v \in signed[a] : u # v
  BY <1>1 DEF IInv, HandlersRely, TypeOK, Approval, Kinds
<1>3. applied'[a] = applied[a] + 1 /\ applied[a] \in Nat
      /\ \A b \in Approvals : b # a => applied'[b] = applied[b]
  BY <1>2 DEF Apply, IInv, TypeOK
<1>4. \A b \in Approvals : applied[b] > 0 => applied'[b] > 0
  BY <1>3
<1>5. pc'[h] = "idle" /\ Others(h)
  BY DoneFacts DEF Apply, IInv
<1>6. NobodySignsTheirOwn'
  BY <1>1 DEF IInv, NobodySignsTheirOwn
<1>7. SignedByEnough'
  BY <1>1, <1>2, <1>3 DEF IInv, SignedByEnough
<1>8. BudgetHasItsApproval'
  <2>1. CASE approval[a].kind = "budget_override"
    <3>1. event'.cap = approval[a].amount /\ event'.budget = event.budget
      BY <2>1 DEF Apply, IInv, TypeOK, Event
    <3>2. applied'[a] > 0
      BY <1>3
    <3> QED BY <1>1, <1>2, <1>4, <2>1, <3>1, <3>2 DEF IInv, BudgetHasItsApproval
  <2>2. CASE approval[a].kind = "budget_change"
    <3>1. event'.budget = approval[a].amount /\ event'.cap = event.cap
      BY <2>2 DEF Apply, IInv, TypeOK, Event
    <3>2. applied'[a] > 0
      BY <1>3
    <3> QED BY <1>1, <1>2, <1>4, <2>2, <3>1, <3>2 DEF IInv, BudgetHasItsApproval
  <2> QED BY <1>2, <2>1, <2>2
<1>9. ApprovedTakesEffect'
  BY <1>1, <1>3, <1>4, <1>5 DEF IInv, ApprovedTakesEffect, Others
<1>10. HandlersRely'
  <2>1. \A b \in Approvals : approval[b].status = "absent" => applied'[b] = 0
    BY <1>1, <1>2, <1>3 DEF IInv, HandlersRely
  <2> QED BY <1>1, <1>5, <2>1 DEF IInv, HandlersRely, Others
<1> QED BY <1>6, <1>7, <1>8, <1>9, <1>10 DEF IInv

LEMMA InvNext == IInv /\ [Next]_vars => IInv'
<1> SUFFICES ASSUME IInv, [Next]_vars PROVE IInv'
  OBVIOUS
<1>1. TypeOK'
  BY TypeNext DEF IInv
<1>2. CASE Next
  BY <1>1, <1>2, CreateInv, SignInv, RejectInv, ApplyInv, FailInv,
     LoadToApproveInv, LoadToRejectInv DEF Next
<1>3. CASE UNCHANGED vars
  BY <1>3 DEF vars, IInv, TypeOK, HandlersRely, NobodySignsTheirOwn,
     SignedByEnough, BudgetHasItsApproval, ApprovedTakesEffect
<1> QED BY <1>2, <1>3

\* Every reachable state satisfies the inductive invariant: the types, the four
\* invariants below and what handlers rely on between a read and a write.
THEOREM Invariance == Spec => []IInv
BY InvInit, InvNext, PTL DEF Spec

\* No request is approved by its requester, and what takes two signatures was
\* signed by two people, whatever decisions overlap.
THEOREM FourEyes == Spec => []SignaturesHold
<1>1. IInv => SignaturesHold
  BY DEF IInv, SignaturesHold
<1> QED BY <1>1, Invariance, PTL

\* The budget of the event only ever takes amounts that an approval gave it.
THEOREM BudgetFromApprovals == Spec => []BudgetHasItsApproval
BY Invariance, PTL DEF IInv

\* An approved change reaches the event, but for a crash on the way, and the
\* event takes its amounts from approvals only.
THEOREM ApprovedReachesEvent == Spec => []EffectsHold
<1>1. IInv => EffectsHold
  BY DEF IInv, EffectsHold
<1> QED BY <1>1, Invariance, PTL
-------------------------------------------------------------------------------
(***************************************************************************)
(* Handlers that take turns on an approval.                                *)
(***************************************************************************)

\* What a step may do to an approval whose handlers take turns.
Decided(a) ==
  /\ approval[a].status \in {"approved", "rejected"} => approval'[a] = approval[a]
  /\ applied'[a] # applied[a] =>
       applied[a] = 0 /\ approval[a].status = "approved"

LEMMA TurnsInit == Init => TurnsInv
<1> SUFFICES ASSUME Init PROVE TurnsInv
  OBVIOUS
<1>1. \A h \in Handlers : on[h] \notin Serial
  BY ApprovalsAssumption DEF Init
<1>2. \A a \in Serial : applied[a] = 0
  BY ApprovalsAssumption DEF Init
<1> QED BY <1>1, <1>2 DEF TurnsInv

\* The only handler at work on an approval leaves the other approvals, and what
\* is relied on there, alone.
LEMMA TurnStep ==
  ASSUME IInv, TurnsInv, NEW h \in Handlers, NEW a \in Approvals, Others(h),
         on[h] = a,
         \A b \in Approvals : b # a =>
           approval'[b] = approval[b] /\ applied'[b] = applied[b],
         on'[h] = a \/ on'[h] = None,
         pc'[h] \in {"idle", "apply"},
         a \in Serial => Decided(a),
         a \in Serial /\ approval'[a].status # "approved" => applied'[a] = 0,
         a \in Serial /\ pc'[h] = "apply" =>
           approval'[a].status = "approved" /\ applied'[a] = 0
  PROVE  TurnsInv' /\ (\A b \in Serial : Decided(b))
<1>1. None \notin Serial /\ Serial \subseteq Approvals
  BY ApprovalsAssumption
<1>2. \A g, k \in Handlers : on'[g] = on'[k] /\ on'[g] \in Serial => g = k
  BY <1>1 DEF TurnsInv, Others
<1>3. ASSUME NEW g \in Handlers, on'[g] \in Serial
      PROVE  /\ pc'[g] \in Deciding => approval'[on'[g]].status = "pending"
             /\ pc'[g] = "apply" => /\ approval'[on'[g]].status = "approved"
                                    /\ applied'[on'[g]] = 0
  <2>1. CASE g = h
    BY <1>1, <1>3, <2>1 DEF Deciding, Signing, Rejecting
  <2>2. CASE g # h
    <3>1. on'[g] = on[g] /\ pc'[g] = pc[g]
      BY <2>2 DEF Others
    <3>2. on[g] # a /\ on[g] \in Approvals /\ on[g] \in Serial
      BY <1>1, <1>3, <2>2, <3>1 DEF TurnsInv
    <3> QED BY <3>1, <3>2 DEF TurnsInv
  <2> QED BY <2>1, <2>2
<1>4. ASSUME NEW b \in Serial
      PROVE  Decided(b) /\ (approval'[b].status # "approved" => applied'[b] = 0)
  <2>1. CASE b = a
    BY <2>1
  <2>2. CASE b # a
    BY <1>1, <2>2 DEF TurnsInv, Decided
  <2> QED BY <2>1, <2>2
<1> QED BY <1>2, <1>3, <1>4 DEF TurnsInv

LEMMA SignTurn ==
  ASSUME IInv, TurnsInv, NEW h \in Handlers, Sign(h)
  PROVE  TurnsInv' /\ (\A b \in Serial : Decided(b))
<1> DEFINE a == on[h]
           new == Signed(approval[a], pc[h], who[h])
<1>1. pc[h] \in Signing /\ pc[h] # "idle" /\ pc[h] \in Deciding
  BY DEF Sign, Signing, Deciding
<1>2. a \in Approvals
  BY <1>1, Working DEF IInv
<1>3. /\ approval'[a] = new /\ applied' = applied
      /\ \A b \in Approvals : b # a => approval'[b] = approval[b]
  BY <1>2 DEF Sign, IInv, TypeOK
<1>4. a \in Serial => approval[a].status = "pending" /\ applied[a] = 0
  BY <1>1 DEF TurnsInv
<1>5. /\ Others(h) /\ on'[h] \in {a, None} /\ pc'[h] \in {"idle", "apply"}
      /\ pc'[h] = "apply" => new.status = "approved"
  <2>1. CASE new.status = "approved" /\ new.kind # "other"
    BY <2>1 DEF Sign, Goto, Others, IInv, TypeOK
  <2>2. CASE ~(new.status = "approved" /\ new.kind # "other")
    BY <2>2 DEF Sign, Done, Others, IInv, TypeOK
  <2> QED BY <2>1, <2>2
<1> HIDE DEF new
<1>6. a \in Serial => Decided(a)
  BY <1>3, <1>4 DEF Decided
<1> QED BY <1>2, <1>3, <1>4, <1>5, <1>6, TurnStep

LEMMA RejectTurn ==
  ASSUME IInv, TurnsInv, NEW h \in Handlers, Reject(h)
  PROVE  TurnsInv' /\ (\A b \in Serial : Decided(b))
<1> DEFINE a == on[h]
<1>1. pc[h] # "idle" /\ pc[h] \in Deciding /\ applied' = applied
  BY DEF Reject, Rejecting, Deciding, historyVars
<1>2. a \in Approvals
  BY <1>1, Working DEF IInv
<1>3. \A b \in Approvals : b # a => approval'[b] = approval[b]
  BY DEF Reject, IInv, TypeOK
<1>4. a \in Serial => approval[a].status = "pending" /\ applied[a] = 0
  BY <1>1 DEF TurnsInv
<1>5. Others(h) /\ on'[h] = None /\ pc'[h] = "idle"
  BY DEF Reject, Done, Others, IInv, TypeOK
<1>6. a \in Serial => Decided(a)
  BY <1>1, <1>4 DEF Decided
<1> QED BY <1>1, <1>2, <1>3, <1>4, <1>5, <1>6, TurnStep

LEMMA ApplyTurn ==
  ASSUME IInv, TurnsInv, NEW h \in Handlers, Apply(h)
  PROVE  TurnsInv' /\ (\A b \in Serial : Decided(b))
<1> DEFINE a == on[h]
<1>1. pc[h] = "apply" /\ approval' = approval
  BY DEF Apply
<1>2. a \in Approvals
  BY <1>1, Working DEF IInv
<1>3. \A b \in Approvals : b # a => applied'[b] = applied[b]
  BY DEF Apply, IInv, TypeOK
<1>4. a \in Serial => approval[a].status = "approved" /\ applied[a] = 0
  BY <1>1 DEF TurnsInv
<1>5. Others(h) /\ on'[h] = None /\ pc'[h] = "idle"
  BY DEF Apply, Done, Others, IInv, TypeOK
<1>6. a \in Serial => Decided(a)
  BY <1>1, <1>4 DEF Decided
<1> QED BY <1>1, <1>2, <1>3, <1>4, <1>5, <1>6, TurnStep

LEMMA FailTurn ==
  ASSUME IInv, TurnsInv, NEW h \in Handlers, Fail(h)
  PROVE  TurnsInv' /\ (\A b \in Serial : Decided(b))
<1>1. pc[h] # "idle" /\ approval' = approval /\ applied' = applied
  BY DEF Fail
<1>2. on[h] \in Approvals
  BY <1>1, Working DEF IInv
<1>3. Others(h) /\ on'[h] = None /\ pc'[h] = "idle"
  BY DEF Fail, Done, Others, IInv, TypeOK
<1>4. on[h] \in Serial => Decided(on[h])
  BY <1>1 DEF Decided
<1>5. on[h] \in Serial =>
        (approval'[on[h]].status # "approved" => applied'[on[h]] = 0)
  BY <1>1 DEF TurnsInv
<1> QED BY <1>1, <1>2, <1>3, <1>4, <1>5, TurnStep

\* A decision starts when nobody else is at work on the approval, and pending.
LEMMA LoadTurn ==
  ASSUME IInv, TurnsInv, NEW h \in Handlers, NEW u \in Users, NEW a \in Approvals,
         LoadToApprove(h, u, a) \/ LoadToReject(h, u, a)
  PROVE  TurnsInv' /\ (\A b \in Serial : Decided(b))
<1>1. /\ Others(h) /\ on'[h] = a /\ pc'[h] \in Deciding
      /\ approval[a].status = "pending"
      /\ a \in Serial => \A g \in Handlers : on[g] # a
      /\ approval' = approval /\ applied' = applied
  BY DEF LoadToApprove, LoadToReject, Others, historyVars, Deciding, Signing,
         Rejecting, IInv, TypeOK
<1>2. pc'[h] # "apply"
  BY <1>1 DEF Deciding, Signing, Rejecting
<1>3. \A g, k \in Handlers : on'[g] = on'[k] /\ on'[g] \in Serial => g = k
  BY <1>1 DEF TurnsInv, Others
<1>4. ASSUME NEW g \in Handlers, on'[g] \in Serial
      PROVE  /\ pc'[g] \in Deciding => approval[on'[g]].status = "pending"
             /\ pc'[g] = "apply" => /\ approval[on'[g]].status = "approved"
                                    /\ applied[on'[g]] = 0
  BY <1>1, <1>2, <1>4 DEF TurnsInv, Others
<1> QED BY <1>1, <1>3, <1>4 DEF TurnsInv, Decided

LEMMA CreateTurn ==
  ASSUME IInv, TurnsInv, NEW a \in Approvals, CreateApproval(a)
  PROVE  TurnsInv' /\ (\A b \in Serial : Decided(b))
<1>1. /\ approval[a].status = "absent"
      /\ \A b \in Approvals : b # a => approval'[b] = approval[b]
      /\ UNCHANGED <<pc, on, applied>>
  BY DEF CreateApproval, Insert, handlerVars, historyVars, IInv, TypeOK
<1>2. applied[a] = 0 /\ \A h \in Handlers : pc[h] # "idle" => on[h] # a
  BY <1>1 DEF IInv, HandlersRely
<1>3. \A h \in Handlers : on[h] \in Serial /\ pc[h] \in Deciding \cup {"apply"} =>
        on[h] \in Approvals /\ on[h] # a
  BY <1>2, ApprovalsAssumption DEF Deciding, Signing, Rejecting
<1>4. \A b \in Serial : b # a => approval'[b] = approval[b]
  BY <1>1, ApprovalsAssumption
<1>5. \A b \in Serial : Decided(b)
  BY <1>1, <1>4 DEF Decided
<1>6. \A b \in Serial : approval'[b].status # "approved" => applied'[b] = 0
  BY <1>1, <1>2, <1>4 DEF TurnsInv
<1>7. \A h \in Handlers : on'[h] \in Serial =>
        /\ pc'[h] \in Deciding => approval'[on'[h]].status = "pending"
        /\ pc'[h] = "apply" => /\ approval'[on'[h]].status = "approved"
                               /\ applied'[on'[h]] = 0
  BY <1>1, <1>3, <1>4 DEF TurnsInv
<1> QED BY <1>1, <1>5, <1>6, <1>7 DEF TurnsInv

LEMMA TurnsNext ==
  IInv /\ TurnsInv /\ [Next]_vars => TurnsInv' /\ (\A b \in Serial : Decided(b))
<1> SUFFICES ASSUME IInv, TurnsInv, [Next]_vars
             PROVE  TurnsInv' /\ (\A b \in Serial : Decided(b))
  OBVIOUS
<1>1. CASE Next
  BY <1>1, CreateTurn, SignTurn, RejectTurn, ApplyTurn, FailTurn, LoadTurn DEF Next
<1>2. CASE UNCHANGED vars
  BY <1>2 DEF vars, TurnsInv, Decided
<1> QED BY <1>1, <1>2

\* What handlers that take turns rely on holds in every reachable state.
THEOREM TurnsInvariance == Spec => []TurnsInv
BY InvInit, InvNext, TurnsInit, TurnsNext, PTL DEF Spec

\* Where handlers take turns on an approval, no step changes a row that has been
\* decided, and its effect reaches the event once and only from an approval.
THEOREM DecisionIsFinal == Spec => DecidedOnce
<1>1. IInv /\ TurnsInv /\ [Next]_vars =>
        [\A a \in Serial :
           /\ approval[a].status \in {"approved", "rejected"} =>
                approval'[a] = approval[a]
           /\ applied'[a] # applied[a] =>
                applied[a] = 0 /\ approval[a].status = "approved"]_vars
  BY TurnsNext DEF Decided
<1> QED BY <1>1, Invariance, TurnsInvariance, PTL DEF Spec, DecidedOnce
===============================================================================
