-------------------------- MODULE Reservations_proofs --------------------------
(***************************************************************************)
(* Proofs about Reservations, for any rows, handlers and times, whether    *)
(* handlers overlap or not.                                                *)
(***************************************************************************)
EXTENDS Reservations, TLAPS

LEMMA OvertimeType ==
  ASSUME NEW r \in Reservations, row \in [Reservations -> Row],
         NEW t \in ActualEnds
  PROVE  Overtime(r, t) \in Nat
<1>1. row[r].end \in Nat /\ t \in Nat
  BY ReservationsAssumption DEF Row
<1> QED BY <1>1 DEF Overtime

LEMMA TypeInit == Init => TypeOK
<1> SUFFICES ASSUME Init PROVE TypeOK
  OBVIOUS
<1>1. row \in [Reservations -> Row]
  BY DEF Init, Row, Status
<1> QED BY <1>1 DEF Init, TypeOK

LEMMA InsertRowType ==
  ASSUME TypeOK, NEW r \in Reservations, InsertRow(r)
  PROVE  row' \in [Reservations -> Row]
BY DEF InsertRow, TypeOK, Row, Status

\* A handler that works on a row, and where it stands.
LEMMA TypeNext == TypeOK /\ HandlersRely /\ [Next]_vars => TypeOK'
<1> SUFFICES ASSUME TypeOK, HandlersRely, [Next]_vars PROVE TypeOK'
  OBVIOUS
<1> USE DEF TypeOK
<1>0. \A h \in Handlers : pc[h] # "idle" => on[h] \in Reservations
  BY DEF HandlersRely
<1>1. ASSUME NEW r \in Created, Create(r) PROVE TypeOK'
  <2>1. r \in Reservations
    BY ReservationsAssumption
  <2> QED BY <1>1, <2>1, InsertRowType
             DEF Create, approvalVars, handlerVars, historyVars
<1>2. ASSUME NEW r \in Reservations, DecideRowElsewhere(r) PROVE TypeOK'
  BY <1>2 DEF DecideRowElsewhere, handlerVars, historyVars
<1>3. ASSUME NEW h \in Handlers, NEW op \in Loaded, NEW r \in Reservations,
             Load(h, op, r)
      PROVE  TypeOK'
  <2>1. over' \in [Handlers -> Nat]
    BY <1>3, OvertimeType DEF Load
  <2> QED BY <1>3, <2>1 DEF Load, approvalVars, historyVars
<1>4. ASSUME NEW h \in Handlers, NEW op, NEW status \in Status,
             op # "idle", Write(h, op, status)
      PROVE  TypeOK'
  <2>1. on[h] \in Reservations
    BY <1>0, <1>4 DEF Write
  <2>2. row' \in [Reservations -> Row] /\ been' \in [Reservations -> SUBSET Stages]
    BY <1>4, <2>1 DEF Write, SetStatus, Row
  <2> QED BY <1>4, <2>2 DEF Write, Done, approvalVars
<1>5. ASSUME NEW h \in Handlers, Renew(h) PROVE TypeOK'
  <2>1. on[h] \in Reservations
    BY <1>0, <1>5 DEF Renew
  <2>2. row' \in [Reservations -> Row]
    BY <1>5, <2>1 DEF Renew, Row
  <2> QED BY <1>5, <2>2 DEF Renew, Done, approvalVars, historyVars
<1>6. ASSUME NEW h \in Handlers, ReturnInTime(h) PROVE TypeOK'
  <2>1. on[h] \in Reservations
    BY <1>0, <1>6 DEF ReturnInTime
  <2>2. row' \in [Reservations -> Row]
    <3> DEFINE new == [row[on[h]] EXCEPT !.status = "returned",
                                         !.overtime = over[h]]
    <3>1. row[on[h]] \in Row /\ over[h] \in Nat
      BY <2>1
    <3>2. new \in Row
      BY <3>1 DEF Row, Status
    <3>3. row' = [row EXCEPT ![on[h]] = new]
      BY <1>6 DEF ReturnInTime
    <3> QED BY <3>2, <3>3
  <2> QED BY <1>6, <2>2 DEF ReturnInTime, Done, approvalVars, historyVars
<1>7. ASSUME NEW h \in Handlers, ReturnLate(h) PROVE TypeOK'
  <2>1. on[h] \in Reservations
    BY <1>0, <1>7 DEF ReturnLate
  <2>2. row' \in [Reservations -> Row]
    <3> DEFINE new == [row[on[h]] EXCEPT !.overtime = over[h], !.pending = TRUE]
    <3>1. row[on[h]] \in Row /\ over[h] \in Nat
      BY <2>1
    <3>2. new \in Row
      BY <3>1 DEF Row
    <3>3. row' = [row EXCEPT ![on[h]] = new]
      BY <1>7 DEF ReturnLate
    <3> QED BY <3>2, <3>3
  <2> QED BY <1>7, <2>2 DEF ReturnLate, Goto, HalfDone, approvalVars, historyVars
<1>8. ASSUME NEW h \in Handlers, AskApproval(h) PROVE TypeOK'
  <2>1. on[h] \in Reservations
    BY <1>0, <1>8 DEF AskApproval
  <2>2. asked' \in [Reservations -> Nat]
    BY <1>8, <2>1 DEF AskApproval
  <2> QED BY <1>8, <2>2 DEF AskApproval, Done, historyVars
<1>9. ASSUME NEW h \in Handlers, RescheduleOld(h) PROVE TypeOK'
  <2>1. on[h] \in Reservations
    BY <1>0, <1>9 DEF RescheduleOld
  <2>2. row' \in [Reservations -> Row] /\ been' \in [Reservations -> SUBSET Stages]
    BY <1>9, <2>1 DEF RescheduleOld, SetStatus, Row, Status
  <2> QED BY <1>9, <2>2 DEF RescheduleOld, Goto, HalfDone, approvalVars
<1>10. ASSUME NEW h \in Handlers, RescheduleNew(h) PROVE TypeOK'
  <2>1. on[h] \in Reservations
    BY <1>0, <1>10 DEF RescheduleNew
  <2>2. PICK new \in Reservations :
          /\ InsertRow(new)
          /\ replacement' = [replacement EXCEPT ![on[h]] = @ \cup {new}]
    BY <1>10 DEF RescheduleNew
  <2>3. row' \in [Reservations -> Row]
    BY <2>2, InsertRowType
  <2>4. replacement' \in [Reservations -> SUBSET Reservations]
    BY <2>1, <2>2
  <2> QED BY <1>10, <2>3, <2>4 DEF RescheduleNew, Done, approvalVars
<1>11. ASSUME NEW h \in Handlers, ApproveOvertime(h) PROVE TypeOK'
  <2>1. on[h] \in Reservations
    BY <1>0, <1>11 DEF ApproveOvertime
  <2>2. row' \in [Reservations -> Row]
    BY <1>11, <2>1 DEF ApproveOvertime, Row, Status
  <2> QED BY <1>11, <2>2
             DEF ApproveOvertime, Goto, HalfDone, approvalVars, historyVars
<1>12. ASSUME NEW h \in Handlers, GrantRows(h) PROVE TypeOK'
  BY <1>12 DEF GrantRows, Done, historyVars
<1>13. ASSUME NEW h \in Handlers, Fail(h) PROVE TypeOK'
  <2>1. on[h] \in Reservations
    BY <1>0, <1>13 DEF Fail
  <2> QED BY <1>13, <2>1 DEF Fail, Done, approvalVars
<1>14. CASE UNCHANGED vars
  BY <1>14 DEF vars
<1> QED
  <2>1. ASSUME NEW h \in Handlers, Handle(h) PROVE TypeOK'
    BY <2>1, <1>4, <1>5, <1>6, <1>7, <1>8, <1>9, <1>10, <1>11, <1>12
       DEF Handle, Approve, Release, Occupy, Cancel, Status
  <2>2. CASE Next
    BY <2>1, <2>2, <1>1, <1>2, <1>3, <1>13 DEF Next
  <2> QED BY <2>2, <1>14

-------------------------------------------------------------------------------
LEMMA InvInit == Init => IInv
<1> SUFFICES ASSUME Init PROVE IInv
  OBVIOUS
<1>1. TypeOK
  BY TypeInit
<1>2. PICK t \in Ends :
        row = [r \in Reservations |-> [status |-> "absent", end |-> t,
                 overtime |-> 0, pending |-> FALSE, approved |-> FALSE]]
  BY DEF Init
<1>3. \A r \in Reservations :
        row[r].status = "absent" /\ row[r].overtime = 0 /\ ~row[r].pending
  BY <1>2
<1>4. UseWasApproved /\ PendingWasAsked /\ RescheduledIsReplaced
  BY <1>3 DEF Init, UseWasApproved, Stages, PendingWasAsked,
              RescheduledIsReplaced
<1>5. OvertimeIsAnsweredFor
  BY <1>3, ReservationsAssumption DEF OvertimeIsAnsweredFor
<1>6. HandlersRely
  BY <1>3 DEF Init, HandlersRely
<1> QED BY <1>1, <1>4, <1>5, <1>6 DEF IInv

\* A handler's step on its own reservation, whatever it writes to the row: what
\* has to be shown is about that row and that handler alone.
LEMMA HandlerStep ==
  ASSUME IInv, TypeOK', NEW h \in Handlers, NEW r \in Reservations,
         on[h] = r,
         \A g \in Handlers : g # h =>
           pc'[g] = pc[g] /\ on'[g] = on[g] /\ over'[g] = over[g],
         pc'[h] = "idle" \/ (pc'[h] \in HalfDone /\ on'[h] = r),
         \A q \in Reservations : q # r => row'[q] = row[q] /\ been'[q] = been[q],
         been[r] \subseteq been'[r],
         \A q \in Reservations :
           asked'[q] + granted'[q] + decided'[q]
             >= asked[q] + granted[q] + decided[q],
         replacement' = replacement,
         cutShort \subseteq cutShort',
         row'[r].status # "absent",
         row'[r].status \in Stages => row'[r].status \in been'[r],
         row'[r].status = "returned" => "occupied" \in been'[r],
         "released" \in been'[r] => "approved" \in been'[r],
         "occupied" \in been'[r] => "released" \in been'[r],
         row'[r].overtime > Grace => row'[r].pending \/ row'[r].approved,
         row'[r].pending => "occupied" \in been'[r],
         row'[r].pending => row[r].pending \/ pc'[h] = "askApproval",
         row'[r].status = "rescheduled" =>
           row[r].status = "rescheduled" \/ pc'[h] = "insertReplacement",
         pc[h] = "askApproval" =>
           asked'[r] + granted'[r] + decided'[r] > 0 \/ r \in cutShort',
         pc[h] = "insertReplacement" => r \in cutShort'
  PROVE  IInv'
<1>1. UseWasApproved'
  BY DEF IInv, UseWasApproved
<1>2. OvertimeIsAnsweredFor'
  BY DEF IInv, OvertimeIsAnsweredFor
<1>3. \A q \in Reservations :
        /\ asked[q] \in Nat /\ granted[q] \in Nat /\ decided[q] \in Nat
        /\ asked'[q] \in Nat /\ granted'[q] \in Nat /\ decided'[q] \in Nat
  BY DEF IInv, TypeOK
<1>4. \A q \in Reservations : row'[q].pending => row[q].pending
                                \/ (q = r /\ pc'[h] = "askApproval")
  OBVIOUS
<1>5. PendingWasAsked'
  <2> SUFFICES ASSUME NEW q \in Reservations, row'[q].pending
               PROVE  \/ asked'[q] + granted'[q] + decided'[q] > 0
                      \/ \E g \in Handlers : At(g, q, "askApproval")'
                      \/ q \in cutShort'
    BY DEF PendingWasAsked
  <2>1. CASE q = r /\ pc'[h] = "askApproval"
    BY <2>1 DEF At, HalfDone
  <2>2. CASE row[q].pending
    <3>1. CASE asked[q] + granted[q] + decided[q] > 0
      BY <1>3, <3>1
    <3>2. CASE q \in cutShort
      BY <3>2
    <3>3. ASSUME NEW g \in Handlers, At(g, q, "askApproval")
          PROVE  \/ asked'[q] + granted'[q] + decided'[q] > 0
                 \/ At(g, q, "askApproval")'
                 \/ q \in cutShort'
      BY <3>3 DEF At
    <3> QED BY <2>2, <3>1, <3>2, <3>3 DEF IInv, PendingWasAsked
  <2> QED BY <1>4, <2>1, <2>2
<1>6. RescheduledIsReplaced'
  <2> SUFFICES ASSUME NEW q \in Reservations, row'[q].status = "rescheduled"
               PROVE  \/ replacement'[q] # {}
                      \/ \E g \in Handlers : At(g, q, "insertReplacement")'
                      \/ q \in cutShort'
    BY DEF RescheduledIsReplaced
  <2>1. CASE q = r /\ pc'[h] = "insertReplacement"
    BY <2>1 DEF At, HalfDone
  <2>2. CASE row[q].status = "rescheduled"
    <3>1. ASSUME NEW g \in Handlers, At(g, q, "insertReplacement")
          PROVE  At(g, q, "insertReplacement")' \/ q \in cutShort'
      BY <3>1 DEF At
    <3> QED BY <2>2, <3>1 DEF IInv, RescheduledIsReplaced
  <2> QED BY <2>1, <2>2
<1>7. HandlersRely'
  <2>1. \A q \in Reservations :
          row'[q].pending => "occupied" \in been'[q] /\ row'[q].status # "absent"
    BY DEF IInv, HandlersRely
  <2>2. \A q \in Reservations :
          /\ been[q] \subseteq been'[q]
          /\ row[q].status # "absent" => row'[q].status # "absent"
    OBVIOUS
  <2>3. pc'[h] \notin {"release", "occupy", "returnInTime", "returnLate",
                       "approveOvertime"}
    BY DEF HalfDone
  <2>4. ASSUME NEW g \in Handlers
        PROVE  /\ pc'[g] # "idle" =>
                    on'[g] \in Reservations /\ row'[on'[g]].status # "absent"
               /\ pc'[g] = "release" => "approved" \in been'[on'[g]]
               /\ pc'[g] = "occupy" => "released" \in been'[on'[g]]
               /\ pc'[g] \in {"returnInTime", "returnLate", "approveOvertime"} =>
                    "occupied" \in been'[on'[g]]
               /\ pc'[g] = "returnInTime" => over'[g] <= Grace
    <3>1. CASE g = h
      BY <2>3, <3>1
    <3>2. CASE g # h
      BY <2>2, <3>2 DEF IInv, HandlersRely
    <3> QED BY <3>1, <3>2
  <2> QED BY <2>1, <2>4 DEF HandlersRely
<1> QED BY <1>1, <1>2, <1>5, <1>6, <1>7 DEF IInv

\* What holds of the row a handler works on, before it writes.
LEMMA RowFacts ==
  ASSUME IInv, NEW h \in Handlers, pc[h] # "idle"
  PROVE  LET r == on[h] IN
         /\ r \in Reservations /\ row[r] \in Row /\ row[r].status # "absent"
         /\ "released" \in been[r] => "approved" \in been[r]
         /\ "occupied" \in been[r] => "released" \in been[r]
         /\ row[r].status \in Stages => row[r].status \in been[r]
         /\ row[r].status = "returned" => "occupied" \in been[r]
         /\ row[r].overtime > Grace => row[r].pending \/ row[r].approved
         /\ row[r].pending => "occupied" \in been[r]
BY DEF IInv, TypeOK, HandlersRely, UseWasApproved, OvertimeIsAnsweredFor

LEMMA DoneFacts ==
  ASSUME TypeOK, NEW h \in Handlers, Done(h)
  PROVE  /\ pc'[h] = "idle"
         /\ \A g \in Handlers : g # h =>
              pc'[g] = pc[g] /\ on'[g] = on[g] /\ over'[g] = over[g]
BY DEF TypeOK, Done

LEMMA GotoFacts ==
  ASSUME TypeOK, NEW h \in Handlers, NEW place, Goto(h, place)
  PROVE  /\ pc'[h] = place /\ on'[h] = on[h]
         /\ \A g \in Handlers : g # h =>
              pc'[g] = pc[g] /\ on'[g] = on[g] /\ over'[g] = over[g]
BY DEF TypeOK, Goto

LEMMA CountsStay ==
  ASSUME TypeOK, UNCHANGED approvalVars
  PROVE  \A q \in Reservations :
           asked'[q] + granted'[q] + decided'[q]
             >= asked[q] + granted[q] + decided[q]
BY DEF TypeOK, approvalVars

\* approve, release, occupy and cancel.
LEMMA WriteInv ==
  ASSUME IInv, TypeOK', NEW h \in Handlers, NEW op \in Loaded,
         NEW status \in Status \ {"absent", "returned", "rescheduled"},
         Write(h, op, status),
         status = "released" => "approved" \in been[on[h]],
         status = "occupied" => "released" \in been[on[h]]
  PROVE  IInv'
<1> DEFINE r == on[h]
<1>1. pc[h] = op /\ pc[h] \notin {"idle", "askApproval", "insertReplacement"}
  BY DEF Write, Loaded
<1>2. /\ r \in Reservations /\ row[r] \in Row
      /\ "released" \in been[r] => "approved" \in been[r]
      /\ "occupied" \in been[r] => "released" \in been[r]
      /\ row[r].overtime > Grace => row[r].pending \/ row[r].approved
      /\ row[r].pending => "occupied" \in been[r]
  BY <1>1, RowFacts
<1>3. /\ pc'[h] = "idle"
      /\ \A g \in Handlers : g # h =>
           pc'[g] = pc[g] /\ on'[g] = on[g] /\ over'[g] = over[g]
  BY DoneFacts DEF Write, IInv
<1>4. \A q \in Reservations : asked'[q] + granted'[q] + decided'[q]
                                >= asked[q] + granted[q] + decided[q]
  BY CountsStay DEF Write, IInv
<1>5. \A q \in Reservations : q # r => row'[q] = row[q] /\ been'[q] = been[q]
  BY DEF Write, SetStatus, IInv, TypeOK
<1>6. /\ row'[r] = [row[r] EXCEPT !.status = status]
      /\ been'[r] = been[r] \cup ({status} \cap Stages)
  BY <1>2 DEF Write, SetStatus, IInv, TypeOK
<1>7. /\ row'[r].status = status /\ row'[r].overtime = row[r].overtime
      /\ row'[r].pending = row[r].pending /\ row'[r].approved = row[r].approved
  BY <1>2, <1>6 DEF Row
<1>8. /\ "released" \in been'[r] => "approved" \in been'[r]
      /\ "occupied" \in been'[r] => "released" \in been'[r]
  BY <1>2, <1>6
<1> QED BY <1>1, <1>2, <1>3, <1>4, <1>5, <1>6, <1>7, <1>8, HandlerStep DEF Write

LEMMA RenewInv == ASSUME IInv, TypeOK', NEW h \in Handlers, Renew(h) PROVE IInv'
<1> DEFINE r == on[h]
<1>1. pc[h] \notin {"idle", "askApproval", "insertReplacement"}
      /\ UNCHANGED <<approvalVars, historyVars>>
  BY DEF Renew
<1>2. PICK t \in Ends : row' = [row EXCEPT ![r].end = t]
  BY DEF Renew
<1>3. r \in Reservations /\ row[r] \in Row
  BY <1>1, RowFacts
<1>4. \A q \in Reservations :
        /\ q # r => row'[q] = row[q]
        /\ row'[q].status = row[q].status /\ row'[q].overtime = row[q].overtime
        /\ row'[q].pending = row[q].pending /\ row'[q].approved = row[q].approved
  BY <1>2, <1>3 DEF IInv, TypeOK, Row
<1>5. /\ pc'[h] = "idle"
      /\ \A g \in Handlers : g # h =>
           pc'[g] = pc[g] /\ on'[g] = on[g] /\ over'[g] = over[g]
  BY DoneFacts DEF Renew, IInv
<1>6. \A q \in Reservations : asked'[q] + granted'[q] + decided'[q]
                                >= asked[q] + granted[q] + decided[q]
  BY <1>1, CountsStay DEF IInv
<1> QED BY <1>1, <1>3, <1>4, <1>5, <1>6, RowFacts, HandlerStep DEF historyVars

LEMMA ReturnInTimeInv ==
  ASSUME IInv, TypeOK', NEW h \in Handlers, ReturnInTime(h) PROVE IInv'
<1> DEFINE r == on[h]
<1>1. pc[h] = "returnInTime" /\ UNCHANGED <<approvalVars, historyVars>>
  BY DEF ReturnInTime
<1>2. r \in Reservations /\ row[r] \in Row
  BY <1>1, RowFacts
<1>3. "occupied" \in been[r] /\ over[h] <= Grace /\ over[h] \in Nat
  BY <1>1 DEF IInv, HandlersRely, TypeOK
<1>4. \A q \in Reservations : q # r => row'[q] = row[q]
  BY DEF ReturnInTime, IInv, TypeOK
<1>5. row'[r] = [row[r] EXCEPT !.status = "returned", !.overtime = over[h]]
  BY <1>2 DEF ReturnInTime, IInv, TypeOK
<1>6. /\ row'[r].status = "returned" /\ row'[r].overtime = over[h]
      /\ row'[r].pending = row[r].pending
  BY <1>2, <1>5 DEF Row
<1>7. /\ pc'[h] = "idle"
      /\ \A g \in Handlers : g # h =>
           pc'[g] = pc[g] /\ on'[g] = on[g] /\ over'[g] = over[g]
  BY DoneFacts DEF ReturnInTime, IInv
<1>8. \A q \in Reservations : asked'[q] + granted'[q] + decided'[q]
                                >= asked[q] + granted[q] + decided[q]
  BY <1>1, CountsStay DEF IInv
<1>9. ~(row'[r].overtime > Grace)
  BY <1>3, <1>6, ReservationsAssumption
<1>10. /\ "released" \in been[r] => "approved" \in been[r]
       /\ "occupied" \in been[r] => "released" \in been[r]
  BY <1>1, RowFacts
<1> QED BY <1>1, <1>2, <1>3, <1>4, <1>6, <1>7, <1>8, <1>9, <1>10, HandlerStep
           DEF historyVars, Stages

LEMMA ReturnLateInv ==
  ASSUME IInv, TypeOK', NEW h \in Handlers, ReturnLate(h) PROVE IInv'
<1> DEFINE r == on[h]
<1>1. pc[h] = "returnLate" /\ UNCHANGED <<approvalVars, historyVars>>
  BY DEF ReturnLate
<1>2. r \in Reservations /\ row[r] \in Row
  BY <1>1, RowFacts
<1>3. "occupied" \in been[r]
  BY <1>1 DEF IInv, HandlersRely
<1>4. \A q \in Reservations : q # r => row'[q] = row[q]
  BY DEF ReturnLate, IInv, TypeOK
<1>5. row'[r] = [row[r] EXCEPT !.overtime = over[h], !.pending = TRUE]
  BY <1>2 DEF ReturnLate, IInv, TypeOK
<1>6. row'[r].status = row[r].status /\ row'[r].pending = TRUE
  BY <1>2, <1>5 DEF Row
<1>7. /\ pc'[h] = "askApproval" /\ on'[h] = r
      /\ \A g \in Handlers : g # h =>
           pc'[g] = pc[g] /\ on'[g] = on[g] /\ over'[g] = over[g]
  BY GotoFacts DEF ReturnLate, IInv
<1>8. \A q \in Reservations : asked'[q] + granted'[q] + decided'[q]
                                >= asked[q] + granted[q] + decided[q]
  BY <1>1, CountsStay DEF IInv
<1>9. /\ "released" \in been[r] => "approved" \in been[r]
      /\ "occupied" \in been[r] => "released" \in been[r]
      /\ row[r].status # "absent"
      /\ row[r].status \in Stages => row[r].status \in been[r]
  BY <1>1, RowFacts
<1> QED BY <1>1, <1>2, <1>3, <1>4, <1>6, <1>7, <1>8, <1>9, HandlerStep
           DEF historyVars, HalfDone

LEMMA ApproveOvertimeInv ==
  ASSUME IInv, TypeOK', NEW h \in Handlers, ApproveOvertime(h) PROVE IInv'
<1> DEFINE r == on[h]
<1>1. pc[h] = "approveOvertime" /\ UNCHANGED <<approvalVars, historyVars>>
  BY DEF ApproveOvertime
<1>2. r \in Reservations /\ row[r] \in Row
  BY <1>1, RowFacts
<1>3. "occupied" \in been[r]
  BY <1>1 DEF IInv, HandlersRely
<1>4. \A q \in Reservations : q # r => row'[q] = row[q]
  BY DEF ApproveOvertime, IInv, TypeOK
<1>5. row'[r] = [row[r] EXCEPT !.status = "returned", !.pending = FALSE,
                               !.approved = TRUE]
  BY <1>2 DEF ApproveOvertime, IInv, TypeOK
<1>6. /\ row'[r].status = "returned" /\ row'[r].pending = FALSE
      /\ row'[r].approved = TRUE
  BY <1>2, <1>5 DEF Row
<1>7. /\ pc'[h] = "grantRows" /\ on'[h] = r
      /\ \A g \in Handlers : g # h =>
           pc'[g] = pc[g] /\ on'[g] = on[g] /\ over'[g] = over[g]
  BY GotoFacts DEF ApproveOvertime, IInv
<1>8. \A q \in Reservations : asked'[q] + granted'[q] + decided'[q]
                                >= asked[q] + granted[q] + decided[q]
  BY <1>1, CountsStay DEF IInv
<1>9. /\ "released" \in been[r] => "approved" \in been[r]
      /\ "occupied" \in been[r] => "released" \in been[r]
  BY <1>1, RowFacts
<1> QED BY <1>1, <1>2, <1>3, <1>4, <1>6, <1>7, <1>8, <1>9, HandlerStep
           DEF historyVars, HalfDone, Stages

LEMMA RescheduleOldInv ==
  ASSUME IInv, TypeOK', NEW h \in Handlers, RescheduleOld(h) PROVE IInv'
<1> DEFINE r == on[h]
<1>1. pc[h] = "reschedule" /\ UNCHANGED <<approvalVars, replacement, cutShort>>
  BY DEF RescheduleOld
<1>2. r \in Reservations /\ row[r] \in Row
  BY <1>1, RowFacts
<1>3. \A q \in Reservations : q # r => row'[q] = row[q]
  BY DEF RescheduleOld, SetStatus, IInv, TypeOK
<1>4. row'[r] = [row[r] EXCEPT !.status = "rescheduled"] /\ been' = been
  BY <1>2 DEF RescheduleOld, SetStatus, Stages, IInv, TypeOK
<1>5. /\ row'[r].status = "rescheduled" /\ row'[r].overtime = row[r].overtime
      /\ row'[r].pending = row[r].pending /\ row'[r].approved = row[r].approved
  BY <1>2, <1>4 DEF Row
<1>6. /\ pc'[h] = "insertReplacement" /\ on'[h] = r
      /\ \A g \in Handlers : g # h =>
           pc'[g] = pc[g] /\ on'[g] = on[g] /\ over'[g] = over[g]
  BY GotoFacts DEF RescheduleOld, IInv
<1>7. \A q \in Reservations : asked'[q] + granted'[q] + decided'[q]
                                >= asked[q] + granted[q] + decided[q]
  BY <1>1, CountsStay DEF IInv
<1>8. /\ "released" \in been[r] => "approved" \in been[r]
      /\ "occupied" \in been[r] => "released" \in been[r]
      /\ row[r].overtime > Grace => row[r].pending \/ row[r].approved
      /\ row[r].pending => "occupied" \in been[r]
  BY <1>1, RowFacts
<1>9. /\ been[r] \subseteq been'[r] /\ cutShort \subseteq cutShort'
      /\ replacement' = replacement
      /\ \A q \in Reservations : q # r => been'[q] = been[q]
  BY <1>1, <1>4
<1>10. /\ row'[r].status \notin Stages \cup {"absent", "returned"}
       /\ pc'[h] \in HalfDone
       /\ pc[h] \notin {"askApproval", "insertReplacement"}
  BY <1>1, <1>5, <1>6 DEF HalfDone, Stages
<1>11. /\ "released" \in been'[r] => "approved" \in been'[r]
       /\ "occupied" \in been'[r] => "released" \in been'[r]
       /\ row'[r].overtime > Grace => row'[r].pending \/ row'[r].approved
       /\ row'[r].pending => "occupied" \in been'[r]
       /\ row'[r].pending => row[r].pending
  BY <1>4, <1>5, <1>8
<1> QED BY <1>2, <1>3, <1>6, <1>7, <1>9, <1>10, <1>11, HandlerStep

LEMMA AskApprovalInv ==
  ASSUME IInv, TypeOK', NEW h \in Handlers, AskApproval(h) PROVE IInv'
<1> DEFINE r == on[h]
<1>1. pc[h] = "askApproval" /\ UNCHANGED <<row, granted, decided, historyVars>>
  BY DEF AskApproval
<1>2. r \in Reservations
  BY <1>1, RowFacts
<1>3. asked'[r] = asked[r] + 1
      /\ \A q \in Reservations : q # r => asked'[q] = asked[q]
  BY <1>2 DEF AskApproval, IInv, TypeOK
<1>4. \A q \in Reservations :
        /\ asked[q] \in Nat /\ granted[q] \in Nat /\ decided[q] \in Nat
        /\ granted'[q] = granted[q] /\ decided'[q] = decided[q]
  BY <1>1 DEF IInv, TypeOK
<1>5. \A q \in Reservations : asked'[q] + granted'[q] + decided'[q]
                                >= asked[q] + granted[q] + decided[q]
  BY <1>3, <1>4
<1>6. asked'[r] + granted'[r] + decided'[r] > 0
  BY <1>2, <1>3, <1>4
<1>7. /\ pc'[h] = "idle"
      /\ \A g \in Handlers : g # h =>
           pc'[g] = pc[g] /\ on'[g] = on[g] /\ over'[g] = over[g]
  BY DoneFacts DEF AskApproval, IInv
<1> QED BY <1>1, <1>2, <1>5, <1>6, <1>7, RowFacts, HandlerStep DEF historyVars

LEMMA GrantRowsInv ==
  ASSUME IInv, TypeOK', NEW h \in Handlers, GrantRows(h) PROVE IInv'
<1>1. pc[h] = "grantRows" /\ UNCHANGED <<row, decided, historyVars>>
  BY DEF GrantRows
<1>2. on[h] \in Reservations
  BY <1>1, RowFacts
<1>3. \A q \in Reservations : asked'[q] + granted'[q] + decided'[q]
                                >= asked[q] + granted[q] + decided[q]
  BY DEF GrantRows, IInv, TypeOK
<1>4. /\ pc'[h] = "idle"
      /\ \A g \in Handlers : g # h =>
           pc'[g] = pc[g] /\ on'[g] = on[g] /\ over'[g] = over[g]
  BY DoneFacts DEF GrantRows, IInv
<1> QED BY <1>1, <1>2, <1>3, <1>4, RowFacts, HandlerStep DEF historyVars

LEMMA FailInv == ASSUME IInv, TypeOK', NEW h \in Handlers, Fail(h) PROVE IInv'
<1> DEFINE r == on[h]
<1>1. pc[h] # "idle" /\ UNCHANGED <<row, approvalVars, been, replacement>>
  BY DEF Fail
<1>2. r \in Reservations
  BY <1>1, RowFacts
<1>3. cutShort \subseteq cutShort'
      /\ (pc[h] \in {"askApproval", "insertReplacement"} => r \in cutShort')
  BY DEF Fail, HalfDone
<1>4. \A q \in Reservations : asked'[q] + granted'[q] + decided'[q]
                                >= asked[q] + granted[q] + decided[q]
  BY <1>1, CountsStay DEF IInv
<1>5. /\ pc'[h] = "idle"
      /\ \A g \in Handlers : g # h =>
           pc'[g] = pc[g] /\ on'[g] = on[g] /\ over'[g] = over[g]
  BY DoneFacts DEF Fail, IInv
<1> QED BY <1>1, <1>2, <1>3, <1>4, <1>5, RowFacts, HandlerStep

LEMMA LoadInv ==
  ASSUME IInv, TypeOK', NEW h \in Handlers, NEW op \in Loaded,
         NEW r \in Reservations, Load(h, op, r)
  PROVE  IInv'
<1>1. pc[h] = "idle" /\ Allowed(op, r) /\ UNCHANGED <<row, approvalVars, historyVars>>
  BY DEF Load
<1>2. /\ pc'[h] = op /\ on'[h] = r
      /\ \A g \in Handlers : g # h =>
           pc'[g] = pc[g] /\ on'[g] = on[g] /\ over'[g] = over[g]
  BY DEF Load, IInv, TypeOK
<1>3. op = "returnInTime" => over'[h] <= Grace
  <2> SUFFICES ASSUME op = "returnInTime" PROVE over'[h] <= Grace
    OBVIOUS
  <2>1. PICK t \in ActualEnds :
          /\ ~(Overtime(r, t) > Grace)
          /\ over' = [over EXCEPT ![h] = Overtime(r, t)]
    BY DEF Load
  <2>2. Overtime(r, t) \in Nat
    BY OvertimeType DEF IInv, TypeOK
  <2> QED BY <2>1, <2>2, ReservationsAssumption DEF IInv, TypeOK
<1>4. UseWasApproved' /\ OvertimeIsAnsweredFor'
  BY <1>1 DEF IInv, UseWasApproved, OvertimeIsAnsweredFor, historyVars
<1>5. \A g \in Handlers, q \in Reservations, place \in HalfDone :
        At(g, q, place) => At(g, q, place)'
  BY <1>1, <1>2 DEF At, HalfDone
<1>6. PendingWasAsked' /\ RescheduledIsReplaced'
  BY <1>1, <1>5 DEF IInv, PendingWasAsked, RescheduledIsReplaced, HalfDone,
                    approvalVars, historyVars
<1>7. /\ row[r].status # "absent"
      /\ op = "release" => "approved" \in been[r]
      /\ op = "occupy" => "released" \in been[r]
      /\ op \in {"returnInTime", "returnLate", "approveOvertime"} =>
           "occupied" \in been[r]
  <2>1. CASE op = "approveOvertime"
    <3>1. row[r].pending
      BY <1>1, <2>1 DEF Allowed
    <3>2. "occupied" \in been[r]
      BY <3>1 DEF IInv, HandlersRely
    <3>3. row[r].status # "absent"
      BY <3>1 DEF IInv, HandlersRely
    <3> QED BY <2>1, <3>2, <3>3
  <2>2. CASE op # "approveOvertime"
    <3>1. row[r].status \in Stages => row[r].status \in been[r]
      BY DEF IInv, UseWasApproved
    <3>2. op = "release" => row[r].status = "approved"
      BY <1>1 DEF Allowed
    <3>3. op = "occupy" => row[r].status = "released"
      BY <1>1 DEF Allowed
    <3>4. op \in {"returnInTime", "returnLate"} => row[r].status = "occupied"
      BY <1>1 DEF Allowed
    <3>5. op \in {"cancel", "reschedule", "renew"} => row[r].status \in Live
      BY <1>1 DEF Allowed
    <3>6. op = "approve" => row[r].status = "requested"
      BY <1>1 DEF Allowed
    <3>7. row[r].status # "absent"
      BY <2>2, <3>2, <3>3, <3>4, <3>5, <3>6 DEF Loaded, Live
    <3> QED BY <2>2, <3>1, <3>2, <3>3, <3>4, <3>7 DEF Stages
  <2> QED BY <2>1, <2>2
<1>8. HandlersRely'
  BY <1>1, <1>2, <1>3, <1>7 DEF IInv, HandlersRely, historyVars
<1> QED BY <1>4, <1>6, <1>8 DEF IInv

\* A new row disturbs no other row, and no handler works on it yet.
LEMMA InsertRowFacts ==
  ASSUME IInv, NEW r \in Reservations, InsertRow(r)
  PROVE  /\ row[r].status = "absent"
         /\ row'[r].status = "requested" /\ row'[r].overtime = 0
         /\ row'[r].pending = FALSE
         /\ \A q \in Reservations : q # r => row'[q] = row[q]
         /\ \A h \in Handlers : pc[h] # "idle" => on[h] # r
<1>1. row[r].status = "absent"
  BY DEF InsertRow
<1>2. PICK t \in Ends :
        row' = [row EXCEPT ![r] = [status |-> "requested", end |-> t,
                  overtime |-> 0, pending |-> FALSE, approved |-> FALSE]]
  BY DEF InsertRow
<1>3. \A h \in Handlers : pc[h] # "idle" => on[h] # r
  BY <1>1 DEF IInv, HandlersRely
<1> QED BY <1>1, <1>2, <1>3 DEF IInv, TypeOK

\* What the invariant says of rows, after a row has been inserted.
LEMMA InsertRowInv ==
  ASSUME IInv, TypeOK', NEW r \in Reservations, InsertRow(r),
         UNCHANGED <<been, approvalVars, cutShort>>,
         \A q \in Reservations : replacement[q] \subseteq replacement'[q],
         \A g \in Handlers, q \in Reservations, place \in HalfDone :
           At(g, q, place) =>
             \/ At(g, q, place)'
             \/ place = "insertReplacement" /\ replacement'[q] # {},
         \A g \in Handlers :
           \/ pc'[g] = "idle"
           \/ pc'[g] = pc[g] /\ on'[g] = on[g] /\ over'[g] = over[g]
  PROVE  IInv'
<1>1. /\ row[r].status = "absent"
      /\ row'[r].status = "requested" /\ row'[r].overtime = 0
      /\ row'[r].pending = FALSE
      /\ \A q \in Reservations : q # r => row'[q] = row[q]
      /\ \A h \in Handlers : pc[h] # "idle" => on[h] # r
  BY InsertRowFacts
<1>2. UseWasApproved'
  BY <1>1 DEF IInv, UseWasApproved, Stages
<1>3. OvertimeIsAnsweredFor'
  BY <1>1, ReservationsAssumption DEF IInv, OvertimeIsAnsweredFor
<1>4. PendingWasAsked'
  <2> SUFFICES ASSUME NEW q \in Reservations, row'[q].pending
               PROVE  \/ asked'[q] + granted'[q] + decided'[q] > 0
                      \/ \E g \in Handlers : At(g, q, "askApproval")'
                      \/ q \in cutShort'
    BY DEF PendingWasAsked
  <2>1. row[q].pending
    BY <1>1
  <2>2. \A g \in Handlers : At(g, q, "askApproval") => At(g, q, "askApproval")'
    BY DEF HalfDone
  <2> QED BY <2>1, <2>2 DEF IInv, PendingWasAsked, approvalVars
<1>5. RescheduledIsReplaced'
  <2> SUFFICES ASSUME NEW q \in Reservations, row'[q].status = "rescheduled"
               PROVE  \/ replacement'[q] # {}
                      \/ \E g \in Handlers : At(g, q, "insertReplacement")'
                      \/ q \in cutShort'
    BY DEF RescheduledIsReplaced
  <2>1. row[q].status = "rescheduled"
    BY <1>1
  <2>2. \A g \in Handlers : At(g, q, "insertReplacement") =>
          At(g, q, "insertReplacement")' \/ replacement'[q] # {}
    BY DEF HalfDone
  <2> QED BY <2>1, <2>2 DEF IInv, RescheduledIsReplaced
<1>6. HandlersRely'
  BY <1>1 DEF IInv, HandlersRely
<1> QED BY <1>2, <1>3, <1>4, <1>5, <1>6 DEF IInv

LEMMA CreateInv == ASSUME IInv, TypeOK', NEW r \in Created, Create(r) PROVE IInv'
<1>1. r \in Reservations
  BY ReservationsAssumption
<1> QED BY <1>1, InsertRowInv DEF Create, handlerVars, historyVars, At

LEMMA RescheduleNewInv ==
  ASSUME IInv, TypeOK', NEW h \in Handlers, RescheduleNew(h) PROVE IInv'
<1>1. pc[h] = "insertReplacement" /\ UNCHANGED <<approvalVars, been, cutShort>>
  BY DEF RescheduleNew
<1>2. on[h] \in Reservations
  BY <1>1, RowFacts
<1>3. PICK new \in Reservations :
        /\ InsertRow(new)
        /\ replacement' = [replacement EXCEPT ![on[h]] = @ \cup {new}]
  BY DEF RescheduleNew
<1>4. /\ replacement'[on[h]] # {}
      /\ \A q \in Reservations : replacement[q] \subseteq replacement'[q]
  BY <1>2, <1>3 DEF IInv, TypeOK
<1>5. /\ pc'[h] = "idle"
      /\ \A g \in Handlers : g # h =>
           pc'[g] = pc[g] /\ on'[g] = on[g] /\ over'[g] = over[g]
  BY DoneFacts DEF RescheduleNew, IInv
<1>6. \A g \in Handlers, q \in Reservations, place \in HalfDone :
        At(g, q, place) =>
          \/ At(g, q, place)'
          \/ place = "insertReplacement" /\ replacement'[q] # {}
  BY <1>1, <1>4, <1>5 DEF At
<1> QED BY <1>1, <1>3, <1>4, <1>5, <1>6, InsertRowInv

LEMMA DecideInv ==
  ASSUME IInv, TypeOK', NEW r \in Reservations, DecideRowElsewhere(r) PROVE IInv'
<1>1. UNCHANGED <<row, granted, pc, on, over, been, replacement, cutShort>>
  BY DEF DecideRowElsewhere, handlerVars, historyVars
<1>2. \A q \in Reservations : asked'[q] + granted'[q] + decided'[q]
                                = asked[q] + granted[q] + decided[q]
  BY DEF DecideRowElsewhere, IInv, TypeOK
<1> QED BY <1>1, <1>2 DEF IInv, HandlersRely, UseWasApproved, PendingWasAsked,
           OvertimeIsAnsweredFor, RescheduledIsReplaced, At

LEMMA InvNext == IInv /\ [Next]_vars => IInv'
<1> SUFFICES ASSUME IInv, [Next]_vars PROVE IInv'
  OBVIOUS
<1>1. TypeOK'
  BY TypeNext DEF IInv
<1>2. ASSUME NEW h \in Handlers, Handle(h) PROVE IInv'
  <2>1. Approve(h) \/ Release(h) \/ Occupy(h) \/ Cancel(h) => IInv'
    BY <1>1, WriteInv DEF Approve, Release, Occupy, Cancel, Write, Loaded,
                          Status, IInv, HandlersRely
  <2> QED BY <1>1, <1>2, <2>1, RenewInv, ReturnInTimeInv, ReturnLateInv,
             AskApprovalInv, RescheduleOldInv, RescheduleNewInv,
             ApproveOvertimeInv, GrantRowsInv
             DEF Handle
<1>3. CASE Next
  BY <1>1, <1>2, <1>3, CreateInv, DecideInv, FailInv, LoadInv DEF Next
<1>4. CASE UNCHANGED vars
  BY <1>4 DEF vars, IInv, TypeOK, HandlersRely, UseWasApproved, PendingWasAsked,
     OvertimeIsAnsweredFor, RescheduledIsReplaced, At
<1> QED BY <1>3, <1>4

\* Every reachable state satisfies the inductive invariant: the types, the four
\* invariants below and what handlers rely on between two of their steps.
THEOREM Invariance == Spec => []IInv
BY InvInit, InvNext, PTL DEF Spec

\* However late handlers write, no resource is handed out unapproved, used
\* before it was handed out or given back before it was used.
THEOREM UseIsApproved == Spec => []UseHolds
<1>1. IInv => UseHolds
  BY DEF IInv, UseHolds
<1> QED BY <1>1, Invariance, PTL

\* Overtime beyond the grace never drops out of sight: it waits for approval or
\* has one; and what waits has been asked for, but for a crash in between.
THEOREM OvertimeIsTracked == Spec => [](OvertimeIsAnsweredFor /\ PendingWasAsked)
BY Invariance, PTL DEF IInv

\* A rescheduled reservation has a replacement, but for a crash in between.
THEOREM RescheduledHasReplacement == Spec => []RescheduledIsReplaced
BY Invariance, PTL DEF IInv
-------------------------------------------------------------------------------
(***************************************************************************)
(* Handlers that take turns on a reservation.                              *)
(***************************************************************************)

LEMMA TurnsInit == Init => TurnsInv
<1> SUFFICES ASSUME Init PROVE TurnsInv
  OBVIOUS
<1>1. \A r \in Reservations : row[r].status = "absent" /\ replacement[r] = {}
  <2>1. PICK t \in Ends :
          row = [r \in Reservations |-> [status |-> "absent", end |-> t,
                   overtime |-> 0, pending |-> FALSE, approved |-> FALSE]]
    BY DEF Init
  <2> QED BY <2>1 DEF Init
<1>2. \A h \in Handlers : pc[h] = "idle"
  BY DEF Init
<1>3. TurnsRely
  BY <1>2 DEF TurnsRely, Loaded
<1>4. ReturnedOvertimeWasApproved /\ ReplacedOnceAndGivenUp
  BY <1>1, ReservationsAssumption
     DEF ReturnedOvertimeWasApproved, ReplacedOnceAndGivenUp
<1> QED BY <1>3, <1>4 DEF TurnsInv

\* The only handler at work on a row leaves the other rows, and what is relied
\* on there, alone.
LEMMA TurnStep ==
  ASSUME IInv, TurnsInv, NEW h \in Handlers, NEW r \in Reservations,
         on[h] = r, pc[h] # "idle",
         \A g \in Handlers : g # h =>
           pc'[g] = pc[g] /\ on'[g] = on[g] /\ over'[g] = over[g],
         pc'[h] = "idle" \/ (pc'[h] \in HalfDone /\ on'[h] = r),
         \A q \in Reservations : q # r =>
           row'[q] = row[q] /\ replacement'[q] = replacement[q],
         r \in Serial =>
           /\ row'[r].status = "returned" /\ row'[r].overtime > Grace =>
                row'[r].approved
           /\ \A new1, new2 \in replacement'[r] : new1 = new2
           /\ replacement'[r] # {} => row'[r].status \in {"rescheduled", "returned"}
           /\ pc'[h] = "insertReplacement" =>
                row'[r].status = "rescheduled" /\ replacement'[r] = {}
  PROVE  TurnsInv'
<1>1. \A g \in Handlers : pc[g] # "idle" => on[g] \in Reservations
  BY DEF IInv, HandlersRely
<1>2. ASSUME NEW g \in Handlers, NEW k \in Handlers, pc'[g] # "idle",
             pc'[k] # "idle", on'[g] = on'[k], on'[g] \in Serial
      PROVE  g = k
  <2>1. /\ pc[g] # "idle" /\ on'[g] = on[g]
        /\ pc[k] # "idle" /\ on'[k] = on[k]
    BY <1>2
  <2>2. on[g] = on[k] /\ on[g] \in Serial
    BY <1>2, <2>1
  <2> QED BY <2>1, <2>2 DEF TurnsInv, TurnsRely
<1>3. ASSUME NEW g \in Handlers, on'[g] \in Serial, pc'[g] \in Loaded
      PROVE  Allowed(pc[g], on[g])'
  <2>1. g # h /\ pc'[g] = pc[g] /\ on'[g] = on[g]
    BY <1>3 DEF Loaded, HalfDone
  <2>2. pc[g] # "idle" /\ on[g] \in Reservations
    BY <1>1, <1>3, <2>1 DEF Loaded
  <2>3. on[g] # r
    BY <1>3, <2>1, <2>2 DEF TurnsInv, TurnsRely
  <2>4. Allowed(pc[g], on[g])
    BY <1>3, <2>1 DEF TurnsInv, TurnsRely
  <2>5. row'[on[g]] = row[on[g]]
    BY <2>2, <2>3
  <2>6. pc[g] \in Loaded
    BY <1>3, <2>1
  <2> QED BY <2>1, <2>2, <2>4, <2>5, <2>6 DEF Allowed, Loaded
<1>4. ASSUME NEW g \in Handlers, on'[g] \in Serial,
             pc'[g] = "insertReplacement"
      PROVE  row'[on'[g]].status = "rescheduled" /\ replacement'[on'[g]] = {}
  <2>1. CASE g = h
    BY <1>4, <2>1
  <2>2. CASE g # h
    <3>1. pc[g] # "idle" /\ on[g] \in Reservations /\ on[g] # r
      BY <1>1, <1>4, <2>2 DEF TurnsInv, TurnsRely
    <3> QED BY <1>4, <2>2, <3>1 DEF TurnsInv, TurnsRely
  <2> QED BY <2>1, <2>2
<1>5. TurnsRely'
  BY <1>2, <1>3, <1>4 DEF TurnsRely
<1>6. ReturnedOvertimeWasApproved' /\ ReplacedOnceAndGivenUp'
  BY ReservationsAssumption
     DEF TurnsInv, ReturnedOvertimeWasApproved, ReplacedOnceAndGivenUp
<1> QED BY <1>5, <1>6 DEF TurnsInv

\* What the row a handler takes its turn on is like, before it writes.
LEMMA TurnFacts ==
  ASSUME IInv, TurnsInv, NEW h \in Handlers, pc[h] # "idle", on[h] \in Serial
  PROVE  LET r == on[h] IN
         /\ pc[h] \in Loaded => Allowed(pc[h], r)
         /\ pc[h] = "insertReplacement" =>
              row[r].status = "rescheduled" /\ replacement[r] = {}
         /\ row[r].status = "returned" /\ row[r].overtime > Grace =>
              row[r].approved
         /\ \A new1, new2 \in replacement[r] : new1 = new2
         /\ replacement[r] # {} => row[r].status \in {"rescheduled", "returned"}
BY ReservationsAssumption
   DEF TurnsInv, TurnsRely, ReturnedOvertimeWasApproved, ReplacedOnceAndGivenUp

\* The row that approve, release, occupy or cancel is about to change can take
\* the status, and has no replacement.
LEMMA WriteTurn ==
  ASSUME IInv, TurnsInv, NEW h \in Handlers,
         NEW op \in {"approve", "release", "occupy", "cancel"},
         NEW status \in {"approved", "released", "occupied", "cancelled"},
         <<op, status>> \in {<<"approve", "approved">>, <<"release", "released">>,
                             <<"occupy", "occupied">>, <<"cancel", "cancelled">>},
         Write(h, op, status)
  PROVE  TurnsInv' /\ (\A q \in Serial : FollowsStateMachine(q))
<1> DEFINE r == on[h]
<1>1. pc[h] = op /\ pc[h] # "idle" /\ pc[h] \in Loaded
  BY DEF Write, Loaded
<1>2. r \in Reservations /\ row[r] \in Row
  BY <1>1, RowFacts
<1>3. /\ pc'[h] = "idle"
      /\ \A g \in Handlers : g # h =>
           pc'[g] = pc[g] /\ on'[g] = on[g] /\ over'[g] = over[g]
  BY DoneFacts DEF Write, IInv
<1>4. \A q \in Reservations : q # r => row'[q] = row[q]
  BY DEF Write, SetStatus, IInv, TypeOK
<1>5. row'[r].status = status /\ replacement' = replacement
  BY <1>2 DEF Write, SetStatus, IInv, TypeOK, Row
<1>6. r \in Serial => Allowed(op, r)
  BY <1>1, TurnFacts
<1>7. r \in Serial => MayBecome(r, status) /\ row[r].status \in Live
  BY <1>6 DEF Allowed, MayBecome, Live, Status, Final
<1>8. r \in Serial => replacement'[r] = {}
  BY <1>1, <1>5, <1>7, TurnFacts DEF Live, Final
<1>9. TurnsInv'
  BY <1>1, <1>2, <1>3, <1>4, <1>5, <1>8, TurnStep
<1>10. \A q \in Serial : FollowsStateMachine(q)
  BY <1>4, <1>5, <1>7, ReservationsAssumption DEF FollowsStateMachine
<1> QED BY <1>9, <1>10

LEMMA ReturnInTimeTurn ==
  ASSUME IInv, TurnsInv, NEW h \in Handlers, ReturnInTime(h)
  PROVE  TurnsInv' /\ (\A q \in Serial : FollowsStateMachine(q))
<1> DEFINE r == on[h]
<1>1. pc[h] = "returnInTime" /\ replacement' = replacement
  BY DEF ReturnInTime, historyVars
<1>2. r \in Reservations /\ row[r] \in Row /\ over[h] \in Nat /\ over[h] <= Grace
  BY <1>1, RowFacts DEF IInv, TypeOK, HandlersRely
<1>3. /\ pc'[h] = "idle"
      /\ \A g \in Handlers : g # h =>
           pc'[g] = pc[g] /\ on'[g] = on[g] /\ over'[g] = over[g]
  BY DoneFacts DEF ReturnInTime, IInv
<1>4. \A q \in Reservations : q # r => row'[q] = row[q]
  BY DEF ReturnInTime, IInv, TypeOK
<1>5. row'[r] = [row[r] EXCEPT !.status = "returned", !.overtime = over[h]]
  BY <1>2 DEF ReturnInTime, IInv, TypeOK
<1>6. row'[r].status = "returned" /\ row'[r].overtime = over[h]
  BY <1>2, <1>5 DEF Row
<1>7. ~(row'[r].overtime > Grace)
  BY <1>2, <1>6, ReservationsAssumption
<1>8. r \in Serial => row[r].status = "occupied"
                      /\ \A new1, new2 \in replacement[r] : new1 = new2
  BY <1>1, TurnFacts DEF Allowed, Loaded
<1>9. TurnsInv'
  BY <1>1, <1>2, <1>3, <1>4, <1>6, <1>7, <1>8, TurnStep
<1>10. \A q \in Serial : FollowsStateMachine(q)
  BY <1>4, <1>6, <1>8, ReservationsAssumption DEF FollowsStateMachine, MayBecome
<1> QED BY <1>9, <1>10

LEMMA ReturnLateTurn ==
  ASSUME IInv, TurnsInv, NEW h \in Handlers, ReturnLate(h)
  PROVE  TurnsInv' /\ (\A q \in Serial : FollowsStateMachine(q))
<1> DEFINE r == on[h]
<1>1. pc[h] = "returnLate" /\ replacement' = replacement
  BY DEF ReturnLate, historyVars
<1>2. r \in Reservations /\ row[r] \in Row
  BY <1>1, RowFacts
<1>3. /\ pc'[h] = "askApproval" /\ on'[h] = r
      /\ \A g \in Handlers : g # h =>
           pc'[g] = pc[g] /\ on'[g] = on[g] /\ over'[g] = over[g]
  BY GotoFacts DEF ReturnLate, IInv
<1>4. \A q \in Reservations : q # r => row'[q] = row[q]
  BY DEF ReturnLate, IInv, TypeOK
<1>5. row'[r] = [row[r] EXCEPT !.overtime = over[h], !.pending = TRUE]
  BY <1>2 DEF ReturnLate, IInv, TypeOK
<1>6. row'[r].status = row[r].status
  BY <1>2, <1>5 DEF Row
<1>7. r \in Serial => row[r].status = "occupied" /\ replacement[r] = {}
  BY <1>1, TurnFacts DEF Allowed, Loaded
<1>8. TurnsInv'
  BY <1>1, <1>2, <1>3, <1>4, <1>6, <1>7, TurnStep DEF HalfDone
<1>9. \A q \in Serial : FollowsStateMachine(q)
  BY <1>4, <1>6, ReservationsAssumption DEF FollowsStateMachine
<1> QED BY <1>8, <1>9

LEMMA ApproveOvertimeTurn ==
  ASSUME IInv, TurnsInv, NEW h \in Handlers, ApproveOvertime(h)
  PROVE  TurnsInv' /\ (\A q \in Serial : FollowsStateMachine(q))
<1> DEFINE r == on[h]
<1>1. pc[h] = "approveOvertime" /\ replacement' = replacement
  BY DEF ApproveOvertime, historyVars
<1>2. r \in Reservations /\ row[r] \in Row
  BY <1>1, RowFacts
<1>3. /\ pc'[h] = "grantRows" /\ on'[h] = r
      /\ \A g \in Handlers : g # h =>
           pc'[g] = pc[g] /\ on'[g] = on[g] /\ over'[g] = over[g]
  BY GotoFacts DEF ApproveOvertime, IInv
<1>4. \A q \in Reservations : q # r => row'[q] = row[q]
  BY DEF ApproveOvertime, IInv, TypeOK
<1>5. row'[r] = [row[r] EXCEPT !.status = "returned", !.pending = FALSE,
                               !.approved = TRUE]
  BY <1>2 DEF ApproveOvertime, IInv, TypeOK
<1>6. row'[r].status = "returned" /\ row'[r].approved = TRUE
  BY <1>2, <1>5 DEF Row
<1>7. r \in Serial => row[r].pending
                      /\ \A new1, new2 \in replacement[r] : new1 = new2
  BY <1>1, TurnFacts DEF Allowed, Loaded
<1>8. TurnsInv'
  BY <1>1, <1>2, <1>3, <1>4, <1>6, <1>7, TurnStep DEF HalfDone
<1>9. \A q \in Serial : FollowsStateMachine(q)
  BY <1>4, <1>6, <1>7, ReservationsAssumption DEF FollowsStateMachine, MayBecome
<1> QED BY <1>8, <1>9

LEMMA RescheduleOldTurn ==
  ASSUME IInv, TurnsInv, NEW h \in Handlers, RescheduleOld(h)
  PROVE  TurnsInv' /\ (\A q \in Serial : FollowsStateMachine(q))
<1> DEFINE r == on[h]
<1>1. pc[h] = "reschedule" /\ replacement' = replacement
  BY DEF RescheduleOld
<1>2. r \in Reservations /\ row[r] \in Row
  BY <1>1, RowFacts
<1>3. /\ pc'[h] = "insertReplacement" /\ on'[h] = r
      /\ \A g \in Handlers : g # h =>
           pc'[g] = pc[g] /\ on'[g] = on[g] /\ over'[g] = over[g]
  BY GotoFacts DEF RescheduleOld, IInv
<1>4. \A q \in Reservations : q # r => row'[q] = row[q]
  BY DEF RescheduleOld, SetStatus, IInv, TypeOK
<1>5. row'[r].status = "rescheduled"
  BY <1>2 DEF RescheduleOld, SetStatus, IInv, TypeOK, Row
<1>6. r \in Serial => row[r].status \in Live
  BY <1>1, TurnFacts DEF Allowed, Loaded
<1>7. r \in Serial => replacement[r] = {}
  BY <1>1, <1>6, TurnFacts DEF Live, Final
<1>8. TurnsInv'
  BY <1>1, <1>2, <1>3, <1>4, <1>5, <1>7, TurnStep DEF HalfDone
<1>9. \A q \in Serial : FollowsStateMachine(q)
  BY <1>4, <1>5, <1>6, ReservationsAssumption DEF FollowsStateMachine, MayBecome
<1> QED BY <1>8, <1>9

\* A handler that is done without a write to its row, or writes only its end.
LEMMA QuietTurn ==
  ASSUME IInv, TurnsInv, NEW h \in Handlers, pc[h] # "idle", Done(h),
         replacement' = replacement,
         \A q \in Reservations :
           /\ q # on[h] => row'[q] = row[q]
           /\ row'[q].status = row[q].status /\ row'[q].overtime = row[q].overtime
           /\ row'[q].approved = row[q].approved
  PROVE  TurnsInv' /\ (\A q \in Serial : FollowsStateMachine(q))
<1> DEFINE r == on[h]
<1>1. r \in Reservations
  BY RowFacts
<1>2. /\ pc'[h] = "idle"
      /\ \A g \in Handlers : g # h =>
           pc'[g] = pc[g] /\ on'[g] = on[g] /\ over'[g] = over[g]
  BY DoneFacts DEF IInv
<1>3. TurnsInv'
  BY <1>1, <1>2, TurnFacts, TurnStep
<1>4. \A q \in Serial : FollowsStateMachine(q)
  BY ReservationsAssumption DEF FollowsStateMachine
<1> QED BY <1>3, <1>4

LEMMA RenewTurn ==
  ASSUME IInv, TurnsInv, NEW h \in Handlers, Renew(h)
  PROVE  TurnsInv' /\ (\A q \in Serial : FollowsStateMachine(q))
<1>1. pc[h] # "idle" /\ Done(h) /\ replacement' = replacement
  BY DEF Renew, historyVars
<1>2. on[h] \in Reservations
  BY <1>1, RowFacts
<1>3. \A q \in Reservations :
        /\ q # on[h] => row'[q] = row[q]
        /\ row'[q].status = row[q].status /\ row'[q].overtime = row[q].overtime
        /\ row'[q].approved = row[q].approved
  BY <1>2 DEF Renew, IInv, TypeOK, Row
<1> QED BY <1>1, <1>3, QuietTurn

\* Inserting a row leaves every row alone that a handler takes its turn on.
LEMMA InsertRowTurn ==
  ASSUME IInv, TurnsInv, NEW new \in Reservations, InsertRow(new),
         \A g \in Handlers :
           pc'[g] = "idle" \/ (pc'[g] = pc[g] /\ on'[g] = on[g]),
         \A q \in Reservations :
           \/ replacement'[q] = replacement[q]
           \/ /\ q \in Serial =>
                   row[q].status = "rescheduled" /\ replacement[q] = {}
              /\ replacement'[q] = replacement[q] \cup {new}
              /\ q # new
              /\ q \in Serial => \A g \in Handlers : pc'[g] # "idle" => on[g] # q
  PROVE  TurnsInv' /\ (\A q \in Serial : FollowsStateMachine(q))
<1>1. /\ row[new].status = "absent"
      /\ row'[new].status = "requested" /\ row'[new].overtime = 0
      /\ \A q \in Reservations : q # new => row'[q] = row[q]
      /\ \A g \in Handlers : pc[g] # "idle" => on[g] # new
  BY InsertRowFacts
<1>2. \A g \in Handlers : pc[g] # "idle" => on[g] \in Reservations
  BY DEF IInv, HandlersRely
<1>3. \A g, k \in Handlers :
        pc'[g] # "idle" /\ pc'[k] # "idle" /\ on'[g] = on'[k] /\ on'[g] \in Serial
          => g = k
  BY DEF TurnsInv, TurnsRely
<1>4. ASSUME NEW g \in Handlers, on'[g] \in Serial
      PROVE  /\ pc'[g] \in Loaded => Allowed(pc[g], on[g])'
             /\ pc'[g] = "insertReplacement" =>
                  row'[on'[g]].status = "rescheduled" /\ replacement'[on'[g]] = {}
  <2>1. CASE pc'[g] = "idle"
    BY <2>1 DEF Loaded
  <2>2. CASE pc'[g] # "idle"
    <3>1. /\ pc'[g] = pc[g] /\ on'[g] = on[g] /\ pc[g] # "idle"
          /\ on[g] \in Reservations /\ on[g] # new
      BY <1>1, <1>2, <2>2
    <3>2. row'[on[g]] = row[on[g]]
      BY <1>1, <3>1
    <3>3. replacement'[on[g]] = replacement[on[g]]
      BY <1>4, <2>2, <3>1
    <3>4. pc[g] \in Loaded => Allowed(pc[g], on[g])
      BY <1>4, <3>1 DEF TurnsInv, TurnsRely
    <3>5. pc[g] = "insertReplacement" =>
            row[on[g]].status = "rescheduled" /\ replacement[on[g]] = {}
      BY <1>4, <3>1 DEF TurnsInv, TurnsRely
    <3> QED BY <3>1, <3>2, <3>3, <3>4, <3>5 DEF Allowed, Loaded
  <2> QED BY <2>1, <2>2
<1>5. TurnsRely'
  BY <1>3, <1>4 DEF TurnsRely
<1>6. ReturnedOvertimeWasApproved'
  BY <1>1, ReservationsAssumption DEF TurnsInv, ReturnedOvertimeWasApproved
<1>7. ReplacedOnceAndGivenUp'
  <2> SUFFICES ASSUME NEW q \in Serial
               PROVE  /\ \A n1, n2 \in replacement'[q] : n1 = n2
                      /\ replacement'[q] # {} =>
                           row'[q].status \in {"rescheduled", "returned"}
    BY DEF ReplacedOnceAndGivenUp
  <2>1. q \in Reservations
    BY ReservationsAssumption
  <2>2. /\ \A n1, n2 \in replacement[q] : n1 = n2
        /\ replacement[q] # {} => row[q].status \in {"rescheduled", "returned"}
    BY DEF TurnsInv, ReplacedOnceAndGivenUp
  <2>3. CASE replacement'[q] = replacement[q]
    BY <1>1, <2>1, <2>2, <2>3
  <2>4. CASE replacement'[q] # replacement[q]
    <3>1. /\ row[q].status = "rescheduled" /\ replacement'[q] = {new} /\ q # new
      BY <2>1, <2>4
    <3> QED BY <1>1, <2>1, <3>1
  <2> QED BY <2>3, <2>4
<1>8. \A q \in Serial : FollowsStateMachine(q)
  BY <1>1, ReservationsAssumption DEF FollowsStateMachine, MayBecome
<1> QED BY <1>5, <1>6, <1>7, <1>8 DEF TurnsInv

LEMMA RescheduleNewTurn ==
  ASSUME IInv, TurnsInv, NEW h \in Handlers, RescheduleNew(h)
  PROVE  TurnsInv' /\ (\A q \in Serial : FollowsStateMachine(q))
<1>1. pc[h] = "insertReplacement"
  BY DEF RescheduleNew
<1>2. on[h] \in Reservations
  BY <1>1, RowFacts
<1>3. PICK new \in Reservations :
        /\ InsertRow(new)
        /\ replacement' = [replacement EXCEPT ![on[h]] = @ \cup {new}]
  BY DEF RescheduleNew
<1>4. on[h] # new
  BY <1>1, <1>3, InsertRowFacts
<1>5. /\ pc'[h] = "idle"
      /\ \A g \in Handlers : g # h =>
           pc'[g] = pc[g] /\ on'[g] = on[g] /\ over'[g] = over[g]
  BY DoneFacts DEF RescheduleNew, IInv
<1>6. /\ replacement'[on[h]] = replacement[on[h]] \cup {new}
      /\ \A q \in Reservations : q # on[h] => replacement'[q] = replacement[q]
  BY <1>2, <1>3 DEF IInv, TypeOK
<1>7. on[h] \in Serial =>
        /\ row[on[h]].status = "rescheduled" /\ replacement[on[h]] = {}
        /\ \A g \in Handlers : pc'[g] # "idle" => on[g] # on[h]
  BY <1>1, <1>5 DEF TurnsInv, TurnsRely
<1>8. \A g \in Handlers :
        pc'[g] = "idle" \/ (pc'[g] = pc[g] /\ on'[g] = on[g])
  BY <1>5
<1>9. \A q \in Reservations :
        \/ replacement'[q] = replacement[q]
        \/ /\ q \in Serial =>
                row[q].status = "rescheduled" /\ replacement[q] = {}
           /\ replacement'[q] = replacement[q] \cup {new}
           /\ q # new
           /\ q \in Serial => \A g \in Handlers : pc'[g] # "idle" => on[g] # q
  BY <1>4, <1>6, <1>7
<1> QED BY <1>3, <1>8, <1>9, InsertRowTurn

LEMMA LoadTurn ==
  ASSUME IInv, TurnsInv, NEW h \in Handlers, NEW op \in Loaded,
         NEW r \in Reservations, Load(h, op, r)
  PROVE  TurnsInv' /\ (\A q \in Serial : FollowsStateMachine(q))
<1>1. /\ pc[h] = "idle" /\ Allowed(op, r) /\ row' = row /\ replacement' = replacement
      /\ r \in Serial => \A g \in Handlers : pc[g] # "idle" => on[g] # r
  BY DEF Load, historyVars
<1>2. /\ pc'[h] = op /\ on'[h] = r
      /\ \A g \in Handlers : g # h => pc'[g] = pc[g] /\ on'[g] = on[g]
  BY DEF Load, IInv, TypeOK
<1>3. \A g, k \in Handlers :
        pc'[g] # "idle" /\ pc'[k] # "idle" /\ on'[g] = on'[k] /\ on'[g] \in Serial
          => g = k
  BY <1>1, <1>2 DEF TurnsInv, TurnsRely
<1>4. ASSUME NEW g \in Handlers, on'[g] \in Serial
      PROVE  /\ pc'[g] \in Loaded => Allowed(pc'[g], on'[g])
             /\ pc'[g] = "insertReplacement" =>
                  row[on'[g]].status = "rescheduled" /\ replacement[on'[g]] = {}
  <2>1. CASE g = h
    BY <1>1, <1>2, <2>1 DEF Loaded
  <2>2. CASE g # h
    BY <1>2, <1>4, <2>2 DEF TurnsInv, TurnsRely
  <2> QED BY <2>1, <2>2
<1>5. TurnsRely'
  BY <1>1, <1>3, <1>4 DEF TurnsRely, Allowed
<1> QED BY <1>1, <1>5 DEF TurnsInv, ReturnedOvertimeWasApproved,
           ReplacedOnceAndGivenUp, FollowsStateMachine

LEMMA TurnsNext ==
  IInv /\ TurnsInv /\ [Next]_vars =>
    TurnsInv' /\ (\A q \in Serial : FollowsStateMachine(q))
<1> SUFFICES ASSUME IInv, TurnsInv, [Next]_vars
             PROVE  TurnsInv' /\ (\A q \in Serial : FollowsStateMachine(q))
  OBVIOUS
<1> DEFINE Goal == TurnsInv' /\ (\A q \in Serial : FollowsStateMachine(q))
<1>1. ASSUME NEW r \in Created, Create(r) PROVE Goal
  <2>1. r \in Reservations
    BY ReservationsAssumption
  <2> QED BY <1>1, <2>1, InsertRowTurn DEF Create, handlerVars, historyVars
<1>2. ASSUME NEW h \in Handlers, Handle(h) PROVE Goal
  <2>1. CASE Approve(h) \/ Release(h) \/ Occupy(h) \/ Cancel(h)
    BY <2>1, WriteTurn DEF Approve, Release, Occupy, Cancel
  <2>2. CASE AskApproval(h)
    BY <2>2, QuietTurn DEF AskApproval, historyVars
  <2>3. CASE GrantRows(h)
    BY <2>3, QuietTurn DEF GrantRows, historyVars
  <2> QED BY <1>2, <2>1, <2>2, <2>3, RenewTurn, ReturnInTimeTurn,
             ReturnLateTurn, RescheduleOldTurn, RescheduleNewTurn,
             ApproveOvertimeTurn
             DEF Handle
<1>3. ASSUME NEW h \in Handlers, Fail(h) PROVE Goal
  BY <1>3, QuietTurn DEF Fail
<1>4. ASSUME UNCHANGED <<row, replacement, pc, on>> PROVE Goal
  BY <1>4 DEF TurnsInv, TurnsRely, ReturnedOvertimeWasApproved,
     ReplacedOnceAndGivenUp, FollowsStateMachine, Allowed
<1>5. CASE Next
  BY <1>1, <1>2, <1>3, <1>4, <1>5, LoadTurn
     DEF Next, DecideRowElsewhere, handlerVars, historyVars
<1> QED BY <1>4, <1>5 DEF vars

\* What handlers that take turns rely on holds in every reachable state.
THEOREM TurnsInvariance == Spec => []TurnsInv
BY InvInit, InvNext, TurnsInit, TurnsNext, PTL DEF Spec

\* No overtime beyond the grace is forgotten: it waits or was approved, what
\* waits was asked for, and where handlers take turns no reservation counts as
\* returned before its overtime was approved.
THEOREM OvertimeIsNotForgotten == Spec => []OvertimeHolds
<1>1. IInv /\ TurnsInv => OvertimeHolds
  BY DEF IInv, TurnsInv, OvertimeHolds
<1> QED BY <1>1, Invariance, TurnsInvariance, PTL

\* A rescheduled reservation is replaced, but for a crash in between, and where
\* handlers take turns by one other only, once it has itself been given up.
THEOREM ReschedulingReplaces == Spec => []ReschedulingHolds
<1>1. IInv /\ TurnsInv => ReschedulingHolds
  BY DEF IInv, TurnsInv, ReschedulingHolds
<1> QED BY <1>1, Invariance, TurnsInvariance, PTL

\* Where handlers take turns on a reservation, every change of its status is one
\* the state machine has, failures between two writes included.
THEOREM TurnsKeepToStateMachine == Spec => TurnsFollowStateMachine
<1>1. IInv /\ TurnsInv /\ [Next]_vars => [\A r \in Serial : FollowsStateMachine(r)]_vars
  BY TurnsNext
<1> QED BY <1>1, Invariance, TurnsInvariance, PTL DEF Spec, TurnsFollowStateMachine
===============================================================================
