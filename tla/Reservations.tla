----------------------------- MODULE Reservations -----------------------------
(***************************************************************************)
(* The reservations of one event (reservations/service.js).                *)
(*                                                                         *)
(* Every operation loads the row, checks its status in memory, and then    *)
(* writes by id without a transaction: a handler may write long after the  *)
(* check it relies on. Returning late, rescheduling and approving overtime *)
(* write twice, to two rows or two tables. The audit entry that ends every *)
(* handler touches nothing else and is left out.                           *)
(***************************************************************************)
EXTENDS Integers

CONSTANTS
  Reservations,   \* ids of rows of reservations, in use or not yet
  Created,        \* bound: the ids POST may take; rescheduling takes any
  Handlers,       \* requests being served at the same time
  Ends,           \* the scheduled ends a row may have, in half hours
  ActualEnds,     \* the actual ends a return may name, in half hours
  Grace,          \* overtime up to this needs no approval (30 minutes)
  MaxRows,        \* bound: overtime approval rows per reservation
  Serial,         \* the rows whose handlers never overlap in time
  None            \* what a handler that serves nobody works on

ASSUME ReservationsAssumption ==
  /\ Ends \subseteq Nat /\ ActualEnds \subseteq Nat
  /\ Grace \in Nat /\ MaxRows \in Nat
  /\ Serial \subseteq Reservations
  /\ None \notin Reservations
  /\ Created \subseteq Reservations

VARIABLES
  row,            \* the table reservations
  asked,          \* overtime rows of approvals: how many wait for a decision
  granted,        \* ... how many approveOvertime has approved
  decided,        \* ... and how many the approvals module has decided
  pc,             \* where each handler is
  on,             \* the reservation each handler works on
  over,           \* overtimeMinutes, as a return computed it
  been,           \* the stages of use each reservation has had (history)
  replacement,    \* the rows made by rescheduling each row (history)
  cutShort        \* rows whose handler died between two writes (history)

vars == <<row, asked, granted, decided, pc, on, over, been, replacement, cutShort>>
handlerVars == <<pc, on, over>>
approvalVars == <<asked, granted, decided>>
historyVars == <<been, replacement, cutShort>>

Status == {"absent", "requested", "approved", "released", "occupied",
           "returned", "cancelled", "rescheduled"}
Final == {"returned", "cancelled", "rescheduled"}
Live == Status \ (Final \cup {"absent"})
Stages == {"approved", "released", "occupied"}

Row == [status : Status,          \* status; "absent" before the INSERT
        end : Ends,              \* scheduled_end_at
        overtime : Nat,           \* overtime_minutes
        pending : BOOLEAN,        \* overtime_pending_approval
        approved : BOOLEAN]       \* overtime_approved_by and _at are set

\* Handlers between their load and their first write, one place for each
\* operation, and those between their first and their second write.
Loaded == {"approve", "release", "occupy", "returnInTime", "returnLate",
           "cancel", "reschedule", "renew", "approveOvertime"}
HalfDone == {"askApproval", "insertReplacement", "grantRows"}

\* The check each operation makes on the row it has loaded.
Allowed(op, r) ==
  CASE op = "approve" -> row[r].status = "requested"
    [] op = "release" -> row[r].status = "approved"
    [] op = "occupy" -> row[r].status = "released"
    [] op \in {"returnInTime", "returnLate"} -> row[r].status = "occupied"
    [] op \in {"cancel", "reschedule", "renew"} -> row[r].status \in Live
    [] op = "approveOvertime" -> row[r].pending

\* max(0, actual end - scheduled end)
Overtime(r, actualEnd) ==
  IF actualEnd > row[r].end THEN actualEnd - row[r].end ELSE 0

\* The handler goes on to another place, or is done and forgets its locals.
Goto(h, place) ==
  /\ pc' = [pc EXCEPT ![h] = place]
  /\ UNCHANGED <<on, over>>
Done(h) ==
  /\ pc' = [pc EXCEPT ![h] = "idle"]
  /\ on' = [on EXCEPT ![h] = None]
  /\ over' = [over EXCEPT ![h] = 0]

\* reservationsRepo.update(id, { status }).
SetStatus(r, status) ==
  /\ row' = [row EXCEPT ![r].status = status]
  /\ been' = [been EXCEPT ![r] = @ \cup ({status} \cap Stages)]
-------------------------------------------------------------------------------
Init ==
  /\ \E t \in Ends :
       row = [r \in Reservations |-> [status |-> "absent", end |-> t,
                overtime |-> 0, pending |-> FALSE, approved |-> FALSE]]
  /\ asked = [r \in Reservations |-> 0]
  /\ granted = [r \in Reservations |-> 0]
  /\ decided = [r \in Reservations |-> 0]
  /\ pc = [h \in Handlers |-> "idle"]
  /\ on = [h \in Handlers |-> None]
  /\ over = [h \in Handlers |-> 0]
  /\ been = [r \in Reservations |-> {}]
  /\ replacement = [r \in Reservations |-> {}]
  /\ cutShort = {}

\* A new row, asked for by itself or to replace a rescheduled one.
InsertRow(r) ==
  /\ row[r].status = "absent"
  /\ \E t \in Ends : row' = [row EXCEPT ![r] = [status |-> "requested",
                        end |-> t, overtime |-> 0, pending |-> FALSE,
                        approved |-> FALSE]]

Create(r) ==
  /\ InsertRow(r)
  /\ UNCHANGED <<approvalVars, handlerVars, historyVars>>

\* loadReservation and the check of the status. A check that fails ends the
\* handler with an error and leaves no trace. A return also computes the
\* overtime from the row it has loaded, and with that decides what to write.
Load(h, op, r) ==
  /\ pc[h] = "idle"
  /\ r \in Serial => \A g \in Handlers : pc[g] # "idle" => on[g] # r
  /\ Allowed(op, r)
  /\ IF op \in {"returnInTime", "returnLate"}
     THEN \E t \in ActualEnds : LET late == Overtime(r, t) IN
            /\ (op = "returnLate") <=> (late > Grace)
            /\ over' = [over EXCEPT ![h] = late]
     ELSE over' = over
  /\ pc' = [pc EXCEPT ![h] = op]
  /\ on' = [on EXCEPT ![h] = r]
  /\ UNCHANGED <<row, approvalVars, historyVars>>

\* approve, release, occupy and cancel only set the status.
Write(h, op, status) ==
  /\ pc[h] = op
  /\ SetStatus(on[h], status)
  /\ Done(h)
  /\ UNCHANGED <<approvalVars, replacement, cutShort>>

\* Mutant of Release: records the occupancy as well.
Release_SetsOccupied(h) == Write(h, "release", "occupied")

Approve(h) == Write(h, "approve", "approved")
Release(h) == Write(h, "release", "released")
Occupy(h) == Write(h, "occupy", "occupied")
Cancel(h) == Write(h, "cancel", "cancelled")

\* Overtime within the grace: returned. The pending flag is left as it is.
ReturnInTime(h) ==
  LET r == on[h] IN
  /\ pc[h] = "returnInTime"
  /\ row' = [row EXCEPT ![r] = [@ EXCEPT !.status = "returned",
                                         !.overtime = over[h]]]
  /\ Done(h)
  /\ UNCHANGED <<approvalVars, historyVars>>

\* Mutant of ReturnLate: asks for no approval.
ReturnLate_AsksNobody(h) ==
  LET r == on[h] IN
  /\ pc[h] = "returnLate"
  /\ row' = [row EXCEPT ![r] = [@ EXCEPT !.overtime = over[h], !.pending = TRUE]]
  /\ Done(h)
  /\ UNCHANGED <<approvalVars, historyVars>>
\* Overtime beyond the grace: the row is marked, its status is left as it is,
\* and a second statement asks for an approval of the event.
ReturnLate(h) ==
  LET r == on[h] IN
  /\ pc[h] = "returnLate"
  /\ row' = [row EXCEPT ![r] = [@ EXCEPT !.overtime = over[h], !.pending = TRUE]]
  /\ Goto(h, "askApproval")
  /\ UNCHANGED <<approvalVars, historyVars>>

AskApproval(h) ==
  LET r == on[h] IN
  /\ pc[h] = "askApproval"
  /\ asked[r] + granted[r] + decided[r] < MaxRows
  /\ asked' = [asked EXCEPT ![r] = @ + 1]
  /\ Done(h)
  /\ UNCHANGED <<row, granted, decided, historyVars>>

\* Mutant of RescheduleOld: no replacement.
RescheduleOld_Only(h) ==
  /\ pc[h] = "reschedule"
  /\ SetStatus(on[h], "rescheduled")
  /\ Done(h)
  /\ UNCHANGED <<approvalVars, replacement, cutShort>>
\* The old row first, then the new one.
RescheduleOld(h) ==
  /\ pc[h] = "reschedule"
  /\ SetStatus(on[h], "rescheduled")
  /\ Goto(h, "insertReplacement")
  /\ UNCHANGED <<approvalVars, replacement, cutShort>>

RescheduleNew(h) ==
  /\ pc[h] = "insertReplacement"
  /\ \E new \in Reservations :
       /\ InsertRow(new)
       /\ replacement' = [replacement EXCEPT ![on[h]] = @ \cup {new}]
  /\ Done(h)
  /\ UNCHANGED <<approvalVars, been, cutShort>>

\* Mutant of Renew: the new end goes back to be approved.
Renew_AsksAgain(h) ==
  /\ pc[h] = "renew"
  /\ \E t \in Ends : row' = [row EXCEPT ![on[h]] = [@ EXCEPT !.end = t,
                                                     !.status = "requested"]]
  /\ Done(h)
  /\ UNCHANGED <<approvalVars, historyVars>>

Renew(h) ==
  /\ pc[h] = "renew"
  /\ \E t \in Ends : row' = [row EXCEPT ![on[h]].end = t]
  /\ Done(h)
  /\ UNCHANGED <<approvalVars, historyVars>>

\* Approving the overtime returns the reservation, whatever its status is...
ApproveOvertime(h) ==
  LET r == on[h] IN
  /\ pc[h] = "approveOvertime"
  /\ row' = [row EXCEPT ![r] = [@ EXCEPT !.status = "returned", !.pending = FALSE,
                                         !.approved = TRUE]]
  /\ Goto(h, "grantRows")
  /\ UNCHANGED <<approvalVars, historyVars>>

\* ... and then approves every pending overtime row of the event: the rows do
\* not say which reservation they are about.
GrantRows(h) ==
  /\ pc[h] = "grantRows"
  /\ granted' = [r \in Reservations |-> granted[r] + asked[r]]
  /\ asked' = [r \in Reservations |-> 0]
  /\ Done(h)
  /\ UNCHANGED <<row, decided, historyVars>>

\* A pending row is approved or rejected through the approvals module, which
\* does nothing to reservations.
DecideRowElsewhere(r) ==
  /\ asked[r] > 0
  /\ asked' = [asked EXCEPT ![r] = @ - 1]
  /\ decided' = [decided EXCEPT ![r] = @ + 1]
  /\ UNCHANGED <<row, granted, handlerVars, historyVars>>

\* A database call throws or the process dies; nothing is rolled back.
Fail(h) ==
  /\ pc[h] # "idle"
  /\ cutShort' = IF pc[h] \in HalfDone THEN cutShort \cup {on[h]} ELSE cutShort
  /\ Done(h)
  /\ UNCHANGED <<row, approvalVars, been, replacement>>

Handle(h) ==
  \/ Approve(h) \/ Release(h) \/ Occupy(h) \/ Cancel(h) \/ Renew(h)
  \/ ReturnInTime(h) \/ ReturnLate(h) \/ AskApproval(h)
  \/ RescheduleOld(h) \/ RescheduleNew(h)
  \/ ApproveOvertime(h) \/ GrantRows(h)

Next ==
  \/ \E r \in Created : Create(r)
  \/ \E r \in Reservations : DecideRowElsewhere(r)
  \/ \E h \in Handlers : Handle(h) \/ Fail(h)
  \/ \E h \in Handlers, op \in Loaded, r \in Reservations : Load(h, op, r)

Spec == Init /\ [][Next]_vars
-------------------------------------------------------------------------------
\* Every variable stays within its type.
TypeOK ==
  /\ row \in [Reservations -> Row]
  /\ asked \in [Reservations -> Nat]
  /\ granted \in [Reservations -> Nat]
  /\ decided \in [Reservations -> Nat]
  /\ pc \in [Handlers -> Loaded \cup HalfDone \cup {"idle"}]
  /\ on \in [Handlers -> Reservations \cup {None}]
  /\ over \in [Handlers -> Nat]
  /\ been \in [Reservations -> SUBSET Stages]
  /\ replacement \in [Reservations -> SUBSET Reservations]
  /\ cutShort \in SUBSET Reservations

At(h, r, place) == pc[h] = place /\ on[h] = r

\* No resource is handed out that was not approved, used that was not handed
\* out, or given back that was not used, however late a handler writes.
UseWasApproved ==
  \A r \in Reservations :
    /\ "released" \in been[r] => "approved" \in been[r]
    /\ "occupied" \in been[r] => "released" \in been[r]
    /\ row[r].status \in Stages => row[r].status \in been[r]
    /\ row[r].status = "returned" => "occupied" \in been[r]

\* Overtime beyond the grace stays marked as waiting until somebody has
\* approved it, whichever of two overlapping returns writes last.
OvertimeIsAnsweredFor ==
  \A r \in Reservations :
    row[r].overtime > Grace => row[r].pending \/ row[r].approved

\* A reservation whose overtime waits has had an approval asked for, unless its
\* handler is on its way to ask or died between the two writes.
PendingWasAsked ==
  \A r \in Reservations :
    row[r].pending =>
      \/ asked[r] + granted[r] + decided[r] > 0
      \/ \E h \in Handlers : At(h, r, "askApproval")
      \/ r \in cutShort

\* A rescheduled reservation has a replacement, unless its handler is on its
\* way to insert it or died between the two writes: there is no transaction.
RescheduledIsReplaced ==
  \A r \in Reservations :
    row[r].status = "rescheduled" =>
      \/ replacement[r] # {}
      \/ \E h \in Handlers : At(h, r, "insertReplacement")
      \/ r \in cutShort

\* What a handler still relies on when it writes.
HandlersRely ==
  /\ \A r \in Reservations :
       row[r].pending => "occupied" \in been[r] /\ row[r].status # "absent"
  /\ \A h \in Handlers :
       /\ pc[h] # "idle" =>
            on[h] \in Reservations /\ row[on[h]].status # "absent"
       /\ pc[h] = "release" => "approved" \in been[on[h]]
       /\ pc[h] = "occupy" => "released" \in been[on[h]]
       /\ pc[h] \in {"returnInTime", "returnLate", "approveOvertime"} =>
            "occupied" \in been[on[h]]
       /\ pc[h] = "returnInTime" => over[h] <= Grace

\* The inductive invariant of the proofs.
IInv ==
  /\ TypeOK /\ HandlersRely
  /\ UseWasApproved /\ OvertimeIsAnsweredFor
  /\ PendingWasAsked /\ RescheduledIsReplaced
\* Resources are used in order, and every variable stays within its type.
UseHolds == TypeOK /\ UseWasApproved
-------------------------------------------------------------------------------
\* The rest is about handlers that take turns on a reservation.

\* The order in which a status may change. A reservation that waits for an
\* overtime approval may be returned by it, from wherever it has got to.
MayBecome(r, status) ==
  CASE status = "requested" -> row[r].status = "absent"
    [] status = "approved" -> row[r].status = "requested"
    [] status = "released" -> row[r].status = "approved"
    [] status = "occupied" -> row[r].status = "released"
    [] status \in {"cancelled", "rescheduled"} -> row[r].status \in Live
    [] status = "returned" -> row[r].status = "occupied" \/ row[r].pending

FollowsStateMachine(r) ==
  row'[r].status # row[r].status => MayBecome(r, row'[r].status)

\* Handlers that take turns keep to the state machine, failures included.
TurnsFollowStateMachine == [][\A r \in Serial : FollowsStateMachine(r)]_vars

\* A returned reservation with overtime beyond the grace has its approval.
ReturnedOvertimeWasApproved ==
  \A r \in Serial :
    row[r].status = "returned" /\ row[r].overtime > Grace => row[r].approved

\* Rescheduling gives a resource to one reservation in place of another: never
\* more than one replacement, and never while the old one is in use.
ReplacedOnceAndGivenUp ==
  \A r \in Serial :
    /\ \A new1, new2 \in replacement[r] : new1 = new2
    /\ replacement[r] # {} => row[r].status \in {"rescheduled", "returned"}

\* What handlers that take turns rely on: each has its row to itself, the check
\* it made still holds when it writes, and a replacement is only inserted for a
\* row that is given up and has none.
TurnsRely ==
  /\ \A g, h \in Handlers :
       pc[g] # "idle" /\ pc[h] # "idle" /\ on[g] = on[h] /\ on[g] \in Serial => g = h
  /\ \A h \in Handlers :
       on[h] \in Serial =>
         /\ pc[h] \in Loaded => Allowed(pc[h], on[h])
         /\ pc[h] = "insertReplacement" =>
              row[on[h]].status = "rescheduled" /\ replacement[on[h]] = {}

\* The inductive invariant of handlers that take turns, on top of IInv.
TurnsInv == TurnsRely /\ ReturnedOvertimeWasApproved /\ ReplacedOnceAndGivenUp

\* Overtime is not forgotten, by one handler or by several.
OvertimeHolds ==
  OvertimeIsAnsweredFor /\ PendingWasAsked /\ ReturnedOvertimeWasApproved

\* Rescheduling leaves one reservation in place of another.
ReschedulingHolds == RescheduledIsReplaced /\ ReplacedOnceAndGivenUp
===============================================================================
