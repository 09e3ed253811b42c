------------------------------- MODULE Approvals -------------------------------
(***************************************************************************)
(* The approvals of one event and what they do to its budget               *)
(* (approvals/service.js).                                                 *)
(*                                                                         *)
(* A decision reads the row, checks it in memory and writes by id; what an *)
(* approval changes in the event is a statement of its own after that. No  *)
(* transaction holds the three together. The audit entry that ends every   *)
(* handler touches nothing else and is left out.                           *)
(***************************************************************************)
EXTENDS Integers, FiniteSets

CONSTANTS
  Approvals,      \* ids of rows of approvals, in use or not yet
  Users,
  Handlers,       \* requests being served at the same time
  Amounts,        \* amounts of money
  Dual,           \* values of requires_second_approval a caller may pass
  Serial,         \* the approvals whose handlers never overlap in time
  None            \* no user, no approval

ASSUME ApprovalsAssumption ==
  /\ Dual \subseteq BOOLEAN /\ Serial \subseteq Approvals
  /\ None \notin Users /\ None \notin Approvals

VARIABLES
  approval,       \* the table approvals
  event,          \* the event's budget_cap and budget_amount
  pc,             \* where each handler is
  on,             \* the approval each handler works on
  who,            \* the user each handler works for
  signed,         \* the users whose approval has been written (history)
  applied,        \* how often each approval has changed the event (history)
  start,          \* what the event's budget was at first (history)
  cutShort        \* approvals whose handler died before the effect (history)

vars == <<approval, event, pc, on, who, signed, applied, start, cutShort>>
handlerVars == <<pc, on, who>>
historyVars == <<signed, applied, start, cutShort>>

Kinds == {"budget_override", "budget_change", "other"}
Approval == [status : {"absent", "pending", "approved", "rejected"},
             kind : Kinds,                     \* approval_type
             by : Users \cup {None},           \* requested_by
             first : Users \cup {None},        \* first_approver_id
             second : Users \cup {None},       \* second_approver_id
             dual : BOOLEAN,                   \* requires_second_approval
             amount : Amounts \cup {None}]     \* new_amount
Event == [cap : Amounts, budget : Amounts]

\* Handlers about to write a decision, named for what they will write. Which
\* one it is was settled when they read the row.
Signing == {"signFirst", "signOnly", "signSecond"}
Rejecting == {"rejectFirst", "rejectSecond"}
Deciding == Signing \cup Rejecting

Goto(h, place) ==
  /\ pc' = [pc EXCEPT ![h] = place]
  /\ UNCHANGED <<on, who>>
Done(h) ==
  /\ pc' = [pc EXCEPT ![h] = "idle"]
  /\ on' = [on EXCEPT ![h] = None]
  /\ who' = [who EXCEPT ![h] = None]
-------------------------------------------------------------------------------
Init ==
  /\ approval = [a \in Approvals |-> [status |-> "absent", kind |-> "other",
                   by |-> None, first |-> None, second |-> None,
                   dual |-> FALSE, amount |-> None]]
  /\ event \in Event
  /\ start = event
  /\ pc = [h \in Handlers |-> "idle"]
  /\ on = [h \in Handlers |-> None]
  /\ who = [h \in Handlers |-> None]
  /\ signed = [a \in Approvals |-> {}]
  /\ applied = [a \in Approvals |-> 0]
  /\ cutShort = {}

\* approvalsRepo.create
Insert(a, kind, u, d, m) ==
  /\ approval[a].status = "absent"
  /\ approval' = [approval EXCEPT ![a] = [status |-> "pending", kind |-> kind,
                    by |-> u, first |-> None, second |-> None,
                    dual |-> d, amount |-> m]]

\* createApproval, on behalf of a budget change or a resource request. (The
\* amounts of other kinds are not money of the event.)
CreateApproval(a) ==
  /\ \E kind \in Kinds, u \in Users, d \in Dual, m \in Amounts :
       Insert(a, kind, u, d, IF kind = "other" THEN None ELSE m)
  /\ UNCHANGED <<event, handlerVars, historyVars>>

\* Mutants of LoadToApprove: one signature will do; a decided approval can be
\* approved again.
LoadToApprove_SignsTwice(h, u, a) ==
  LET row == approval[a] IN
  /\ pc[h] = "idle"
  /\ a \in Serial => \A g \in Handlers : on[g] # a
  /\ row.status = "pending"
  /\ row.by # u
  /\ pc' = [pc EXCEPT ![h] = IF row.first # None THEN "signSecond"
                             ELSE IF row.dual THEN "signFirst" ELSE "signOnly"]
  /\ on' = [on EXCEPT ![h] = a]
  /\ who' = [who EXCEPT ![h] = u]
  /\ UNCHANGED <<approval, event, historyVars>>
LoadToApprove_AnyStatus(h, u, a) ==
  LET row == approval[a] IN
  /\ pc[h] = "idle"
  /\ a \in Serial => \A g \in Handlers : on[g] # a
  /\ row.status # "absent"
  /\ row.by # u
  /\ row.first # u
  /\ pc' = [pc EXCEPT ![h] = IF row.first # None THEN "signSecond"
                             ELSE IF row.dual THEN "signFirst" ELSE "signOnly"]
  /\ on' = [on EXCEPT ![h] = a]
  /\ who' = [who EXCEPT ![h] = u]
  /\ UNCHANGED <<approval, event, historyVars>>

\* approveApproval up to its UPDATE: the checks, and which columns to write.
\* A check that fails ends the handler and leaves no trace.
LoadToApprove(h, u, a) ==
  LET row == approval[a] IN
  /\ pc[h] = "idle"
  /\ a \in Serial => \A g \in Handlers : on[g] # a
  /\ row.status = "pending"
  /\ row.by # u
  /\ row.first # u
  /\ pc' = [pc EXCEPT ![h] = IF row.first # None THEN "signSecond"
                             ELSE IF row.dual THEN "signFirst" ELSE "signOnly"]
  /\ on' = [on EXCEPT ![h] = a]
  /\ who' = [who EXCEPT ![h] = u]
  /\ UNCHANGED <<approval, event, historyVars>>

\* rejectApproval up to its UPDATE.
LoadToReject(h, u, a) ==
  LET row == approval[a] IN
  /\ pc[h] = "idle"
  /\ a \in Serial => \A g \in Handlers : on[g] # a
  /\ row.status = "pending"
  /\ pc' = [pc EXCEPT ![h] = IF row.first = None THEN "rejectFirst"
                             ELSE "rejectSecond"]
  /\ on' = [on EXCEPT ![h] = a]
  /\ who' = [who EXCEPT ![h] = u]
  /\ UNCHANGED <<approval, event, historyVars>>

\* The row as the UPDATE of each kind of decision leaves it.
Signed(row, place, u) ==
  CASE place = "signFirst" -> [row EXCEPT !.first = u]
    [] place = "signOnly" -> [row EXCEPT !.first = u, !.status = "approved"]
    [] place = "signSecond" -> [row EXCEPT !.second = u, !.status = "approved"]
Rejected(row, place, u) ==
  IF place = "rejectFirst" THEN [row EXCEPT !.first = u, !.status = "rejected"]
                           ELSE [row EXCEPT !.second = u, !.status = "rejected"]

\* Mutant of Sign: the effects are forgotten.
Sign_NoEffect(h) ==
  LET a == on[h] IN
  /\ pc[h] \in Signing
  /\ approval' = [approval EXCEPT ![a] = Signed(@, pc[h], who[h])]
  /\ signed' = [signed EXCEPT ![a] = @ \cup {who[h]}]
  /\ Done(h)
  /\ UNCHANGED <<event, applied, start, cutShort>>

\* The UPDATE of approveApproval. It returns the row, and when that row says
\* approved the effects follow: even when it was another handler that made it so.
Sign(h) ==
  LET a == on[h]
      row == Signed(approval[a], pc[h], who[h]) IN
  /\ pc[h] \in Signing
  /\ approval' = [approval EXCEPT ![a] = row]
  /\ signed' = [signed EXCEPT ![a] = @ \cup {who[h]}]
  /\ IF row.status = "approved" /\ row.kind # "other"
     THEN Goto(h, "apply") ELSE Done(h)
  /\ UNCHANGED <<event, applied, start, cutShort>>

\* The UPDATE of rejectApproval.
Reject(h) ==
  LET a == on[h] IN
  /\ pc[h] \in Rejecting
  /\ approval' = [approval EXCEPT ![a] = Rejected(@, pc[h], who[h])]
  /\ Done(h)
  /\ UNCHANGED <<event, historyVars>>

\* handleApprovalSideEffects: the event takes the new amount.
Apply(h) ==
  LET a == on[h] IN
  /\ pc[h] = "apply"
  /\ event' = IF approval[a].kind = "budget_override"
              THEN [event EXCEPT !.cap = approval[a].amount]
              ELSE [event EXCEPT !.budget = approval[a].amount]
  /\ applied' = [applied EXCEPT ![a] = @ + 1]
  /\ Done(h)
  /\ UNCHANGED <<approval, signed, start, cutShort>>

\* A database call throws or the process dies; nothing is rolled back.
Fail(h) ==
  /\ pc[h] # "idle"
  /\ cutShort' = IF pc[h] = "apply" THEN cutShort \cup {on[h]} ELSE cutShort
  /\ Done(h)
  /\ UNCHANGED <<approval, event, signed, applied, start>>

Next ==
  \/ \E a \in Approvals : CreateApproval(a)
  \/ \E h \in Handlers : Sign(h) \/ Reject(h) \/ Apply(h) \/ Fail(h)
  \/ \E h \in Handlers, u \in Users, a \in Approvals :
       LoadToApprove(h, u, a) \/ LoadToReject(h, u, a)

Spec == Init /\ [][Next]_vars
-------------------------------------------------------------------------------
\* Every variable stays within its type.
TypeOK ==
  /\ approval \in [Approvals -> Approval]
  /\ event \in Event /\ start \in Event
  /\ pc \in [Handlers -> Deciding \cup {"idle", "apply"}]
  /\ on \in [Handlers -> Approvals \cup {None}]
  /\ who \in [Handlers -> Users \cup {None}]
  /\ signed \in [Approvals -> SUBSET Users]
  /\ applied \in [Approvals -> Nat]
  /\ cutShort \in SUBSET Approvals

\* Nobody's request is approved by a signature of their own, however the
\* signatures of others overlap with it.
NobodySignsTheirOwn == \A a \in Approvals : approval[a].by \notin signed[a]

\* An approval that is approved, or has had its effect, was signed, and when it
\* takes a second signature then two different people have signed it.
SignedByEnough ==
  \A a \in Approvals :
    approval[a].status = "approved" \/ applied[a] > 0 =>
      \E u \in signed[a] :
        approval[a].dual => \E v \in signed[a] : u # v

\* The budget and the cap of the event are what they were at first, or what an
\* approval of that kind gave: no decision that was not approved leaks in.
BudgetHasItsApproval ==
  LET Given(kind, m) ==
        \E a \in Approvals : /\ applied[a] > 0 /\ approval[a].kind = kind
                             /\ approval[a].amount = m
  IN /\ event.budget = start.budget \/ Given("budget_change", event.budget)
     /\ event.cap = start.cap \/ Given("budget_override", event.cap)

\* An approved change of the budget has reached the event, unless its handler
\* is on its way there or died between the two writes.
ApprovedTakesEffect ==
  \A a \in Approvals :
    approval[a].status = "approved" /\ approval[a].kind # "other" =>
      \/ applied[a] > 0
      \/ \E h \in Handlers : on[h] = a /\ pc[h] = "apply"
      \/ a \in cutShort

\* What a handler relies on between its read and its writes.
HandlersRely ==
  /\ \A a \in Approvals :
       /\ approval[a].status = "absent" => signed[a] = {} /\ applied[a] = 0
       /\ approval[a].status # "absent" => approval[a].by \in Users
       /\ approval[a].kind # "other" => approval[a].amount \in Amounts
       /\ approval[a].first # None =>
            \/ approval[a].first \in signed[a]
            \/ approval[a].status # "pending"
  /\ \A h \in Handlers : pc[h] # "idle" =>
       LET row == approval[on[h]] IN
       /\ on[h] \in Approvals /\ who[h] \in Users
       /\ row.status # "absent"
       /\ pc[h] \in Signing => who[h] # row.by
       /\ pc[h] = "signOnly" => ~row.dual
       /\ pc[h] = "signSecond" =>
            \E u \in signed[on[h]] : u # who[h]
       /\ pc[h] = "apply" =>
            \E u \in signed[on[h]] :
              row.dual => \E v \in signed[on[h]] : u # v
       /\ pc[h] = "apply" => row.kind # "other"

\* The inductive invariant of the proofs.
IInv ==
  /\ TypeOK /\ HandlersRely
  /\ NobodySignsTheirOwn /\ SignedByEnough
  /\ BudgetHasItsApproval /\ ApprovedTakesEffect
\* The four-eyes rules hold, and every variable stays within its type.
SignaturesHold == TypeOK /\ NobodySignsTheirOwn /\ SignedByEnough

\* What is approved has its effect, and nothing else has.
EffectsHold == BudgetHasItsApproval /\ ApprovedTakesEffect
-------------------------------------------------------------------------------
\* What handlers that take turns rely on: each has its approval to itself, one
\* that is to decide finds it pending, and one that is to apply it finds it
\* approved and without an effect so far.
TurnsInv ==
  /\ \A g, h \in Handlers : on[g] = on[h] /\ on[g] \in Serial => g = h
  /\ \A h \in Handlers : on[h] \in Serial =>
       /\ pc[h] \in Deciding => approval[on[h]].status = "pending"
       /\ pc[h] = "apply" =>
            approval[on[h]].status = "approved" /\ applied[on[h]] = 0
  /\ \A a \in Serial : approval[a].status # "approved" => applied[a] = 0

\* When the handlers of an approval take turns, a decision is final, its effect
\* comes at most once, and only an approval has one.
DecidedOnce ==
  [][\A a \in Serial :
       /\ approval[a].status \in {"approved", "rejected"} =>
            approval'[a] = approval[a]
       /\ applied'[a] # applied[a] =>
            applied[a] = 0 /\ approval[a].status = "approved"]_vars

===============================================================================
