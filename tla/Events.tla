-------------------------------- MODULE Events --------------------------------
(***************************************************************************)
(* One event: its states, its budget and what its approval sets off        *)
(* (events/service.js), together with its approvals (module Approvals).    *)
(*                                                                         *)
(* The handlers of PATCH /events/:id and PATCH /events/:id/state read the  *)
(* event, check it in memory, and write by id a few statements later. In   *)
(* between, other handlers and the decisions on approvals run. The audit   *)
(* entries touch nothing else and are left out.                            *)
(***************************************************************************)
EXTENDS Integers, FiniteSets, Sequences

CONSTANTS
  Approvals, Users, Handlers, Amounts, Dual, Serial, None,  \* see Approvals
  Creator,        \* the user who created the event, events.created_by
  Editors,        \* requests on the event being served at the same time
  SystemCap,      \* DEFAULT_BUDGET_CAP
  Rules,          \* active rules of entitlement_issuance_rules
  MaxEdits,       \* bound: updates of the event that are ever tried
  MaxIssued       \* bound: entitlements issued for a rule

ASSUME EventsAssumption ==
  /\ Amounts \subseteq Nat /\ SystemCap \in Nat /\ MaxEdits \in Nat /\ MaxIssued \in Nat
  /\ None \notin Amounts \cup Approvals /\ Creator \in Users

VARIABLES
  approval, event, pc, on, who, signed, applied, start, cutShort, \* Approvals
  state,          \* events.state
  revisions,      \* event_budget_revisions; revision_no is the position
  issued,         \* entitlements issued for each rule
  task,           \* what each editor is doing, with its locals
  edits,          \* updates tried so far, for the bound
  reached,        \* the states the event has been in (history)
  overlapped      \* two editors have been at work at once (history)

approvalVars == <<approval, pc, on, who, signed, applied, start, cutShort>>
reviewVars == <<event, approvalVars>>
lifeVars == <<state, issued, reached>>
historyVars == <<edits, overlapped>>
vars == <<reviewVars, lifeVars, revisions, task, historyVars>>

Reviews == INSTANCE Approvals

States == <<"draft", "submitted", "approved", "in_service", "closed">>
StateSet == {States[i] : i \in DOMAIN States}
\* STATE_TRANSITIONS
Transitions == {<<States[i], States[i + 1]>> : i \in 1..4}

Revision == [old : Amounts, new : Amounts, approval : Approvals \cup {None}]

\* A handler of the event: where it is, and its locals. It has read budget and
\* is to set the cap and the amount, or (to) the state. An amount that waits
\* for an approval is out of the update: only its revision still names it.
Places == {"idle", "override", "revise", "ask", "record", "write",
           "checkPending", "setState", "issue"}
Task == [at : Places,
         cap : Amounts \cup {None},       \* updateData.budget_cap
         amount : Amounts \cup {None},    \* updateData.budget_amount
         new : Amounts \cup {None},       \* newBudget, when it is a change
         draft : BOOLEAN,                 \* the event was read as a draft
         base : Amounts \cup {None},      \* the budget read, then baseBudget
         no : Nat,                        \* nextRevisionNo
         asked : Approvals \cup {None},   \* approvalId
         to : StateSet \cup {None},       \* newState
         rules : SUBSET Rules]            \* rules still to be issued
Idle == [at |-> "idle", cap |-> None, amount |-> None, new |-> None,
         draft |-> FALSE, base |-> None, no |-> 0, asked |-> None, to |-> None,
         rules |-> {}]

Become(h, t) == task' = [task EXCEPT ![h] = t]
Goto(h, place) == Become(h, [task[h] EXCEPT !.at = place])
Done(h) == Become(h, Idle)
\* A request of the event arrives while others may be at work on it.
Start(h, t) ==
  /\ task[h] = Idle
  /\ Become(h, t)
  /\ overlapped' = (overlapped \/ \E g \in Editors : task[g] # Idle)

Enough(a) ==
  \E u \in signed[a] : approval[a].dual => \E v \in signed[a] : u # v
Approved(a) == approval[a].status = "approved"
Overrides == {a \in Approvals : approval[a].kind = "budget_override"}

Abs(i) == IF i < 0 THEN -i ELSE i
\* changePercent > BUDGET_CHANGE_THRESHOLD_PERCENT
Exceeds(base, new) == base = 0 \/ 10 * Abs(new - base) > base
-------------------------------------------------------------------------------
\* The event has been created, as createEvent admits it.
Init ==
  /\ Reviews!Init
  /\ event.cap <= SystemCap /\ event.budget <= SystemCap
  /\ state = "draft"
  /\ revisions = <<>>
  /\ issued = [r \in Rules |-> 0]
  /\ task = [h \in Editors |-> Idle]
  /\ reached = {"draft"}
  /\ edits = 0
  /\ overlapped = FALSE

\* Mutant of LoadUpdate: an event in any state may be edited.
LoadUpdate_AnyState(h) ==
  /\ edits < MaxEdits /\ edits' = edits + 1
  /\ \E cap \in Amounts : Start(h, [Idle EXCEPT !.at = "write", !.cap = cap])
  /\ UNCHANGED <<reviewVars, lifeVars, revisions>>

\* updateEvent, by the creator, reads the event. The new cap and the new amount
\* go on to the checks that are due; a field that is not in the request is None.
LoadUpdate(h) ==
  /\ state \in {"draft", "submitted"}
  /\ edits < MaxEdits /\ edits' = edits + 1
  /\ \E cap, amount \in Amounts \cup {None} :
       LET changes == amount # None /\ amount # event.budget
           newCap == IF cap = None THEN event.cap ELSE cap
           raises == newCap > event.cap /\ newCap > SystemCap
           next == IF raises \/ (changes /\ amount > newCap) THEN "override"
                   ELSE IF changes /\ state # "draft" THEN "revise"
                   ELSE "write"
       IN Start(h, [Idle EXCEPT !.at = next, !.cap = cap, !.amount = amount,
                                !.new = IF changes THEN amount ELSE None,
                                !.draft = (state = "draft"),
                                !.base = event.budget])
  /\ UNCHANGED <<reviewVars, lifeVars, revisions>>

\* Mutant of CheckOverride: any override of the event will do.
CheckOverride_AnyStatus(h) ==
  /\ task[h].at = "override"
  /\ IF Overrides # {}
     THEN Goto(h, IF task[h].new # None /\ ~task[h].draft
                  THEN "revise" ELSE "write")
     ELSE Done(h)
  /\ UNCHANGED <<reviewVars, lifeVars, revisions, historyVars>>

\* A raise above the system cap and an amount above the cap need an approved
\* override of the event. (Both may read the approvals: one read stands for
\* the two.) Without one the handler ends in an error.
CheckOverride(h) ==
  /\ task[h].at = "override"
  /\ IF \E a \in Overrides : Approved(a)
     THEN Goto(h, IF task[h].new # None /\ ~task[h].draft
                  THEN "revise" ELSE "write")
     ELSE Done(h)
  /\ UNCHANGED <<reviewVars, lifeVars, revisions, historyVars>>

\* The change is measured against the last revision, whatever became of it.
Revise(h) ==
  LET count == Len(revisions)
      base == IF count > 0 THEN revisions[count].new ELSE task[h].base IN
  /\ task[h].at = "revise"
  /\ Become(h, [task[h] EXCEPT
       !.at = IF Exceeds(base, task[h].new) THEN "ask" ELSE "record",
       !.base = base,
       !.no = count + 1])
  /\ UNCHANGED <<reviewVars, lifeVars, revisions, historyVars>>

\* Beyond the threshold: ask for an approval, and leave the amount alone.
Ask(h) ==
  /\ task[h].at = "ask"
  /\ \E a \in Approvals :
       /\ Reviews!Insert(a, "budget_change", Creator, FALSE, task[h].new)
       /\ Become(h, [task[h] EXCEPT !.at = "record", !.amount = None,
                                    !.asked = a])
  /\ UNCHANGED <<event, pc, on, who, signed, applied, start, cutShort>>
  /\ UNCHANGED <<lifeVars, revisions, historyVars>>

\* The unique index on event and number admits the revision, or raises an
\* error: the approval asked for stays, and nothing else is written.
Record(h) ==
  /\ task[h].at = "record"
  /\ IF task[h].no = Len(revisions) + 1
     THEN /\ revisions' = Append(revisions,
               [old |-> task[h].base, new |-> task[h].new,
                approval |-> task[h].asked])
          /\ Goto(h, "write")
     ELSE Done(h) /\ UNCHANGED revisions
  /\ UNCHANGED <<reviewVars, lifeVars, historyVars>>

\* The UPDATE, by id: the state is not looked at again.
Write(h) ==
  LET t == task[h] IN
  /\ t.at = "write"
  /\ event' = [cap |-> IF t.cap = None THEN event.cap ELSE t.cap,
               budget |-> IF t.amount = None THEN event.budget ELSE t.amount]
  /\ Done(h)
  /\ UNCHANGED <<approvalVars, lifeVars, revisions, historyVars>>

\* Mutant of LoadTransition: any state may follow any other.
LoadTransition_Unchecked(h) ==
  /\ \E to \in StateSet \ {"draft", "approved"} :
       Start(h, [Idle EXCEPT !.at = "setState", !.to = to])
  /\ UNCHANGED <<reviewVars, lifeVars, revisions, edits>>

\* transitionState reads the event and checks the transition. What submission
\* and closing ask of windows, materials and reservations may change at any
\* time and concerns nothing else here: a request that fails it leaves no
\* trace.
LoadTransition(h) ==
  /\ \E to \in StateSet :
       /\ <<state, to>> \in Transitions
       /\ Start(h, [Idle EXCEPT
            !.at = IF to = "approved" THEN "checkPending" ELSE "setState",
            !.to = to])
  /\ UNCHANGED <<reviewVars, lifeVars, revisions, edits>>

\* validateApproval
CheckPending(h) ==
  /\ task[h].at = "checkPending"
  /\ IF \E a \in Approvals : approval[a].status = "pending"
     THEN Done(h) ELSE Goto(h, "setState")
  /\ UNCHANGED <<reviewVars, lifeVars, revisions, historyVars>>

\* updateState, by id; on approval the rules are then read.
SetState(h) ==
  LET to == task[h].to IN
  /\ task[h].at = "setState"
  /\ state' = to
  /\ reached' = reached \cup {to}
  /\ IF to = "approved" /\ Rules # {}
     THEN Become(h, [task[h] EXCEPT !.at = "issue", !.rules = Rules])
     ELSE Done(h)
  /\ UNCHANGED <<reviewVars, revisions, issued, historyVars>>

\* triggerEntitlementAutoIssuance: one entitlement for each rule.
Issue(h) ==
  /\ task[h].at = "issue"
  /\ \E r \in task[h].rules :
       /\ issued[r] < MaxIssued
       /\ issued' = [issued EXCEPT ![r] = @ + 1]
       /\ IF task[h].rules = {r} THEN Done(h)
          ELSE Become(h, [task[h] EXCEPT !.rules = @ \ {r}])
  /\ UNCHANGED <<reviewVars, state, reached, revisions, historyVars>>

\* A database call throws (where entitlements are issued, it is only logged),
\* or the process dies: nothing is rolled back.
Fail(h) ==
  /\ task[h] # Idle
  /\ Done(h)
  /\ UNCHANGED <<reviewVars, lifeVars, revisions, historyVars>>

\* An approval that this module does not ask for: of a special resource or a
\* quota, by POST .../resource-requests, or an override of the cap, for which
\* no route exists: its row is put in by other means.
RequestReview(a) ==
  /\ \E kind \in Reviews!Kinds \ {"budget_change"}, u \in Users, m \in Amounts :
       Reviews!Insert(a, kind, u, FALSE, IF kind = "other" THEN None ELSE m)
  /\ UNCHANGED <<event, pc, on, who, signed, applied, start, cutShort>>
  /\ UNCHANGED <<lifeVars, revisions, task, historyVars>>

\* The decisions on approvals, step by step.
Review ==
  /\ \/ \E h \in Handlers : \/ Reviews!Sign(h) \/ Reviews!Reject(h)
                            \/ Reviews!Apply(h) \/ Reviews!Fail(h)
     \/ \E h \in Handlers, u \in Users, a \in Approvals :
          Reviews!LoadToApprove(h, u, a) \/ Reviews!LoadToReject(h, u, a)
  /\ UNCHANGED <<lifeVars, revisions, task, historyVars>>

Edit(h) ==
  \/ LoadUpdate(h) \/ CheckOverride(h) \/ Revise(h) \/ Ask(h) \/ Record(h)
  \/ Write(h)
Transition(h) ==
  LoadTransition(h) \/ CheckPending(h) \/ SetState(h) \/ Issue(h)

Next ==
  \/ \E h \in Editors : Edit(h) \/ Transition(h) \/ Fail(h)
  \/ \E a \in Approvals : RequestReview(a)
  \/ Review

Spec == Init /\ [][Next]_vars
-------------------------------------------------------------------------------
\* Every variable stays within its type.
TypeOK ==
  /\ Reviews!TypeOK
  /\ state \in StateSet
  /\ revisions \in Seq(Revision)
  /\ issued \in [Rules -> Nat]
  /\ task \in [Editors -> Task]
  /\ reached \in SUBSET StateSet
  /\ edits \in Nat
  /\ overlapped \in BOOLEAN

\* No event is approved that was not submitted, put in service that was not
\* approved, or closed that was not in service, however late a handler writes;
\* and no entitlement is issued before an approval.
ReachedInOrder ==
  /\ \A t \in Transitions : t[2] \in reached => t[1] \in reached
  /\ state \in reached
  /\ \A r \in Rules : issued[r] > 0 => "approved" \in reached

\* The comment in updateEvent: "A caller cannot raise the cap above the system
\* ceiling unless an approved budget_override already exists for this event".
\* No overlap of edits and decisions takes the cap or the budget there without.
OverCapNeedsOverride ==
  event.cap > SystemCap \/ event.budget > SystemCap =>
    \E a \in Overrides : Enough(a)

\* A revision names the approval that its change needs, or none.
Named(old, new, a) ==
  IF Exceeds(old, new)
  THEN /\ a # None
       /\ approval[a].kind = "budget_change" /\ approval[a].amount = new
  ELSE a = None

\* The revisions tell one story, however edits overlap: each starts from the
\* amount the one before it named, and each that exceeds the threshold names
\* the approval that was asked for that amount.
RevisionsChain ==
  \A i \in 1..Len(revisions) : LET rev == revisions[i] IN
    /\ i > 1 => rev.old = revisions[i - 1].new
    /\ Named(rev.old, rev.new, rev.approval)

\* When edits take turns, an event is not approved while a change of its budget
\* waits for a decision, nor is such a change asked for later.
NoChangePendingOnceApproved ==
  ~overlapped /\ state \in {"approved", "in_service", "closed"} =>
    ~\E a \in Approvals : /\ approval[a].kind = "budget_change"
                          /\ approval[a].status = "pending"

\* When edits take turns, each rule issues at most once for the event.
IssuedOnce == ~overlapped => \A r \in Rules : issued[r] <= 1

\* When edits take turns, the state only goes forward, one step at a time, and
\* once the event is approved nothing but an approval changes its budget.
ForwardOnly ==
  [][~overlapped' =>
       /\ state' # state => <<state, state'>> \in Transitions
       /\ event' # event /\ state \in {"approved", "in_service", "closed"} =>
            \E a \in Approvals : applied'[a] > applied[a]]_vars

\* The life of the event, with what its approval sets off.
LifeHolds == TypeOK /\ ReachedInOrder /\ IssuedOnce

\* The budget of the event, its cap and the changes that are asked for.
BudgetHolds ==
  OverCapNeedsOverride /\ RevisionsChain /\ NoChangePendingOnceApproved
-------------------------------------------------------------------------------
\* An approval that names an amount beyond the system cap, asked for a change of
\* the budget, comes after an override; and an id not in use names nothing.
ApprovalsRely ==
  /\ Reviews!HandlersRely /\ Reviews!SignedByEnough
  /\ \A a \in Approvals :
       /\ approval[a].status = "absent" => approval[a].kind = "other"
       /\ approval[a].kind = "budget_change" /\ approval[a].amount > SystemCap =>
            \E b \in Overrides : Enough(b)

\* What a handler of the event relies on between its read and its write. What it
\* is to write beyond the system cap has its override. It measured a change
\* against the revision before the one it is to record, whatever edits there
\* were since. The state it is to set comes after one that was reached.
Relies(t) ==
  /\ t.at \in {"override", "revise", "ask", "record"} => t.base \in Amounts
  /\ t.at \in {"revise", "ask", "record"} => t.new \in Amounts
  /\ t.at \in {"revise", "ask", "record", "write"} =>
       \A m \in {t.cap, t.amount, t.new} \ {None} :
         m > SystemCap => \E a \in Overrides : Enough(a)
  /\ t.at \in {"override", "revise", "ask"} => t.asked = None
  /\ t.at \in {"ask", "record"} =>
       /\ t.no \in 1..(Len(revisions) + 1)
       /\ t.no > 1 => t.base = revisions[t.no - 1].new
  /\ t.at = "ask" => Exceeds(t.base, t.new)
  /\ t.at = "record" => Named(t.base, t.new, t.asked)
  /\ t.at \in {"checkPending", "setState"} =>
       \E s \in reached : <<s, t.to>> \in Transitions
  /\ t.at = "issue" => "approved" \in reached
EditorsRely == \A h \in Editors : Relies(task[h])

\* The inductive invariant of the proofs.
IInv ==
  /\ TypeOK /\ ApprovalsRely /\ EditorsRely
  /\ ReachedInOrder /\ OverCapNeedsOverride /\ RevisionsChain

\* What handlers of the event rely on when they take turns: what they found when
\* they read it is still so.
TakesTurn(t) ==
  /\ t.at \in {"override", "revise", "ask", "record", "write"} =>
       state \in {"draft", "submitted"}
  /\ t.at = "checkPending" => t.to = "approved"
  /\ t.at \in {"checkPending", "setState"} => <<state, t.to>> \in Transitions
  /\ t.at = "setState" /\ t.to = "approved" =>
       \A a \in Approvals :
         approval[a].kind = "budget_change" => approval[a].status # "pending"
  /\ t.at = "issue" =>
       /\ state = "approved" /\ t.rules # {}
       /\ \A r \in t.rules : issued[r] = 0
TurnsInv ==
  ~overlapped =>
    /\ \A g, h \in Editors : task[g] # Idle /\ task[h] # Idle => g = h
    /\ \A h \in Editors : TakesTurn(task[h])
    /\ state \in {"draft", "submitted"} => \A r \in Rules : issued[r] = 0
    /\ NoChangePendingOnceApproved /\ IssuedOnce
===============================================================================
