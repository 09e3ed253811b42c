------------------------------- MODULE CheckIn -------------------------------
(***************************************************************************)
(* One event while it is being served (modules/checkin): the check-ins of  *)
(* its guests and their list, its service windows, the users who have      *)
(* scope over it, and the reservations that must be settled to close it.   *)
(*                                                                         *)
(* A check-in reads the event, the scope, the window and the number of     *)
(* guests by statements of their own, and is written by yet another. What  *)
(* the approval of an event asks for is in module Events, what becomes of  *)
(* a reservation in module Reservations; here both happen at any time.     *)
(***************************************************************************)
EXTENDS Integers, FiniteSets, Bags, Functions

CONSTANTS
  Handlers,       \* requests being served at the same time
  Managers,       \* users who need a scope: neither creator nor administrator
  Slots,          \* event_service_windows, there or not
  Headcount,      \* events.headcount, which rests once the event is approved
  None,
  MaxTime,        \* bound: the clock
  MaxCheckIns,    \* bound: check-ins that are written
  MaxFlags,       \* bound: guests who are flagged
  MaxActive       \* bound: reservations in use or to be used

ASSUME CheckInAssumption ==
  /\ IsFiniteSet(Handlers) /\ Handlers # {} /\ None \notin Slots
  /\ MaxTime \in Nat /\ Headcount \in Nat /\ MaxCheckIns \in Nat
  /\ MaxFlags \in Nat /\ MaxActive \in Nat

VARIABLES
  now,            \* the time of the day
  state,          \* events.state
  windows,        \* the service windows, from and to
  scopes,         \* managers with a row in manager_event_scopes
  active,         \* how many reservations are in use or to be used
  rescheduled,    \* some reservation has been rescheduled
  checkIns,       \* event_checkins, so many of each kind
  flags,          \* audit entries over_capacity_flag
  task,           \* what each handler is doing, with its locals
  overlapped      \* something changed while a handler was at work (history)

bookedVars == <<active, rescheduled>>
aroundVars == <<windows, scopes, bookedVars>>
servedVars == <<checkIns, flags>>
checkInVars == <<now, state, aroundVars, servedVars, task, overlapped>>

Time == 0..MaxTime
Window == {w \in [from : Time, to : Time] : w.from < w.to}
NoWindow == [from |-> 0, to |-> 0]
Added == {s \in Slots : windows[s] # NoWindow}
Overlap(v, w) == v.from < w.to /\ w.from < v.to

StateSet == {"approved", "in_service", "closed"}
\* STATE_TRANSITIONS, once the event is approved.
Transitions == {<<"approved", "in_service">>, <<"in_service", "closed">>}
\* allowedStates
Served == {"approved", "in_service"}

\* A row of event_checkins: its window (none: outside_window), whether it is
\* over capacity, with the reason for it.
CheckInRow == [window : Slots \cup {None}, over : BOOLEAN]
Number(rows) == SumFunctionOnSet(checkIns, rows \cap DOMAIN checkIns)
Guests == Number(CheckInRow)
Within == Number({r \in CheckInRow : ~r.over})

\* A handler and its locals: the manager it serves, the window it has found and
\* whether there is room; the lengths a list is answered with; the window or the
\* state it is to write.
TaskPlaces == {"idle", "access", "window", "count", "flag", "create",
               "list", "listCount", "answer", "insertWindow",
               "checkReservations", "setState"}
Task == [at : TaskPlaces, by : Managers \cup {None}, lists : BOOLEAN,
         window : Slots \cup {None},
         over : BOOLEAN, listed : Nat, counted : Nat,
         add : Window \cup {NoWindow}, to : StateSet \cup {None}]
IdleTask == [at |-> "idle", by |-> None, lists |-> FALSE,
             window |-> None, over |-> FALSE, listed |-> 0,
             counted |-> 0, add |-> NoWindow, to |-> None]

TaskBecomes(h, t) == task' = [task EXCEPT ![h] = t]
GotoPlace(h, place) == TaskBecomes(h, [task[h] EXCEPT !.at = place])
EndTask(h) == TaskBecomes(h, IdleTask)
Busy == \E h \in Handlers : task[h] # IdleTask
Note == overlapped' = (overlapped \/ Busy)
\* A request arrives while others may be at work.
Start(h, t) == task[h] = IdleTask /\ TaskBecomes(h, t) /\ Note
-------------------------------------------------------------------------------
\* The event is approved, with the windows that it then has.
CheckInInit ==
  /\ now = 0
  /\ state = "approved"
  /\ \/ windows = [s \in Slots |-> NoWindow]
     \/ \E s \in Slots, w \in Window :
          windows = [r \in Slots |-> IF r = s THEN w ELSE NoWindow]
  /\ scopes = {} /\ active = 0 /\ rescheduled = FALSE
  /\ checkIns = EmptyBag /\ flags = 0
  /\ task = [h \in Handlers |-> IdleTask]
  /\ overlapped = FALSE

Tick ==
  /\ now < MaxTime /\ now' = now + 1
  /\ UNCHANGED <<state, aroundVars, servedVars, task, overlapped>>

\* checkIn reads the event, which must be in the right state; administrators and
\* the creator need no scope. (A bound: no request without room for a row.)
LoadEvent(h) ==
  /\ state \in Served /\ Guests < MaxCheckIns
  /\ \/ Start(h, [IdleTask EXCEPT !.at = "window"])
     \/ \E u \in Managers : Start(h, [IdleTask EXCEPT !.at = "access", !.by = u])
  /\ UNCHANGED <<now, state, aroundVars, servedVars>>

\* GET /events/:id/check-in, of an event in any state.
LoadToList(h) ==
  /\ \/ Start(h, [IdleTask EXCEPT !.at = "list"])
     \/ \E u \in Managers :
          Start(h, [IdleTask EXCEPT !.at = "access", !.by = u, !.lists = TRUE])
  /\ UNCHANGED <<now, state, aroundVars, servedVars>>

\* assertEventAccess
CheckAccess(h) ==
  /\ task[h].at = "access"
  /\ IF task[h].by \notin scopes THEN EndTask(h)
     ELSE IF task[h].lists THEN TaskBecomes(h, [IdleTask EXCEPT !.at = "list"])
     ELSE GotoPlace(h, "window")
  /\ UNCHANGED <<now, state, aroundVars, servedVars, overlapped>>

\* The window that is open now, if any: without one there is but a warning.
\* Of several that are open the database returns any.
FindWindow(h) ==
  /\ task[h].at = "window"
  /\ LET open == {s \in Added : windows[s].from <= now /\ now <= windows[s].to}
     IN \E s \in IF open = {} THEN {None} ELSE open :
          TaskBecomes(h, [task[h] EXCEPT !.at = "count", !.window = s])
  /\ UNCHANGED <<now, state, aroundVars, servedVars, overlapped>>

\* Mutant of Count: one guest too many.
Count_OneMore(h) ==
  /\ task[h].at = "count"
  /\ IF Guests <= Headcount THEN GotoPlace(h, "create") ELSE EndTask(h)
  /\ UNCHANGED <<now, state, aroundVars, servedVars, overlapped>>

\* getOccupancyCount: once the headcount is reached a reason is needed.
Count(h) ==
  /\ task[h].at = "count"
  /\ IF Guests < Headcount THEN GotoPlace(h, "create")
     ELSE \/ EndTask(h)
          \/ TaskBecomes(h, [task[h] EXCEPT !.at = "flag", !.over = TRUE])
  /\ UNCHANGED <<now, state, aroundVars, servedVars, overlapped>>

\* The audit entry for the approver is written before the check-in.
Flag(h) ==
  /\ task[h].at = "flag" /\ flags < MaxFlags
  /\ flags' = flags + 1
  /\ GotoPlace(h, "create")
  /\ UNCHANGED <<now, state, aroundVars, checkIns, overlapped>>

\* The check-in is written, unless its window is gone (the foreign key).
CreateCheckIn(h) ==
  /\ task[h].at = "create" /\ Guests < MaxCheckIns
  /\ checkIns' = IF task[h].window \in Added \cup {None}
                 THEN checkIns (+) SetToBag({[window |-> task[h].window,
                                              over |-> task[h].over]})
                 ELSE checkIns
  /\ EndTask(h)
  /\ UNCHANGED <<now, state, aroundVars, flags, overlapped>>

\* The list is read...
List(h) ==
  /\ task[h].at = "list"
  /\ TaskBecomes(h, [task[h] EXCEPT !.at = "listCount", !.listed = Guests])
  /\ UNCHANGED <<now, state, aroundVars, servedVars, overlapped>>
\* ... then the occupancy is counted...
ListCount(h) ==
  /\ task[h].at = "listCount"
  /\ TaskBecomes(h, [task[h] EXCEPT !.at = "answer", !.counted = Guests])
  /\ UNCHANGED <<now, state, aroundVars, servedVars, overlapped>>
\* ... and both are sent.
Answer(h) ==
  /\ task[h].at = "answer"
  /\ EndTask(h)
  /\ UNCHANGED <<now, state, aroundVars, servedVars, overlapped>>

\* Mutant of CheckOverlap: only a window within the new one is in its way.
CheckOverlap_Within(h) ==
  /\ \E w \in Window :
       /\ ~\E s \in Added : w.from <= windows[s].from /\ windows[s].to <= w.to
       /\ Start(h, [IdleTask EXCEPT !.at = "insertWindow", !.add = w])
  /\ UNCHANGED <<now, state, aroundVars, servedVars>>

\* POST /events/:id/service-windows, in any state of the event: the window may
\* not overlap with one of the event...
CheckOverlap(h) ==
  /\ \E w \in Window :
       /\ ~\E s \in Added : Overlap(windows[s], w)
       /\ Start(h, [IdleTask EXCEPT !.at = "insertWindow", !.add = w])
  /\ UNCHANGED <<now, state, aroundVars, servedVars>>
\* ... and is inserted, under an identity that no request has in hand.
AddWindow(h) ==
  /\ task[h].at = "insertWindow"
  /\ \E s \in Slots \ (Added \cup {task[g].window : g \in Handlers}) :
       windows' = [windows EXCEPT ![s] = task[h].add]
  /\ EndTask(h)
  /\ UNCHANGED <<now, state, scopes, bookedVars, servedVars, overlapped>>

\* DELETE /events/:id/service-windows/:windowId: a window that a check-in names
\* stays.
RemoveWindow ==
  /\ \E s \in Added :
       /\ \A r \in BagToSet(checkIns) : r.window # s
       /\ windows' = [windows EXCEPT ![s] = NoWindow]
  /\ Note
  /\ UNCHANGED <<now, state, scopes, bookedVars, servedVars, task>>

\* POST /admin/users/:id/manager-scopes: the unique index stops a second row.
AssignScope ==
  /\ \E u \in Managers \ scopes : scopes' = scopes \cup {u}
  /\ Note
  /\ UNCHANGED <<now, state, windows, bookedVars, servedVars, task>>

\* DELETE /admin/users/:id/manager-scopes/:eventId
RemoveScope ==
  /\ \E u \in scopes : scopes' = scopes \ {u}
  /\ Note
  /\ UNCHANGED <<now, state, windows, bookedVars, servedVars, task>>

\* transitionState reads the event and checks the transition. What an approval
\* asks for is in module Events.
LoadTransition(h) ==
  /\ \E to \in StateSet :
       /\ <<state, to>> \in Transitions
       /\ Start(h, [IdleTask EXCEPT !.to = to,
            !.at = IF to = "closed" THEN "checkReservations" ELSE "setState"])
  /\ UNCHANGED <<now, state, aroundVars, servedVars>>

\* Mutant of CheckReservations: what is rescheduled is not in the way.
CheckReservations_Active(h) ==
  /\ task[h].at = "checkReservations"
  /\ IF active = 0 THEN GotoPlace(h, "setState") ELSE EndTask(h)
  /\ UNCHANGED <<now, state, aroundVars, servedVars, overlapped>>

\* validateClosure: every reservation is returned or cancelled. One that is
\* rescheduled is neither.
CheckReservations(h) ==
  /\ task[h].at = "checkReservations"
  /\ IF active = 0 /\ ~rescheduled THEN GotoPlace(h, "setState") ELSE EndTask(h)
  /\ UNCHANGED <<now, state, aroundVars, servedVars, overlapped>>

\* updateState, by id.
SetState(h) ==
  /\ task[h].at = "setState"
  /\ state' = task[h].to
  /\ EndTask(h)
  /\ UNCHANGED <<now, aroundVars, servedVars, overlapped>>

\* createReservation, by a manager with scope, in any state of the event.
Reserve ==
  /\ scopes # {} /\ active < MaxActive /\ active' = active + 1
  /\ Note
  /\ UNCHANGED <<now, state, windows, scopes, rescheduled, servedVars, task>>

\* returnReservation, or cancelReservation.
Settle ==
  /\ active > 0 /\ active' = active - 1
  /\ Note
  /\ UNCHANGED <<now, state, windows, scopes, rescheduled, servedVars, task>>

\* rescheduleReservation: another reservation takes the place of this one.
Reschedule ==
  /\ active > 0 /\ rescheduled' = TRUE
  /\ Note
  /\ UNCHANGED <<now, state, windows, scopes, active, servedVars, task>>

\* A database call throws or the process dies: nothing is rolled back.
FailTask(h) ==
  /\ task[h] # IdleTask
  /\ EndTask(h)
  /\ UNCHANGED <<now, state, aroundVars, servedVars, overlapped>>

Step(h) ==
  \/ CheckAccess(h) \/ FindWindow(h) \/ Count(h) \/ Flag(h) \/ CreateCheckIn(h)
  \/ List(h) \/ ListCount(h) \/ Answer(h) \/ AddWindow(h)
  \/ CheckReservations(h) \/ SetState(h)
Request(h) ==
  \/ LoadEvent(h) \/ LoadToList(h) \/ CheckOverlap(h)
  \/ LoadTransition(h)

CheckInNext ==
  \/ \E h \in Handlers : Request(h) \/ Step(h) \/ FailTask(h)
  \/ RemoveWindow \/ AssignScope \/ RemoveScope
  \/ Reserve \/ Settle \/ Reschedule
  \/ Tick

CheckInSpec == CheckInInit /\ [][CheckInNext]_checkInVars
-------------------------------------------------------------------------------
CheckInTypeOK ==
  /\ now \in Time
  /\ state \in StateSet
  /\ windows \in [Slots -> Window \cup {NoWindow}]
  /\ scopes \in SUBSET Managers
  /\ active \in Nat /\ rescheduled \in BOOLEAN
  /\ IsABag(checkIns) /\ BagToSet(checkIns) \subseteq CheckInRow /\ flags \in Nat
  /\ task \in [Handlers -> Task]
  /\ overlapped \in BOOLEAN

\* The capacity of an event holds but for requests that had counted before it
\* was reached, one for each other handler; guests beyond it were flagged for
\* the approver, each with an audit entry of its own; and the list of guests
\* and their number, which are read one after the other, never show more guests
\* than are counted.
CapacityHolds ==
  /\ CheckInTypeOK
  /\ Within <= Headcount + Cardinality(Handlers) - 1
  /\ ~overlapped => Within <= Headcount
  /\ Guests - Within <= flags
  /\ \A h \in Handlers : task[h].at = "answer" => task[h].listed <= task[h].counted

\* "validating no overlaps with existing windows": windows overlap only when
\* requests do.
WindowsApart ==
  ~overlapped => \A r, s \in Added : r # s => ~Overlap(windows[r], windows[s])

\* A guest is never checked in to a window that has not begun, or that is gone;
\* and when nothing changes in between, only to an event that is approved or in
\* service, for a manager who has scope, and an event that is closed has no
\* reservation that is not returned or cancelled: one with a rescheduled
\* reservation stays open for good.
ServedInTurn ==
  [][/\ \A r \in BagToSet(checkIns') :
          r.window # None => windows'[r.window].from <= now' /\ r.window \in Added
     /\ ~overlapped' =>
          /\ checkIns' # checkIns =>
               /\ state \in Served
               /\ \A h \in Handlers : task[h].by \in scopes \cup {None}
          /\ state # "closed" /\ state' = "closed" =>
               active = 0 /\ ~rescheduled]_checkInVars

\* What is inductive. The locals of a handler are set when it needs them.
LocalsAreSet(t) ==
  /\ t.at # "create" => (t.over <=> t.at = "flag")
  /\ t.at \in {"checkReservations", "setState"} => t.to \in StateSet
\* A handler that is about to write has counted as one of the
\* guests within the headcount, or its flag as that of a guest beyond it; what
\* was listed is not more than there is.
About(over) == {h \in Handlers : task[h].at = "create" /\ task[h].over = over}
RoomIsKept ==
  /\ IsFiniteSet(DOMAIN checkIns) /\ Within <= Guests
  /\ Within + Cardinality(About(FALSE)) <= Headcount + Cardinality(Handlers) - 1
  /\ Guests - Within + Cardinality(About(TRUE)) <= flags
  /\ \A h \in Handlers : task[h].at = "listCount" => task[h].listed <= Guests
\* A window that a guest or a handler has is not one that came after.
WindowsBegan ==
  /\ \A r \in BagToSet(checkIns) : r.window # None =>
       r.window \in Added /\ windows[r.window].from <= now
  /\ \A h \in Handlers : task[h].window \in Added => windows[task[h].window].from <= now
\* A request that nothing came in between still finds what it found.
Undisturbed(t) ==
  /\ t.at = "create" /\ ~t.over => Guests < Headcount
  /\ t.at = "insertWindow" => \A s \in Added : ~Overlap(windows[s], t.add)
  /\ t.at \in {"window", "count", "flag", "create"} =>
       state \in Served /\ t.by \in scopes \cup {None}
  /\ t.at = "access" /\ ~t.lists => state \in Served
  /\ t.at \in {"checkReservations", "setState"} => <<state, t.to>> \in Transitions
  /\ t.at = "setState" /\ t.to = "closed" => active = 0 /\ ~rescheduled
TurnsAreTaken ==
  ~overlapped =>
    /\ \A g, h \in Handlers : task[g] # IdleTask /\ task[h] # IdleTask => g = h
    /\ \A h \in Handlers : Undisturbed(task[h])
CheckInIInv ==
  /\ CapacityHolds /\ WindowsApart
  /\ RoomIsKept /\ WindowsBegan /\ TurnsAreTaken
  /\ \A h \in Handlers : LocalsAreSet(task[h])
===============================================================================
