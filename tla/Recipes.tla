-------------------------------- MODULE Recipes --------------------------------
(***************************************************************************)
(* One recipe, its versions and their review (recipes/service.js), and the *)
(* events' materials that name a version of it (events/routes.js).         *)
(*                                                                         *)
(* Submitting, approving and rejecting read the versions, pick one in      *)
(* memory and write it by id. An approval then makes its version current   *)
(* by a statement of its own; a new version is numbered by a statement     *)
(* before its INSERT. No transaction holds them together. The audit entry  *)
(* that ends every handler touches nothing else and is left out, and so is *)
(* the user: no check looks at who wrote what.                             *)
(***************************************************************************)
EXTENDS Integers, Sequences

CONSTANTS
  Handlers,       \* requests being served at the same time
  MaxVersions     \* bound: versions of the recipe

ASSUME RecipesAssumption == MaxVersions \in Nat

VARIABLES
  version,        \* the status of each version; version_no is the position
  current,        \* the number of current_version_id; 0 is null
  materials,      \* the versions that event_materials of type recipe name
  pc,             \* where each handler is
  on,             \* the number of the version each handler works on
  been,           \* the statuses each version has had (history)
  overlapped,     \* two handlers have been at work at once (history)
  cutShort        \* versions approved by a handler that died then (history)

vars == <<version, current, materials, pc, on, been, overlapped, cutShort>>
handlerVars == <<pc, on>>
historyVars == <<been, overlapped, cutShort>>

Status == {"draft", "submitted_for_review", "approved", "rejected"}
Numbers == 1..Len(version)
Places == {"idle", "number", "insert", "submit", "approve", "setCurrent",
           "reject", "addMaterial"}

\* The first of the versions, newest first, that is submitted for review.
IsSubmitted(v) ==
  /\ v \in Numbers /\ version[v] = "submitted_for_review"
  /\ \A w \in Numbers : w > v => version[w] # "submitted_for_review"

\* findApproved lists the recipe.
Listed == current # 0 /\ version[current] = "approved"

Goto(h, place, v) ==
  /\ pc' = [pc EXCEPT ![h] = place]
  /\ on' = [on EXCEPT ![h] = v]
Done(h) == Goto(h, "idle", 0)
\* A request on the recipe arrives while others may be at work on it.
Start(h, place, v) ==
  /\ pc[h] = "idle"
  /\ Goto(h, place, v)
  /\ overlapped' = (overlapped \/ \E g \in Handlers : pc[g] # "idle")
\* updateVersionStatus
SetStatus(v, status) ==
  /\ version' = [version EXCEPT ![v] = status]
  /\ been' = [been EXCEPT ![v] = @ \cup {status}]
-------------------------------------------------------------------------------
\* createRecipe has inserted the recipe, and its handler goes on to the first
\* version.
Init ==
  /\ version = <<>>
  /\ been = <<>>
  /\ current = 0
  /\ materials = {}
  /\ \E c \in Handlers :
       pc = [h \in Handlers |-> IF h = c THEN "number" ELSE "idle"]
  /\ on = [h \in Handlers |-> 0]
  /\ overlapped = FALSE
  /\ cutShort = {}

\* createRevision has found the recipe.
LoadRecipe(h) ==
  /\ Len(version) < MaxVersions
  /\ Start(h, "number", 0)
  /\ UNCHANGED <<version, current, materials, been, cutShort>>

\* createVersion reads the greatest number...
Number(h) ==
  /\ pc[h] = "number"
  /\ Goto(h, "insert", Len(version) + 1)
  /\ UNCHANGED <<version, current, materials, historyVars>>

\* Mutant of Insert: the number is not unique, and the new version takes the
\* place of the old.
Insert_NotUnique(h) ==
  /\ pc[h] = "insert"
  /\ version' = [i \in Numbers \cup {on[h]} |->
                   IF i = on[h] THEN "draft" ELSE version[i]]
  /\ been' = [i \in Numbers \cup {on[h]} |->
                IF i = on[h] THEN {"draft"} ELSE been[i]]
  /\ Done(h)
  /\ UNCHANGED <<current, materials, overlapped, cutShort>>
\* ... and inserts a draft with the next: the unique index admits it or
\* raises an error.
Insert(h) ==
  /\ pc[h] = "insert"
  /\ IF on[h] = Len(version) + 1
     THEN version' = Append(version, "draft") /\ been' = Append(been, {"draft"})
     ELSE UNCHANGED <<version, been>>
  /\ Done(h)
  /\ UNCHANGED <<current, materials, overlapped, cutShort>>

\* submitForReview reads the versions and checks the latest.
LoadToSubmit(h) ==
  /\ Numbers # {} /\ version[Len(version)] = "draft"
  /\ Start(h, "submit", Len(version))
  /\ UNCHANGED <<version, current, materials, been, cutShort>>
Submit(h) ==
  /\ pc[h] = "submit"
  /\ SetStatus(on[h], "submitted_for_review")
  /\ Done(h)
  /\ UNCHANGED <<current, materials, overlapped, cutShort>>

\* approveRecipe reads the versions and picks the latest submitted one.
LoadToApprove(h) ==
  /\ \E v \in Numbers : IsSubmitted(v) /\ Start(h, "approve", v)
  /\ UNCHANGED <<version, current, materials, been, cutShort>>

Approve(h) ==
  /\ pc[h] = "approve"
  /\ SetStatus(on[h], "approved")
  /\ Goto(h, "setCurrent", on[h])
  /\ UNCHANGED <<current, materials, overlapped, cutShort>>

\* setCurrentVersion, whichever version is current by now.
SetCurrent(h) ==
  /\ pc[h] = "setCurrent"
  /\ current' = on[h]
  /\ Done(h)
  /\ UNCHANGED <<version, materials, historyVars>>

\* Mutant of LoadToReject: an approved version can be rejected.
LoadToReject_Approved(h) ==
  /\ \E v \in Numbers : version[v] = "approved" /\ Start(h, "reject", v)
  /\ UNCHANGED <<version, current, materials, been, cutShort>>

\* rejectRecipe reads the versions and picks the latest submitted one.
LoadToReject(h) ==
  /\ \E v \in Numbers : IsSubmitted(v) /\ Start(h, "reject", v)
  /\ UNCHANGED <<version, current, materials, been, cutShort>>
Reject(h) ==
  /\ pc[h] = "reject"
  /\ SetStatus(on[h], "rejected")
  /\ Done(h)
  /\ UNCHANGED <<current, materials, overlapped, cutShort>>

\* Mutant of LoadForMaterial: a version in any status may be used.
LoadForMaterial_AnyStatus(h) ==
  /\ \E v \in Numbers : Start(h, "addMaterial", v)
  /\ UNCHANGED <<version, current, materials, been, cutShort>>

\* POST /events/:id/materials reads the version and checks its status.
LoadForMaterial(h) ==
  /\ \E v \in Numbers : version[v] = "approved" /\ Start(h, "addMaterial", v)
  /\ UNCHANGED <<version, current, materials, been, cutShort>>
AddMaterial(h) ==
  /\ pc[h] = "addMaterial"
  /\ materials' = materials \cup {on[h]}
  /\ Done(h)
  /\ UNCHANGED <<version, current, historyVars>>

\* DELETE /events/:id/materials/:materialId: one statement, and perhaps the
\* last material that names the version.
RemoveMaterial ==
  /\ \E v \in materials : materials' = materials \ {v}
  /\ UNCHANGED <<version, current, handlerVars, historyVars>>

\* A database call throws, or the process dies: nothing is rolled back.
Fail(h) ==
  /\ pc[h] # "idle"
  /\ cutShort' = IF pc[h] = "setCurrent" THEN cutShort \cup {on[h]} ELSE cutShort
  /\ Done(h)
  /\ UNCHANGED <<version, current, materials, been, overlapped>>

Handle(h) ==
  \/ LoadRecipe(h) \/ Number(h) \/ Insert(h)
  \/ LoadToSubmit(h) \/ Submit(h)
  \/ LoadToApprove(h) \/ Approve(h) \/ SetCurrent(h)
  \/ LoadToReject(h) \/ Reject(h)
  \/ LoadForMaterial(h) \/ AddMaterial(h)
  \/ Fail(h)

Next == RemoveMaterial \/ \E h \in Handlers : Handle(h)

Spec == Init /\ [][Next]_vars
-------------------------------------------------------------------------------
\* Every variable stays within its type.
TypeOK ==
  /\ version \in Seq(Status)
  /\ been \in Seq(SUBSET Status) /\ Len(been) = Len(version)
  /\ current \in 0..Len(version)
  /\ materials \in SUBSET Numbers
  /\ pc \in [Handlers -> Places]
  /\ on \in [Handlers -> Nat]
  /\ overlapped \in BOOLEAN
  /\ cutShort \in SUBSET Numbers

\* However handlers overlap, what is current or on a material list was approved
\* once, and what was approved or rejected had been submitted for review.
UseWasReviewed ==
  /\ \A v \in (materials \cup {current}) \ {0} : "approved" \in been[v]
  /\ \A v \in Numbers : {"approved", "rejected"} \cap been[v] # {} =>
       "submitted_for_review" \in been[v]

\* An approved version has become current, unless a handler is on its way or
\* died, or another version was made current instead.
ApprovedGoesLive ==
  \A v \in Numbers : version[v] = "approved" =>
    \/ current # 0
    \/ v \in cutShort
    \/ \E h \in Handlers : pc[h] = "setCurrent" /\ on[h] = v

\* What a handler at a place relies on between its check and its write: the
\* version is there, and has had the status that was found, whatever it is now.
Knows(place, v) ==
  /\ place \in {"submit", "approve", "setCurrent", "reject", "addMaterial"} =>
       v \in Numbers
  /\ place \in {"approve", "reject"} => "submitted_for_review" \in been[v]
  /\ place \in {"setCurrent", "addMaterial"} => "approved" \in been[v]
HandlersRely ==
  /\ \A v \in Numbers : version[v] \in been[v]
  /\ \A h \in Handlers : Knows(pc[h], on[h])

\* The inductive invariant.
IInv == TypeOK /\ HandlersRely /\ UseWasReviewed /\ ApprovedGoesLive

\* Nothing is used that was not reviewed, and what was approved goes live.
ReviewHolds == TypeOK /\ UseWasReviewed /\ ApprovedGoesLive

\* No version is lost and none becomes a draft again, though two handlers may
\* have read the same greatest number.
VersionsAreKept ==
  [][/\ Numbers \subseteq Numbers'
     /\ \A v \in Numbers : version'[v] = "draft" => version[v] = "draft"]_vars

\* What requests that take turns rely on: there is one at a time, and the version
\* it is to write still has the status that was found.
TurnsInv == ~overlapped =>
  /\ \A g, h \in Handlers : pc[g] # "idle" /\ pc[h] # "idle" => g = h
  /\ \A h \in Handlers :
       /\ pc[h] = "submit" => version[on[h]] = "draft"
       /\ pc[h] \in {"approve", "reject"} =>
            version[on[h]] = "submitted_for_review"
       /\ pc[h] = "setCurrent" => version[on[h]] = "approved"

\* When requests on the recipe take turns, a recipe that is listed as approved
\* stays listed, whatever becomes of its newer versions.
StaysListed == [][Listed /\ ~overlapped' => Listed']_vars
===============================================================================
