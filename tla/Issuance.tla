------------------------------- MODULE Issuance -------------------------------
(***************************************************************************)
(* How entitlements come about: by the rules that apply when an event is   *)
(* approved (events/service.js), by hand, and by the import of a file that *)
(* is validated first and confirmed later (entitlements/service.js).       *)
(*                                                                         *)
(* A confirmation reads the batch, creates what it lists and marks it by   *)
(* three statements with no transaction around them.  Rows of a file are   *)
(* told apart by what becomes of them only: the columns are checked when   *)
(* the file is, the event and the user a row names when the database       *)
(* creates the entitlement.  Audit entries are left out, but for those     *)
(* whose failure ends the loop over the rules.                             *)
(***************************************************************************)
EXTENDS Integers, Sequences, FiniteSets

CONSTANTS
  Issuers,        \* requests being served at the same time
  IssuanceRules,  \* the active issuance rules for approved events
  Formula,        \* the formula of each: "positive", "zero" or "unknown"
  Files,          \* the files that may be uploaded: sequences of rows
  MaxBatches,     \* bound: files that are uploaded
  MaxManual,      \* bound: entitlements issued by hand
  MaxImported     \* bound: a batch is confirmed while it has given fewer

ASSUME IssuanceAssumption ==
  /\ Formula \in [IssuanceRules -> {"positive", "zero", "unknown"}]
  /\ Files \subseteq Seq({"good", "dangling", "malformed"})
  /\ MaxBatches \in Nat /\ MaxManual \in Nat /\ MaxImported \in Nat

VARIABLES
  imported,       \* the number of entitlements each batch has given,
  auto,           \*   of those each rule has given
  manual,         \*   and of those that were issued by hand
  batches,        \* the bulk_import_batches: the rows they list, their status
  approved,       \* the event has been approved
  issuing,        \* where each handler is
  on,             \* the batch each handler works on (0 is none)
  left,           \* the rules the approval still has to go through
  contended,      \* batches that two handlers worked on at once (history)
  cutShort,       \* batches whose handler died (history)
  unapplied       \* rules that an error kept from being applied (history)

entitlements == <<imported, auto, manual>>
issuanceVars == <<entitlements, batches, approved, issuing, on, left, contended,
                  cutShort, unapplied>>
historyVars == <<contended, cutShort, unapplied>>

\* The rows that pass the check of their columns, each at its place in the file.
Valid(file) == [i \in {j \in DOMAIN file : file[j] # "malformed"} |-> file[i]]
Size(b) == Cardinality(DOMAIN batches[b].rows)
GotoBatch(h, place, x) ==
  /\ issuing' = [issuing EXCEPT ![h] = place]
  /\ on' = [on EXCEPT ![h] = x]
EndIssuing(h) == GotoBatch(h, "idle", 0)
-------------------------------------------------------------------------------
IssuanceInit ==
  /\ imported = <<>> /\ auto = [r \in IssuanceRules |-> 0] /\ manual = 0
  /\ batches = <<>> /\ approved = FALSE
  /\ issuing = [h \in Issuers |-> "idle"] /\ on = [h \in Issuers |-> 0]
  /\ left = {}
  /\ contended = {} /\ cutShort = {} /\ unapplied = {}

\* POST /bulk-import/validate: the valid rows are kept in a batch, if there are
\* any.
Validate ==
  /\ Len(batches) < MaxBatches
  /\ \E file \in Files :
       /\ DOMAIN Valid(file) # {}
       /\ batches' = Append(batches, [rows |-> Valid(file), status |-> "pending"])
       /\ imported' = Append(imported, 0)
  /\ UNCHANGED <<auto, manual, approved, issuing, on, left, historyVars>>

\* Mutant of LoadBatch: a confirmed batch may be confirmed again.
LoadBatch_Confirmed(h) ==
  /\ issuing[h] = "idle"
  /\ \E b \in DOMAIN batches :
       /\ GotoBatch(h, "create", b)
       /\ contended' = contended \cup
            {c \in {b} : \E g \in Issuers : on[g] = c}
  /\ UNCHANGED <<entitlements, batches, approved, left, cutShort, unapplied>>

\* POST /bulk-import/confirm: the batch is pending...
LoadBatch(h) ==
  /\ issuing[h] = "idle"
  /\ \E b \in DOMAIN batches :
       /\ batches[b].status = "pending" /\ imported[b] < MaxImported
       /\ GotoBatch(h, "create", b)
       /\ contended' = contended \cup
            {c \in {b} : \E g \in Issuers : on[g] = c}
  /\ UNCHANGED <<entitlements, batches, approved, left, cutShort, unapplied>>

\* Mutant of CreateMany: the rows are inserted one by one.
CreateMany_RowByRow(h) ==
  /\ issuing[h] = "create"
  /\ LET rows == batches[on[h]].rows
         ok == {i \in DOMAIN rows : \A j \in (1..i) \cap DOMAIN rows : rows[j] = "good"}
     IN /\ imported' = [imported EXCEPT ![on[h]] = @ + Cardinality(ok)]
        /\ IF ok = DOMAIN rows THEN GotoBatch(h, "confirm", on[h]) ELSE EndIssuing(h)
  /\ UNCHANGED <<auto, manual, batches, approved, left, historyVars>>

\* ... all its rows are inserted by one statement, which fails as a whole when
\* a row names no event or no user...
CreateMany(h) ==
  /\ issuing[h] = "create"
  /\ LET rows == batches[on[h]].rows
     IN IF \A i \in DOMAIN rows : rows[i] = "good"
        THEN /\ imported' = [imported EXCEPT ![on[h]] = @ + Size(on[h])]
             /\ GotoBatch(h, "confirm", on[h])
        ELSE EndIssuing(h) /\ UNCHANGED imported
  /\ UNCHANGED <<auto, manual, batches, approved, left, historyVars>>
\* ... and the batch is marked by its id.
ConfirmBatch(h) ==
  /\ issuing[h] = "confirm"
  /\ batches' = [batches EXCEPT ![on[h]].status = "confirmed"]
  /\ EndIssuing(h)
  /\ UNCHANGED <<entitlements, approved, left, historyVars>>

\* POST /issue-manual: one statement, which may fail, too.
IssueManual ==
  /\ manual < MaxManual
  /\ manual' = manual + 1
  /\ UNCHANGED <<imported, auto, batches, approved, issuing, on, left, historyVars>>
-------------------------------------------------------------------------------
\* The event is approved, and the handler reads the active rules.
Trigger(h) ==
  /\ ~approved /\ issuing[h] = "idle"
  /\ approved' = TRUE
  /\ left' = IssuanceRules
  /\ GotoBatch(h, "rules", 0)
  /\ UNCHANGED <<entitlements, batches, historyVars>>

\* Mutant of SkipRule: a formula that is not understood ends the loop.
SkipRule_Stop(h) ==
  /\ issuing[h] = "rules"
  /\ \E r \in left : Formula[r] # "positive"
  /\ left' = {}
  /\ UNCHANGED <<entitlements, batches, approved, issuing, on, historyVars>>

\* A formula that evaluateSimpleFormula does not admit (such as 10_per_role of
\* the seeded rule), and one that gives nothing, are passed over.
SkipRule(h) ==
  /\ issuing[h] = "rules"
  /\ \E r \in left : Formula[r] # "positive" /\ left' = left \ {r}
  /\ UNCHANGED <<entitlements, batches, approved, issuing, on, historyVars>>
ApplyRule(h) ==
  /\ issuing[h] = "rules"
  /\ \E r \in left :
       /\ Formula[r] = "positive"
       /\ auto' = [auto EXCEPT ![r] = @ + 1]
       /\ left' = left \ {r}
       /\ GotoBatch(h, "audit", 0)
  /\ UNCHANGED <<imported, manual, batches, approved, historyVars>>
AuditRule(h) ==
  /\ issuing[h] = "audit"
  /\ GotoBatch(h, "rules", 0)
  /\ UNCHANGED <<entitlements, batches, approved, left, historyVars>>
EndRules(h) ==
  /\ issuing[h] = "rules" /\ left = {}
  /\ EndIssuing(h)
  /\ UNCHANGED <<entitlements, batches, approved, left, historyVars>>

\* A database call throws, or the process dies. An error in the loop over the
\* rules is logged, and the event is approved all the same.
FailIssuing(h) ==
  /\ issuing[h] # "idle"
  /\ IF issuing[h] \in {"create", "confirm"}
     THEN cutShort' = cutShort \cup {on[h]} /\ UNCHANGED <<left, unapplied>>
     ELSE left' = {} /\ unapplied' = left /\ UNCHANGED cutShort
  /\ EndIssuing(h)
  /\ UNCHANGED <<entitlements, batches, approved, contended>>

Handle(h) ==
  \/ LoadBatch(h) \/ CreateMany(h) \/ ConfirmBatch(h)
  \/ Trigger(h) \/ SkipRule(h) \/ ApplyRule(h) \/ AuditRule(h) \/ EndRules(h)
  \/ FailIssuing(h)
IssuanceNext == Validate \/ IssueManual \/ \E h \in Issuers : Handle(h)

\* Requests that arrived are served. Nobody has to send one, and nothing has to
\* fail.
ServeIssuing(h) == CreateMany(h) \/ ConfirmBatch(h) \/ SkipRule(h) \/ ApplyRule(h)
                   \/ AuditRule(h) \/ EndRules(h)
IssuanceFairness == \A h \in Issuers : WF_issuanceVars(ServeIssuing(h))

IssuanceSpec == IssuanceInit /\ [][IssuanceNext]_issuanceVars /\ IssuanceFairness
-------------------------------------------------------------------------------
Batch == [rows : {Valid(file) : file \in Files}, status : {"pending", "confirmed"}]
\* Every variable stays within its type.
IssuanceTypeOK ==
  /\ imported \in Seq(Nat) /\ Len(imported) = Len(batches)
  /\ auto \in [IssuanceRules -> Nat] /\ manual \in Nat
  /\ batches \in Seq(Batch)
  /\ approved \in BOOLEAN
  /\ issuing \in [Issuers -> {"idle", "create", "confirm", "rules", "audit"}]
  /\ on \in [Issuers -> {0} \cup DOMAIN batches]
  /\ left \subseteq IssuanceRules
  /\ contended \subseteq DOMAIN batches
  /\ cutShort \subseteq DOMAIN batches
  /\ unapplied \subseteq IssuanceRules

\* A batch whose confirmations take turns and do not fail is imported once, and
\* is confirmed only when it has been imported.
ImportedOnce ==
  /\ IssuanceTypeOK
  /\ \A b \in DOMAIN batches :
       /\ b \notin contended \cup cutShort =>
            imported[b] \in {0, Size(b)}
       /\ batches[b].status = "confirmed" => imported[b] # 0

\* However confirmations overlap and fail, a batch is imported as a whole or
\* not at all, and not at all when one of its rows cannot be.
ImportIsWhole ==
  \A b \in DOMAIN batches :
    /\ \E times \in 0..imported[b] : imported[b] = times * Size(b)
    /\ (\E i \in DOMAIN batches[b].rows : batches[b].rows[i] = "dangling") =>
         imported[b] = 0

\* What a handler's place says of the batch it works on. A handler alone with its
\* batch imports it before it marks it, unless it dies in between.
BatchesInHand ==
  /\ \A b \in DOMAIN batches : DOMAIN batches[b].rows # {}
  /\ \A h \in Issuers :
       /\ issuing[h] \in {"create", "confirm"} <=> on[h] # 0
       /\ issuing[h] = "confirm" => imported[on[h]] # 0
  /\ \A b \in DOMAIN batches \ contended : \A g, h \in Issuers :
       on[g] = b /\ on[h] = b => g = h
  /\ \A b \in DOMAIN batches \ (contended \cup cutShort) :
       /\ imported[b] # 0 /\ batches[b].status = "pending" =>
            \E h \in Issuers : issuing[h] = "confirm" /\ on[h] = b
       /\ \A h \in Issuers : on[h] = b =>
            /\ batches[b].status = "pending"
            /\ issuing[h] = "create" => imported[b] = 0

\* The inductive invariant: the two properties, and what they rest on.
IssuanceIInv == ImportedOnce /\ ImportIsWhole /\ BatchesInHand

\* An approval gives at most one entitlement by each rule, and none by a rule whose
\* formula gives no quantity.
RulesGiveOne ==
  \A r \in IssuanceRules :
    auto[r] <= IF approved /\ Formula[r] = "positive" THEN 1 ELSE 0
\* A rule that is still to be gone through has given nothing.
RulesInHand == RulesGiveOne /\ \A r \in left : approved /\ auto[r] = 0

\* So it is throughout, and the approval ends with an entitlement by each rule
\* whose formula gives a quantity, unless an error ended the loop.
RulesApply ==
  /\ []RulesGiveOne
  /\ approved ~> \A r \in IssuanceRules \ unapplied :
       Formula[r] = "positive" => auto[r] = 1
===============================================================================
