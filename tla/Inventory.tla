------------------------------ MODULE Inventory ------------------------------
(***************************************************************************)
(* The inventory over the days: the nightly job that keeps a snapshot of   *)
(* every item (plugins/scheduler.js, inventory/service.js), the gaps it    *)
(* leaves when it does not run and their resolution, and the reports that  *)
(* are refused while a gap is open (reports/service.js), with the file and *)
(* the record that every report leaves.                                    *)
(*                                                                         *)
(* Quantity and price of an item change together and outside of this code  *)
(* (nothing calls createItem and updateItem): one number stands for both.  *)
(***************************************************************************)
EXTENDS Integers, FiniteSets, Functions

CONSTANTS
  Items,          \* the inventory_items there may be
  Reporters,      \* requests for a report being served at the same time
  MaxDay,         \* bound: the days that are modelled
  MaxLevel,       \* bound: the levels of quantity and price told apart
  PageSize,       \* how many items takeSnapshots asks for (10000)
  MaxResolutions, \* bound: resolutions of gaps
  MaxChanges,     \* bound: items that are created or changed
  MaxReports      \* bound: reports that are asked for

ASSUME InventoryAssumption ==
  /\ IsFiniteSet(Reporters)
  /\ MaxDay \in Nat \ {0} /\ MaxLevel \in Nat \ {0} /\ PageSize \in Nat \ {0}
  /\ MaxResolutions \in Nat /\ MaxChanges \in Nat /\ MaxReports \in Nat

VARIABLES
  day,            \* the current date
  level,          \* the current quantity of each item (0: not created yet)
  snapshots,      \* the snapshot of each item and day (0: none)
  resolutions,    \* how many inventory_gap_resolutions an item and day has
  fired,          \* the last day whose hour of the job has come
  job,            \* the run of the job: where it is, its today, what it read
  stage,          \* where each report is
  asked,          \* what it is about: range, items at its check, rows
  files,          \* the number of files in reports/
  records,        \*   and of rows in report_exports
  reports,        \* the number of reports that were asked for
  changes,        \* the number of changes of items
  hadLevels,      \* the levels an item has had on each day (history)
  missed,         \* days whose job did not run or failed (history)
  late,           \* days whose job read the items the day after (history)
  orphans         \* files whose report failed after them (history)

stockVars == <<day, level, snapshots, resolutions, changes>>
jobVars == <<fired, job, missed, late>>
reportVars == <<stage, asked, files, records, reports, orphans>>
inventoryVars == <<stockVars, jobVars, reportVars, hadLevels>>

Days == 1..MaxDay
Levels == 1..MaxLevel
NoRows == [i \in Items |-> 0]
Exists == {i \in Items : level[i] # 0}
NoReport == [kind |-> "none", from |-> 1, to |-> 1, items |-> {},
             rows |-> [i \in Items |-> [d \in Days |-> 0]]]
NoRun == [pc |-> "idle", today |-> 1, rows |-> NoRows]
-------------------------------------------------------------------------------
InventoryInit ==
  /\ day = 1 /\ level \in [Items -> 0..1]
  /\ snapshots = [i \in Items |-> [d \in Days |-> 0]]
  /\ resolutions = [g \in Items \X Days |-> 0] /\ changes = 0
  /\ fired = 0 /\ job = NoRun
  /\ stage = [h \in Reporters |-> "idle"] /\ asked = [h \in Reporters |-> NoReport]
  /\ files = 0 /\ records = 0 /\ reports = 0
  /\ hadLevels = [i \in Items |-> [d \in Days |-> {level[i]} \ {0}]]
  /\ missed = {} /\ late = {} /\ orphans = 0

\* An item is created or changed.
CreateItem(i) ==
  /\ level[i] = 0 /\ changes < MaxChanges
  /\ changes' = changes + 1
  /\ \E q \in Levels :
       /\ level' = [level EXCEPT ![i] = q]
       /\ hadLevels' = [hadLevels EXCEPT ![i][day] = @ \cup {q}]
  /\ UNCHANGED <<day, snapshots, resolutions, jobVars, reportVars>>
UpdateItem(i) ==
  /\ level[i] # 0 /\ changes < MaxChanges
  /\ changes' = changes + 1
  /\ \E q \in Levels \ {level[i]} :
       /\ level' = [level EXCEPT ![i] = q]
       /\ hadLevels' = [hadLevels EXCEPT ![i][day] = @ \cup {q}]
  /\ UNCHANGED <<day, snapshots, resolutions, jobVars, reportVars>>

\* The day ends after the hour of its job.
NextDay ==
  /\ day < MaxDay /\ fired = day
  /\ day' = day + 1
  /\ hadLevels' = [i \in Items |-> [hadLevels[i] EXCEPT ![day + 1] = {level[i]} \ {0}]]
  /\ UNCHANGED <<level, snapshots, resolutions, changes, jobVars, reportVars>>

\* The hour of the job comes: takeSnapshots computes the date...
FireJob ==
  /\ fired < day /\ job.pc = "idle"
  /\ fired' = day
  /\ job' = [pc |-> "read", today |-> day, rows |-> NoRows]
  /\ UNCHANGED <<stockVars, missed, late, reportVars, hadLevels>>
\* ... unless the server is down at that hour. Nothing makes up for it.
MissJob ==
  /\ fired < day /\ job.pc = "idle"
  /\ fired' = day
  /\ missed' = missed \cup {day}
  /\ UNCHANGED <<stockVars, job, late, reportVars, hadLevels>>

\* Mutant of ReadItems: pages are counted from 0, so page 1 is the second one.
ReadItems_SecondPage ==
  /\ job.pc = "read"
  /\ \E first \in SUBSET Exists : \E page \in SUBSET (Exists \ first) :
       /\ Cardinality(first) = PageSize \/ first = Exists
       /\ \/ Cardinality(page) = PageSize
          \/ Cardinality(page) < PageSize /\ page = Exists \ first
       /\ job' = [job EXCEPT !.pc = "save",
                             !.rows = [i \in Items |-> IF i \in page THEN level[i] ELSE 0]]
  /\ late' = late \cup ({job.today} \ {day})
  /\ UNCHANGED <<stockVars, fired, missed, reportVars, hadLevels>>

\* ... the first page of the items is read, in no order. What does not fit the
\* page is left out, and nothing asks for another page...
ReadItems ==
  /\ job.pc = "read"
  /\ \E page \in SUBSET Exists :
       /\ \/ Cardinality(page) = PageSize
          \/ Cardinality(page) < PageSize /\ page = Exists
       /\ job' = [job EXCEPT !.pc = "save",
                             !.rows = [i \in Items |-> IF i \in page THEN level[i] ELSE 0]]
  /\ late' = late \cup ({job.today} \ {day})
  /\ UNCHANGED <<stockVars, fired, missed, reportVars, hadLevels>>

\* Mutant of SaveSnapshots: the rows are dated when they are written.
SaveSnapshots_Now ==
  /\ job.pc = "save"
  /\ snapshots' = [i \in Items |-> IF job.rows[i] = 0 THEN snapshots[i]
                                  ELSE [snapshots[i] EXCEPT ![day] = job.rows[i]]]
  /\ job' = NoRun
  /\ UNCHANGED <<day, level, resolutions, changes, fired, missed, late, reportVars,
                 hadLevels>>

\* ... and one statement writes a row for each, over those there are.
SaveSnapshots ==
  /\ job.pc = "save"
  /\ snapshots' = [i \in Items |-> IF job.rows[i] = 0 THEN snapshots[i]
                                  ELSE [snapshots[i] EXCEPT ![job.today] = job.rows[i]]]
  /\ job' = NoRun
  /\ UNCHANGED <<day, level, resolutions, changes, fired, missed, late, reportVars,
                 hadLevels>>
\* An error is logged, and the job has ended; so it has when the server stops.
FailJob ==
  /\ job.pc # "idle"
  /\ missed' = missed \cup {job.today}
  /\ job' = NoRun
  /\ UNCHANGED <<stockVars, fired, late, reportVars, hadLevels>>
-------------------------------------------------------------------------------
\* The days of an item in a range that have neither snapshot nor resolution.
UnresolvedGaps(from, to) ==
  {g \in Exists \X (from..to) : snapshots[g[1]][g[2]] = 0 /\ resolutions[g] = 0}

\* POST /inventory/gaps/:item_id/resolve: any day of an item, one with a
\* snapshot, one to come or one that was resolved before included.
ResolveGap(i) ==
  /\ level[i] # 0 /\ SumFunction(resolutions) < MaxResolutions
  /\ \E d \in Days : resolutions' = [resolutions EXCEPT ![<<i, d>>] = @ + 1]
  /\ UNCHANGED <<day, level, snapshots, changes, jobVars, reportVars, hadLevels>>

GotoStage(h, place, x) ==
  /\ stage' = [stage EXCEPT ![h] = place]
  /\ asked' = [asked EXCEPT ![h] = x]
EndReport(h) == GotoStage(h, "idle", NoReport)

\* Mutant of CheckGaps: only items that have a snapshot are looked at.
CheckGaps_Known(h) ==
  /\ stage[h] = "idle" /\ reports < MaxReports
  /\ \E from \in Days : \E to \in from..MaxDay :
       /\ \A g \in UnresolvedGaps(from, to) : \A d \in Days : snapshots[g[1]][d] = 0
       /\ GotoStage(h, "rows", [NoReport EXCEPT !.kind = "inventory", !.from = from,
                                                !.to = to, !.items = Exists])
  /\ reports' = reports + 1
  /\ UNCHANGED <<stockVars, jobVars, files, records, orphans, hadLevels>>

\* GET /reports/inventory/export: refused while a gap of the range is open...
CheckGaps(h) ==
  /\ stage[h] = "idle" /\ reports < MaxReports
  /\ \E from \in Days : \E to \in from..MaxDay :
       /\ UnresolvedGaps(from, to) = {}
       /\ GotoStage(h, "rows", [NoReport EXCEPT !.kind = "inventory", !.from = from,
                                                !.to = to, !.items = Exists])
  /\ reports' = reports + 1
  /\ UNCHANGED <<stockVars, jobVars, files, records, orphans, hadLevels>>
\* ... and the rows are read by a statement of their own.
ReadRows(h) ==
  /\ stage[h] = "rows"
  /\ GotoStage(h, "file", [asked[h] EXCEPT !.rows =
       [i \in Items |-> [d \in Days |->
          IF d \in asked[h].from..asked[h].to THEN snapshots[i][d] ELSE 0]]])
  /\ UNCHANGED <<stockVars, jobVars, files, records, reports, orphans, hadLevels>>

\* GET /reports/events/export and /reports/approvals/export: with enough filters
\* their JSON is longer than the column that keeps it.
ReadOthers(h, kinds) ==
  /\ stage[h] = "idle" /\ reports < MaxReports
  /\ \E kind \in kinds : GotoStage(h, "file", [NoReport EXCEPT !.kind = kind])
  /\ reports' = reports + 1
  /\ UNCHANGED <<stockVars, jobVars, files, records, orphans, hadLevels>>
ReadEvents(h) == ReadOthers(h, {"events", "events, all filters"})
ReadApprovals(h) == ReadOthers(h, {"approvals", "approvals, all filters"})
TooLong == {"events, all filters", "approvals, all filters"}

\* storeReport writes the file...
WriteFile(h) ==
  /\ stage[h] = "file"
  /\ files' = files + 1
  /\ GotoStage(h, "record", asked[h])
  /\ UNCHANGED <<stockVars, jobVars, records, reports, orphans, hadLevels>>
\* ... and inserts the record, which the database refuses when it is too long.
InsertRecord(h) ==
  /\ stage[h] = "record"
  /\ IF asked[h].kind \in TooLong
     THEN orphans' = orphans + 1 /\ UNCHANGED records
     ELSE records' = records + 1 /\ UNCHANGED orphans
  /\ EndReport(h)
  /\ UNCHANGED <<stockVars, jobVars, files, reports, hadLevels>>

\* A call throws, or the process dies: the file stays.
FailReport(h) ==
  /\ stage[h] # "idle"
  /\ orphans' = orphans + (IF stage[h] = "record" THEN 1 ELSE 0)
  /\ EndReport(h)
  /\ UNCHANGED <<stockVars, jobVars, files, records, reports, hadLevels>>

ServeReport(h) == ReadRows(h) \/ WriteFile(h) \/ InsertRecord(h)
InventoryNext ==
  \/ NextDay \/ FireJob \/ MissJob \/ ReadItems \/ SaveSnapshots \/ FailJob
  \/ \E i \in Items : CreateItem(i) \/ UpdateItem(i) \/ ResolveGap(i)
  \/ \E h \in Reporters : CheckGaps(h) \/ ReadEvents(h) \/ ReadApprovals(h)
                         \/ ServeReport(h) \/ FailReport(h)

\* A run of the job that was started goes on. Days need not pass, nor does anyone
\* have to ask for anything, and nothing has to fail.
InventoryFairness == WF_inventoryVars(ReadItems) /\ WF_inventoryVars(SaveSnapshots)

InventorySpec == InventoryInit /\ [][InventoryNext]_inventoryVars /\ InventoryFairness
-------------------------------------------------------------------------------
Report == [kind : {"none", "inventory", "events", "approvals"} \cup TooLong,
           from : Days, to : Days, items : SUBSET Items,
           rows : [Items -> [Days -> 0..MaxLevel]]]

\* Every variable stays within its type.
InventoryTypeOK ==
  /\ day \in Days /\ fired \in 0..MaxDay
  /\ level \in [Items -> 0..MaxLevel]
  /\ snapshots \in [Items -> [Days -> 0..MaxLevel]]
  /\ resolutions \in [Items \X Days -> Nat] /\ changes \in Nat
  /\ job \in [pc : {"idle", "read", "save"}, today : Days, rows : [Items -> 0..MaxLevel]]
  /\ stage \in [Reporters -> {"idle", "rows", "file", "record"}]
  /\ asked \in [Reporters -> Report]
  /\ files \in Nat /\ records \in Nat /\ reports \in Nat /\ orphans \in Nat
  /\ hadLevels \in [Items -> [Days -> SUBSET Levels]]
  /\ missed \subseteq Days /\ late \subseteq Days

\* An inventory report answers for every day of its range and every item that
\* was there when it was checked, by a row or by a resolution, although the job,
\* resolutions and new items come in between the check and the rows. Every record
\* of a report has its file; a file has none while its report is not done, or
\* for good when that failed.
ReportsAreComplete ==
  /\ InventoryTypeOK
  /\ \A h \in Reporters : stage[h] \in {"file", "record"} =>
       \A i \in asked[h].items : \A d \in asked[h].from..asked[h].to :
         asked[h].rows[i][d] # 0 \/ resolutions[<<i, d>>] > 0
  /\ files = records + orphans + Cardinality({h \in Reporters : stage[h] = "record"})

\* The snapshot of a day is what the item had at some moment of that day, even
\* when the run of the job that wrote it ended after midnight; only a run that
\* read the items after midnight keeps what they had the day after.
SnapshotsAreOfTheirDay ==
  \A i \in Items : \A d \in Days :
    (snapshots[i][d] # 0 /\ d \notin late) => snapshots[i][d] \in hadLevels[i][d]

\* What is inductive: a range that was free of gaps stays so until its rows are
\* read; what the job has read is of its day, or late; and the days to come have
\* no snapshot yet.
GapsStayClosed ==
  \A h \in Reporters : stage[h] = "rows" =>
    \A i \in asked[h].items : \A d \in asked[h].from..asked[h].to :
      snapshots[i][d] # 0 \/ resolutions[<<i, d>>] > 0
JobKeepsItsDay ==
  /\ fired <= day
  /\ \A i \in Items : level[i] # 0 => level[i] \in hadLevels[i][day]
  /\ job.pc # "idle" => job.today <= day
  /\ job.pc = "save" /\ job.today \notin late =>
       \A i \in Items : job.rows[i] # 0 => job.rows[i] \in hadLevels[i][job.today]
  /\ \A i \in Items : \A d \in Days : d > day => snapshots[i][d] = 0
InventoryIInv ==
  ReportsAreComplete /\ SnapshotsAreOfTheirDay /\ GapsStayClosed /\ JobKeepsItsDay

\* Every item there is when the job reads has a snapshot of that day in the end,
\* unless the job of that day has failed or the day has as many snapshots as a
\* page has items: nothing else leaves an item out. (The doc comment of
\* takeSnapshots, "for each active inventory item", names no such limit.)
EveryDayIsTaken ==
  \A i \in Items : \A d \in Days :
    (job.pc = "read" /\ job.today = d /\ level[i] # 0)
      ~> \/ snapshots[i][d] # 0 \/ d \in missed
         \/ Cardinality({j \in Items : snapshots[j][d] # 0}) = PageSize
===============================================================================
