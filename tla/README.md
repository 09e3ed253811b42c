# A TLA+ model of the hospitality operations backend

The repository is a single-site system for hospitality events: a Fastify
server on Knex and PostgreSQL with a Redis or in-memory cache
(`src/repo/backend`), and a SvelteKit client (`src/repo/frontend`). This
directory holds TLA+ modules translated from that code, TLC configurations that
check them on small instances, and theorems about them that TLAPS checks for
instances of every size. `PROJECT.json` lists the components, the runs, the
mutants that show what each property can catch, the hazards the properties are
for, and the lines behind each definition.

## What makes this system hard

One Node process serves all requests. A handler is an `async` function that
gives up the event loop at every `await` of a database call, so any number of
handlers are at work at once and interleave at those points. Nearly every
handler has one shape:

1. read a row by id,
2. check it in memory (`if (row.status !== ...) throw`),
3. write by id (`UPDATE ... WHERE id = ?`), without repeating the check,
4. perhaps write a second row or a second table,
5. write the audit entry; its failure is rethrown (`shared/audit.js`).

There is one transaction in the whole backend, in the redemption of
entitlements, and it does not span the read it relies on. What a check has
established may be gone when the write comes, two handlers may pass one check,
and an error or a crash between two writes leaves the first one in place.
Besides, there are four cron jobs in the same process, two processes that a
backup starts, files on disk beside rows in tables, timers in the cache, and a
browser page whose requests share one session. Every action of the models is
one stretch of code between two points where something else may happen.

## Inventory

| Component | State it keeps | Operations | Hard behaviour | What makes it correct |
|---|---|---|---|---|
| Entitlement redemption (`modules/entitlements`) | `entitlements.quantity_remaining`, `redemption_records` with the unique index on entitlement and key | `redeem` | overlapping requests, retries with one key, the stale copy of the quantity, expiry while requests wait, failure after the commit | quantity within bounds, one answer per key while it is tracked, no unit lost, books balance |
| Entitlement issuance and bulk import (`modules/entitlements`, `modules/events`) | `entitlements`, `bulk_import_batches` | rules of an approval, manual issue, validate, confirm | a batch confirmed twice at once or again after an error; an error in the loop over the rules | a batch is imported whole and once; each rule gives once |
| Reservations (`modules/reservations`) | `reservations` (status, end, overtime columns), `approvals` of type overtime | create, approve, release, occupy, return, cancel, reschedule, renew, approve overtime | check and write apart, two writes without a transaction, a pending flag that outlives its status | stages of use in order, overtime answered for, a rescheduled row replaced |
| Approvals (`modules/approvals`) | `approvals`, and through them `events.budget_*` | create, approve, reject | overlapping decisions, effect as a second write | four eyes, two signatures, decided once, effect exactly for approved ones |
| Events (`modules/events`) | `events`, `event_budget_revisions`, windows, materials, resource requests | create, update, transition, windows, materials, requests | edits against transitions and decisions, revisions read then inserted | states in order, cap and budget only with their approval, revisions chain |
| Check-in (`modules/checkin`) | `event_checkins`, flags in the audit trail | check in, list | four reads, then an insert; windows and scopes that change meanwhile | no guest above the headcount without a flag, none in a window that is not open |
| Recipes (`modules/recipes`) | `recipes`, `recipe_revisions` | create, revise, submit, approve, reject | revision and current version are two writes | the current version is an approved one |
| Inventory and reports (`modules/inventory`, `modules/reports`) | `inventory_items`, `inventory_snapshots`, gap resolutions, report files and `report_exports` | nightly snapshot, resolve, export | a night without the job, a job that runs into the next day, more items than its page has, a gap check apart from the rows it is for | reports cover every day or say why not; a snapshot shows its own day |
| Catalogue (`modules/resources`) | `resources`, `metadata_templates`, tags | create, update, publish, templates, tree | the template of the check and that of the write may differ; parents in a circle | metadata fit a template; the tree shows each published resource once |
| Attachments (`modules/attachments`) | files, variants, `attachments` | upload, download | file, variants and row written apart; equal contents share a path | a row has its file, whole, and its variants |
| Cache (`plugins/cache.js`) | values with a time to live, in Redis or in memory, and their timers | set, delete, purge, warm up, shut down | a purge while the warm-up holds rows; timers of values that were replaced | one timer per value, purges last, stale values go |
| Backup (`modules/backup`) | `backup_runs`, `drill_runs`, dump files | run, drill | two external processes, a time limit, crashes | what a row tells of its file is so, and it tells an outcome |
| Scheduler, server lifecycle (`plugins/scheduler.js`, `server.js`) | cron jobs, order of start and shutdown | start, fire, stop | jobs and requests that outlive the cache | as for the parts it drives |
| Authentication (`auth`, `middleware/authenticate.js`) | `refresh_tokens`, users, roles | register, login, refresh, logout | one token refreshed twice, logout while a refresh is under way | a refresh token is used once; logout ends every session |
| Frontend client and session store | tokens, the refresh under way | request, refresh, retry, logout, reload | many 401s at once | one refresh, every request ends |
| Users and roles | `users`, `user_roles`, manager scopes | administer | roles that change during a session | a refresh has roles no older than before |
| Data collection, circuit breaker, image processing, audit, middleware, schema, pages | see "Not modelled" | | | |

### How the parts interact

- `events.updateEvent` asks for an approval (`createApproval`);
  `approvals.approveApproval` writes the new amount into the event: `Events`
  instantiates `Approvals`.
- `reservations.returnResource` asks for an approval of the overtime, and
  `approveOvertime` decides such rows by event and type; the approvals module
  may decide the same rows without telling the reservation: counters of the
  overtime rows in `Reservations` stand for the table.
- `events.transitionState` to `approved` issues entitlements for the active
  rules: one step with its failure in `Events` (`Issue`), rule by rule in
  `Issuance`.
- `events.transitionState` to `closed` reads the reservations, and check-in
  needs an event in the right state: `CheckIn`.
- Reports are refused while the inventory has an unresolved gap, and gaps come
  from the nightly job: `Inventory` has all three.
- The scheduler warms the cache and runs the backup in a server that starts,
  stops and dies: `Backup` extends `Cache`. No other code touches the cache.
- The page's requests, its refresh and the rows of the server that a refresh
  revokes are one module, `Sessions`.

## The modules

### Redemption, IdempotentRedemption

`Redemption` models `redeem`. A request is a handler that goes from `lookup`
(`findRedemptionByKey`) to `replay`, or to `validate` (the entitlement read
again, expiry and quantity checked), to `reject` (the failure row) or `redeem`
(the transaction of UPDATE and INSERT), then `audit`. `seen` is the handler's
`currentRemaining`, computed before the transaction. Two requests with one key
are a retry; the unique index decides between them, and the one that loses ends
in an error with nothing written. `Fail` is a failed call or a crash at any
place outside the transaction.

Keys have an age. `DayPasses` makes the rows there are older than 24 hours
(`aged`), also while handlers are on their way, and stands for the nightly key
clean-up, which deletes nothing. `findRedemptionByKey` and the unique index look
at no age, so neither does any guard; `lapsed` keeps the requests that found
their key decided more than 24 hours before.

`IdempotentRedemption` is what the endpoint promises its callers: a key of an
entitlement is decided at most once while it is tracked, and all who are
answered are told the decision there is. The documents have a key tracked for 24
hours and reusable afterwards; the code has it tracked for good. The promise is
what both say: after 24 hours (`Lapse`) a key may be decided anew, and need not
be. `Redemption` is shown to implement it under the mapping that reads decisions
and their age from `rows` and answers from `answer`
(`KeepsIdempotencyPromise == Idem!Spec`), and `SameKeySameAnswer` says the same
of the requests that are not in `lapsed`. What the code does with the others is
number 8 of the disagreements below.

### Issuance

Batches of rows that are good, dangling (they name no event or no user) or
malformed. `Validate` keeps the rows whose columns are right, each at its place
in the file, since only how many there are and of which kind is looked at; a
confirmation is `LoadBatch`, `CreateMany` (one INSERT, whole or not at all) and
`ConfirmBatch`.
The rules of an approval are gone through by `SkipRule` or `ApplyRule` and
`AuditRule`; an error in the loop is logged and ends it.

### Reservations

All operations on the reservations of one event. `Load` is the read and
the status check (`Allowed` is the table of checks); the other actions are the
writes that follow. `returnLate`, `reschedule` and `approveOvertime` have two
writes, with a place between them (`HalfDone`); `Fail` may strike at any place.
Times are in half hours: the grace of 30 minutes is 1.

### Approvals

The approvals of one event with the budget and the cap they change. What a
handler will write (`signFirst`, `signOnly`, `signSecond`, ...) is settled
where it reads the row, as in the code. `Apply` is the UPDATE of the event
after the decision. An approval that needs two signatures is created only by a
caller that passes `requires_second_approval`; the service supports it, and no
route of the repository passes it. The model has both kinds.

### Events

One event with its approvals (`Reviews == INSTANCE Approvals`). An editor is a
handler of `PATCH /events/:id` (`LoadUpdate`, `CheckOverride`, `Revise`, `Ask`,
`Record`, `Write`) or of `PATCH /events/:id/state` (`LoadTransition`,
`CheckPending`, `SetState`, `Issue`). `Exceeds` is the threshold of 10%.
Submission and closing also look at windows, materials and reservations, which
change independently: the model lets such a check succeed or fail at any time.
`budget_override` approvals have no route that creates them; `updateEvent`
looks for them all the same, so `RequestReview` may put one in.

### CheckIn

An event from its approval to its closing. A check-in is `LoadEvent`,
`CheckAccess`, `FindWindow`, `Count`, perhaps `Flag`, and `Create`, each a
statement of its own; the list of guests is read and counted by two. Around it
the clock ticks, windows are added (check, then insert) and removed, scopes come
and go, reservations are made, settled and rescheduled, and the event is put
into service and closed. `checkIns` is a bag of rows, for rows have no identity
that anything looks at.

### Recipes

One recipe: its versions (a sequence, `version_no` is the position), the current
one, and the material lists of events that name a version. Submitting,
approving and rejecting are a read that picks the version (`LoadTo...`) and a
write by id; `Approve` is followed by `SetCurrent`, and `Number` by `Insert`,
which the unique index on recipe and number admits or refuses. `createRecipe`
is the initial state and then the same two steps. Two versions may wait for
review: approving twice approves the newer first and then makes the older one
current, which nothing in the code or its documents rules out. A material of type recipe is
checked when it is added and never again. Nobody's identity is in the model: the
code does not compare the author with the reviewer.

### Inventory

Days pass; at the hour of each the job fires (`FireJob`) or does not
(`MissJob`), reads a page of the items with their levels (`ReadItems`) and
writes one snapshot each (`SaveSnapshots`, one statement, over the snapshots
there are). The page has 10000 items (`PageSize`) in no order, and no other page
is asked for: the items beyond it are left out, whichever they are that night.
`UnresolvedGaps` are the days of a range without snapshot and without
resolution, for the items there are. A report is `CheckGaps`, `ReadRows`,
`WriteFile`, `InsertRecord`; the two other reports share the last two.

### Catalog

Resources and the templates their metadata are checked against. `Validates`
distinguishes required fields and fields that must be well formed. An update
reads the resource (`FindBefore`), checks (`CheckUpdate`) and writes (`Update`)
the columns its body names. `Tree` builds the published tree level by level, as
`getTree` does by parent.

### Attachments

An upload goes through its parts one by one: `Refuse`, or `Accept`, `Open`
(which empties the file), `Fill`, `MakeVariant` for each variant of a picture
or `GiveUpVariants`, `Insert`, `Audit`. A part that fails is answered for and
left (`FailFile`). Files are named by their content's hash, so `disk` is indexed
by content. A variant is written in one step: nobody reads it in between, for
the row that names it comes later.

### Cache, Backup

`Cache` has the values and timers of either mode, purges, the changes of the
rows a key stands for (which nobody tells the cache), the warm-up
(`FireWarm`, `ReadRows`, `StoreRows` or `FailKey`), and start, shutdown and the
end of the process. `Backup` extends it with the nightly run: a row
(`InsertRun`), two processes that write the file (`StartDump`, `EndDump`), what
`exec` hears of them (`HearDump`, `Timeout`), the row again (`Complete`,
`RecordFailure`), and the drills. `Exit` of `Cache` and `LoseBackup` are one
step: the processes survive it.

### Sessions

One user, one page, and the server's tokens. The page has requests out
(`Send`, `Authenticate`), which on a 401 join the refresh under way or start one
(`AttemptTokenRefresh`); `Granted` gives all that waited the new token and
`Refused` ends at the login page. The server's part of a refresh is `FindToken`,
`RevokeToken`, `ReadRoles`, `InsertToken`. `PressLogout` forgets the tokens and
leaves the server unaware; `LogoutEverywhere` is the endpoint. `Load` is a
reload, after which answers arrive for nobody (`Unheard`).

### Requests that take turns

Some properties hold however handlers overlap; others only if the handlers of
one row do not. Both are worth knowing, in one run: the constant `Serial` of
`Redemption`, `Reservations`, `Approvals` is the set of rows whose handlers take
turns (the guard of their first action), while other rows see every overlap.
Elsewhere a history variable says whether, or where, requests have overlapped
(`overlapped`), died (`cutShort`, `troubled`, `untold`) or written over each
other (`emptied`, `raced`, `unchecked`). Properties name the case they are
about; what does not name one holds of every behaviour.

History variables (marked so where they are declared) record what happened and
guard nothing.

## Runs

| Run | Question | Bounds |
|---|---|---|
| `redemption_overlap` | What holds of redemption under every overlap, retry and failure, and what more if requests take turns? | 2 entitlements, one with turns; 3 requests; 2 keys of any age; quantities 1, 2 of 2 |
| `reservations_overlap` | What holds of reservations under every overlap and failure, and what more with turns? | 2 rows, one with turns; 2 handlers; overtime below, at and beyond the grace |
| `approvals_overlap` | What holds of decisions and budget under every overlap and failure? | 2 approvals, one with turns; 3 users; 2 handlers; 2 amounts |
| `events_overlap` | What holds of edits, transitions and decisions together? | 2 editors, 1 decider, 1 approval, 2 edits, amounts around the threshold and the cap |
| `recipes_overlap` | What holds of reviews, the current version and material lists under every overlap and failure? | 2 handlers, 2 versions |
| `sessions_page` | Is a session rotated once, ended by a logout, and every request of the page answered? | 2 requests, 2 calls of `/auth`, 1 login, 1 token that grows old, 1 change of roles |
| `issuance_import` | Is a batch imported whole and once, and each rule applied? | 2 handlers, 2 batches of 4 kinds of files, 3 rules with the three kinds of formula |
| `inventory_report` | Do reports cover every day, and snapshots their own? | 3 items, pages of 2, 2 days, 1 change, 1 resolution, 1 report |
| `catalog_check` | Were metadata checked, and does the tree show what is published? | 2 handlers, 2 resources, 2 templates, 2 writes, 1 field |
| `server_jobs` | What holds of cache and backup while the server starts, stops and dies? | 2 keys, 3 versions, 2 purges, 2 starts, 2 backups, 1 drill each |
| `checkin_serve` | Does an event that is served keep to its capacity, windows, scopes and reservations? | 2 handlers, 1 manager, 2 windows, 3 moments, headcount 1, 3 check-ins |
| `attachments_upload` | Are the files of attachments there and whole? | 2 uploads of 2 parts, 1 download, 2 contents, one a picture |

Why these bounds suffice: a race in this code needs two handlers on one row;
a third request lets a retry meet two writers of one key. A second row is there
where statements reach beyond their own row (overtime approvals, the effects of
several approvals on one budget, a parent and its child, two keys of one job).
Amounts of `Events` are 20, 24 and 26 with a cap of 25: 20 to 24 exceeds the
threshold, 24 to 26 does not, 26 exceeds the cap. Three items with a page of two
make a page that is short, one that is full and one that leaves an item out; the
third item may also come while the job runs. Two starts of the server are
what it takes for something to be left over from an earlier one. `MaxRows`,
`MaxEdits`, `MaxIssued`, `MaxCheckIns`, `MaxImported` and the other `Max...`
bound what would grow without end and are named as bounds where they are
declared; they exceed by one what a property allows, so that breaking it is
within reach. Interchangeable handlers, users and keys are symmetric.

`MCBackup` runs `server_jobs` with one of the two jobs at a time (`watched`):
cache and backup share the server and nothing else, so a behaviour of one is
that of the whole with the other left aside, and both kinds are checked.

Requests end and nothing must follow, a server may stay down, and the day of an
event is over at some time, so runs may stop: deadlock is not checked.

### Fairness

Safety does not use any. Six runs check a property of what must happen, each
under weak fairness of exactly the steps that the code's scheduling makes:

| Property | Assumed | Why |
|---|---|---|
| `RequestsEnd` (Sessions) | handlers that have begun go on; the page hears what arrives; a page that leaves is loaded | the event loops of Node and browser; a call of the database or of `fetch` ends, with or without an error |
| `RulesApply` (Issuance) | handlers that have begun go on | as above; `FailIssuing` is not assumed, and not excluded |
| `EveryDayIsTaken` (Inventory) | the job that has fired goes on | as above; that it fires at all, or does not fail, is not assumed, and the items beyond a full page are excepted by the property |
| `StaleValuesGo` (Cache) | timers fire | `setTimeout`, or Redis' own expiry, which does not need the server |
| `BackupsEnd` (Backup) | the run goes on, by what it hears or by the time limit | `exec` is given a limit of five minutes; the two processes need not end |
| `UploadsEnd` (Attachments) | uploads that have begun go on | each part ends well or with an error |

No user has to press anything, no job has to succeed, and no crash is excluded.

## Where code and documents disagree

Met while modelling. The first nine can be seen with TLC: add the formula to
the module as an invariant (or, with a box or `~>`, a property) of its run.

1. Overlapping redemptions with different keys spend the same units:
   `redeem` (`entitlements/service.js:501`) writes what it computed from an
   earlier read. `questions.md:185` has it block insufficient quota.
   `Redemption`: `\A e \in Entitlements : redeemed[e] <= total[e]`.
2. A reservation with overtime pending can be cancelled, rescheduled or
   returned again. `reservations/service.js:283`: "Status stays 'occupied' until
   overtime is approved". `Reservations`:
   `\A r \in Reservations : row[r].pending => row[r].status = "occupied"`.
3. Approving the overtime of one reservation approves the pending overtime of
   all reservations of the event. `reservations/service.js:524`: "the related
   approval record". `Reservations`:
   `\A r \in Reservations : granted[r] > 0 => row[r].approved`.
4. Overlapping handlers make transitions the state machine forbids.
   `reviewer-map.md:43`: "Invalid transitions rejected". `Reservations`:
   `[][\A r \in Reservations : FollowsStateMachine(r)]_vars`.
5. A rejection may overwrite an approval whose effect is in the budget.
   `questions.md:49`: "only after approval". `Approvals`:
   `\A a \in Approvals : approval[a].status = "rejected" => applied[a] = 0`.
6. An approval may be final with its effect lost. `design.md:127` promises
   "ACID guarantees for multi-step workflows". `Approvals`:
   `(\A h \in Handlers : pc[h] = "idle") => \A a \in Approvals :
   approval[a].status = "approved" /\ approval[a].kind # "other" =>
   applied[a] > 0`.
7. A big change of the budget goes through without review when it is asked for
   a second time (`events/service.js:176`), for it is measured against the last
   revision, be that pending or rejected. `questions.md:47`: "must be reviewed
   before the change takes effect". `Events`:
   `[][state = "submitted" /\ event'.budget # event.budget /\
   Exceeds(event.budget, event'.budget) => \E a \in Approvals :
   applied'[a] > applied[a]]_vars`.
8. An idempotency key is never free again: neither the lookup
   (`entitlements/repository.js:179`) nor the unique index
   (`001_initial_schema.js:490`) looks at the age of a row, and nothing deletes
   one. A request that uses a key again after the window is told the old result,
   as a success with units it did not get or as an old failure.
   `scheduler.js:92`: "The idempotency check already uses a 24-hour window, so
   keys older than 24 hours are naturally considered reusable";
   `questions.md:287`: "tracked for 24 hours (after which they can be reused
   safely)"; `questions.md:289` has a 24-hour expiry stored with the key and
   expired keys cleaned up nightly. `Redemption`:
   `\A r \in lapsed : pc[r] = "answered" => answer[r].id \in lapsed`.
9. The nightly job asks for one page of 10000 items (`inventory/service.js:25`),
   and the items beyond it get no snapshot; their days are gaps, so every report
   on the range is refused until each has been resolved by hand.
   `inventory/service.js:17`: "for each active inventory item, create a
   snapshot". `Inventory`: `\A i \in Items : \A d \in Days : (job.pc = "read" /\
   job.today = d /\ level[i] # 0) ~> (snapshots[i][d] # 0 \/ d \in missed)`.

Others, by component:

- *Backup.* `pg_dump | gzip > file` runs in `sh` without `pipefail`: what is
  reported is gzip's status, so a `pg_dump` that fails, or is not installed,
  leaves an empty or torn dump under `completed`. `README.md:284` has it produce
  a valid dump. (`Backup`: `\A i \in Runs : backupRuns[i].status = "completed"
  => artifacts[i] = "whole"`.) A run that the process leaves is `running` for
  good; the time limit ends the shell only, so a `failed` run may still get a
  whole dump; a drill of any run, passed or not, marks it as tested. The hours
  in `README.md:75` and the retention in `README.md:74` are not in the code.
- *Issuance.* Two confirmations at once, or one after an error between its two
  statements, import a batch twice (`questions.md:179` speaks of a transaction).
  The formula of the seeded rule, `10_per_role`, is not one that
  `evaluateSimpleFormula` understands, so that rule gives nothing.
- *Cache.* `cache-invalidation-matrix.md` describes invalidation by the modules
  and reading through the cache; neither is in the code. A purge that races with
  the warm-up may bring back rows from before it, for one time to live.
- *Inventory.* A missed day is never made up for; the date of a snapshot is in
  UTC while the job fires by local time; `parameters_hash` holds 64 characters,
  so a report with longer filters fails after its file is written.
- *Catalogue.* Updates may make parents lead in a circle, and the resources in
  it are in no tree; giving a resource a template without metadata is not
  checked; a template that changes does not have its resources checked again.
- *Check-in, closing.* A rescheduled reservation can be neither cancelled nor
  returned, so its event cannot be closed; reservations can be created for an
  event that is closed.
- *Attachments.* Uploading a content again empties the file of the attachment
  that has it, and a crash then leaves it torn; an error after the INSERT is
  answered with an error, and a retry gives a second row.
- *Sessions.* The logout of the page does not tell the server, so its refresh
  token stays live; an inactive user can go on refreshing.

## Proofs

TLAPS checks eight modules, for all values of the constants under the named
assumptions on them: `RedemptionAssumption`, `ReservationsAssumption`,
`ApprovalsAssumption`, `RecipesAssumption`, `EventsAssumption`,
`CacheAssumption`, `BackupAssumption`, `SessionsAssumption`,
`IssuanceAssumption`, `CheckInAssumption`, `CatalogAssumption`,
`InventoryAssumption` and `AttachmentsAssumption`, all evaluated by the runs.
They say that bounds are numbers and that `None` is none of the values it stands
beside; that requests are finitely many where they are counted (check-in, the
inserts of the catalogue, reports); `MaxVersion` is at least 1, for a key has
rows or none at the start. Each invariant named here was checked by TLC as an
invariant of the component's run before it was proved.

Two kinds of argument recur. *What a handler relies on* between its read and
its write is an invariant about every handler at once (`HandlersRely`, `Relies`,
`EditorsRely`, `CacheRelies`, ...): it must survive the steps of all the others.
It can only say what nobody takes back: a status once reached stays in `been`,
an override once signed stays signed. *What holds in turns* (`TurnsInv` of
`Reservations`, `Approvals`, `Recipes` and `Events`) is stronger: the one handler
at work finds what it read still so. It is proved on top of the first kind, for
the rows or the behaviours in which requests do not overlap, and the properties
that fail otherwise rest on it.

**Redemption_proofs.** `TypeCorrect`, and `Invariance` of `IInv`:
`TypeOK`, the properties, and four facts they need. `RowsHaveWriters` says
that a row's id is that of the request that wrote it, so that a request about to
write cannot have a row already; `OneRowPerKey` is what the unique index
gives, for good and so for the window too; `OnlyRowsAge` makes a new row one
that is tracked; `HandlersRely` says what a handler knows at each place: at `redeem`,
that its copy `seen` covers the quantity asked for and is at least what is left,
because the quantity never grows. From it follow `QuantitySafe`
(`QuantityHolds`), `ReplaysAgree` (`RequestsHold`), `ExpiryAndTrail`, the
action property `QuantityIsAtomic` and the refinement `KeepsPromise`.
`SerialBooksBalance` adds, for entitlements with turns, that a handler's copy is
exact while it is at `redeem`.

**Reservations_proofs.** `Invariance` of `IInv`, in which `HandlersRely` says
what survives between the check and the write: a status once reached stays in
`been`, whatever another handler has written since. From it `UseIsApproved`
(`UseHolds`), `OvertimeIsTracked` and `RescheduledHasReplacement`. Handlers and
rows move independently, so the proof has one lemma each for a step that writes
nothing, a step of one handler and a step that writes one row. `TurnsInvariance`
adds for the rows in `Serial` that a handler has its row to itself, that the
check it made still holds, and that a replacement is inserted only for a row
that is given up and has none. From both come `OvertimeIsNotForgotten`
(`OvertimeHolds`), `ReschedulingReplaces` (`ReschedulingHolds`), and the action
property `TurnsKeepToStateMachine` (`TurnsFollowStateMachine`).

**Approvals_proofs.** `Invariance` of `IInv`, in which `HandlersRely` keeps for
each handler about to sign that its user did not ask, that the row has the kind
and the amount it had, and, before a second signature, that there is a first one
of someone else. From it `FourEyes` (`SignaturesHold`), `BudgetFromApprovals`
and `ApprovedReachesEvent` (`EffectsHold`). With turns (`TurnsInvariance`), a
handler that is to decide finds the approval pending and one that is to apply it
finds it without an effect, which gives the action property `DecisionIsFinal`
(`DecidedOnce`).

**Recipes_proofs.** `Invariance` of `IInv`, in which `HandlersRely` says that
the version a handler has picked is there and has had the status it was picked
for. Every step lets versions and their history only grow (`Grown`), so what
the other handlers rely on survives; one lemma each for reads, the INSERT, the
writes of a status, and the steps that change what is used. From it
`UseIsReviewed` (`ReviewHolds`), `ApprovalGoesLive` and `NoVersionLost`, and with
turns (`TurnsInvariance`) the action property `ListedRecipeStays`
(`StaysListed`).

**Events_proofs.** `Invariance` of `IInv`, in three parts that hold each other
up. `ApprovalsRely` is what decisions need, and every step of a decision lets
rows only grow (`RowsGrow`): who signed stays, and an override that has the
approvals it needs keeps them, which is why a cap or an amount that an editor
has checked may be written much later. `EditorsRely` says for each editor that
what it is to write beyond the cap has such an override; that the revision it is
to insert was measured against the one of the number before, although other
editors may have inserted theirs since (the unique index on event and number
then refuses it); and that the state it is to set follows one that was reached.
From it `StatesInOrder` (`ReachedInOrder`), `OverCapIsSigned`
(`OverCapNeedsOverride`) and `RevisionsAreOneChain` (`RevisionsChain`).
`TurnsInvariance` adds that an event about to be approved has no change of its
budget pending and that no rule has issued before; with it `LifeIsInOrder`
(`LifeHolds`), `BudgetIsKept` (`BudgetHolds`) and the action property
`EventMovesForward` (`ForwardOnly`) are proved whole.

**Backup_proofs.** First the cache: `CacheInvariance` of `CacheInv`. That each
value has one timer is inductive; that a purge lasts is not, and needs
`CacheRelies`: the rows which the warm-up holds for a key are no older than its
last purge, or the purge has put the key into `raced`. Then the server that has
both jobs: `ServerKeepsCache` shows that it starts as the cache does and takes
only steps of the cache or none, so `EntriesHaveTheirTimer`
(`TimersMatchEntries`) and `PurgedStaysPurged` (`PurgeLasts`) hold of the
server. `BackupInvariance` adds `BackupsRely`, where the job has brought the
file at each of its places; from it `BackupRowsTellTheTruth` (`BackupsAreTold`).

**Sessions_proofs.** `Invariance` of `IInv`. `RotatedOnce` is far from
inductive: that a token has one successor depends on what handlers, the page
and the network hold at the same moment. `HeldOnce`: a token no reload was over
is in the hands of one handler or has one successor, and if it was revoked, it
is on the way from the one to the other or something else ended the session.
`PageHasToken`: nobody else holds the page's token, and it has a successor only
while that is on its way to the page. `PageWaits`: a page with a token waits for
the exchange of that token, and if it is refused there was a cause.
`GrantedIsNew`: tokens on their way to the page have not been used.
`RolesAdvance`: roles are read after the token was given out that they replace.
`FoundInTime`: no refresh is past its check for a token that a logout revoked,
unless it was by then. From it `TokensAreRotatedOnce` (`RotatedOnce`) and
`LogoutIsFinal` (`LogoutEndsSessions`).

**Components_proofs** has the five components that share no state with the
others, after the lemmas about numbers, sums and sequences they need. The
library's induction theorems take a predicate as an operator and cannot be
instantiated; induction is stated here for a *set* of numbers instead
(`Least`, from the well-foundedness of `<`, and `Induction`). With it
`AddsUpExists`, `AddsUpUnique` and `SumWithout` say what `SumFunctionOnSet`
computes: an element and then the others.

*Issuance.* `IssuanceInvariance` of `IssuanceIInv`, in which `BatchesInHand`
says that a batch with one handler has not been imported when it is to be, and
that one that is imported and still pending has its handler on the way to mark
it, unless that died. That what a batch gave is a multiple of its rows survives
every overlap, for it is written by one statement. From it
`BatchesAreImportedOnce` (`ImportedOnce`) and `ImportsAreWhole`
(`ImportIsWhole`). `RulesGiveAtMostOne` is the safety part of `RulesApply`.

*CheckIn.* `CheckInInvariance` of `CheckInIInv`. `CapacityHolds` is not
inductive, for several handlers may have counted one free seat. `RoomIsKept`
counts them: the guests within the headcount, with the handlers about to add
one, are fewer than the headcount and all handlers together, since the last of
them found a seat free; and flags cover those who are about to be added beyond
it. Then `CapacityIsKept` (`CapacityHolds`). `TurnsAreTaken` says that while no
requests have overlapped one handler is at work and still finds what it found,
which gives `WindowsStayApart` (`WindowsApart`) and, with `WindowsBegan`, the
action property `GuestsAreServedInTurn` (`ServedInTurn`). The guests are the sum
of a bag of rows, to which `OneMoreRow` adds one.

*Catalog.* `CatalogInvariance` of `CatalogIInv`: `InHand` says that the metadata
an editor is about to write fit the rules their template has had, which nobody
takes back (`hadRules` only grows). From it `MetadataAreChecked`
(`MetadataWereChecked`). `TreeIsComplete` (`TreeShowsPublished`) needs no
invariant but types, and the theory of the tree: the levels exist as a function
(`LevelsExist`), no resource is on two (`OneLevel`), a set that holds the parents
of its members is on none (`CirclesAreLost`), what is on none is in such a set
(`LostAreInCircles`), and a resource at level n has n others above it, so that
there is no level below the number of resources (`NoLevelBelow`).

*Inventory.* `InventoryInvariance` of `InventoryIInv`: `GapsStayClosed`, because
neither a snapshot nor a resolution is taken back between the check and the
rows, and `JobKeepsItsDay`, that what the job holds is of the day it read on,
or marked `late`. From it `ReportsComplete` (`ReportsAreComplete`) and
`SnapshotsOfTheirDay` (`SnapshotsAreOfTheirDay`).

*Attachments.* `AttachmentsInvariance` of `AttachmentsIInv`, in which `Relies`
says what an upload may count on at each place: from the moment its file is
filled, that the file is there, and whole unless its path is in `emptied`.
`Open` is the step that endangers it, for others; that it puts the path into
`emptied` whenever a row or another upload has it is what carries the proof.
Rows name no variants or all of them, which is why a variant made later cannot
contradict a row. From it `FilesBehindRowsHolds` and `SentWholeHolds`.

### What only TLC checks

Every invariant and every action property that a run checks is stated by a
theorem, and so is the refinement of `IdempotentRedemption`. What remains is
*liveness*: `RequestsEnd`, `RulesApply`, `EveryDayIsTaken`, `StaleValuesGo`,
`BackupsEnd`, `UploadsEnd`. They rest on fairness, hence on `ENABLED`, which
TLAPS 1.4 does not reason about. For the same reason `ServerKeepsCache` is the
safety part of the refinement.

## Plan

Next, in this order:

1. An abstract `ReservationLifecycle` that `Reservations` implements on rows
   with turns, and a job queue that `Backup` and `Inventory` both implement.
2. The resource requests of an event.

## Not modelled

- *Data collection.* Nothing in the backend creates, runs or finishes a job;
  what has callers lists the jobs, requeues one (there is none) and probes the
  source.
- *Circuit breaker, image processing plugin.* No code calls
  `createCircuitBreaker` or the plugin. The variants that are made are those of
  `attachments/service.js`, in `Attachments`.
- *The key clean-up job* writes a log line and changes nothing: it has no action
  of its own, and `DayPasses` of `Redemption` is the time it goes by.
- *Single rows without a protocol*: profiles, roles and their permissions,
  descriptive columns everywhere, the read-only queries and lists.
- *Stateless request code*: authorization, validation, pagination, errors,
  encryption. Where a permission changes while a handler runs (scopes, roles),
  the module of the handler has it.
- *The audit trail* is append-only; what matters of it, that it comes after the
  change and that its failure is rethrown, is in the failures of every handler.
- *Wiring, schema and seeds*: the constraints of the schema are in the modules of
  the tables they protect.
- *The rendering of pages.*
