------------------------------ MODULE Redemption ------------------------------
(***************************************************************************)
(* Redeeming units of an entitlement (entitlements/service.js, redeem).    *)
(*                                                                         *)
(* Every request is an async handler: it gives up the event loop at each   *)
(* await of a database call, so the handlers of several requests, and the  *)
(* retries a client sends with the same idempotency key, interleave at the *)
(* actions below. Only the UPDATE of the quantity and the INSERT of the    *)
(* success row share a transaction.                                        *)
(***************************************************************************)
EXTENDS Integers

CONSTANTS
  Entitlements,   \* rows of entitlements
  Keys,           \* idempotency keys
  Requests,       \* the HTTP requests that are ever made, retries included
  Quantities,     \* the quantities a request may ask for
  Totals,         \* the quantities an entitlement may be issued with
  Serial,         \* the entitlements whose requests never overlap in time
  NoAnswer        \* a request that has not been answered

ASSUME RedemptionAssumption ==
  /\ Quantities \subseteq Nat \ {0}
  /\ Totals \subseteq Nat
  /\ Serial \subseteq Entitlements

VARIABLES
  req,            \* what each request asks for
  total,          \* entitlements.quantity_total
  remaining,      \* entitlements.quantity_remaining
  expired,        \* entitlements.expires_at has passed
  rows,           \* the table redemption_records; a row's id is its writer
  aged,           \* the rows that were created more than 24 hours ago
  audited,        \* the rows the audit trail speaks of
  pc,             \* where each handler is
  seen,           \* currentRemaining, the handler's copy of the quantity
  answer,         \* the row each answered request has been told of
  late,           \* the requests that arrived after the expiry
  lapsed,         \* the requests whose key was found in aged rows only (history)
  redeemed        \* units the success rows say were redeemed (history)

vars == <<req, total, remaining, expired, rows, aged, audited, pc, seen, answer,
          late, lapsed, redeemed>>

Request == [ent : Entitlements, key : Keys, qty : Quantities]
Row == [id : Requests, ent : Entitlements, key : Keys, qty : Quantities,
        status : {"success", "failure"}]
Places == {"idle", "lookup", "replay", "validate", "reject", "redeem", "audit",
           "answered", "error"}

Active(r) == pc[r] \notin {"idle", "answered", "error"}
Goto(r, place) == pc' = [pc EXCEPT ![r] = place]

\* findRedemptionByKey
RowsOf(e, k) == {row \in rows : row.ent = e /\ row.key = k}

\* The unique index idx_redemption_records_idempotency admits an INSERT.
KeyIsFree(r) == RowsOf(req[r].ent, req[r].key) = {}

\* The 24 hours in which a key is tracked (questions.md:287) are not over. No
\* code asks this: it is what the promises are about.
Tracked(e, k) == \E row \in RowsOf(e, k) : row.id \notin aged

Insert(r, status) ==
  rows' = rows \cup {[id |-> r, ent |-> req[r].ent, key |-> req[r].key,
                      qty |-> req[r].qty, status |-> status]}
-------------------------------------------------------------------------------
Init ==
  /\ req \in [Requests -> Request]
  /\ total \in [Entitlements -> Totals]
  /\ remaining = total
  /\ expired \in [Entitlements -> BOOLEAN]
  /\ rows = {}
  /\ aged = {}
  /\ audited = {}
  /\ pc = [r \in Requests |-> "idle"]
  /\ seen = [r \in Requests |-> 0]
  /\ answer = [r \in Requests |-> NoAnswer]
  /\ late = {}
  /\ lapsed = {}
  /\ redeemed = [e \in Entitlements |-> 0]

\* The request reaches the service. The route and the service have checked
\* that the entitlement exists and that the caller may use it: neither fact
\* ever changes, so requests that fail these checks leave no trace here.
Arrive(r) ==
  /\ pc[r] = "idle"
  /\ req[r].ent \in Serial =>
       \A s \in Requests : Active(s) => req[s].ent # req[r].ent
  /\ late' = IF expired[req[r].ent] THEN late \cup {r} ELSE late
  /\ Goto(r, "lookup")
  /\ UNCHANGED <<req, total, remaining, expired, rows, aged, audited, seen,
                 answer, lapsed, redeemed>>

\* Is there a redemption with this key already? Its age makes no difference.
LookUpKey(r) ==
  /\ pc[r] = "lookup"
  /\ Goto(r, IF KeyIsFree(r) THEN "validate" ELSE "replay")
  /\ lapsed' = IF KeyIsFree(r) \/ Tracked(req[r].ent, req[r].key)
               THEN lapsed ELSE lapsed \cup {r}
  /\ UNCHANGED <<req, total, remaining, expired, rows, aged, audited, seen,
                 answer, late, redeemed>>

\* Yes: answer with the prior result.
Replay(r) ==
  /\ pc[r] = "replay"
  /\ \E row \in RowsOf(req[r].ent, req[r].key) :
       answer' = [answer EXCEPT ![r] = row]
  /\ Goto(r, "answered")
  /\ UNCHANGED <<req, total, remaining, expired, rows, aged, audited, seen,
                 late, lapsed, redeemed>>

\* Mutant of Validate: the quantity is not checked.
Validate_NoQuantityCheck(r) ==
  LET e == req[r].ent IN
  /\ pc[r] = "validate"
  /\ seen' = [seen EXCEPT ![r] = remaining[e]]
  /\ Goto(r, IF expired[e] THEN "reject" ELSE "redeem")
  /\ UNCHANGED <<req, total, remaining, expired, rows, aged, audited, answer,
                 late, lapsed, redeemed>>
\* No: read the entitlement, then check the expiry and the quantity in memory.
Validate(r) ==
  LET e == req[r].ent IN
  /\ pc[r] = "validate"
  /\ seen' = [seen EXCEPT ![r] = remaining[e]]
  /\ Goto(r, IF expired[e] \/ remaining[e] < req[r].qty
             THEN "reject" ELSE "redeem")
  /\ UNCHANGED <<req, total, remaining, expired, rows, aged, audited, answer,
                 late, lapsed, redeemed>>

\* Mutant of Reject: no unique index.
Reject_NoIndex(r) ==
  /\ pc[r] = "reject"
  /\ Insert(r, "failure")
  /\ Goto(r, "audit")
  /\ UNCHANGED <<req, total, remaining, expired, aged, audited, seen, answer,
                 late, lapsed, redeemed>>

\* A check failed: record the failure under the key.
Reject(r) ==
  /\ pc[r] = "reject"
  /\ KeyIsFree(r)
  /\ Insert(r, "failure")
  /\ Goto(r, "audit")
  /\ UNCHANGED <<req, total, remaining, expired, aged, audited, seen, answer,
                 late, lapsed, redeemed>>

\* Mutants of Redeem: no unique index; no transaction, so that the UPDATE may
\* stay when the INSERT fails.
Redeem_NoIndex(r) ==
  LET e == req[r].ent IN
  /\ pc[r] = "redeem"
  /\ remaining' = [remaining EXCEPT ![e] = seen[r] - req[r].qty]
  /\ Insert(r, "success")
  /\ redeemed' = [redeemed EXCEPT ![e] = @ + req[r].qty]
  /\ Goto(r, "audit")
  /\ UNCHANGED <<req, total, expired, aged, audited, seen, answer, late,
                 lapsed>>
Redeem_NoTransaction(r) ==
  LET e == req[r].ent IN
  /\ pc[r] = "redeem"
  /\ KeyIsFree(r)
  /\ remaining' = [remaining EXCEPT ![e] = seen[r] - req[r].qty]
  /\ \/ /\ Insert(r, "success")
        /\ redeemed' = [redeemed EXCEPT ![e] = @ + req[r].qty]
        /\ Goto(r, "audit")
     \/ Goto(r, "error") /\ UNCHANGED <<rows, redeemed>>
  /\ UNCHANGED <<req, total, expired, aged, audited, seen, answer, late,
                 lapsed>>

\* The transaction: the quantity becomes what the handler read less what it
\* was asked for, and the success row goes in with it.
Redeem(r) ==
  LET e == req[r].ent IN
  /\ pc[r] = "redeem"
  /\ KeyIsFree(r)
  /\ remaining' = [remaining EXCEPT ![e] = seen[r] - req[r].qty]
  /\ Insert(r, "success")
  /\ redeemed' = [redeemed EXCEPT ![e] = @ + req[r].qty]
  /\ Goto(r, "audit")
  /\ UNCHANGED <<req, total, expired, aged, audited, seen, answer, late,
                 lapsed>>

\* Mutant of DuplicateKey: the UPDATE of the quantity is not rolled back.
DuplicateKey_NoRollback(r) ==
  LET e == req[r].ent IN
  /\ pc[r] \in {"reject", "redeem"}
  /\ ~KeyIsFree(r)
  /\ remaining' = IF pc[r] = "redeem"
                  THEN [remaining EXCEPT ![e] = seen[r] - req[r].qty]
                  ELSE remaining
  /\ Goto(r, "error")
  /\ UNCHANGED <<req, total, expired, rows, aged, audited, seen, answer, late,
                 lapsed, redeemed>>

\* A row with this key got in since LookUpKey: the INSERT raises a unique
\* violation, the transaction rolls back and the request ends in an error.
DuplicateKey(r) ==
  /\ pc[r] \in {"reject", "redeem"}
  /\ ~KeyIsFree(r)
  /\ Goto(r, "error")
  /\ UNCHANGED <<req, total, remaining, expired, rows, aged, audited, seen,
                 answer, late, lapsed, redeemed>>

\* The audit entry goes in after the commit; then the request is answered.
Audit(r) ==
  /\ pc[r] = "audit"
  /\ audited' = audited \cup {r}
  /\ \E row \in rows : row.id = r /\ answer' = [answer EXCEPT ![r] = row]
  /\ Goto(r, "answered")
  /\ UNCHANGED <<req, total, remaining, expired, rows, aged, seen, late,
                 lapsed, redeemed>>

\* A database call throws (writeAudit rethrows too), or the process dies: what
\* the handler has written stays, the caller sees an error.
Fail(r) ==
  /\ Active(r)
  /\ Goto(r, "error")
  /\ UNCHANGED <<req, total, remaining, expired, rows, aged, audited, seen,
                 answer, late, lapsed, redeemed>>

\* Time passes expires_at.
Expire(e) ==
  /\ ~expired[e]
  /\ expired' = [expired EXCEPT ![e] = TRUE]
  /\ UNCHANGED <<req, total, remaining, rows, aged, audited, pc, seen, answer,
                 late, lapsed, redeemed>>

\* 24 hours pass for the rows there are, and the nightly key clean-up comes by.
\* It deletes nothing, so the rows go on to answer for their keys.
DayPasses ==
  /\ \E row \in rows : row.id \notin aged
  /\ aged' = {row.id : row \in rows}
  /\ UNCHANGED <<req, total, remaining, expired, rows, audited, pc, seen, answer,
                 late, lapsed, redeemed>>

Step(r) ==
  \/ LookUpKey(r) \/ Replay(r) \/ Validate(r) \/ Reject(r) \/ Redeem(r)
  \/ DuplicateKey(r) \/ Audit(r)

Next ==
  \/ \E r \in Requests : Arrive(r) \/ Step(r) \/ Fail(r)
  \/ \E e \in Entitlements : Expire(e)
  \/ DayPasses

Spec == Init /\ [][Next]_vars

-------------------------------------------------------------------------------
\* Every variable stays within its type.
TypeOK ==
  /\ req \in [Requests -> Request]
  /\ total \in [Entitlements -> Nat]
  /\ remaining \in [Entitlements -> Int]
  /\ expired \in [Entitlements -> BOOLEAN]
  /\ rows \in SUBSET Row
  /\ aged \in SUBSET Requests
  /\ audited \in SUBSET Requests
  /\ pc \in [Requests -> Places]
  /\ seen \in [Requests -> Int]
  /\ answer \in [Requests -> Row \cup {NoAnswer}]
  /\ late \in SUBSET Requests
  /\ lapsed \in SUBSET Requests
  /\ redeemed \in [Entitlements -> Nat]

\* However many stale copies of the quantity are in flight, no write takes the
\* stored quantity below zero or above what was issued.
RemainingInBounds ==
  \A e \in Entitlements : 0 <= remaining[e] /\ remaining[e] <= total[e]

\* The holder never loses units: what is left and what success rows account
\* for add up to at least what was issued. (A stale write can only give units
\* back, and then more is redeemed than was issued.)
NoUnitLost ==
  \A e \in Entitlements : remaining[e] + redeemed[e] >= total[e]

\* The doc comment of redeem, "return the prior result (no double decrement)":
\* requests that name the same entitlement and key and are answered are told of
\* the very same redemption, unless one of them asked when the key had been
\* decided more than 24 hours before. (To such a request questions.md:287
\* promises that the key can be reused; the code tells it the old result.)
SameKeySameAnswer ==
  \A r, s \in Requests \ lapsed :
    /\ pc[r] = "answered" /\ pc[s] = "answered"
    /\ req[r].ent = req[s].ent /\ req[r].key = req[s].key
    => answer[r] = answer[s]

\* A request that arrives after the expiry redeems nothing, whatever it
\* overlaps with (it may still be told of a redemption made before).
LateRequestsRedeemNothing ==
  \A row \in rows : row.id \in late => row.status = "failure"

\* Traceability: a redemption row without an audit entry is one whose request
\* has not got that far or has died; a caller whose own request wrote the row
\* is never answered before the audit trail has it.
UnauditedOnlyOnFailure ==
  \A row \in rows : row.id \notin audited => pc[row.id] \in {"audit", "error"}

\* A row carries the entitlement and the key of the request that wrote it,
\* which has gone on from the INSERT.
RowsHaveWriters ==
  \A row \in rows :
    /\ row.ent = req[row.id].ent /\ row.key = req[row.id].key
    /\ pc[row.id] \in {"audit", "answered", "error"}

\* At most one redemption is recorded for an entitlement and a key.
OneRowPerKey ==
  \A row1, row2 \in rows :
    row1.ent = row2.ent /\ row1.key = row2.key => row1 = row2

\* Only rows grow old.
OnlyRowsAge == \A i \in aged : \E row \in rows : row.id = i

\* What a handler relies on at each place between two of its steps: above all,
\* the copy of the quantity it is about to write from is at least what it will
\* subtract, and out of date only upwards.
HandlersRely ==
  \A r \in Requests :
    /\ r \in late => expired[req[r].ent]
    /\ pc[r] = "replay" => ~KeyIsFree(r)
    /\ pc[r] = "audit" => \E row \in rows : row.id = r
    /\ pc[r] = "answered" => answer[r] \in RowsOf(req[r].ent, req[r].key)
    /\ pc[r] = "redeem" =>
         LET e == req[r].ent IN
         /\ req[r].qty <= seen[r] /\ seen[r] <= total[e]
         /\ seen[r] + redeemed[e] >= total[e]
         /\ r \notin late

\* The inductive invariant of the proofs.
IInv ==
  /\ TypeOK
  /\ RemainingInBounds /\ NoUnitLost
  /\ LateRequestsRedeemNothing /\ UnauditedOnlyOnFailure
  /\ RowsHaveWriters /\ OneRowPerKey /\ OnlyRowsAge /\ HandlersRely
\* The quantity is sound, however many stale copies of it are in flight.
QuantityHolds == TypeOK /\ RemainingInBounds /\ NoUnitLost

\* The requests are treated alike: those with the same key are told the same
\* while the key is tracked, and those that come too late redeem nothing.
RequestsHold == SameKeySameAnswer /\ LateRequestsRedeemNothing
-------------------------------------------------------------------------------
\* Atomicity of the transaction: the stored quantity changes only in a step
\* that adds a success row for the entitlement, under a key that had none.
QuantityChangesWithItsRow ==
  [][\A e \in Entitlements : remaining'[e] # remaining[e] =>
       \E row \in rows' \ rows :
         row.ent = e /\ row.status = "success" /\ RowsOf(e, row.key) = {}]_vars

\* How the handlers implement IdempotentRedemption: a pair is decided by the
\* row that carries it and as old as that row, and an answer tells the status
\* of its row.
Ask == [r \in Requests |-> <<req[r].ent, req[r].key>>]
StatusOf(S) == IF S = {} THEN "none" ELSE (CHOOSE row \in S : TRUE).status
Outcome == [p \in Entitlements \X Keys |-> StatusOf(RowsOf(p[1], p[2]))]
Untracked ==
  {p \in Entitlements \X Keys : RowsOf(p[1], p[2]) # {} /\ ~Tracked(p[1], p[2])}
Told ==
  [r \in Requests |->
    IF pc[r] = "answered" THEN answer[r].status
    ELSE IF pc[r] = "error" THEN "error" ELSE "nothing"]

Idem == INSTANCE IdempotentRedemption
          WITH ask <- Ask, outcome <- Outcome, untracked <- Untracked,
               told <- Told

\* The doc comment of redeem, items 1 to 4, for as long as questions.md:287 has
\* a key tracked: every behaviour of the handlers is one where an entitlement
\* and key is decided once in 24 hours, and where everybody who asks with that
\* key is told the decision there is or gets an error.
KeepsIdempotencyPromise == Idem!Spec

\* When the requests of an entitlement do not overlap, the books balance to
\* the unit, errors between the commit and the answer and retries included.
BooksBalance ==
  \A e \in Serial : remaining[e] + redeemed[e] = total[e]
===============================================================================
