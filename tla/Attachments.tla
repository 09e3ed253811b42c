----------------------------- MODULE Attachments -----------------------------
(***************************************************************************)
(* Uploads and downloads of attachments (modules/attachments): the files   *)
(* on disk, and the rows that name them.                                   *)
(*                                                                         *)
(* A file is named after the hash of its content, so that two uploads of   *)
(* the same content (in one month, with one extension) write to the same   *)
(* path. writeFile empties the file before it fills it, and the row is     *)
(* inserted when the file and its variants are written. Neither files nor  *)
(* rows are ever deleted. Who may see the attachments of an event or of a  *)
(* recipe is left out: a request that is refused leaves no trace.          *)
(***************************************************************************)
EXTENDS Integers, FiniteSets

CONSTANTS
  Uploaders,      \* upload requests being served at the same time
  Downloaders,    \* download requests being served at the same time
  Paths,          \* storage_path: the hash of a content under month and extension
  Images,         \* those whose content is a picture that sharp can read
  MaxParts,       \* bound: files of one request
  MaxRequests     \* bound: upload requests

ASSUME AttachmentsAssumption ==
  Images \subseteq Paths /\ MaxParts \in Nat /\ MaxRequests \in Nat

VARIABLES
  disk,           \* each file: missing, torn (not as it should be) or whole
  made,           \* how many variants of each picture are on disk
  rows,           \* the attachments: their path and how many variants they name
  up,             \* what each upload is doing, with its locals
  down,           \* the path that each download has found
  requests,       \* upload requests so far, for the bound
  emptied,        \* paths that were opened while a row or an upload had them (history)
  sent            \* what downloads have sent (history)

attachmentVars == <<disk, made, rows, up, down, requests, emptied, sent>>
fileVars == <<disk, made>>
restVars == <<down, requests, emptied, sent>>

Variants == 3   \* thumb, preview and full, made in this order
File == {"missing", "torn", "whole"}
Row == [path : Paths, variants : 0..Variants]
Named(p) == \E row \in rows : row.path = p

\* An upload: how many files of it are still to come; of the file at hand its
\* path, whether it is said to be an image, how many variants are made, and
\* whether somebody else has emptied the file since this upload opened it.
NoPath == "none"
Places == {"idle", "next", "open", "write", "variant", "insert", "audit"}
Upload == [at : Places, left : 0..MaxParts, path : Paths \cup {NoPath},
           image : BOOLEAN, variants : 0..Variants, cut : BOOLEAN]
Between(place, n) == [at |-> place, left |-> n, path |-> NoPath, image |-> FALSE,
                      variants |-> 0, cut |-> FALSE]
Idle == Between("idle", 0)

Become(h, t) == up' = [up EXCEPT ![h] = t]
Goto(h, place) == Become(h, [up[h] EXCEPT !.at = place])
\* The file at hand is dealt with, well or not.
NextFile(h) == Become(h, Between("next", up[h].left - 1))
-------------------------------------------------------------------------------
AttachmentsInit ==
  /\ disk = [p \in Paths |-> "missing"] /\ made = [p \in Paths |-> 0]
  /\ rows = {}
  /\ up = [h \in Uploaders |-> Idle] /\ down = [h \in Downloaders |-> NoPath]
  /\ requests = 0 /\ emptied = {} /\ sent = {}

\* POST /attachments, of somebody who may see the event or the recipe.
Receive(h) ==
  /\ up[h] = Idle /\ requests < MaxRequests /\ requests' = requests + 1
  /\ \E n \in 0..MaxParts : Become(h, Between("next", n))
  /\ UNCHANGED <<fileVars, rows, down, emptied, sent>>

\* The next file is of a type that is not allowed, or too large...
Refuse(h) ==
  /\ up[h].at = "next" /\ up[h].left > 0
  /\ NextFile(h)
  /\ UNCHANGED <<fileVars, rows, restVars>>
\* ... or is hashed, and its directory is made. Its type is what the sender says.
Accept(h) ==
  /\ up[h].at = "next" /\ up[h].left > 0
  /\ \E p \in Paths, image \in BOOLEAN :
       Become(h, [up[h] EXCEPT !.at = "open", !.path = p, !.image = image])
  /\ UNCHANGED <<fileVars, rows, restVars>>

\* Mutant of Open: the file is not waited for.
Open_NotAwaited(h) ==
  /\ up[h].at = "open"
  /\ disk' = [disk EXCEPT ![up[h].path] = "torn"]
  /\ Goto(h, "insert")
  /\ UNCHANGED <<made, rows, restVars>>

\* writeFile opens the file and empties it, for others who write it as well...
Open(h) ==
  LET p == up[h].path IN
  /\ up[h].at = "open"
  /\ disk' = [disk EXCEPT ![p] = "torn"]
  /\ up' = [g \in Uploaders |->
              IF g = h THEN [up[h] EXCEPT !.at = "write"]
              ELSE [up[g] EXCEPT !.cut = @ \/ (up[g].at = "write" /\ up[g].path = p)]]
  /\ emptied' = IF Named(p) \/ \E g \in Uploaders \ {h} : up[g].path = p
                THEN emptied \cup {p} ELSE emptied
  /\ UNCHANGED <<made, rows, down, requests, sent>>
\* ... and fills it. What was written before somebody else emptied the file is
\* gone, unless that somebody has filled it again.
Fill(h) ==
  LET p == up[h].path IN
  /\ up[h].at = "write"
  /\ \E content \in IF up[h].cut /\ disk[p] = "torn" THEN {"torn", "whole"}
                    ELSE {"whole"} : disk' = [disk EXCEPT ![p] = content]
  /\ Become(h, [up[h] EXCEPT !.at = IF up[h].image THEN "variant" ELSE "insert"])
  /\ UNCHANGED <<made, rows, restVars>>

\* Mutant of MakeVariant: a variant is named before it is made.
MakeVariant_Named(h) ==
  /\ up[h].at = "variant"
  /\ Become(h, [up[h] EXCEPT !.at = "insert", !.variants = Variants])
  /\ UNCHANGED <<fileVars, rows, restVars>>

\* sharp makes one variant after the other...
MakeVariant(h) ==
  LET p == up[h].path  n == up[h].variants + 1 IN
  /\ up[h].at = "variant" /\ p \in Images
  /\ made' = [made EXCEPT ![p] = IF n > @ THEN n ELSE @]
  /\ Become(h, [up[h] EXCEPT !.variants = n,
                             !.at = IF n = Variants THEN "insert" ELSE "variant"])
  /\ UNCHANGED <<disk, rows, restVars>>
\* ... or fails: the attachment then names none.
GiveUpVariants(h) ==
  /\ up[h].at = "variant"
  /\ Become(h, [up[h] EXCEPT !.variants = 0, !.at = "insert"])
  /\ UNCHANGED <<fileVars, rows, restVars>>

\* The row is inserted, one for each upload. (Equal rows are one here.)
Insert(h) ==
  /\ up[h].at = "insert"
  /\ rows' = rows \cup {[path |-> up[h].path, variants |-> up[h].variants]}
  /\ Goto(h, "audit")
  /\ UNCHANGED <<fileVars, restVars>>

\* The audit entry is written, and the answer for this file is "success".
Audit(h) ==
  /\ up[h].at = "audit"
  /\ NextFile(h)
  /\ UNCHANGED <<fileVars, rows, restVars>>

\* Mutant of FailFile: what failed is tried again, and again.
FailFile_Retries(h) ==
  /\ up[h].at \in {"open", "write", "insert", "audit"}
  /\ Goto(h, "open")
  /\ UNCHANGED <<fileVars, rows, restVars>>

\* Something fails for this file: the answer for it is "error", and what is
\* written stays; the other files of the request have their turn.
FailFile(h) ==
  /\ up[h].at \in {"open", "write", "insert", "audit"}
  /\ NextFile(h)
  /\ UNCHANGED <<fileVars, rows, restVars>>

Reply(h) ==
  /\ up[h].at = "next" /\ up[h].left = 0
  /\ Become(h, Idle)
  /\ UNCHANGED <<fileVars, rows, restVars>>

\* GET /attachments/:id/download finds the row...
Find(h) ==
  /\ down[h] = NoPath
  /\ \E row \in rows : down' = [down EXCEPT ![h] = row.path]
  /\ UNCHANGED <<fileVars, rows, up, requests, emptied, sent>>
\* ... and sends the file as it is then, or that it is missing.
Send(h) ==
  /\ down[h] # NoPath
  /\ sent' = sent \cup {disk[down[h]]}
  /\ down' = [down EXCEPT ![h] = NoPath]
  /\ UNCHANGED <<fileVars, rows, up, requests, emptied>>

\* The process dies, and starts again.
Crash ==
  /\ up' = [h \in Uploaders |-> Idle] /\ down' = [h \in Downloaders |-> NoPath]
  /\ UNCHANGED <<fileVars, rows, requests, emptied, sent>>

Serve(h) ==
  \/ Refuse(h) \/ Accept(h) \/ Open(h) \/ Fill(h) \/ MakeVariant(h)
  \/ GiveUpVariants(h) \/ Insert(h) \/ Audit(h) \/ FailFile(h) \/ Reply(h)

AttachmentsNext ==
  \/ \E h \in Uploaders : Receive(h) \/ Serve(h)
  \/ \E h \in Downloaders : Find(h) \/ Send(h)
  \/ Crash

\* Node gets round to every request: each call of the file system, of sharp and
\* of the database ends, one way or another.
AttachmentsFairness == \A h \in Uploaders : WF_attachmentVars(Serve(h))

AttachmentsSpec ==
  AttachmentsInit /\ [][AttachmentsNext]_attachmentVars /\ AttachmentsFairness
-------------------------------------------------------------------------------
AttachmentsTypeOK ==
  /\ disk \in [Paths -> File] /\ made \in [Paths -> 0..Variants]
  /\ rows \subseteq Row
  /\ up \in [Uploaders -> Upload] /\ down \in [Downloaders -> Paths \cup {NoPath}]
  /\ requests \in 0..MaxRequests
  /\ emptied \subseteq Paths /\ sent \subseteq File

\* However uploads overlap, fail or die, a row names a file that is there and
\* variants that are made; and the file is whole, unless its content has been
\* uploaded again, then or since.
FilesBehindRows ==
  /\ AttachmentsTypeOK
  /\ \A row \in rows :
       /\ disk[row.path] # "missing"
       /\ row.path \notin emptied => disk[row.path] = "whole"
       /\ row.variants \in {0, made[row.path]}

\* A download never finds the file missing ("Attachment file not found on
\* disk"), and sends it whole as long as no content is uploaded twice.
SentWhole == "missing" \notin sent /\ (emptied = {} => sent \subseteq {"whole"})

\* What an upload may rely on at each place, whatever others have done since:
\* the file it has written is there, and whole unless somebody emptied it, and
\* so are the variants it has made.
Relies(u) ==
  /\ u.at \in {"idle", "next"} => ~u.cut /\ u.variants = 0
  /\ u.at \notin {"idle", "next"} =>
       /\ u.path \in Paths /\ u.left > 0
       /\ u.cut => u.path \in emptied
       /\ u.variants <= made[u.path]
       /\ u.at # "open" => disk[u.path] # "missing"
       /\ u.at \notin {"open", "write"} =>
            u.path \in emptied \/ disk[u.path] = "whole"
  /\ u.at \in {"open", "write"} => u.variants = 0
  /\ u.at = "variant" => u.variants < Variants
  /\ u.at \in {"insert", "audit"} => u.variants \in {0, Variants}
UploadsRely == \A h \in Uploaders : Relies(up[h])

\* The inductive invariant. Only all variants of a picture are ever named, and
\* a path that a download has found is that of a row.
AttachmentsIInv ==
  /\ FilesBehindRows /\ SentWhole /\ UploadsRely
  /\ \A row \in rows : row.variants \in {0, Variants}
  /\ \A h \in Downloaders : down[h] # NoPath => Named(down[h])

\* One file of a request that is refused or fails does not keep the others, nor
\* the answer, from coming.
UploadsEnd == \A h \in Uploaders : up[h].at # "idle" ~> up[h].at = "idle"
===============================================================================
