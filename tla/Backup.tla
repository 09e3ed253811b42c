-------------------------------- MODULE Backup --------------------------------
(***************************************************************************)
(* The nightly backup (backup/service.js) and the drills that restore it,  *)
(* in a server that starts, stops and crashes and warms its cache as       *)
(* module Cache has it.                                                    *)
(*                                                                         *)
(* A run is a row, a file, and a row again: pg_dump | gzip writes the file *)
(* in processes of their own, which may outlive the server, and of which   *)
(* only gzip says how it ended. Nothing looks after a run that was cut     *)
(* short.                                                                  *)
(***************************************************************************)
EXTENDS Cache, Sequences

CONSTANTS
  MaxBackups,     \* bound: runs of the backup
  MaxDrills       \* bound: drills recorded for a run

ASSUME BackupAssumption == MaxBackups \in Nat /\ MaxDrills \in Nat

VARIABLES
  backupRuns,     \* the table backup_runs
  artifacts,      \* the file of each run
  backup,         \* the run of the job: where it is, its row
  drills,         \* drill_runs: how many for each run
  marking,        \* the run a drill was inserted for, not yet marked (0: none)
  dumpFailed,     \* the runs whose pg_dump failed (history)
  untold          \* rows whose second statement never came (history)

drillVars == <<drills, marking>>
backupVars == <<backupRuns, artifacts, backup, drillVars, dumpFailed, untold>>

Run == [status : {"running", "completed", "failed"}, restore_tested : BOOLEAN]
Runs == DOMAIN backupRuns
Unfinished == {i \in Runs \ untold : backupRuns[i].status = "running"}
NoBackup == [at |-> "idle", run |-> 0]
At(place) == backup.at = place
Goto(place) == backup' = [backup EXCEPT !.at = place]

\* UPDATE backup_runs, by id.
SetStatus(status) ==
  backupRuns' = [backupRuns EXCEPT ![backup.run].status = status]
-------------------------------------------------------------------------------
BackupInit ==
  /\ backupRuns = <<>> /\ artifacts = <<>> /\ backup = NoBackup
  /\ drills = [i \in 1..MaxBackups |-> 0] /\ marking = 0
  /\ dumpFailed = {} /\ untold = {}

\* At one in the morning the job inserts its row. If that fails it has left no
\* trace.
InsertRun ==
  /\ server = "up" /\ At("idle") /\ Len(backupRuns) < MaxBackups
  /\ backupRuns' = Append(backupRuns, [status |-> "running",
                                       restore_tested |-> FALSE])
  /\ artifacts' = Append(artifacts, "none")
  /\ backup' = [at |-> "mkdir", run |-> Len(backupRuns) + 1]
  /\ UNCHANGED <<drillVars, dumpFailed, untold>>

\* Mutant of StartDump: the processes are not waited for.
StartDump_NotAwaited ==
  /\ At("mkdir")
  /\ artifacts' = [artifacts EXCEPT ![backup.run] = "growing"] /\ Goto("complete")
  /\ UNCHANGED <<backupRuns, drillVars, dumpFailed, untold>>

\* mkdir, then exec of the two processes. Either may fail.
StartDump ==
  /\ At("mkdir")
  /\ \/ artifacts' = [artifacts EXCEPT ![backup.run] = "growing"] /\ Goto("dump")
     \/ Goto("fail") /\ UNCHANGED artifacts
  /\ UNCHANGED <<backupRuns, drillVars, dumpFailed, untold>>

\* The processes end, with the dump or with as much of it as there is.
EndDump(i) ==
  /\ artifacts[i] = "growing"
  /\ \/ artifacts' = [artifacts EXCEPT ![i] = "whole"] /\ UNCHANGED dumpFailed
     \/ artifacts' = [artifacts EXCEPT ![i] = "torn"] /\ dumpFailed' = dumpFailed \cup {i}
  /\ UNCHANGED <<backupRuns, backup, drillVars, untold>>

\* exec is told of gzip's status: it has packed what it got, be it nothing.
HearDump ==
  /\ At("dump") /\ artifacts[backup.run] # "growing"
  /\ \/ Goto("complete")
     \/ artifacts[backup.run] = "torn" /\ Goto("fail")
  /\ UNCHANGED <<backupRuns, artifacts, drillVars, dumpFailed, untold>>

\* Mutant of Timeout: exec has no time limit.
Timeout_Never == FALSE /\ UNCHANGED backupVars

\* After five minutes exec ends the shell, not the processes it has started.
Timeout ==
  /\ At("dump")
  /\ Goto("fail")
  /\ UNCHANGED <<backupRuns, artifacts, drillVars, dumpFailed, untold>>

\* The outcome goes into the row. If that fails for success, failure is tried.
Complete ==
  /\ At("complete")
  /\ \/ SetStatus("completed") /\ backup' = NoBackup
     \/ Goto("fail") /\ UNCHANGED backupRuns
  /\ UNCHANGED <<artifacts, drillVars, dumpFailed, untold>>
RecordFailure ==
  /\ At("fail")
  /\ \/ SetStatus("failed") /\ UNCHANGED untold
     \/ untold' = untold \cup {backup.run} /\ UNCHANGED backupRuns
  /\ backup' = NoBackup
  /\ UNCHANGED <<artifacts, drillVars, dumpFailed>>

\* POST /admin/backups/restore-test, for a run in any status...
InsertDrill ==
  /\ server \in {"up", "stopping"} /\ marking = 0
  /\ \E i \in Runs :
       /\ drills[i] < MaxDrills
       /\ drills' = [drills EXCEPT ![i] = @ + 1] /\ marking' = i
  /\ UNCHANGED <<backupRuns, artifacts, backup, dumpFailed, untold>>
\* ... which is then marked, however the drill has ended. This may fail.
MarkTested ==
  /\ marking # 0 /\ marking' = 0
  /\ \/ /\ backupRuns' = [backupRuns EXCEPT ![marking].restore_tested = TRUE]
        /\ UNCHANGED untold
     \/ untold' = untold \cup {marking} /\ UNCHANGED backupRuns
  /\ UNCHANGED <<artifacts, backup, drills, dumpFailed>>

\* The server ends, and what it was doing: the row is left as it is.
LoseBackup ==
  /\ backup' = NoBackup /\ marking' = 0
  /\ untold' = untold \cup ({backup.run, marking} \ {0})
  /\ UNCHANGED <<backupRuns, artifacts, drills, dumpFailed>>

RunBackup == StartDump \/ HearDump \/ Timeout \/ Complete \/ RecordFailure

ServerInit == Init /\ BackupInit
ServerNext ==
  \/ Work /\ UNCHANGED backupVars
  \/ Exit /\ LoseBackup
  \/ /\ InsertRun \/ RunBackup \/ InsertDrill \/ MarkTested
        \/ \E i \in Runs : EndDump(i)
     /\ UNCHANGED vars

\* The time limit ends a dump that does not end, and then database calls end,
\* with or without an error. The two processes need not end.
ServerFairness ==
  /\ \A k \in AllKeys : WF_<<vars, backupVars>>(Expire(k) /\ UNCHANGED backupVars)
  /\ WF_<<vars, backupVars>>(RunBackup /\ UNCHANGED vars)

ServerSpec == ServerInit /\ [][ServerNext]_<<vars, backupVars>> /\ ServerFairness
-------------------------------------------------------------------------------
BackupTypeOK ==
  /\ backupRuns \in Seq(Run) /\ Len(backupRuns) <= MaxBackups
  /\ artifacts \in Seq({"none", "growing", "torn", "whole"})
  /\ Len(artifacts) = Len(backupRuns)
  /\ backup \in [at : {"idle", "mkdir", "dump", "complete", "fail"}, run : {0} \cup Runs]
  /\ drills \in [1..MaxBackups -> 0..MaxDrills] /\ marking \in {0} \cup Runs
  /\ dumpFailed \subseteq Runs /\ untold \subseteq Runs

\* What backup_runs tells is so. A completed backup is in a file that nobody
\* writes to any more, and which is whole unless pg_dump failed (which nobody
\* looks at); a running one is at work, and one that was drilled is marked,
\* unless the second statement failed or the server ended before it; and no
\* backup is marked without a drill.
BackupsAreTold ==
  /\ BackupTypeOK
  /\ \A i \in Runs : LET run == backupRuns[i] IN
       /\ run.status = "completed" =>
            artifacts[i] = IF i \in dumpFailed THEN "torn" ELSE "whole"
       /\ run.status = "running" => backup.run = i \/ i \in untold
       /\ drills[i] > 0 => run.restore_tested \/ marking = i \/ i \in untold
       /\ run.restore_tested => drills[i] > 0

\* A run is not left running because its dump hangs: its row tells an outcome,
\* unless the server ends or the database fails when it is to be recorded.
BackupsEnd ==
  \A i \in 1..MaxBackups : i \in Unfinished ~> i \notin Unfinished
-------------------------------------------------------------------------------
\* What the job and the drill rely on between their statements: the file of the
\* run is where the job has brought it, torn when pg_dump failed, and no run that
\* is not there yet was drilled.
BackupsRely ==
  /\ backup.at = "idle" <=> backup.run = 0
  /\ At("mkdir") => artifacts[backup.run] = "none"
  /\ At("dump") => artifacts[backup.run] # "none"
  /\ At("complete") => artifacts[backup.run] \in {"torn", "whole"}
  /\ \A i \in Runs : i \in dumpFailed <=> artifacts[i] = "torn"
  /\ \A i \in 1..MaxBackups : i \notin Runs => drills[i] = 0
  /\ marking # 0 => drills[marking] > 0

\* The inductive invariant of the proofs.
BackupInv == BackupsAreTold /\ BackupsRely
===============================================================================
