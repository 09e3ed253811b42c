----------------------------- MODULE Backup_proofs -----------------------------
(***************************************************************************)
(* Proofs about Cache and Backup, for any keys, versions and numbers of    *)
(* runs: first the cache, then the server that has both, which takes only  *)
(* the steps of the cache as module Cache has them.                        *)
(***************************************************************************)
EXTENDS Backup, SequenceTheorems, TLAPS

-------------------------------------------------------------------------------
(***************************************************************************)
(* The cache.                                                              *)
(***************************************************************************)

LEMMA NoneFacts ==
  None \in [AllKeys -> 0..MaxVersion] /\ \A k \in AllKeys : None[k] = 0
BY CacheAssumption DEF None

\* A run of the job that has read nothing, at some key.
LEMMA NoRunFacts ==
  /\ NoRun.read = FALSE /\ NoRun.key = 0
  /\ NoRun \in [key : 0..Keys, read : BOOLEAN, rows : 0..MaxVersion]
  /\ \A n \in 0..Keys : LET run == [NoRun EXCEPT !.key = n] IN
       /\ run \in [key : 0..Keys, read : BOOLEAN, rows : 0..MaxVersion]
       /\ run.read = FALSE /\ run.key = n
<1>1. /\ NoRun.read = FALSE /\ NoRun.key = 0
      /\ NoRun \in [key : 0..Keys, read : BOOLEAN, rows : 0..MaxVersion]
  BY CacheAssumption DEF NoRun
<1> HIDE DEF NoRun
<1> QED BY <1>1

\* After the last key the job is over.
LEMMA NextKeyFacts ==
  ASSUME TypeOK, NextKey
  PROVE  warm' \in [key : 0..Keys, read : BOOLEAN, rows : 0..MaxVersion] /\ ~warm'.read
<1> DEFINE n == (warm.key + 1) % (Keys + 1)
<1>1. n \in 0..Keys
  <2>1. warm.key + 1 \in Nat /\ Keys + 1 \in Nat \ {0}
    BY CacheAssumption DEF TypeOK
  <2>2. PICK a \in Nat, b \in Nat \ {0} : a = warm.key + 1 /\ b = Keys + 1
    BY <2>1
  <2>3. a % b \in 0..(b - 1)
    OBVIOUS
  <2>4. b - 1 = Keys
    BY <2>2, CacheAssumption
  <2> QED BY <2>2, <2>3, <2>4
<1>2. warm' = [NoRun EXCEPT !.key = n]
  BY DEF NextKey
<1> HIDE DEF n
<1> QED BY <1>1, <1>2, NoRunFacts

LEMMA CacheInit == Init => CacheInv
<1> SUFFICES ASSUME Init PROVE CacheInv
  OBVIOUS
<1>1. /\ memoryStore = None /\ timers = None /\ purgedAt = None
      /\ \A k \in AllKeys : None[k] = 0
      /\ None \in [AllKeys -> 0..MaxVersion] /\ None \in [AllKeys -> Nat]
  BY NoneFacts, CacheAssumption DEF Init
<1>2. warm = NoRun /\ NoRun.read = FALSE
      /\ NoRun \in [key : 0..Keys, read : BOOLEAN, rows : 0..MaxVersion]
  BY NoRunFacts DEF Init
<1>3. source \in [AllKeys -> 0..MaxVersion]
  BY CacheAssumption DEF Init
<1>4. /\ mode \in {"memory", "redis"} /\ server = "down" /\ connected = FALSE
      /\ purges = 0 /\ starts = 0 /\ raced = {}
  BY DEF Init
<1>5. TypeOK
  BY <1>1, <1>2, <1>3, <1>4 DEF TypeOK
<1>6. TimersMatchEntries
  BY <1>1, <1>5 DEF TimersMatchEntries
<1>7. PurgeLasts
  BY <1>1 DEF PurgeLasts
<1>8. CacheRelies
  BY <1>1, <1>2, <1>3, <1>4 DEF CacheRelies
<1> QED BY <1>6, <1>7, <1>8 DEF CacheInv

\* The process ends: what the cache in its memory held is gone with its timers.
LEMMA ClearFacts ==
  ASSUME Clear
  PROVE  /\ memoryStore' \in [AllKeys -> 0..MaxVersion] /\ timers' \in [AllKeys -> Nat]
         /\ memoryStore' = None
         /\ \A k \in AllKeys : memoryStore'[k] = 0 /\ timers'[k] = 0
BY NoneFacts, CacheAssumption DEF Clear

LEMMA PurgeStep == ASSUME CacheInv, Purge PROVE CacheInv'
<1>1. PICK ks \in {{k} : k \in AllKeys} \cup {AllKeys} :
        /\ \/ ks = AllKeys /\ CachePurge
           \/ \E k \in ks : ks = {k} /\ CacheDel(k)
        /\ purgedAt' = [k \in AllKeys |-> IF k \in ks THEN source[k] ELSE purgedAt[k]]
        /\ raced' = IF warm.read THEN raced \cup (ks \cap {warm.key}) ELSE raced
  BY DEF Purge
<1>2. /\ UNCHANGED <<mode, source, server, connected, warm, starts>>
      /\ purges' = purges + 1 /\ server \in {"up", "stopping"} /\ connected
  BY DEF Purge
<1>3. ks \subseteq AllKeys
  OBVIOUS
<1>4. /\ memoryStore' \in [AllKeys -> 0..MaxVersion] /\ timers' \in [AllKeys -> Nat]
      /\ \A k \in ks : memoryStore'[k] = 0 /\ timers'[k] = 0
      /\ \A k \in AllKeys \ ks :
           memoryStore'[k] = memoryStore[k] /\ timers'[k] = timers[k]
  <2>1. CASE ks = AllKeys /\ CachePurge
    BY <2>1, ClearFacts DEF CachePurge
  <2>2. ASSUME NEW k \in ks, ks = {k}, CacheDel(k)
        PROVE  /\ memoryStore' \in [AllKeys -> 0..MaxVersion]
               /\ timers' \in [AllKeys -> Nat]
               /\ memoryStore'[k] = 0 /\ timers'[k] = 0
               /\ \A j \in AllKeys \ {k} :
                    memoryStore'[j] = memoryStore[j] /\ timers'[j] = timers[j]
    BY <1>3, <2>2, CacheAssumption DEF CacheDel, CacheInv, TimersMatchEntries, TypeOK
  <2> QED BY <1>1, <2>1, <2>2
<1>5. TypeOK'
  BY <1>1, <1>2, <1>3, <1>4 DEF CacheInv, TimersMatchEntries, TypeOK
<1>6. TimersMatchEntries'
  BY <1>2, <1>4, <1>5 DEF CacheInv, TimersMatchEntries
<1>7. PurgeLasts'
  BY <1>1, <1>4 DEF CacheInv, PurgeLasts
<1>8. CacheRelies'
  <2>1. \A k \in AllKeys : source'[k] >= purgedAt'[k]
    BY <1>1, <1>2 DEF CacheInv, CacheRelies, TimersMatchEntries, TypeOK
  <2>2. ASSUME warm.read, warm.key \notin raced' PROVE warm.rows >= purgedAt'[warm.key]
    <3>1. warm.key \notin raced /\ warm.key \notin ks
      BY <1>1, <2>2
    <3>2. warm.key \in AllKeys
      BY <2>2 DEF CacheInv, CacheRelies, TimersMatchEntries, TypeOK, AllKeys
    <3> QED BY <1>1, <2>2, <3>1, <3>2 DEF CacheInv, CacheRelies
  <2> QED BY <1>2, <2>1, <2>2 DEF CacheInv, CacheRelies
<1> QED BY <1>6, <1>7, <1>8 DEF CacheInv

\* The rows that are stored are not older than the last purge, or the purge came
\* while the job held them.
LEMMA StoreRowsStep == ASSUME CacheInv, StoreRows PROVE CacheInv'
<1>1. /\ UNCHANGED <<mode, source, server, connected, starts, purges, purgedAt>>
      /\ warm.read /\ warm.key \in AllKeys /\ TypeOK
  BY DEF StoreRows, CacheInv, CacheRelies, TimersMatchEntries, TypeOK, AllKeys
<1>2. /\ warm' \in [key : 0..Keys, read : BOOLEAN, rows : 0..MaxVersion] /\ ~warm'.read
  BY <1>1, NextKeyFacts DEF StoreRows
<1>3. CacheRelies'
  BY <1>1, <1>2 DEF CacheInv, CacheRelies
<1>4. CASE warm.rows # 0 /\ connected
  <2>1. PICK k \in AllKeys : k = warm.key
    BY <1>1
  <2>2. /\ CacheSet(k, warm.rows)
        /\ raced' = raced \ {j \in {k} : warm.rows >= purgedAt[j]}
    BY <1>4, <2>1 DEF StoreRows
  <2>3. /\ memoryStore' \in [AllKeys -> 0..MaxVersion] /\ timers' \in [AllKeys -> Nat]
        /\ memoryStore'[k] = warm.rows /\ timers'[k] = 1
        /\ \A j \in AllKeys \ {k} :
             memoryStore'[j] = memoryStore[j] /\ timers'[j] = timers[j]
    BY <1>1, <2>2 DEF CacheSet, TypeOK
  <2>4. TypeOK'
    BY <1>1, <1>2, <2>2, <2>3 DEF TypeOK
  <2>5. server # "down"
    BY <1>4 DEF CacheInv, CacheRelies
  <2>6. TimersMatchEntries'
    BY <1>1, <1>4, <2>3, <2>4, <2>5 DEF CacheInv, TimersMatchEntries
  <2>7. k \notin raced' => warm.rows >= purgedAt[k]
    BY <1>1, <2>1, <2>2 DEF CacheInv, CacheRelies
  <2>8. PurgeLasts'
    BY <1>1, <2>2, <2>3, <2>7 DEF CacheInv, PurgeLasts
  <2> QED BY <1>3, <2>6, <2>8 DEF CacheInv
<1>5. CASE ~(warm.rows # 0 /\ connected)
  <2>1. UNCHANGED <<memoryStore, timers, raced>>
    BY <1>5 DEF StoreRows
  <2> QED BY <1>1, <1>2, <1>3, <2>1 DEF CacheInv, TimersMatchEntries, TypeOK, PurgeLasts
<1> QED BY <1>4, <1>5

LEMMA ExpireStep == ASSUME CacheInv, NEW k \in AllKeys, Expire(k) PROVE CacheInv'
<1>1. /\ UNCHANGED <<mode, source, server, connected, warm, starts, admin>>
      /\ TypeOK /\ timers[k] = 1
  BY DEF Expire, CacheInv, TimersMatchEntries, TypeOK
<1>2. /\ memoryStore' \in [AllKeys -> 0..MaxVersion] /\ timers' \in [AllKeys -> Nat]
      /\ memoryStore'[k] = 0 /\ timers'[k] = 0
      /\ \A j \in AllKeys \ {k} :
           memoryStore'[j] = memoryStore[j] /\ timers'[j] = timers[j]
  BY <1>1, CacheAssumption DEF Expire, TypeOK
<1>3. TimersMatchEntries'
  <2>1. TypeOK'
    BY <1>1, <1>2 DEF TypeOK, admin
  <2>2. mode' = "memory" /\ server' = "down" => memoryStore' = None
    <3> SUFFICES ASSUME mode = "memory", server = "down" PROVE FALSE
      BY <1>1
    <3> QED BY <1>1, NoneFacts DEF CacheInv, TimersMatchEntries
  <2> QED BY <1>2, <2>1, <2>2 DEF CacheInv, TimersMatchEntries
<1>4. PurgeLasts'
  BY <1>1, <1>2 DEF CacheInv, PurgeLasts, admin
<1>5. CacheRelies'
  BY <1>1 DEF CacheInv, CacheRelies, admin
<1> QED BY <1>3, <1>4, <1>5 DEF CacheInv

\* Steps of the server.
LEMMA ServerStep ==
  ASSUME CacheInv,
         InitCache \/ InitScheduler \/ ShutdownScheduler \/ ShutdownCache \/ Exit
  PROVE  CacheInv'
<1>1. TypeOK /\ source' = source /\ mode' = mode /\ admin' = admin /\ starts' \in Nat
      /\ server' \in {"down", "starting", "up", "stopping"} /\ connected' \in BOOLEAN
  <2>1. TypeOK
    BY DEF CacheInv, TimersMatchEntries
  <2>2. CASE InitCache
    BY <2>1, <2>2 DEF InitCache, TypeOK
  <2>3. CASE InitScheduler \/ ShutdownScheduler
    BY <2>1, <2>3 DEF InitScheduler, ShutdownScheduler, TypeOK
  <2>4. CASE ShutdownCache
    BY <2>1, <2>4 DEF ShutdownCache, TypeOK
  <2>5. CASE Exit
    BY <2>1, <2>5 DEF Exit, TypeOK
  <2> QED BY <2>2, <2>3, <2>4, <2>5
<1>2. /\ server' = "down" => ~connected'
      /\ \/ warm' = warm
         \/ warm' = NoRun
  BY DEF InitCache, InitScheduler, ShutdownScheduler, ShutdownCache, Exit
<1>3. /\ NoRun.read = FALSE
      /\ NoRun \in [key : 0..Keys, read : BOOLEAN, rows : 0..MaxVersion]
  BY NoRunFacts
<1>4. /\ \/ memoryStore' = memoryStore /\ timers' = timers
         \/ Clear
      /\ mode = "memory" /\ server' = "down" => Clear
  BY DEF InitCache, InitScheduler, ShutdownScheduler, ShutdownCache, Exit
<1>5. /\ memoryStore' \in [AllKeys -> 0..MaxVersion] /\ timers' \in [AllKeys -> Nat]
      /\ \A k \in AllKeys : timers'[k] = IF memoryStore'[k] # 0 THEN 1 ELSE 0
      /\ mode' = "memory" /\ server' = "down" => memoryStore' = None
      /\ \A k \in AllKeys : memoryStore'[k] \in {0, memoryStore[k]}
  BY <1>1, <1>4, ClearFacts DEF CacheInv, TimersMatchEntries, TypeOK
<1>6. TypeOK'
  BY <1>1, <1>2, <1>3, <1>5 DEF TypeOK, admin
<1>7. PurgeLasts'
  BY <1>1, <1>5 DEF CacheInv, PurgeLasts, admin
<1>8. CacheRelies'
  BY <1>1, <1>2, <1>3 DEF CacheInv, CacheRelies, admin
<1> QED BY <1>5, <1>6, <1>7, <1>8 DEF CacheInv, TimersMatchEntries

\* Steps that leave the cache alone.
LEMMA OutsideStep ==
  ASSUME CacheInv,
         (\E k \in AllKeys : Change(k)) \/ FireWarm \/ ReadRows \/ FailKey
  PROVE  CacheInv'
<1>1. /\ UNCHANGED <<mode, memoryStore, timers, server, connected, starts, admin>>
      /\ TypeOK
  BY DEF Change, FireWarm, ReadRows, FailKey, CacheInv, TimersMatchEntries
<1>2. /\ source' \in [AllKeys -> 0..MaxVersion]
      /\ \A k \in AllKeys : source'[k] >= source[k]
  BY <1>1, CacheAssumption DEF Change, FireWarm, ReadRows, FailKey, TypeOK
<1>3. /\ warm' \in [key : 0..Keys, read : BOOLEAN, rows : 0..MaxVersion]
      /\ warm'.read => /\ warm'.key # 0
                       /\ \/ warm' = warm
                          \/ warm'.rows = source[warm'.key]
  <2>1. CASE \E k \in AllKeys : Change(k)
    BY <1>1, <2>1 DEF Change, CacheInv, CacheRelies, TypeOK
  <2>2. CASE FireWarm
    BY <2>2, NoRunFacts, CacheAssumption DEF FireWarm
  <2>3. CASE ReadRows
    <3>1. source[warm.key] \in 0..MaxVersion
      BY <1>1, <2>3 DEF ReadRows, TypeOK, AllKeys
    <3> QED BY <1>1, <2>3, <3>1 DEF ReadRows, TypeOK
  <2>4. CASE FailKey
    BY <1>1, <2>4, NextKeyFacts DEF FailKey
  <2> QED BY <2>1, <2>2, <2>3, <2>4
<1>4. TypeOK'
  BY <1>1, <1>2, <1>3 DEF TypeOK, admin
<1>5. CacheRelies'
  <2>1. \A k \in AllKeys : source'[k] >= purgedAt'[k]
    BY <1>1, <1>2 DEF CacheInv, CacheRelies, TypeOK, admin
  <2>2. warm'.read /\ warm'.key \notin raced' => warm'.rows >= purgedAt'[warm'.key]
    BY <1>1, <1>3 DEF CacheInv, CacheRelies, TypeOK, admin, AllKeys
  <2> QED BY <1>1, <1>3, <2>1, <2>2 DEF CacheInv, CacheRelies
<1> QED BY <1>1, <1>4, <1>5 DEF CacheInv, TimersMatchEntries, PurgeLasts, admin

LEMMA CacheNext == ASSUME CacheInv, [Next]_vars PROVE CacheInv'
<1>1. CASE Next
  BY <1>1, PurgeStep, StoreRowsStep, ExpireStep, ServerStep, OutsideStep DEF Next, Work
<1>2. CASE UNCHANGED vars
  BY <1>2 DEF vars, admin, CacheInv, TimersMatchEntries, TypeOK, PurgeLasts, CacheRelies
<1> QED BY <1>1, <1>2

\* The inductive invariant of the cache: what the job that warms it relies on
\* between its read and its write, however it is purged in between.
THEOREM CacheInvariance == Init /\ [][Next]_vars => []CacheInv
<1>1. Init => CacheInv
  BY CacheInit
<1>2. CacheInv /\ [Next]_vars => CacheInv'
  BY CacheNext
<1> QED BY <1>1, <1>2, PTL

-------------------------------------------------------------------------------
(***************************************************************************)
(* The server with its nightly backup.                                     *)
(***************************************************************************)

\* What the server does with its backups, and when it ends, is for the cache a
\* step of its own or none.
THEOREM ServerKeepsCache == ServerSpec => Init /\ [][Next]_vars
<1>1. ServerInit => Init
  BY DEF ServerInit
<1>2. [ServerNext]_<<vars, backupVars>> => [Next]_vars
  BY DEF ServerNext, Next
<1> QED BY <1>1, <1>2, PTL DEF ServerSpec

\* A value in the cache has exactly one timer, whatever the server goes through.
THEOREM EntriesHaveTheirTimer == ServerSpec => []TimersMatchEntries
<1>1. CacheInv => TimersMatchEntries
  BY DEF CacheInv
<1> QED BY <1>1, CacheInvariance, ServerKeepsCache, PTL

\* What is purged does not come back, unless the job held rows when it was.
THEOREM PurgedStaysPurged == ServerSpec => []PurgeLasts
<1>1. CacheInv => PurgeLasts
  BY DEF CacheInv
<1> QED BY <1>1, CacheInvariance, ServerKeepsCache, PTL

\* What the invariants say of one run: what its row tells, and its file.
RunTold(i) ==
  /\ backupRuns[i].status = "completed" =>
       artifacts[i] = IF i \in dumpFailed THEN "torn" ELSE "whole"
  /\ backupRuns[i].status = "running" => backup.run = i \/ i \in untold
  /\ drills[i] > 0 => backupRuns[i].restore_tested \/ marking = i \/ i \in untold
  /\ backupRuns[i].restore_tested => drills[i] > 0
  /\ i \in dumpFailed <=> artifacts[i] = "torn"

\* ... and of the job and the drill.
WorkRelies ==
  /\ backup.at = "idle" <=> backup.run = 0
  /\ At("mkdir") => artifacts[backup.run] = "none"
  /\ At("dump") => artifacts[backup.run] # "none"
  /\ At("complete") => artifacts[backup.run] \in {"torn", "whole"}
  /\ \A i \in 1..MaxBackups : i \notin Runs => drills[i] = 0
  /\ marking # 0 => drills[marking] > 0

LEMMA BackupSplit ==
  BackupInv <=> BackupTypeOK /\ WorkRelies /\ \A i \in Runs : RunTold(i)
BY DEF BackupInv, BackupsAreTold, BackupsRely, WorkRelies, RunTold

LEMMA BackupSplitNext ==
  BackupInv' <=> BackupTypeOK' /\ WorkRelies' /\ \A i \in Runs' : RunTold(i)'
BY DEF BackupInv, BackupsAreTold, BackupsRely, WorkRelies, RunTold

Places == {"idle", "mkdir", "dump", "complete", "fail"}
Files == {"none", "growing", "torn", "whole"}
JobState == [at : Places, run : {0} \cup Runs]

\* The rows and the files, as functions on the runs there are.
LEMMA RunsFacts ==
  ASSUME BackupTypeOK
  PROVE  /\ Runs = 1..Len(backupRuns) /\ Len(backupRuns) \in Nat
         /\ DOMAIN artifacts = Runs /\ Len(artifacts) = Len(backupRuns)
         /\ Runs \subseteq 1..MaxBackups /\ 0 \notin Runs
         /\ \A i \in Runs : backupRuns[i] \in Run /\ artifacts[i] \in Files
         /\ backup \in JobState /\ marking \in {0} \cup Runs
<1>1. Len(backupRuns) \in Nat /\ Runs = 1..Len(backupRuns)
  BY LenProperties DEF BackupTypeOK, Runs
<1>2. DOMAIN artifacts = 1..Len(artifacts)
  BY LenProperties DEF BackupTypeOK
<1>3. \A i \in Runs : backupRuns[i] \in Run /\ artifacts[i] \in Files
  BY <1>1, <1>2, ElementOfSeq DEF BackupTypeOK, Files
<1> QED BY <1>1, <1>2, <1>3, BackupAssumption DEF BackupTypeOK, JobState, Places

\* A job at work has a run, and a row that is drilled is there.
LEMMA AtRun ==
  ASSUME BackupInv, ~At("idle")
  PROVE  backup.run \in Runs /\ backup.run # 0
BY RunsFacts, BackupSplit DEF WorkRelies, At, JobState

LEMMA GotoRun ==
  ASSUME BackupTypeOK, NEW place \in Places, Goto(place)
  PROVE  backup' \in JobState /\ backup'.at = place /\ backup'.run = backup.run
BY RunsFacts DEF Goto, JobState

LEMMA NoBackupFacts ==
  NoBackup \in JobState /\ NoBackup.at = "idle" /\ NoBackup.run = 0
BY DEF NoBackup, JobState, Places

\* A row is replaced, and the others stay.
LEMMA RowFacts ==
  ASSUME BackupTypeOK, NEW i \in Runs, NEW row \in Run,
         backupRuns' = [backupRuns EXCEPT ![i] = row]
  PROVE  /\ backupRuns' \in Seq(Run) /\ Len(backupRuns') = Len(backupRuns)
         /\ Runs' = Runs /\ backupRuns'[i] = row
         /\ \A j \in Runs : j # i => backupRuns'[j] = backupRuns[j]
<1>1. i \in 1..Len(backupRuns)
  BY RunsFacts
<1>2. /\ backupRuns' \in Seq(Run) /\ Len(backupRuns') = Len(backupRuns)
      /\ \A j \in 1..Len(backupRuns) :
           backupRuns'[j] = IF j = i THEN row ELSE backupRuns[j]
  BY <1>1, ExceptSeq DEF BackupTypeOK
<1>3. Runs' = 1..Len(backupRuns')
  BY <1>2, LenProperties DEF Runs
<1> QED BY <1>2, <1>3, RunsFacts

LEMMA FileFacts ==
  ASSUME BackupTypeOK, NEW i \in Runs, NEW file \in Files,
         artifacts' = [artifacts EXCEPT ![i] = file]
  PROVE  /\ artifacts' \in Seq(Files) /\ Len(artifacts') = Len(artifacts)
         /\ artifacts'[i] = file
         /\ \A j \in Runs : j # i => artifacts'[j] = artifacts[j]
<1>1. i \in 1..Len(artifacts) /\ artifacts \in Seq(Files)
  BY RunsFacts DEF BackupTypeOK, Files
<1>2. /\ artifacts' \in Seq(Files) /\ Len(artifacts') = Len(artifacts)
      /\ \A j \in 1..Len(artifacts) :
           artifacts'[j] = IF j = i THEN file ELSE artifacts[j]
  BY <1>1, ExceptSeq
<1> QED BY <1>1, <1>2, RunsFacts

\* A step that neither adds a row nor takes a drill on.
LEMMA RunStep ==
  ASSUME BackupInv, Runs' = Runs, backupRuns' \in Seq(Run),
         Len(backupRuns') = Len(backupRuns), artifacts' \in Seq(Files),
         Len(artifacts') = Len(artifacts), backup' \in JobState,
         marking' \in {0, marking}, drills' = drills,
         dumpFailed' \subseteq Runs, untold' \subseteq Runs,
         backup'.at = "idle" <=> backup'.run = 0,
         At("mkdir")' => artifacts'[backup'.run] = "none",
         At("dump")' => artifacts'[backup'.run] # "none",
         At("complete")' => artifacts'[backup'.run] \in {"torn", "whole"},
         \A i \in Runs : RunTold(i)'
  PROVE  BackupInv'
<1>1. BackupTypeOK'
  BY DEF BackupInv, BackupsAreTold, BackupTypeOK, Files, JobState, Places
<1>2. WorkRelies'
  BY BackupSplit DEF WorkRelies
<1> QED BY <1>1, <1>2, BackupSplitNext

\* The job goes on, and writes nothing.
LEMMA GotoStep ==
  ASSUME BackupInv, ~At("idle"), NEW place \in Places \ {"idle", "mkdir"}, Goto(place),
         UNCHANGED <<backupRuns, artifacts, drillVars, dumpFailed, untold>>,
         place = "dump" => artifacts[backup.run] # "none",
         place = "complete" => artifacts[backup.run] \in {"torn", "whole"}
  PROVE  BackupInv'
<1>1. BackupTypeOK /\ backup.run \in Runs /\ backup.run # 0
  BY AtRun, BackupSplit
<1>2. backup' \in JobState /\ backup'.at = place /\ backup'.run = backup.run
  BY <1>1, GotoRun
<1>3. UNCHANGED <<backupRuns, artifacts, drills, marking, dumpFailed, untold, Runs>>
  BY DEF drillVars, Runs
<1>4. \A i \in Runs : RunTold(i)'
  <2>1. \A i \in Runs : RunTold(i)
    BY BackupSplit
  <2> QED BY <1>2, <1>3, <2>1 DEF RunTold
<1>5. /\ backupRuns' \in Seq(Run) /\ artifacts' \in Seq(Files)
      /\ dumpFailed' \subseteq Runs /\ untold' \subseteq Runs
  BY <1>1, <1>3 DEF BackupTypeOK, Files
<1> QED BY <1>1, <1>2, <1>3, <1>4, <1>5, RunStep DEF At

LEMMA InsertRunStep == ASSUME BackupInv, InsertRun PROVE BackupInv'
<1> DEFINE row == [status |-> "running", restore_tested |-> FALSE]
           n == Len(backupRuns) + 1
<1>1. /\ BackupTypeOK /\ WorkRelies /\ \A i \in Runs : RunTold(i)
      /\ Runs = 1..Len(backupRuns) /\ Len(backupRuns) \in Nat
      /\ Len(artifacts) = Len(backupRuns)
  BY BackupSplit, RunsFacts
<1>2. /\ Len(backupRuns) < MaxBackups /\ At("idle")
      /\ backupRuns' = Append(backupRuns, row) /\ artifacts' = Append(artifacts, "none")
      /\ backup' = [at |-> "mkdir", run |-> n]
      /\ UNCHANGED <<drills, marking, dumpFailed, untold>>
  BY DEF InsertRun, drillVars
<1>3. row \in Run /\ row.status = "running" /\ row.restore_tested = FALSE
  BY DEF Run
<1> HIDE DEF row
<1>4. /\ backupRuns' \in Seq(Run) /\ Len(backupRuns') = n /\ backupRuns'[n] = row
      /\ \A i \in Runs : backupRuns'[i] = backupRuns[i]
  BY <1>1, <1>2, <1>3, AppendProperties DEF BackupTypeOK
<1>5. /\ artifacts' \in Seq(Files) /\ Len(artifacts') = n /\ artifacts'[n] = "none"
      /\ \A i \in Runs : artifacts'[i] = artifacts[i]
  <2>1. "none" \in Files /\ artifacts \in Seq(Files)
    BY <1>1 DEF Files, BackupTypeOK
  <2> QED BY <1>1, <1>2, <2>1, AppendProperties
<1>6. Runs' = Runs \cup {n} /\ n \notin Runs /\ n \in 1..MaxBackups
  <2>1. Runs' = 1..n
    BY <1>4, LenProperties DEF Runs
  <2> QED BY <1>1, <1>2, <2>1, BackupAssumption
<1>7. /\ backup'.at = "mkdir" /\ backup'.run = n /\ n # 0 /\ backup.run = 0
      /\ backup' \in [at : Places, run : {0} \cup Runs']
  BY <1>1, <1>2, <1>6 DEF WorkRelies, At, Places
<1>8. BackupTypeOK'
  <2>1. n <= MaxBackups
    BY <1>1, <1>2, BackupAssumption
  <2> QED BY <1>1, <1>2, <1>4, <1>5, <1>6, <1>7, <2>1 DEF BackupTypeOK, Files, Places
<1>9. WorkRelies'
  BY <1>1, <1>2, <1>5, <1>6, <1>7 DEF WorkRelies, At
<1>10. \A i \in Runs : RunTold(i)'
  BY <1>1, <1>2, <1>4, <1>5, <1>7, RunsFacts DEF RunTold
<1>11. \A i \in Runs' : RunTold(i)'
  <2>1. PICK m \in Nat : m = n
    BY <1>1
  <2>2. RunTold(m)'
    BY <1>2, <1>3, <1>4, <1>5, <1>6, <1>7, <2>1, <1>1 DEF RunTold, WorkRelies, BackupTypeOK
  <2> QED BY <1>6, <1>10, <2>1, <2>2
<1> QED BY <1>8, <1>9, <1>11, BackupSplitNext

LEMMA StartDumpStep == ASSUME BackupInv, StartDump PROVE BackupInv'
<1>1. /\ At("mkdir") /\ ~At("idle") /\ BackupTypeOK
      /\ UNCHANGED <<backupRuns, drillVars, dumpFailed, untold>>
  BY BackupSplit DEF StartDump, At
<1>2. PICK i \in Runs : i = backup.run /\ i # 0
  BY <1>1, AtRun
<1>3. CASE artifacts' = [artifacts EXCEPT ![backup.run] = "growing"] /\ Goto("dump")
  <2>1. /\ artifacts' \in Seq(Files) /\ Len(artifacts') = Len(artifacts)
        /\ artifacts'[i] = "growing"
        /\ \A j \in Runs : j # i => artifacts'[j] = artifacts[j]
    BY <1>1, <1>2, <1>3, FileFacts DEF Files
  <2>2. backup' \in JobState /\ backup'.at = "dump" /\ backup'.run = i
    BY <1>1, <1>2, <1>3, GotoRun DEF Places
  <2>3. UNCHANGED <<backupRuns, drills, marking, dumpFailed, untold, Runs>>
    BY <1>1 DEF drillVars, Runs
  <2>4. artifacts[i] = "none" /\ \A j \in Runs : RunTold(j)
    BY <1>1, <1>2, BackupSplit DEF WorkRelies
  <2>5. \A j \in Runs : RunTold(j)'
    BY <1>2, <2>1, <2>2, <2>3, <2>4 DEF RunTold
  <2>6. /\ backupRuns' \in Seq(Run)
        /\ dumpFailed' \subseteq Runs /\ untold' \subseteq Runs
    BY <1>1, <2>3 DEF BackupTypeOK
  <2> QED BY <1>2, <2>1, <2>2, <2>3, <2>5, <2>6, RunStep DEF At
<1>4. CASE Goto("fail") /\ UNCHANGED artifacts
  BY <1>1, <1>4, GotoStep DEF Places
<1> QED BY <1>3, <1>4 DEF StartDump

LEMMA EndDumpStep == ASSUME BackupInv, NEW i \in Runs, EndDump(i) PROVE BackupInv'
<1>1. /\ BackupTypeOK /\ artifacts[i] = "growing"
      /\ UNCHANGED <<backupRuns, backup, drillVars, untold>>
  BY BackupSplit DEF EndDump
<1>2. PICK file \in {"torn", "whole"} :
        /\ artifacts' = [artifacts EXCEPT ![i] = file]
        /\ dumpFailed' = IF file = "torn" THEN dumpFailed \cup {i} ELSE dumpFailed
  BY DEF EndDump
<1>3. /\ artifacts' \in Seq(Files) /\ Len(artifacts') = Len(artifacts)
      /\ artifacts'[i] = file
      /\ \A j \in Runs : j # i => artifacts'[j] = artifacts[j]
  BY <1>1, <1>2, FileFacts DEF Files
<1>4. UNCHANGED <<backupRuns, backup, drills, marking, untold, Runs>>
  BY <1>1 DEF drillVars, Runs
<1>5. WorkRelies /\ \A j \in Runs : RunTold(j)
  BY BackupSplit
<1>6. \A j \in Runs : RunTold(j)'
  BY <1>1, <1>2, <1>3, <1>4, <1>5 DEF RunTold
<1>7. /\ backupRuns' \in Seq(Run) /\ backup' \in JobState
      /\ dumpFailed' \subseteq Runs /\ untold' \subseteq Runs
  BY <1>1, <1>2, <1>4, RunsFacts DEF BackupTypeOK
<1>8. /\ backup'.at = "idle" <=> backup'.run = 0
      /\ At("mkdir")' => artifacts'[backup'.run] = "none"
      /\ At("dump")' => artifacts'[backup'.run] # "none"
      /\ At("complete")' => artifacts'[backup'.run] \in {"torn", "whole"}
  <2>1. ~At("idle") => backup.run \in Runs
    BY AtRun
  <2> QED BY <1>1, <1>3, <1>4, <1>5, <2>1 DEF WorkRelies, At
<1> QED BY <1>3, <1>4, <1>6, <1>7, <1>8, RunStep

LEMMA HearDumpStep == ASSUME BackupInv, HearDump PROVE BackupInv'
<1>1. /\ At("dump") /\ ~At("idle") /\ artifacts[backup.run] # "growing"
      /\ UNCHANGED <<backupRuns, artifacts, drillVars, dumpFailed, untold>>
      /\ Goto("complete") \/ Goto("fail")
  BY DEF HearDump, At
<1>2. artifacts[backup.run] \in {"torn", "whole"}
  <2>1. artifacts[backup.run] \in Files
    BY <1>1, AtRun, RunsFacts, BackupSplit
  <2> QED BY <1>1, <2>1, BackupSplit DEF WorkRelies, Files
<1> QED BY <1>1, <1>2, GotoStep DEF Places

LEMMA TimeoutStep == ASSUME BackupInv, Timeout PROVE BackupInv'
BY GotoStep DEF Timeout, At, Places

\* The outcome is recorded, or it is not and the row is untold.
LEMMA OutcomeStep ==
  ASSUME BackupInv, ~At("idle"), backup' = NoBackup,
         UNCHANGED <<artifacts, drillVars, dumpFailed>>,
         \/ /\ SetStatus("completed") /\ UNCHANGED untold
            /\ artifacts[backup.run] \in {"torn", "whole"}
         \/ SetStatus("failed") /\ UNCHANGED untold
         \/ untold' = untold \cup {backup.run} /\ UNCHANGED backupRuns
  PROVE  BackupInv'
<1>1. /\ BackupTypeOK /\ WorkRelies /\ \A j \in Runs : RunTold(j)
      /\ UNCHANGED <<artifacts, drills, marking, dumpFailed>>
  BY BackupSplit DEF drillVars
<1>2. PICK i \in Runs : i = backup.run /\ i # 0
  BY AtRun
<1>3. backup' \in JobState /\ backup'.at = "idle" /\ backup'.run = 0
  BY NoBackupFacts
<1>4. /\ artifacts' \in Seq(Files) /\ dumpFailed' \subseteq Runs /\ 0 \notin Runs
  BY <1>1, RunsFacts DEF BackupTypeOK, Files
<1>5. ASSUME NEW status \in {"completed", "failed"}, SetStatus(status), UNCHANGED untold,
             status = "completed" => artifacts[backup.run] \in {"torn", "whole"}
      PROVE  BackupInv'
  <2> DEFINE row == [backupRuns[i] EXCEPT !.status = status]
  <2>1. backupRuns[i] \in Run
    BY <1>1, RunsFacts
  <2>2. row \in Run /\ row.status = status
        /\ row.restore_tested = backupRuns[i].restore_tested
    BY <2>1 DEF Run
  <2>3. backupRuns' = [backupRuns EXCEPT ![i] = row]
    BY <1>2, <1>5 DEF SetStatus
  <2> HIDE DEF row
  <2>4. /\ backupRuns' \in Seq(Run) /\ Len(backupRuns') = Len(backupRuns)
        /\ Runs' = Runs /\ backupRuns'[i] = row
        /\ \A j \in Runs : j # i => backupRuns'[j] = backupRuns[j]
    BY <1>1, <2>2, <2>3, RowFacts
  <2>5. \A j \in Runs : RunTold(j)'
    BY <1>1, <1>2, <1>3, <1>4, <1>5, <2>2, <2>4 DEF RunTold
  <2>6. untold' \subseteq Runs
    BY <1>1, <1>5 DEF BackupTypeOK
  <2> QED BY <1>1, <1>3, <1>4, <2>4, <2>5, <2>6, RunStep DEF At
<1>6. CASE untold' = untold \cup {backup.run} /\ UNCHANGED backupRuns
  <2>1. Runs' = Runs /\ backupRuns' \in Seq(Run) /\ untold' \subseteq Runs
    BY <1>1, <1>2, <1>6 DEF Runs, BackupTypeOK
  <2>2. \A j \in Runs : RunTold(j)'
    BY <1>1, <1>2, <1>3, <1>4, <1>6 DEF RunTold
  <2> QED BY <1>1, <1>3, <1>4, <1>6, <2>1, <2>2, RunStep DEF At
<1> QED BY <1>5, <1>6

LEMMA CompleteStep == ASSUME BackupInv, Complete PROVE BackupInv'
<1>1. /\ At("complete") /\ ~At("idle") /\ artifacts[backup.run] \in {"torn", "whole"}
      /\ UNCHANGED <<artifacts, drillVars, dumpFailed, untold>>
  BY BackupSplit DEF Complete, At, WorkRelies
<1>2. CASE SetStatus("completed") /\ backup' = NoBackup
  BY <1>1, <1>2, OutcomeStep
<1>3. CASE Goto("fail") /\ UNCHANGED backupRuns
  BY <1>1, <1>3, GotoStep DEF Places
<1> QED BY <1>2, <1>3 DEF Complete

LEMMA RecordFailureStep == ASSUME BackupInv, RecordFailure PROVE BackupInv'
BY OutcomeStep DEF RecordFailure, At

\* A drill is inserted for a run, which is marked by the next statement.
LEMMA InsertDrillStep == ASSUME BackupInv, InsertDrill PROVE BackupInv'
<1>1. /\ BackupTypeOK /\ WorkRelies /\ \A j \in Runs : RunTold(j) /\ marking = 0
      /\ UNCHANGED <<backupRuns, artifacts, backup, dumpFailed, untold, Runs>>
  BY BackupSplit DEF InsertDrill, Runs
<1>2. PICK i \in Runs :
        /\ drills[i] < MaxDrills
        /\ drills' = [drills EXCEPT ![i] = @ + 1] /\ marking' = i
  BY DEF InsertDrill
<1>3. i \in 1..MaxBackups /\ 0 \notin Runs
  BY <1>1, RunsFacts
<1>4. /\ drills' \in [1..MaxBackups -> 0..MaxDrills] /\ drills'[i] > 0
      /\ drills[i] \in Nat
      /\ \A j \in 1..MaxBackups : j # i => drills'[j] = drills[j]
  BY <1>1, <1>2, <1>3, BackupAssumption DEF BackupTypeOK
<1>5. BackupTypeOK'
  BY <1>1, <1>2, <1>4 DEF BackupTypeOK
<1>6. WorkRelies'
  BY <1>1, <1>2, <1>4 DEF WorkRelies, At
<1>7. \A j \in Runs : RunTold(j)'
  BY <1>1, <1>2, <1>3, <1>4, RunsFacts DEF RunTold
<1> QED BY <1>1, <1>5, <1>6, <1>7, BackupSplitNext

LEMMA MarkTestedStep == ASSUME BackupInv, MarkTested PROVE BackupInv'
<1>1. /\ BackupTypeOK /\ WorkRelies /\ (\A j \in Runs : RunTold(j)) /\ marking' = 0
      /\ UNCHANGED <<artifacts, backup, drills, dumpFailed>>
  BY BackupSplit DEF MarkTested
<1>2. PICK i \in Runs : i = marking /\ drills[i] > 0
  BY <1>1, RunsFacts DEF MarkTested, WorkRelies
<1>3. /\ artifacts' \in Seq(Files) /\ dumpFailed' \subseteq Runs /\ 0 \notin Runs
      /\ backup' \in JobState
  BY <1>1, RunsFacts DEF BackupTypeOK, Files
<1>4. CASE /\ backupRuns' = [backupRuns EXCEPT ![marking].restore_tested = TRUE]
           /\ UNCHANGED untold
  <2> DEFINE row == [backupRuns[i] EXCEPT !.restore_tested = TRUE]
  <2>1. backupRuns[i] \in Run
    BY <1>1, RunsFacts
  <2>2. row \in Run /\ row.restore_tested = TRUE /\ row.status = backupRuns[i].status
    BY <2>1 DEF Run
  <2>3. backupRuns' = [backupRuns EXCEPT ![i] = row]
    BY <1>2, <1>4
  <2> HIDE DEF row
  <2>4. /\ backupRuns' \in Seq(Run) /\ Len(backupRuns') = Len(backupRuns)
        /\ Runs' = Runs /\ backupRuns'[i] = row
        /\ \A j \in Runs : j # i => backupRuns'[j] = backupRuns[j]
    BY <1>1, <2>2, <2>3, RowFacts
  <2>5. \A j \in Runs : RunTold(j)'
    BY <1>1, <1>2, <1>3, <1>4, <2>2, <2>4 DEF RunTold
  <2>6. untold' \subseteq Runs
    BY <1>1, <1>4 DEF BackupTypeOK
  <2> QED BY <1>1, <1>3, <2>4, <2>5, <2>6, RunStep DEF At, WorkRelies
<1>5. CASE untold' = untold \cup {marking} /\ UNCHANGED backupRuns
  <2>1. Runs' = Runs /\ backupRuns' \in Seq(Run) /\ untold' \subseteq Runs
    BY <1>1, <1>2, <1>5 DEF Runs, BackupTypeOK
  <2>2. \A j \in Runs : RunTold(j)'
    BY <1>1, <1>2, <1>3, <1>5 DEF RunTold
  <2> QED BY <1>1, <1>3, <1>5, <2>1, <2>2, RunStep DEF At, WorkRelies
<1> QED BY <1>4, <1>5 DEF MarkTested

\* The server ends: the rows it was at work on stay as they are.
LEMMA LoseBackupStep == ASSUME BackupInv, LoseBackup PROVE BackupInv'
<1>1. /\ BackupTypeOK /\ WorkRelies /\ (\A j \in Runs : RunTold(j)) /\ marking' = 0
      /\ UNCHANGED <<backupRuns, artifacts, drills, dumpFailed, Runs>>
      /\ untold' = untold \cup ({backup.run, marking} \ {0})
  BY BackupSplit DEF LoseBackup, Runs
<1>2. backup' \in JobState /\ backup'.at = "idle" /\ backup'.run = 0
  BY NoBackupFacts DEF LoseBackup
<1>3. /\ artifacts' \in Seq(Files) /\ dumpFailed' \subseteq Runs /\ 0 \notin Runs
      /\ backupRuns' \in Seq(Run)
      /\ backup.run \in {0} \cup Runs /\ marking \in {0} \cup Runs
  BY <1>1, RunsFacts DEF BackupTypeOK, Files, JobState
<1>4. untold' \subseteq Runs
  BY <1>1, <1>3 DEF BackupTypeOK
<1>5. \A j \in Runs : RunTold(j)'
  BY <1>1, <1>2, <1>3 DEF RunTold
<1> QED BY <1>1, <1>2, <1>3, <1>4, <1>5, RunStep DEF At

LEMMA BackupStay == ASSUME BackupInv, UNCHANGED backupVars PROVE BackupInv'
BY DEF backupVars, drillVars, BackupInv, BackupsAreTold, BackupTypeOK, BackupsRely,
       Runs, At

LEMMA BackupNext ==
  ASSUME BackupInv, [ServerNext]_<<vars, backupVars>> PROVE BackupInv'
<1>1. CASE RunBackup
  BY <1>1, StartDumpStep, HearDumpStep, TimeoutStep, CompleteStep, RecordFailureStep
     DEF RunBackup
<1>2. CASE InsertRun \/ InsertDrill \/ MarkTested \/ \E i \in Runs : EndDump(i)
  BY <1>2, InsertRunStep, InsertDrillStep, MarkTestedStep, EndDumpStep
<1>3. CASE UNCHANGED backupVars
  BY <1>3, BackupStay
<1>4. CASE LoseBackup
  BY <1>4, LoseBackupStep
<1> QED BY <1>1, <1>2, <1>3, <1>4 DEF ServerNext

LEMMA BackupInitInv == ASSUME BackupInit PROVE BackupInv
<1>1. /\ backupRuns \in Seq(Run) /\ Len(backupRuns) = 0
      /\ artifacts \in Seq({"none", "growing", "torn", "whole"}) /\ Len(artifacts) = 0
  BY EmptySeq DEF BackupInit
<1>2. Runs = {}
  BY <1>1, LenProperties DEF Runs
<1>3. backup = NoBackup /\ NoBackup \in JobState /\ backup.at = "idle" /\ backup.run = 0
  BY NoBackupFacts DEF BackupInit
<1>4. /\ drills \in [1..MaxBackups -> 0..MaxDrills] /\ marking = 0
      /\ \A i \in 1..MaxBackups : drills[i] = 0
      /\ dumpFailed = {} /\ untold = {}
  BY BackupAssumption DEF BackupInit
<1>5. BackupTypeOK
  BY <1>1, <1>2, <1>3, <1>4, BackupAssumption DEF BackupTypeOK, JobState, Places
<1>6. WorkRelies
  BY <1>3, <1>4 DEF WorkRelies, At
<1> QED BY <1>2, <1>5, <1>6, BackupSplit

\* The inductive invariant of the backup: where its job stands, what is in the
\* file and what the row says, whenever the server ends.
THEOREM BackupInvariance == ServerSpec => []BackupInv
<1>1. ServerInit => BackupInv
  BY BackupInitInv DEF ServerInit
<1>2. BackupInv /\ [ServerNext]_<<vars, backupVars>> => BackupInv'
  BY BackupNext
<1> QED BY <1>1, <1>2, PTL DEF ServerSpec

\* A completed backup is in a file that nobody writes to any more, whole unless
\* pg_dump failed; a running row has its job and a drilled one is marked, unless
\* the second statement failed or the server ended before it.
THEOREM BackupRowsTellTheTruth == ServerSpec => []BackupsAreTold
<1>1. BackupInv => BackupsAreTold
  BY DEF BackupInv
<1> QED BY <1>1, BackupInvariance, PTL
===============================================================================
