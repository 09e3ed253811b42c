------------------------------- MODULE MCBackup -------------------------------
\* The server with one of its jobs, the cache and its two keys in both modes or
\* the nightly backup: they share nothing but the server, and no property looks
\* at both, so that the steps of the one are stutters to the other.
EXTENDS Backup

VARIABLE watched

MCVars == <<vars, backupVars, watched>>
MCInit == ServerInit /\ watched \in {"cache", "backup"}
MCNext ==
  /\ ServerNext
  /\ IF watched = "cache" THEN UNCHANGED backupVars
     ELSE UNCHANGED <<mode, source, memoryStore, warm, admin>>
  /\ UNCHANGED watched
MCSpec == MCInit /\ [][MCNext]_MCVars /\ ServerFairness
===============================================================================
