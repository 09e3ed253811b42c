-------------------------------- MODULE Cache --------------------------------
(***************************************************************************)
(* The cache (plugins/cache.js) over the life of the server (server.js):   *)
(* the job that warms it (plugins/scheduler.js), the administrator who     *)
(* purges it (admin-cache-routes.js), the timers that end what it holds.   *)
(*                                                                         *)
(* The rows a key stands for are told apart by their version only.  No     *)
(* code but the job puts anything into the cache, and none reads it.  In   *)
(* redis mode the store is outside of the process and ends entries itself. *)
(***************************************************************************)
EXTENDS Integers

CONSTANTS
  Keys,           \* the keys the job warms, in this order: 1..Keys
  MaxVersion,     \* bound: the changes of what a key stands for
  MaxPurges,      \* bound: purges by an administrator
  MaxStarts       \* bound: starts of the server

ASSUME CacheAssumption ==
  /\ Keys \in Nat \ {0} /\ MaxVersion \in Nat \ {0}
  /\ MaxPurges \in Nat /\ MaxStarts \in Nat

VARIABLES
  mode,           \* config.cacheMode
  source,         \* the version of the rows of each key (0: there are none)
  memoryStore,    \* the version each key has in the cache (0: none)
  timers,         \* how many timers will delete each key
  server,         \* "down", "starting", "up" (jobs are scheduled), "stopping"
  connected,      \* the cache can be written to
  warm,           \* the run of the job: the key it is at (0: none), what it read
  purges, starts, \* the number of each
  purgedAt,       \* the version of each key when it was last purged (history)
  raced           \* keys purged or invalidated while the job held rows (history)

admin == <<purges, purgedAt, raced>>
vars == <<mode, source, memoryStore, timers, server, connected, warm, starts, admin>>

AllKeys == 1..Keys
NoRun == [key |-> 0, read |-> FALSE, rows |-> 0]
None == [k \in AllKeys |-> 0]
Clear == memoryStore' = None /\ timers' = None
-------------------------------------------------------------------------------
Init ==
  /\ mode \in {"memory", "redis"}
  /\ source \in [AllKeys -> 0..1] /\ memoryStore = None /\ timers = None
  /\ server = "down" /\ connected = FALSE /\ warm = NoRun
  /\ purges = 0 /\ starts = 0
  /\ purgedAt = None /\ raced = {}

\* What a key stands for is changed, by requests of other modules. None of them
\* tells the cache.
Change(k) ==
  /\ server # "down" /\ source[k] < MaxVersion
  /\ source' = [source EXCEPT ![k] = @ + 1]
  /\ UNCHANGED <<mode, memoryStore, timers, server, connected, warm, starts, admin>>

\* start(): the cache is set up first, and the jobs when the server listens.
InitCache ==
  /\ server = "down" /\ starts < MaxStarts
  /\ server' = "starting" /\ connected' = TRUE /\ starts' = starts + 1
  /\ UNCHANGED <<mode, source, memoryStore, timers, warm, admin>>
InitScheduler ==
  /\ server = "starting"
  /\ server' = "up"
  /\ UNCHANGED <<mode, source, memoryStore, timers, connected, warm, starts, admin>>

\* SIGTERM: the jobs are stopped (a run that has begun goes on), the requests
\* are ended, and then the cache; the process exits.
ShutdownScheduler ==
  /\ server = "up"
  /\ server' = "stopping"
  /\ UNCHANGED <<mode, source, memoryStore, timers, connected, warm, starts, admin>>
ShutdownCache ==
  /\ server = "stopping" /\ connected
  /\ connected' = FALSE
  /\ IF mode = "memory" THEN Clear ELSE UNCHANGED <<memoryStore, timers>>
  /\ UNCHANGED <<mode, source, server, warm, starts, admin>>

\* The process ends, as it should, when it cannot start, or by an error nobody
\* caught. Its memory is gone, and a run of the job with it.
Exit ==
  /\ server # "down"
  /\ server' = "down" /\ connected' = FALSE /\ warm' = NoRun
  /\ IF mode = "memory" THEN Clear ELSE UNCHANGED <<memoryStore, timers>>
  /\ UNCHANGED <<mode, source, starts, admin>>
-------------------------------------------------------------------------------
\* Mutants of CacheSet: the timer of the value that is replaced stays, and a
\* value is given no timer.
CacheSet_Twice(k, v) ==
  /\ memoryStore' = [memoryStore EXCEPT ![k] = v]
  /\ timers' = [timers EXCEPT ![k] = @ + 1]
CacheSet_Forever(k, v) ==
  /\ memoryStore' = [memoryStore EXCEPT ![k] = v]
  /\ timers' = [timers EXCEPT ![k] = 0]

\* The value and its timer replace those there are.
CacheSet(k, v) ==
  /\ memoryStore' = [memoryStore EXCEPT ![k] = v]
  /\ timers' = [timers EXCEPT ![k] = 1]

\* Mutant of CacheDel: the timer is cleared, and the value stays.
CacheDel_Timer(k) ==
  /\ timers' = [timers EXCEPT ![k] = 0]
  /\ UNCHANGED memoryStore

CacheDel(k) ==
  /\ memoryStore' = [memoryStore EXCEPT ![k] = 0]
  /\ timers' = [timers EXCEPT ![k] = 0]
CachePurge == Clear

\* The time of a value is over: a timer deletes whatever its key has.
Expire(k) ==
  /\ timers[k] > 0
  /\ timers' = [timers EXCEPT ![k] = @ - 1]
  /\ memoryStore' = [memoryStore EXCEPT ![k] = 0]
  /\ UNCHANGED <<mode, source, server, connected, warm, starts, admin>>

\* POST /admin/cache/purge, of a key or of all.
Purge ==
  /\ server \in {"up", "stopping"} /\ connected /\ purges < MaxPurges
  /\ purges' = purges + 1
  /\ \E ks \in {{k} : k \in AllKeys} \cup {AllKeys} :
       /\ \/ ks = AllKeys /\ CachePurge
          \/ \E k \in ks : ks = {k} /\ CacheDel(k)
       /\ purgedAt' = [k \in AllKeys |-> IF k \in ks THEN source[k] ELSE purgedAt[k]]
       /\ raced' = IF warm.read THEN raced \cup (ks \cap {warm.key}) ELSE raced
  /\ UNCHANGED <<mode, source, server, connected, warm, starts>>

\* Every half hour the job reads the rows of one key after the other...
FireWarm ==
  /\ server = "up" /\ warm.key = 0
  /\ warm' = [NoRun EXCEPT !.key = 1]
  /\ UNCHANGED <<mode, source, memoryStore, timers, server, connected, starts, admin>>
ReadRows ==
  /\ warm.key # 0 /\ ~warm.read
  /\ warm' = [warm EXCEPT !.read = TRUE, !.rows = source[warm.key]]
  /\ UNCHANGED <<mode, source, memoryStore, timers, server, connected, starts, admin>>
NextKey == warm' = [NoRun EXCEPT !.key = (warm.key + 1) % (Keys + 1)]
\* ... and keeps them for it, unless there are none.
StoreRows ==
  /\ warm.read
  /\ IF warm.rows # 0 /\ connected
     THEN /\ CacheSet(warm.key, warm.rows)
          /\ raced' = raced \ {k \in {warm.key} : warm.rows >= purgedAt[k]}
     ELSE UNCHANGED <<memoryStore, timers, raced>>
  /\ NextKey
  /\ UNCHANGED <<mode, source, server, connected, starts, purges, purgedAt>>
\* A read or a write fails: the error is logged, and the job goes on.
FailKey ==
  /\ warm.key # 0
  /\ NextKey
  /\ UNCHANGED <<mode, source, memoryStore, timers, server, connected, starts, admin>>

\* What happens but for the end of the process.
Work ==
  \/ InitCache \/ InitScheduler \/ ShutdownScheduler \/ ShutdownCache
  \/ \E k \in AllKeys : Change(k) \/ Expire(k)
  \/ Purge \/ FireWarm \/ ReadRows \/ StoreRows \/ FailKey
Next == Work \/ Exit

\* Timers fire. Neither does the job have to succeed, nor the server to run: in
\* redis mode it is the store that ends an entry.
Fairness == \A k \in AllKeys : WF_vars(Expire(k))

Spec == Init /\ [][Next]_vars /\ Fairness
-------------------------------------------------------------------------------
\* Every variable stays within its type.
TypeOK ==
  /\ mode \in {"memory", "redis"}
  /\ source \in [AllKeys -> 0..MaxVersion]
  /\ memoryStore \in [AllKeys -> 0..MaxVersion] /\ timers \in [AllKeys -> Nat]
  /\ server \in {"down", "starting", "up", "stopping"} /\ connected \in BOOLEAN
  /\ warm \in [key : 0..Keys, read : BOOLEAN, rows : 0..MaxVersion]
  /\ purges \in Nat /\ starts \in Nat
  /\ purgedAt \in [AllKeys -> 0..MaxVersion] /\ raced \subseteq AllKeys

\* A value in the cache has exactly one timer, and no timer of a value that was
\* replaced, deleted or lost with the process is left to delete a later one.
TimersMatchEntries ==
  /\ TypeOK
  /\ \A k \in AllKeys : timers[k] = IF memoryStore[k] # 0 THEN 1 ELSE 0
  /\ mode = "memory" /\ server = "down" => memoryStore = None

\* After a purge the cache does not hold rows from before it again, unless the
\* job held rows it had read when the purge came.
PurgeLasts ==
  \A k \in AllKeys : memoryStore[k] # 0 /\ k \notin raced => memoryStore[k] >= purgedAt[k]

\* A value that does not agree with the database any more is not kept for good,
\* although nothing deletes it when the rows change: not when the job fails from
\* then on, nor when the server stops.
StaleValuesGo ==
  \A k \in AllKeys : \A v \in 1..MaxVersion :
    (memoryStore[k] = v /\ source[k] # v) ~> memoryStore[k] # v
-------------------------------------------------------------------------------
\* What the job relies on between its read and its write: rows it holds for a key
\* that was not purged since are not older than the last purge. A server that is
\* down writes nothing.
CacheRelies ==
  /\ \A k \in AllKeys : source[k] >= purgedAt[k]
  /\ warm.read => /\ warm.key # 0
                  /\ warm.key \notin raced => warm.rows >= purgedAt[warm.key]
  /\ server = "down" => ~connected

\* The inductive invariant of the proofs.
CacheInv == TimersMatchEntries /\ PurgeLasts /\ CacheRelies
===============================================================================
