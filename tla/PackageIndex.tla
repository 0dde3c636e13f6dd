---------------------------- MODULE PackageIndex ----------------------------
(***************************************************************************)
(* The package index of storage.DatabaseStore: the "p:" entries with their  *)
(* cached count, and the "h:" hash mappings with their memory cache and     *)
(* write batch, as Cache.UpdatePackageIndex, DatabaseStore's own bulk       *)
(* UpdatePackageIndex, GetPackageCount and GetPackageNameForHash use them.  *)
(*                                                                         *)
(* A critical section that takes no other lock is one step, enabled when    *)
(* its mutex is free; sections that take a second lock keep the first one.  *)
(* A name ending in Mut is a faulty variant of the definition after it; no  *)
(* specification uses it.                                                   *)
(***************************************************************************)
EXTENDS Naturals, FiniteSets

CONSTANTS
  Pkgs,        \* package keys: name, version and architecture
  Hashed,      \* the packages whose stanza carries a SHA256
  Procs,       \* goroutines
  MemLimit,    \* maxCacheSize: mappings kept in memory
  BatchSize,   \* mappings that make the batch due: 100 in the code
  Ops,         \* the operations this instance exercises
  MaxCalls,    \* bound on the calls made, by all goroutines together
  MaxStops,    \* bound on clean restarts
  MaxCrashes,  \* bound on crashes
  None

AllOps == {"update", "bulk", "count", "lookup"}

ASSUME ConstantsAssumption ==
  /\ Hashed \subseteq Pkgs
  /\ IsFiniteSet(Pkgs)
  /\ None \notin Procs
  /\ MemLimit \in Nat \ {0}
  /\ BatchSize \in Nat \ {0}
  /\ Ops \subseteq AllOps
  /\ MaxCalls \in Nat /\ MaxStops \in Nat /\ MaxCrashes \in Nat

VARIABLES
  packages,     \* the p: keys of the database
  hashes,       \* the h: keys of the database
  mem,          \* hash mappings in the memory cache
  batch,        \* hash mappings waiting in ds.batch
  count,        \* packageCount
  countTime,    \* packageCountTime: zero, recent enough, or over ten minutes old
  indexLock,    \* owner of Cache.packageMutex
  countLock,    \* owner of packageCountMutex
  batchLock,    \* owner of batchMutex
  pc,           \* where each goroutine is
  after,        \* where it goes when GetPackageCount returns
  todo,         \* packages its update has still to look at
  cur,          \* the package it is working on
  snap,         \* what its iterator over the p: keys sees
  answer,       \* what its last lookup answered
  calls, stops, crashes

db == <<packages, hashes>>
maps == <<mem, batch>>
counter == <<count, countTime>>
locks == <<indexLock, countLock, batchLock>>
local == <<after, todo, cur, snap, answer>>
budget == <<calls, stops, crashes>>
vars == <<packages, hashes, mem, batch, count, countTime, indexLock, countLock,
          batchLock, pc, after, todo, cur, snap, answer, calls, stops, crashes>>

PC == {"idle", "uLock", "uLoop", "uStore", "uInvalidate", "uMem", "uBatch", "uUnlock",
       "cLock", "cCheck", "cIter", "cStore", "cUnlock",
       "bLock", "bApply", "bInvalidate", "bUnlock", "lMem", "lDb", "lFill"}

TypeOK ==
  /\ packages \in SUBSET Pkgs
  /\ hashes \in SUBSET Hashed
  /\ mem \in SUBSET Hashed
  /\ batch \in SUBSET Hashed
  /\ count \in Nat
  /\ countTime \in {"zero", "recent", "old"}
  /\ indexLock \in Procs \cup {None}
  /\ countLock \in Procs \cup {None}
  /\ batchLock \in Procs \cup {None}
  /\ pc \in [Procs -> PC]
  /\ after \in [Procs -> {"idle", "uLoop", "uUnlock"}]
  /\ todo \in [Procs -> SUBSET Pkgs]
  /\ cur \in [Procs -> Pkgs \cup {None}]
  /\ snap \in [Procs -> SUBSET Pkgs]
  /\ answer \in [Procs -> {"none", "yes", "no"}]
  /\ calls \in 0..MaxCalls /\ stops \in 0..MaxStops /\ crashes \in 0..MaxCrashes

Init ==
  /\ packages = {} /\ hashes = {} /\ mem = {} /\ batch = {}
  /\ count = 0 /\ countTime = "zero"
  /\ indexLock = None /\ countLock = None /\ batchLock = None
  /\ pc = [c \in Procs |-> "idle"]
  /\ after = [c \in Procs |-> "idle"]
  /\ todo = [c \in Procs |-> {}]
  /\ cur = [c \in Procs |-> None]
  /\ snap = [c \in Procs |-> {}]
  /\ answer = [c \in Procs |-> "none"]
  /\ calls = 0 /\ stops = 0 /\ crashes = 0

At(c, here) == pc[c] = here
Goto(c, there) == pc' = [pc EXCEPT ![c] = there]

Call(c, op, start) ==
  /\ op \in Ops
  /\ At(c, "idle")
  /\ calls < MaxCalls
  /\ calls' = calls + 1
  /\ Goto(c, start)
  /\ UNCHANGED <<db, maps, counter, locks, snap, stops, crashes>>

-----------------------------------------------------------------------------
(* GetPackageCount: holds the count lock throughout, and takes the batch    *)
(* lock inside it to create the iterator.                                   *)

CallCount(c) ==
  /\ Call(c, "count", "cLock")
  /\ after' = [after EXCEPT ![c] = "idle"]
  /\ UNCHANGED <<todo, cur, answer>>

CountLock(c) ==
  /\ At(c, "cLock")
  /\ countLock = None
  /\ countLock' = c
  /\ Goto(c, "cCheck")
  /\ UNCHANGED <<db, maps, counter, indexLock, batchLock, local, budget>>

\* (the early return forgets the lock)
CountCheckMut(c) ==
  /\ At(c, "cCheck")
  /\ Goto(c, IF countTime = "recent" THEN after[c] ELSE "cIter")
  /\ UNCHANGED <<db, maps, counter, locks, local, budget>>

\* A count less than ten minutes old is returned as it is.
CountCheck(c) ==
  /\ At(c, "cCheck")
  /\ Goto(c, IF countTime = "recent" THEN "cUnlock" ELSE "cIter")
  /\ UNCHANGED <<db, maps, counter, locks, local, budget>>

\* The iterator is created under the batch lock and sees the keys of that moment.
CountIter(c) ==
  /\ At(c, "cIter")
  /\ batchLock = None
  /\ snap' = [snap EXCEPT ![c] = packages]
  /\ Goto(c, "cStore")
  /\ UNCHANGED <<db, maps, counter, locks, after, todo, cur, answer, budget>>

CountStore(c) ==
  /\ At(c, "cStore")
  /\ count' = Cardinality(snap[c])
  /\ countTime' = "recent"
  /\ Goto(c, "cUnlock")
  /\ UNCHANGED <<db, maps, locks, local, budget>>

CountUnlock(c) ==
  /\ At(c, "cUnlock")
  /\ countLock' = None
  /\ Goto(c, after[c])
  /\ UNCHANGED <<db, maps, counter, indexLock, batchLock, local, budget>>

CountStep(c) ==
  CountLock(c) \/ CountCheck(c) \/ CountIter(c) \/ CountStore(c) \/ CountUnlock(c)

-----------------------------------------------------------------------------
(* Cache.UpdatePackageIndex                                                 *)

CallUpdate(c) ==
  /\ Call(c, "update", "uLock")
  /\ \E S \in SUBSET Pkgs : todo' = [todo EXCEPT ![c] = S]
  /\ UNCHANGED <<after, cur, answer>>

\* The index is counted first; with nothing to add, that is all.
UpdateLock(c) ==
  /\ At(c, "uLock")
  /\ indexLock = None
  /\ indexLock' = c
  /\ Goto(c, "cLock")
  /\ after' = [after EXCEPT ![c] = IF todo[c] = {} THEN "uUnlock" ELSE "uLoop"]
  /\ UNCHANGED <<db, maps, counter, countLock, batchLock, todo, cur, snap, answer, budget>>

\* Next package: ListPackages, under the batch lock, tells whether it is known.
UpdateLoop(c) ==
  /\ At(c, "uLoop")
  /\ batchLock = None
  /\ \E p \in todo[c] :
       /\ cur' = [cur EXCEPT ![c] = p]
       /\ todo' = [todo EXCEPT ![c] = @ \ {p}]
       /\ Goto(c, IF p \in packages THEN "uLoop" ELSE "uStore")
  /\ UNCHANGED <<db, maps, counter, locks, after, snap, answer, budget>>

\* No package left: the index is counted again.
UpdateDone(c) ==
  /\ At(c, "uLoop")
  /\ todo[c] = {}
  /\ Goto(c, "cLock")
  /\ after' = [after EXCEPT ![c] = "uUnlock"]
  /\ UNCHANGED <<db, maps, counter, locks, todo, cur, snap, answer, budget>>

\* (the cached count is not invalidated)
UpdateStoreMut(c) ==
  /\ At(c, "uStore")
  /\ packages' = packages \cup {cur[c]}
  /\ Goto(c, IF cur[c] \in Hashed THEN "uMem" ELSE "uLoop")
  /\ UNCHANGED <<hashes, maps, counter, locks, local, budget>>

\* StorePackageInfo: db.Set, which holds no lock ...
UpdateStore(c) ==
  /\ At(c, "uStore")
  /\ packages' = packages \cup {cur[c]}
  /\ Goto(c, "uInvalidate")
  /\ UNCHANGED <<hashes, maps, counter, locks, local, budget>>

\* ... and then the cached count is invalidated under its own lock.
UpdateInvalidate(c) ==
  /\ At(c, "uInvalidate")
  /\ countLock = None
  /\ countTime' = "zero"
  /\ Goto(c, IF cur[c] \in Hashed THEN "uMem" ELSE "uLoop")
  /\ UNCHANGED <<db, maps, count, locks, local, budget>>

\* The memory cache is emptied when it is full.
Remember(p) == mem' = IF Cardinality(mem) >= MemLimit THEN {p} ELSE mem \cup {p}

\* AddHashMapping: the memory cache first, ...
UpdateMem(c) ==
  /\ At(c, "uMem")
  /\ Remember(cur[c])
  /\ Goto(c, "uBatch")
  /\ UNCHANGED <<db, batch, counter, locks, local, budget>>

\* (a due batch is replaced without being applied)
FlushIfMut(due, added) ==
  /\ batch' = IF due THEN {} ELSE added
  /\ UNCHANGED hashes

FlushIf(due, added) ==
  /\ batch' = IF due THEN {} ELSE added
  /\ hashes' = IF due THEN hashes \cup added ELSE hashes

\* ... then the batch, applied when it is large or was last applied over five
\* seconds ago.
UpdateBatch(c) ==
  /\ At(c, "uBatch")
  /\ batchLock = None
  /\ LET added == batch \cup {cur[c]}
     IN \E late \in BOOLEAN : FlushIf(Cardinality(added) >= BatchSize \/ late, added)
  /\ Goto(c, "uLoop")
  /\ UNCHANGED <<packages, mem, counter, locks, local, budget>>

UpdateUnlock(c) ==
  /\ At(c, "uUnlock")
  /\ indexLock' = None
  /\ Goto(c, "idle")
  /\ UNCHANGED <<db, maps, counter, countLock, batchLock, local, budget>>

UpdateStep(c) ==
  \/ UpdateLock(c) \/ UpdateLoop(c) \/ UpdateDone(c) \/ UpdateStore(c)
  \/ UpdateInvalidate(c) \/ UpdateMem(c) \/ UpdateBatch(c) \/ UpdateUnlock(c)

-----------------------------------------------------------------------------
(* DatabaseStore.UpdatePackageIndex: holds the batch lock throughout, and   *)
(* takes the count lock inside it.                                          *)

CallBulk(c) ==
  /\ Call(c, "bulk", "bLock")
  /\ \E S \in SUBSET Pkgs : todo' = [todo EXCEPT ![c] = S]
  /\ UNCHANGED <<after, cur, answer>>

BulkLock(c) ==
  /\ At(c, "bLock")
  /\ batchLock = None
  /\ batchLock' = c
  /\ Goto(c, "bApply")
  /\ UNCHANGED <<db, maps, counter, indexLock, countLock, local, budget>>

\* Packages and their mappings are applied in one batch of its own.
BulkApply(c) ==
  /\ At(c, "bApply")
  /\ LET new == todo[c] \ packages IN
       /\ packages' = packages \cup new
       /\ hashes' = hashes \cup (new \cap Hashed)
       /\ Goto(c, IF new = {} THEN "bUnlock" ELSE "bInvalidate")
  /\ UNCHANGED <<maps, counter, locks, local, budget>>

BulkInvalidate(c) ==
  /\ At(c, "bInvalidate")
  /\ countLock = None
  /\ countTime' = "zero"
  /\ Goto(c, "bUnlock")
  /\ UNCHANGED <<db, maps, count, locks, local, budget>>

BulkUnlock(c) ==
  /\ At(c, "bUnlock")
  /\ batchLock' = None
  /\ Goto(c, "idle")
  /\ UNCHANGED <<db, maps, counter, indexLock, countLock, local, budget>>

BulkStep(c) == BulkLock(c) \/ BulkApply(c) \/ BulkInvalidate(c) \/ BulkUnlock(c)

-----------------------------------------------------------------------------
(* GetPackageNameForHash                                                    *)

CallLookup(c) ==
  /\ Call(c, "lookup", "lMem")
  /\ \E p \in Hashed : cur' = [cur EXCEPT ![c] = p]
  /\ answer' = [answer EXCEPT ![c] = "none"]
  /\ UNCHANGED <<after, todo>>

LookupMem(c) ==
  /\ At(c, "lMem")
  /\ IF cur[c] \in mem
     THEN answer' = [answer EXCEPT ![c] = "yes"] /\ Goto(c, "idle")
     ELSE Goto(c, "lDb") /\ UNCHANGED answer
  /\ UNCHANGED <<db, maps, counter, locks, after, todo, cur, snap, budget>>

\* The database is asked; what waits in the batch is not looked at.
LookupDb(c) ==
  /\ At(c, "lDb")
  /\ IF cur[c] \in hashes
     THEN Goto(c, "lFill") /\ UNCHANGED answer
     ELSE answer' = [answer EXCEPT ![c] = "no"] /\ Goto(c, "idle")
  /\ UNCHANGED <<db, maps, counter, locks, after, todo, cur, snap, budget>>

LookupFill(c) ==
  /\ At(c, "lFill")
  /\ Remember(cur[c])
  /\ answer' = [answer EXCEPT ![c] = "yes"]
  /\ Goto(c, "idle")
  /\ UNCHANGED <<db, batch, counter, locks, after, todo, cur, snap, budget>>

LookupStep(c) == LookupMem(c) \/ LookupDb(c) \/ LookupFill(c)

-----------------------------------------------------------------------------
(* Time and restarts.                                                       *)

\* Ten minutes pass since the packages were counted.
CountAges ==
  /\ countTime = "recent"
  /\ countTime' = "old"
  /\ UNCHANGED <<db, maps, count, locks, pc, local, budget>>

Quiet == \A c \in Procs : At(c, "idle")

\* A new DatabaseStore starts with nothing in memory.
Forget ==
  /\ mem' = {} /\ batch' = {}
  /\ count' = 0 /\ countTime' = "zero"

\* Close applies the batch; the store is opened again.
Stop ==
  /\ Quiet
  /\ stops < MaxStops
  /\ stops' = stops + 1
  /\ hashes' = hashes \cup batch
  /\ Forget
  /\ UNCHANGED <<packages, locks, pc, local, calls, crashes>>

\* The process dies: database writes were synced, the batch is lost.
Crash ==
  /\ crashes < MaxCrashes
  /\ crashes' = crashes + 1
  /\ Forget
  /\ indexLock' = None /\ countLock' = None /\ batchLock' = None
  /\ pc' = [c \in Procs |-> "idle"]
  /\ UNCHANGED <<db, local, calls, stops>>

-----------------------------------------------------------------------------
ProcStep(c) == CountStep(c) \/ UpdateStep(c) \/ BulkStep(c) \/ LookupStep(c)

Next ==
  \/ \E c \in Procs : CallCount(c) \/ CallUpdate(c) \/ CallBulk(c) \/ CallLookup(c) \/ ProcStep(c)
  \/ CountAges
  \/ Stop
  \/ Crash

Spec == Init /\ [][Next]_vars

\* A goroutine inside a call is scheduled; sync.Mutex hands a lock to a waiter
\* eventually, which weak fairness gives when the calls are bounded.
FairSpec == Spec /\ \A c \in Procs : WF_vars(ProcStep(c))

-----------------------------------------------------------------------------
(* Correctness.                                                            *)

\* A package is in the database and its writer has not yet invalidated the count.
Unannounced(c) == At(c, "uInvalidate") \/ At(c, "bInvalidate")

\* A cached count that GetPackageCount would return is the number of packages,
\* but for a writer between its write and its invalidation: no interleaving of
\* a count with a store leaves a stale count behind for ten minutes.
CountCoherent ==
  countTime = "recent" /\ (\A c \in Procs : ~Unannounced(c)) => count = Cardinality(packages)

\* The memory cache stays within its limit, filled by updates and by lookups.
MemBounded == Cardinality(mem) <= MemLimit

\* What a crash breaks: a package of the index whose store is over has its hash
\* mapping in the database or on its way there, as "Atomic batch operations ensure
\* data consistency" says. A package that is known is never mapped again.
MappingNeverLost ==
  \A p \in packages \cap Hashed :
    \/ p \in hashes \cup batch
    \/ \E c \in Procs : cur[c] = p /\ pc[c] \in {"uInvalidate", "uMem", "uBatch"}

\* Unless the process died, none is lost: emptying the memory cache loses none, and
\* a clean stop leaves none behind.
MappingKept == crashes = 0 => MappingNeverLost

\* What each place waits for, and what a goroutine holds there.
Bulk == {"bLock", "bApply", "bInvalidate", "bUnlock"}
Wants(c, lock) ==
  \/ lock = 1 /\ At(c, "uLock")
  \/ lock = 2 /\ pc[c] \in {"cLock", "uInvalidate", "bInvalidate"}
  \/ lock = 3 /\ pc[c] \in {"cIter", "uLoop", "uBatch", "bLock"}
Holds(c, lock) ==
  \/ lock = 1 /\ indexLock = c
  \/ lock = 2 /\ countLock = c
  \/ lock = 3 /\ batchLock = c

\* The operations of the server take the index lock, the count lock and the batch
\* lock in this order, across the calls they make into one another: they cannot
\* wait for each other in a circle.
LockOrder ==
  \A c \in Procs : pc[c] \notin Bulk =>
    \A m, l \in 1..3 : Holds(c, l) /\ Wants(c, m) => l < m

\* So each call returns, unless a bulk update takes part.
CallsReturn ==
  [](\A c \in Procs : pc[c] \notin Bulk) => \A c \in Procs : ~At(c, "idle") ~> At(c, "idle")

=============================================================================
