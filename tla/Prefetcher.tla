----------------------------- MODULE Prefetcher -----------------------------
(***************************************************************************)
(* backend.Prefetcher: handlers of package indexes offer the URLs they find *)
(* to a bounded queue, workers take them and start a fetch goroutine for    *)
(* each, a cleanup forgets operations that look stale, and Shutdown stops   *)
(* the workers. The warm-up at startup shares none of this state.           *)
(*                                                                         *)
(* Abstractions: a request stands for one URL of one index; those that the  *)
(* architectures filter out are not there. The memory pressure is zero: no  *)
(* code sets it. Metrics, failure counts and logs are left out: nothing     *)
(* reads them. Timeouts may strike at any time.                             *)
(* A name ending in Mut is a faulty variant of the definition after it; no  *)
(* specification uses it.                                                   *)
(***************************************************************************)
EXTENDS Naturals, FiniteSets

CONSTANTS
  Reqs,      \* URLs in the indexes
  Handlers,  \* goroutines in ProcessIndexFile
  OwnerOf,   \* the handler whose index lists a URL
  Workers,   \* maxActive of them
  Capacity,  \* of prefetchQueue: 1000 in the code
  None

ASSUME ConstantsAssumption ==
  /\ OwnerOf \in [Reqs -> Handlers]
  /\ IsFiniteSet(Workers) /\ IsFiniteSet(Reqs)
  /\ Capacity \in Nat \ {0}
  /\ None \notin Reqs

VARIABLES
  place,       \* where each URL is
  handler,     \* where each handler is
  offer,       \* the URL it offers
  worker,
  job,         \* the URL a worker has in hand
  inProgress,  \* the atomic counter
  wg,          \* the WaitGroup of the fetch goroutines
  active,      \* markers of operations
  stopped,     \* stopCh is closed
  shutdown,    \* where the call of Shutdown is
  cleaner      \* the cleanup routine runs

offering == <<handler, offer>>
working == <<worker, job, inProgress>>
stopping == <<stopped, shutdown, cleaner>>
vars == <<place, handler, offer, worker, job, inProgress, wg, active, stopped, shutdown,
          cleaner>>

TypeOK ==
  /\ place \in [Reqs -> {"index", "queue", "worker", "fetch", "ending", "done", "skipped"}]
  /\ Cardinality({r \in Reqs : place[r] = "queue"}) <= Capacity
  /\ handler \in [Handlers -> {"next", "block", "timed", "done"}]
  /\ offer \in [Handlers -> Reqs \cup {None}]
  /\ worker \in [Workers -> {"select", "count", "spawn", "leave", "exit"}]
  /\ job \in [Workers -> Reqs \cup {None}]
  /\ inProgress \in 0..Cardinality(Workers)
  /\ wg \in 0..Cardinality(Reqs)
  /\ active \in SUBSET Reqs
  /\ stopped \in BOOLEAN
  /\ shutdown \in {"none", "wait", "graceful", "late"}
  /\ cleaner \in BOOLEAN

Init ==
  /\ place = [r \in Reqs |-> "index"]
  /\ handler = [h \in Handlers |-> "next"]
  /\ offer = [h \in Handlers |-> None]
  /\ worker = [w \in Workers |-> "select"]
  /\ job = [w \in Workers |-> None]
  /\ inProgress = 0 /\ wg = 0
  /\ active = {}
  /\ stopped = FALSE /\ shutdown = "none" /\ cleaner = TRUE

In(p) == {r \in Reqs : place[r] = p}
Room == Cardinality(In("queue")) < Capacity
Move(r, p) == place' = [place EXCEPT ![r] = p]

-----------------------------------------------------------------------------
(* ProcessIndexFile.                                                        *)

\* The next URL: with as many in progress as there are workers it is offered for a
\* limited time, else for good. Its marker is looked up under a key that none has.
Offer(h) ==
  /\ handler[h] = "next"
  /\ \E r \in In("index") :
       /\ OwnerOf[r] = h
       /\ offer' = [offer EXCEPT ![h] = r]
       /\ handler' = [handler EXCEPT ![h] =
                        IF inProgress < Cardinality(Workers) THEN "block" ELSE "timed"]
  /\ UNCHANGED <<place, working, wg, active, stopping>>

\* The handler goes on with the next URL, or returns after the last one.
Offered(h, p) ==
  /\ Move(offer[h], p)
  /\ offer' = [offer EXCEPT ![h] = None]
  /\ handler' = [handler EXCEPT ![h] =
                   IF \E r \in In("index") : OwnerOf[r] = h /\ r # offer[h] THEN "next" ELSE "done"]
  /\ UNCHANGED <<working, wg, active, stopping>>

Enqueue(h) == handler[h] \in {"block", "timed"} /\ Room /\ Offered(h, "queue")

\* After 100 milliseconds the URL is skipped.
Skip(h) == handler[h] = "timed" /\ Offered(h, "skipped")

-----------------------------------------------------------------------------
(* The workers.                                                             *)

\* The select takes a URL; when the prefetcher is shut down it may also exit.
Take(w) ==
  /\ worker[w] = "select"
  /\ \E r \in In("queue") : Move(r, "worker") /\ job' = [job EXCEPT ![w] = r]
  /\ worker' = [worker EXCEPT ![w] = "count"]
  /\ UNCHANGED <<offering, inProgress, wg, active, stopping>>

WorkerExit(w) ==
  /\ worker[w] = "select"
  /\ stopped
  /\ worker' = [worker EXCEPT ![w] = "exit"]
  /\ UNCHANGED <<place, offering, job, inProgress, wg, active, stopping>>

Count(w) ==
  /\ worker[w] = "count"
  /\ inProgress' = inProgress + 1
  /\ worker' = [worker EXCEPT ![w] = "spawn"]
  /\ UNCHANGED <<place, offering, job, wg, active, stopping>>

\* (no more fetches than workers)
SpawnMut(w) ==
  /\ worker[w] = "spawn"
  /\ Cardinality(In("fetch")) < Cardinality(Workers)
  /\ active' = active \cup {job[w]}
  /\ wg' = wg + 1
  /\ Move(job[w], "fetch")
  /\ worker' = [worker EXCEPT ![w] = "leave"]
  /\ UNCHANGED <<offering, job, inProgress, stopping>>

\* The marker's key holds the time in nanoseconds: it is never there already. The
\* fetch gets a goroutine, and another one inside it for manager.Fetch.
Spawn(w) ==
  /\ worker[w] = "spawn"
  /\ active' = active \cup {job[w]}
  /\ wg' = wg + 1
  /\ Move(job[w], "fetch")
  /\ worker' = [worker EXCEPT ![w] = "leave"]
  /\ UNCHANGED <<offering, job, inProgress, stopping>>

\* The worker does not wait for the fetch.
Leave(w) ==
  /\ worker[w] = "leave"
  /\ inProgress' = inProgress - 1
  /\ job' = [job EXCEPT ![w] = None]
  /\ worker' = [worker EXCEPT ![w] = "select"]
  /\ UNCHANGED <<place, offering, wg, active, stopping>>

WorkerStep(w) == Count(w) \/ Spawn(w) \/ Leave(w)

-----------------------------------------------------------------------------
(* The fetch goroutines.                                                    *)

\* With the answer of manager.Fetch, or without one after 30 seconds, the goroutine
\* ends: the marker goes first ...
FetchEnds(r) ==
  /\ place[r] = "fetch"
  /\ Move(r, "ending")
  /\ active' = active \ {r}
  /\ UNCHANGED <<offering, working, wg, stopping>>

\* ... and the WaitGroup is told last.
FetchDone(r) ==
  /\ place[r] = "ending"
  /\ wg' = wg - 1
  /\ Move(r, "done")
  /\ UNCHANGED <<offering, working, active, stopping>>

\* Markers older than 15 seconds are dropped, one by one, whether or not the fetch still runs.
CleanupStale ==
  /\ cleaner
  /\ \E r \in active : active' = active \ {r}
  /\ UNCHANGED <<place, offering, working, wg, stopping>>

CleanupExit ==
  /\ cleaner /\ stopped
  /\ cleaner' = FALSE
  /\ UNCHANGED <<place, offering, working, wg, active, stopped, shutdown>>

\* Called by the administrator and under memory pressure.
ForceCleanup ==
  /\ active # {}
  /\ active' = {}
  /\ UNCHANGED <<place, offering, working, wg, stopping>>

-----------------------------------------------------------------------------
(* Shutdown.                                                                *)

Shutdown ==
  /\ shutdown = "none"
  /\ stopped' = TRUE
  /\ shutdown' = "wait"
  /\ UNCHANGED <<place, offering, working, wg, active, cleaner>>

\* (it waits until all that was queued is fetched)
ShutdownEndsMut ==
  /\ shutdown = "wait"
  /\ wg = 0 /\ In("queue") = {}
  /\ shutdown' = "graceful"
  /\ UNCHANGED <<place, offering, working, wg, active, stopped, cleaner>>

\* The WaitGroup is at zero, or five seconds are over.
ShutdownEnds ==
  /\ shutdown = "wait"
  /\ shutdown' \in IF wg = 0 THEN {"graceful", "late"} ELSE {"late"}
  /\ UNCHANGED <<place, offering, working, wg, active, stopped, cleaner>>

Next ==
  \/ \E h \in Handlers : Offer(h) \/ Enqueue(h) \/ Skip(h)
  \/ \E w \in Workers : Take(w) \/ WorkerExit(w) \/ WorkerStep(w)
  \/ \E r \in Reqs : FetchEnds(r) \/ FetchDone(r)
  \/ CleanupStale \/ CleanupExit \/ ForceCleanup
  \/ Shutdown \/ ShutdownEnds

Spec == Init /\ [][Next]_vars

\* Goroutines are scheduled; a channel serves its senders in turn, and a select picks
\* among its ready cases at random. Fetches owe nothing: upstream may never answer,
\* and not even the timeout of 30 seconds is needed.
FairSpec ==
  /\ Spec
  /\ \A h \in Handlers : WF_vars(Offer(h)) /\ SF_vars(Enqueue(h)) /\ WF_vars(Skip(h))
  /\ \A w \in Workers : WF_vars(WorkerStep(w)) /\ WF_vars(Take(w) \/ WorkerExit(w))
                        /\ SF_vars(WorkerExit(w))
  /\ \A r \in Reqs : WF_vars(FetchDone(r))
  /\ WF_vars(CleanupExit) /\ WF_vars(ShutdownEnds)

-----------------------------------------------------------------------------
(* Correctness.                                                            *)

\* Whatever is started is accounted for, and given back: the WaitGroup that Shutdown
\* waits for counts each fetch goroutine from before it runs to after its last step,
\* and a marker is there at most while the goroutine of its operation runs.
Accounted ==
  /\ wg = Cardinality(In("fetch") \cup In("ending"))
  /\ active \subseteq In("fetch")
  /\ (\A w \in Workers : worker[w] \in {"select", "exit"}) => inProgress = 0

\* A handler that hands its index to the prefetcher gets to answer its client,
\* although upstream never answers the prefetcher: until the prefetcher is shut down,
\* after which nobody may take from a queue that is full.
IndexReturns == \A h \in Handlers : handler[h] # "done" ~> handler[h] = "done" \/ stopped

\* Shutdown returns and every worker and the cleanup exit, although fetches hang.
ShutdownReturns ==
  stopped ~> /\ shutdown \in {"graceful", "late"}
             /\ \A w \in Workers : worker[w] = "exit"
             /\ ~cleaner

\* "Maximum prefetch connections": no more fetches at once than there are workers.
ConnectionsBounded == Cardinality(In("fetch")) <= Cardinality(Workers)

\* "Shutdown waits for all prefetch operations to complete": when it says that it has,
\* none runs and none will.
GracefulIsComplete == shutdown = "graceful" => In("fetch") = {}

=============================================================================
