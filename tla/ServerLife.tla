----------------------------- MODULE ServerLife -----------------------------
(***************************************************************************)
(* The life of server.Server: StartWithContext with its HTTP, HTTPS and     *)
(* admin servers, Shutdown, which several goroutines may call, the memory   *)
(* monitor, and the handlers that share s.mutex.                            *)
(*                                                                         *)
(* Abstractions: net/http is modelled by what its ListenAndServe and        *)
(* Shutdown do; a package request is one step of any length (RequestPath    *)
(* takes it apart), and the pages of statistics are written in no time; the *)
(* warm-up, which only the prefetch context ties to the server, is left     *)
(* out. Timeouts may strike at any time.                                    *)
(* A name ending in Mut is a faulty variant of the definition after it; no  *)
(* specification uses it.                                                   *)
(***************************************************************************)
EXTENDS Naturals

CONSTANTS
  Servers,   \* those the configuration asks for, of "http", "https", "admin"
  Callers,   \* of Shutdown, StartWithContext apart
  Main,      \* StartWithContext, as a caller of Shutdown
  Requests,
  None

ASSUME ConstantsAssumption ==
  /\ "http" \in Servers /\ Servers \subseteq {"http", "https", "admin"}
  /\ Main \notin Callers
  /\ None \notin Requests

VARIABLES
  start,       \* where StartWithContext is
  life,        \* the goroutine of each server
  down,        \* servers whose Shutdown was called
  once,        \* shutdownOnce
  call,        \* where each call of Shutdown is
  outcome,     \* and what it returned
  todo,        \* what is still to be stopped
  waiting,     \* for the requests of a server
  expired,     \* the shutdown context
  failed,      \* shutdownErr is set
  closes,      \* how often the cache was closed
  req,         \* where each request is
  port,        \* the server it came to
  mutex,       \* the holder of s.mutex
  monitor,     \* the loop of the memory monitor; "lock" and "hold" are its m.mu.Lock
  stopCh       \* closed by its Stop

serving == <<start, life>>
shutting == <<down, once, call, outcome, todo, waiting, expired, failed, closes, stopCh>>
handling == <<req, port, mutex>>
vars == <<start, life, down, once, call, outcome, todo, waiting, expired,
          failed, closes, req, port, mutex, monitor, stopCh>>

Calls == Callers \cup {Main}

\* What the routes of a server lead to: the health check and the metrics are on each.
Kinds(s) == {"stats"} \cup IF s = "admin" THEN {"dashboard", "download"} ELSE {"package"}

\* What Shutdown stops, and in which order.
Parts == Servers \cup {"monitor", "cache"}
Rank == [http |-> 1, https |-> 2, admin |-> 3, monitor |-> 4, cache |-> 5]

TypeOK ==
  /\ start \in {"none", "select", "stopping", "returned"}
  /\ life \in [Servers -> {"none", "launched", "listening", "ended"}]
  /\ down \in SUBSET Servers
  /\ once \in {"free", "running", "done"}
  /\ call \in [Calls -> {"idle", "once", "in", "returned"}]
  /\ outcome \in [Calls -> {"none", "nil", "error"}]
  /\ todo \in SUBSET Parts
  /\ waiting \in BOOLEAN /\ expired \in BOOLEAN /\ failed \in BOOLEAN
  /\ closes \in 0..1
  /\ req \in [Requests -> {"none", "package", "stats", "dashboard", "memory", "usage", "look",
                           "leave", "download", "fetch"}]
  /\ port \in [Requests -> Servers]
  /\ mutex \in Requests \cup {None}
  /\ monitor \in {"idle", "lock", "hold", "exit"}
  /\ stopCh \in BOOLEAN

\* New has started the monitor.
Init ==
  /\ start = "none"
  /\ life = [s \in Servers |-> "none"]
  /\ down = {}
  /\ once = "free"
  /\ call = [c \in Calls |-> "idle"]
  /\ outcome = [c \in Calls |-> "none"]
  /\ todo = {}
  /\ waiting = FALSE /\ expired = FALSE /\ failed = FALSE
  /\ closes = 0
  /\ req = [r \in Requests |-> "none"]
  /\ port = [r \in Requests |-> "http"]
  /\ mutex = None
  /\ monitor = "idle" /\ stopCh = FALSE

Listening(s) == life[s] = "listening" /\ s \notin down
InFlight(s) == {r \in Requests : port[r] = s /\ req[r] \notin {"none", "download", "fetch"}}

-----------------------------------------------------------------------------
(* StartWithContext.                                                        *)

\* The servers get their goroutines, and so does the warm-up.
Start ==
  /\ start = "none"
  /\ start' = "select"
  /\ life' = [s \in Servers |-> "launched"]
  /\ UNCHANGED <<shutting, handling, monitor>>

Listen(s) ==
  /\ life[s] = "launched" /\ s \notin down
  /\ life' = [life EXCEPT ![s] = "listening"]
  /\ UNCHANGED <<start, shutting, handling, monitor>>

\* ListenAndServe returns ErrServerClosed at once when the server is shut down, and
\* so it does when it is called after that; or the port is taken, or the listener breaks.
Ends(s) ==
  /\ life[s] \in {"launched", "listening"}
  /\ life' = [life EXCEPT ![s] = "ended"]
  /\ UNCHANGED <<start, shutting, handling, monitor>>

\* The context is cancelled and the select takes that, or ...
Cancelled ==
  /\ start = "select"
  /\ start' = "stopping"
  /\ UNCHANGED <<life, shutting, handling, monitor>>

\* ... the HTTP server has ended and told serverDone, the others only log it. After a
\* Shutdown of its own StartWithContext returns as well.
StartReturns ==
  /\ \/ start = "select" /\ life["http"] = "ended"
     \/ start = "stopping" /\ call[Main] = "returned"
  /\ start' = "returned"
  /\ UNCHANGED <<life, shutting, handling, monitor>>

-----------------------------------------------------------------------------
(* Shutdown.                                                                *)

\* The first caller runs the shutdown: it cancels the prefetch context and makes a
\* context of 30 seconds. The others wait in the Once.
Enter(c) ==
  /\ call[c] = "idle" /\ (c = Main => start = "stopping")
  /\ IF once = "free"
     THEN /\ call' = [call EXCEPT ![c] = "in"]
          /\ once' = "running" /\ todo' = Parts
     ELSE call' = [call EXCEPT ![c] = "once"] /\ UNCHANGED <<once, todo>>
  /\ UNCHANGED <<serving, down, outcome, waiting, expired, failed, closes, stopCh, handling,
                 monitor>>

\* (the others do not wait)
SecondReturnsMut(c) ==
  /\ call[c] = "once"
  /\ call' = [call EXCEPT ![c] = "returned"]
  /\ outcome' = [outcome EXCEPT ![c] = "nil"]
  /\ UNCHANGED <<serving, down, once, todo, waiting, expired, failed, closes, stopCh, handling,
                 monitor>>

\* The error is in a variable of the first call: the others return none.
SecondReturns(c) ==
  /\ call[c] = "once" /\ once = "done"
  /\ call' = [call EXCEPT ![c] = "returned"]
  /\ outcome' = [outcome EXCEPT ![c] = "nil"]
  /\ UNCHANGED <<serving, down, once, todo, waiting, expired, failed, closes, stopCh, handling,
                 monitor>>

FirstReturns(c) ==
  /\ call[c] = "in" /\ todo = {}
  /\ call' = [call EXCEPT ![c] = "returned"]
  /\ outcome' = [outcome EXCEPT ![c] = IF failed THEN "error" ELSE "nil"]
  /\ once' = "done"
  /\ UNCHANGED <<serving, down, todo, waiting, expired, failed, closes, stopCh, handling,
                 monitor>>

\* It is the turn of this part.
Turn(p) == once = "running" /\ p \in todo /\ \A q \in todo : Rank[p] <= Rank[q]
Stopped(p) == todo' = todo \ {p}

\* (the requests in flight are not waited for)
StopServerMut(s) ==
  /\ Turn(s) /\ ~waiting
  /\ down' = down \cup {s}
  /\ Stopped(s)
  /\ UNCHANGED <<serving, once, call, outcome, waiting, expired, failed, closes, stopCh,
                 handling, monitor>>

\* http.Server.Shutdown closes the listener and looks whether requests are in flight.
StopServer(s) ==
  /\ Turn(s) /\ ~waiting
  /\ down' = down \cup {s}
  /\ IF InFlight(s) = {}
     THEN Stopped(s) /\ UNCHANGED waiting
     ELSE waiting' = TRUE /\ UNCHANGED todo
  /\ UNCHANGED <<serving, once, call, outcome, expired, failed, closes, stopCh, handling,
                 monitor>>

\* (the context has no deadline)
AwaitRequestsMut(s) ==
  /\ Turn(s) /\ waiting
  /\ InFlight(s) = {} /\ UNCHANGED failed
  /\ waiting' = FALSE
  /\ Stopped(s)
  /\ UNCHANGED <<serving, down, once, call, outcome, expired, closes, stopCh, handling, monitor>>

\* It looks again and again, until they have ended or the context has.
AwaitRequests(s) ==
  /\ Turn(s) /\ waiting
  /\ \/ InFlight(s) = {} /\ UNCHANGED failed
     \/ expired /\ failed' = TRUE
  /\ waiting' = FALSE
  /\ Stopped(s)
  /\ UNCHANGED <<serving, down, once, call, outcome, expired, closes, stopCh, handling, monitor>>

\* 30 seconds for all the servers together; only who waits looks at the time.
Expire ==
  /\ waiting /\ ~expired
  /\ expired' = TRUE
  /\ UNCHANGED <<serving, down, once, call, outcome, todo, waiting, failed, closes, stopCh,
                 handling, monitor>>

\* Before that the backend gets a ForceCleanupPrefetcher and no more: the method
\* Manager.Shutdown returns no error and does not match the assertion.
StopMonitor ==
  /\ Turn("monitor")
  /\ stopCh' = TRUE
  /\ Stopped("monitor")
  /\ UNCHANGED <<serving, down, once, call, outcome, waiting, expired, failed, closes, handling,
                 monitor>>

\* An error of the store counts if there was none before.
CloseCache ==
  /\ Turn("cache")
  /\ closes' = closes + 1
  /\ failed' \in {failed, TRUE}
  /\ Stopped("cache")
  /\ UNCHANGED <<serving, down, once, call, outcome, waiting, expired, stopCh, handling, monitor>>

ShutdownStep ==
  \/ \E s \in Servers : StopServer(s) \/ AwaitRequests(s)
  \/ StopMonitor \/ CloseCache

-----------------------------------------------------------------------------
(* The requests. s.mutex is held around calls for statistics, around         *)
(* GetMemoryUsage, and by a download in the background.                      *)

Becomes(r, p) == req' = [req EXCEPT ![r] = p] /\ UNCHANGED port
Leaves(r) == req' = [req EXCEPT ![r] = "none"] /\ port' = [port EXCEPT ![r] = "http"]

\* What an answered order of a download leaves behind is a goroutine of its own.
Arrive(r, s, k) ==
  /\ req[r] = "none" /\ Listening(s)
  /\ req' = [req EXCEPT ![r] = k] /\ port' = [port EXCEPT ![r] = s]
  /\ UNCHANGED <<mutex, serving, shutting, monitor>>

\* In its own time, or never: the client may be slow.
Served(r) ==
  /\ req[r] = "package"
  /\ Leaves(r)
  /\ UNCHANGED <<mutex, serving, shutting, monitor>>

\* Under s.mutex the counters are read. The dashboard goes on to the memory.
Count(r) ==
  /\ req[r] \in {"stats", "dashboard"} /\ mutex = None
  /\ IF req[r] = "stats" THEN Leaves(r) ELSE Becomes(r, "memory")
  /\ UNCHANGED <<mutex, serving, shutting, monitor>>

Lock(r) ==
  /\ req[r] \in {"memory", "download"} /\ mutex = None
  /\ mutex' = r
  /\ Becomes(r, IF req[r] = "memory" THEN "usage" ELSE "fetch")
  /\ UNCHANGED <<serving, shutting, monitor>>

\* m.mu.RLock waits for a writer, also for one that waits itself.
Readable == monitor \notin {"lock", "hold"}

\* GetMemoryUsage takes the read lock ...
Usage(r) ==
  /\ req[r] = "usage" /\ Readable
  /\ Becomes(r, "look")
  /\ UNCHANGED <<mutex, serving, shutting, monitor>>

\* ... and getCurrentPressure takes it again for an atomic load. (It is called a second
\* time, which is no different.)
Look(r) ==
  /\ req[r] = "look" /\ Readable
  /\ Becomes(r, "leave")
  /\ UNCHANGED <<mutex, serving, shutting, monitor>>

\* (a download that fails keeps the lock)
UnlockMut(r) ==
  /\ req[r] \in {"leave", "fetch"}
  /\ mutex' \in IF req[r] = "fetch" THEN {None, mutex} ELSE {None}
  /\ Leaves(r)
  /\ UNCHANGED <<serving, shutting, monitor>>

\* The page is ready; or the fetch has ended, with an answer or with an error.
Unlock(r) ==
  /\ req[r] \in {"leave", "fetch"}
  /\ mutex' = None
  /\ Leaves(r)
  /\ UNCHANGED <<serving, shutting, monitor>>

-----------------------------------------------------------------------------
(* The memory monitor.                                                      *)

Readers == {r \in Requests : req[r] \in {"look", "leave"}}

\* checkMemory asks for the lock when there was a garbage collection ...
CheckMemory ==
  /\ monitor = "idle"
  /\ monitor' = "lock"
  /\ UNCHANGED <<serving, shutting, handling>>

\* ... gets it when the readers have gone ...
MonitorLocks ==
  /\ monitor = "lock" /\ Readers = {}
  /\ monitor' = "hold"
  /\ UNCHANGED <<serving, shutting, handling>>

\* ... and releases it. What it does about the pressure concerns no lock.
MonitorUnlocks ==
  /\ monitor = "hold"
  /\ monitor' = "idle"
  /\ UNCHANGED <<serving, shutting, handling>>

MonitorExits ==
  /\ monitor = "idle" /\ stopCh
  /\ monitor' = "exit"
  /\ UNCHANGED <<serving, shutting, handling>>

-----------------------------------------------------------------------------
RequestStep(r) == Look(r) \/ Unlock(r)
MonitorStep == MonitorLocks \/ MonitorUnlocks
CallStep(c) == Enter(c) \/ SecondReturns(c) \/ FirstReturns(c)

Next ==
  \/ Start \/ Cancelled \/ StartReturns
  \/ \E s \in Servers : Listen(s) \/ Ends(s)
  \/ \E c \in Calls : CallStep(c)
  \/ ShutdownStep \/ Expire
  \/ \E r \in Requests : Served(r) \/ Count(r) \/ Lock(r) \/ Usage(r) \/ RequestStep(r)
  \/ \E r \in Requests, s \in Servers : \E k \in Kinds(s) : Arrive(r, s, k)
  \/ CheckMemory \/ MonitorStep \/ MonitorExits

Spec == Init /\ [][Next]_vars

\* Goroutines are scheduled; those that wait for a lock get it in turn; a select picks
\* among its ready cases at random; a download ends, by the timeout of the HTTP client.
\* Package requests owe nothing, nobody has to start, cancel or shut down, and no
\* memory check has to come.
FairSpec ==
  /\ Spec
  /\ WF_vars(StartReturns)
  /\ WF_vars(Enter(Main))
  /\ \A s \in Servers : WF_vars(Listen(s)) /\ WF_vars(s \in down /\ Ends(s))
  /\ \A c \in Calls : WF_vars(SecondReturns(c)) /\ WF_vars(FirstReturns(c))
  /\ WF_vars(ShutdownStep) /\ WF_vars(Expire)
  /\ \A r \in Requests : WF_vars(RequestStep(r)) /\ SF_vars(Count(r) \/ Lock(r)) /\ SF_vars(Usage(r))
  /\ WF_vars(MonitorStep) /\ SF_vars(MonitorExits)

-----------------------------------------------------------------------------
(* Correctness.                                                            *)

\* "Waiting for ongoing requests to complete before shutting down": the cache is closed
\* under a request only after the deadline, and a caller of Shutdown is told that it
\* failed.
QuietClose ==
  /\ closes > 0 /\ (\E s \in Servers : InFlight(s) # {}) => failed
  /\ once = "done" /\ failed => \E c \in Calls : outcome[c] = "error"

\* Whoever has returned from Shutdown, the first caller or another: all is stopped, and
\* no server takes requests, even if StartWithContext is called, or gets to listen, later.
ReturnedMeansStopped ==
  (\E c \in Calls : call[c] = "returned") =>
    closes = 1 /\ stopCh /\ \A s \in Servers : ~Listening(s)

\* The memory monitor waits for a reader that waits for the memory monitor.
Stuck == monitor = "lock" /\ \E r \in Requests : req[r] = "look"

\* A shutdown gets to its end: each call of it returns, StartWithContext returns, and
\* the goroutines of the servers and the monitor exit, although requests hang, in
\* upstream, in the client or in the memory monitor.
ShutdownEnds ==
  once # "free" ~>
    /\ \A c \in Calls : call[c] \in {"idle", "returned"}
    /\ start \in {"none", "returned"}
    /\ \A s \in Servers : life[s] \in {"none", "ended"}
    /\ monitor = "exit" \/ Stuck

\* Requests for statistics are answered although they wait for each other, for
\* downloads and for the memory monitor; the one way to hang is the lock that
\* GetMemoryUsage takes twice.
StatusAnswers ==
  \A r \in Requests : req[r] \in {"stats", "dashboard"} ~> req[r] = "none" \/ Stuck

=============================================================================
