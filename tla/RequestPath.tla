---------------------------- MODULE RequestPath ----------------------------
(***************************************************************************)
(* How Server.handlePackageRequest answers a GET: the conditional request,  *)
(* the cache, the fetch from upstream, the store with its time to live and  *)
(* the counters of metrics.Collector, for several clients at once while     *)
(* time passes, upstream publishes and the cache evicts.                    *)
(*                                                                         *)
(* Abstractions: a file is the version it holds; cache.Add and an eviction  *)
(* are atomic (CacheStore takes them apart); times are whole seconds, where *)
(* a time the cache keeps lies strictly inside its second and one in a      *)
(* header has lost that fraction. A missing key is KeyManager's matter: its *)
(* branch changes nothing that is modelled here.                            *)
(* A name ending in Mut is a faulty variant of the definition after it; no  *)
(* specification uses it.                                                   *)
(***************************************************************************)
EXTENDS Naturals, FiniteSets

CONSTANTS
  Clients,      \* each sends one request at a time
  Paths,        \* cache paths
  Setting,      \* what cache_ttls says for the path: [amount, unit]
  Patience,     \* no request lasts longer: the timeout of the backend's HTTP client
  MaxVersion,   \* bound on what upstream publishes
  MaxTime,      \* bound on the clock
  MaxRequests,  \* bound on the requests that are counted, of all clients together
  None

Versions == 1..MaxVersion
Times == 0..MaxTime

\* The units time.ParseDuration knows, of one tick each; it knows no days.
GoUnits == {"s", "m", "h"}

ASSUME ConstantsAssumption ==
  /\ Setting \in [Paths -> [amount: Nat, unit: GoUnits \cup {"d"}]]
  /\ Patience \in Nat \ {0} /\ MaxVersion \in Nat \ {0} /\ MaxTime \in Nat /\ MaxRequests \in Nat
  /\ None \notin Nat

VARIABLES
  now,
  upstream,   \* the version upstream serves
  retired,    \* when upstream stopped serving a version, None if it has not
  file,       \* the version the cache holds, None without an entry
  modified,   \* LastModified of the entry
  stored,     \* when the file was stored (history)
  copy,       \* what each client kept of its last answer: version and Last-Modified
  pc,
  path,       \* the path of the request
  since,      \* its If-Modified-Since, None without one
  data,       \* the version the handler has in hand
  answer,     \* "none" while in flight, then "200", "304" or "error"
  began,      \* when the request came in
  total, hits, misses, errors  \* the counters of metrics.Collector

world == <<now, upstream, retired>>
cache == <<file, modified, stored>>
request == <<path, since, began>>
counters == <<total, hits, misses, errors>>
vars == <<now, upstream, retired, file, modified, stored, copy, pc, path, since, data, answer,
          began, total, hits, misses, errors>>

PC == {"idle", "condExists", "condModified", "exists", "fresh", "get", "stamp", "fetch",
       "await", "store", "extend", "finish"}

TypeOK ==
  /\ now \in Times
  /\ upstream \in [Paths -> Versions]
  /\ retired \in [Paths -> [Versions -> Times \cup {None}]]
  /\ file \in [Paths -> Versions \cup {None}]
  /\ modified \in [Paths -> Nat] /\ stored \in [Paths -> Times]
  /\ copy \in [Clients -> [Paths -> [ver: Versions \cup {None}, label: Nat \cup {None}]]]
  /\ pc \in [Clients -> PC]
  /\ path \in [Clients -> Paths]
  /\ since \in [Clients -> Nat \cup {None}]
  /\ data \in [Clients -> Versions \cup {None}]
  /\ answer \in [Clients -> {"none", "200", "304", "error"}]
  /\ began \in [Clients -> Times]
  /\ {total, hits, misses, errors} \subseteq 0..MaxRequests

Init ==
  /\ now = 0
  /\ upstream = [p \in Paths |-> 1]
  /\ retired = [p \in Paths |-> [v \in Versions |-> None]]
  /\ file = [p \in Paths |-> None]
  /\ modified = [p \in Paths |-> 0] /\ stored = [p \in Paths |-> 0]
  /\ copy = [c \in Clients |-> [p \in Paths |-> [ver |-> None, label |-> None]]]
  /\ pc = [c \in Clients |-> "idle"]
  /\ path \in [Clients -> Paths]
  /\ since = [c \in Clients |-> None]
  /\ data = [c \in Clients |-> None]
  /\ answer = [c \in Clients |-> "none"]
  /\ began = [c \in Clients |-> 0]
  /\ total = 0 /\ hits = 0 /\ misses = 0 /\ errors = 0

At(c, here) == pc[c] = here
Goto(c, there) == pc' = [pc EXCEPT ![c] = there]
Answer(c, a) == answer' = [answer EXCEPT ![c] = a]
Cached(c) == file[path[c]] # None
Busy == {c \in Clients : ~At(c, "idle")}

\* GetCacheTTL: the error is dropped and the duration is zero.
CacheTTL(p) == IF Setting[p].unit \in GoUnits THEN Setting[p].amount ELSE 0

\* (whatever is in the cache is fresh)
IsFreshMut(p) == file[p] # None

IsFresh(p) == file[p] # None /\ now < modified[p]

-----------------------------------------------------------------------------
(* The request comes in.                                                    *)

\* A client asks for a path, with the Last-Modified of its copy or without.
Arrive(c) ==
  /\ At(c, "idle")
  /\ total + errors + Cardinality(Busy) < MaxRequests
  /\ \E p \in Paths : \E s \in {copy[c][p].label, None} :
       /\ path' = [path EXCEPT ![c] = p]
       /\ since' = [since EXCEPT ![c] = s]
       /\ Goto(c, IF s = None THEN "exists" ELSE "condExists")
  /\ data' = [data EXCEPT ![c] = None]
  /\ Answer(c, "none")
  /\ began' = [began EXCEPT ![c] = now]
  /\ UNCHANGED <<world, cache, copy, counters>>

\* Another method than GET, or a path that cannot be mapped.
Reject(c) ==
  /\ At(c, "idle")
  /\ total + errors + Cardinality(Busy) < MaxRequests
  /\ errors' = errors + 1
  /\ Answer(c, "error")
  /\ UNCHANGED <<world, cache, copy, pc, request, data, total, hits, misses>>

\* handleConditionalRequest applies to a path that is cached ...
CondExists(c) ==
  /\ At(c, "condExists")
  /\ Goto(c, IF Cached(c) THEN "condModified" ELSE "exists")
  /\ UNCHANGED <<world, cache, copy, request, data, answer, counters>>

\* ... and answers 304 unless the entry is later than the header, as it is within
\* the same second. An entry that is gone meanwhile has the zero time.
CondModified(c) ==
  /\ At(c, "condModified")
  /\ IF Cached(c) /\ modified[path[c]] >= since[c]
     THEN Goto(c, "exists") /\ UNCHANGED answer
     ELSE Goto(c, "idle") /\ Answer(c, "304")
  /\ UNCHANGED <<world, cache, copy, request, data, counters>>

-----------------------------------------------------------------------------
(* The cache is asked three times, under no lock.                           *)

Exists(c) ==
  /\ At(c, "exists")
  /\ Goto(c, IF Cached(c) THEN "fresh" ELSE "fetch")
  /\ UNCHANGED <<world, cache, copy, request, data, answer, counters>>

Fresh(c) ==
  /\ At(c, "fresh")
  /\ Goto(c, IF IsFresh(path[c]) THEN "get" ELSE "fetch")
  /\ UNCHANGED <<world, cache, copy, request, data, answer, counters>>

\* A file that is gone by now is fetched like one that never was there.
Get(c) ==
  /\ At(c, "get")
  /\ IF Cached(c)
     THEN /\ data' = [data EXCEPT ![c] = file[path[c]]]
          /\ hits' = hits + 1
          /\ Goto(c, "stamp")
     ELSE Goto(c, "fetch") /\ UNCHANGED <<data, hits>>
  /\ UNCHANGED <<world, cache, copy, request, answer, total, misses, errors>>

\* http.ServeContent: a label not later than the client's header, both in seconds,
\* makes the answer a 304. There is no label for the zero time.
Serve(c, l) ==
  /\ IF since[c] # None /\ l # None /\ l <= since[c]
     THEN Answer(c, "304") /\ UNCHANGED copy
     ELSE /\ Answer(c, "200")
          /\ copy' = [copy EXCEPT ![c][path[c]] = [ver |-> data[c], label |-> l]]
  /\ total' = total + 1
  /\ Goto(c, "idle")
  /\ UNCHANGED <<world, cache, request, data, hits, misses, errors>>

\* A hit is labelled with the entry's time as it is by now: when the entry expires.
ServeHit(c) ==
  /\ At(c, "stamp")
  /\ Serve(c, IF Cached(c) THEN modified[path[c]] ELSE None)

-----------------------------------------------------------------------------
(* Upstream.                                                                *)

Fetch(c) ==
  /\ At(c, "fetch")
  /\ misses' = misses + 1
  /\ Goto(c, "await")
  /\ UNCHANGED <<world, cache, copy, request, data, answer, total, hits, errors>>

\* Upstream answers with what it serves at that moment.
Receive(c) ==
  /\ At(c, "await")
  /\ data' = [data EXCEPT ![c] = upstream[path[c]]]
  /\ Goto(c, "store")
  /\ UNCHANGED <<world, cache, copy, request, answer, counters>>

\* Upstream answers with an error or with nothing, or does not answer in time.
FetchFails(c) ==
  /\ At(c, "await")
  /\ errors' = errors + 1
  /\ Answer(c, "error")
  /\ Goto(c, "idle")
  /\ UNCHANGED <<world, cache, copy, request, data, total, hits, misses>>

\* Put, and the first half of PutWithExpiration: the entry's time is now.
Store(c) ==
  /\ At(c, "store")
  /\ file' = [file EXCEPT ![path[c]] = data[c]]
  /\ modified' = [modified EXCEPT ![path[c]] = now]
  /\ stored' = [stored EXCEPT ![path[c]] = now]
  /\ Goto(c, IF CacheTTL(path[c]) > 0 THEN "extend" ELSE "finish")
  /\ UNCHANGED <<world, copy, request, data, answer, counters>>

\* A file that cannot be cached is served all the same.
StoreFails(c) ==
  /\ At(c, "store")
  /\ Goto(c, "finish")
  /\ UNCHANGED <<world, cache, copy, request, data, answer, counters>>

\* The second half: whatever entry is there by now expires a time to live from now.
Extend(c) ==
  /\ At(c, "extend")
  /\ modified' = [modified EXCEPT ![path[c]] =
                    IF Cached(c) THEN now + CacheTTL(path[c]) ELSE @]
  /\ Goto(c, "finish")
  /\ UNCHANGED <<world, file, stored, copy, request, data, answer, counters>>

\* What was fetched is labelled with the time it is served at.
ServeFetched(c) ==
  /\ At(c, "finish")
  /\ Serve(c, now)

Handle(c) ==
  \/ CondExists(c) \/ CondModified(c) \/ Exists(c) \/ Fresh(c) \/ Get(c) \/ ServeHit(c)
  \/ Fetch(c) \/ Receive(c) \/ FetchFails(c) \/ Store(c) \/ StoreFails(c) \/ Extend(c)
  \/ ServeFetched(c)

-----------------------------------------------------------------------------
(* The world.                                                               *)

Tick ==
  /\ now < MaxTime
  /\ \A c \in Busy : now + 1 <= began[c] + Patience
  /\ now' = now + 1
  /\ UNCHANGED <<upstream, retired, cache, copy, pc, request, data, answer, counters>>

Publish(p) ==
  /\ upstream[p] < MaxVersion
  /\ upstream' = [upstream EXCEPT ![p] = @ + 1]
  /\ retired' = [retired EXCEPT ![p][upstream[p]] = now]
  /\ UNCHANGED <<now, cache, copy, pc, request, data, answer, counters>>

\* Pruning, sweeping, clearing or the maintenance removes the entry.
Evict(p) ==
  /\ file[p] # None
  /\ file' = [file EXCEPT ![p] = None]
  /\ UNCHANGED <<world, modified, stored, copy, pc, request, data, answer, counters>>

Next ==
  \/ \E c \in Clients : Arrive(c) \/ Reject(c) \/ Handle(c)
  \/ \E p \in Paths : Publish(p) \/ Evict(p)
  \/ Tick

Spec == Init /\ [][Next]_vars

-----------------------------------------------------------------------------
(* Correctness.                                                            *)

Answers(c, a) == ~At(c, "idle") /\ At(c, "idle")' /\ answer'[c] = a

\* Served content is never older than its time to live allows: it was still current
\* upstream less than that long ago, plus three times the length of a request. One
\* length passes between the fetch and the store, one when a slower request extends
\* the entry of another, one between the check of the entry and the answer.
ServedIsRecent ==
  [][\A c \in Clients : Answers(c, "200") =>
       LET r == retired[path[c]][data[c]]
       IN r = None \/ now < r + CacheTTL(path[c]) + 3 * Patience]_vars

\* The counters that the statistics divide fit each other: a request counts as a hit
\* or as a miss, never as both, and no more answers are counted than there were
\* hits and misses.
InFlight == {c \in Clients : pc[c] \in {"stamp", "await", "store", "extend", "finish"}}
CountersBalance ==
  /\ total <= hits + misses
  /\ hits + misses <= total + errors + Cardinality(InFlight)

\* "If file hasn't been modified, return 304": a handler with the content in hand
\* says so only to a client that has that content. A hit hands out a Last-Modified
\* in the future, when the entry expires; content fetched before then is labelled
\* with the present and taken for unmodified. (A change within the second at hand is
\* none that headers can tell.)
NotModifiedIsTrue ==
  [][\A c \in Clients : Answers(c, "304") /\ data[c] # None =>
       LET v == copy[c][path[c]].ver
       IN v = data[c] \/ retired[path[c]][v] = now]_vars

=============================================================================
