------------------------- MODULE RequestPathProofs -------------------------
(***************************************************************************)
(* A proof that what RequestPath serves is recent, for any clients, paths,  *)
(* times to live and lengths of a request.                                  *)
(***************************************************************************)
EXTENDS RequestPath, Integers, TLAPS

\* The types, of what times and contents depend on.
Shape ==
  /\ now \in Nat
  /\ upstream \in [Paths -> Versions]
  /\ retired \in [Paths -> [Versions -> Nat \cup {None}]]
  /\ file \in [Paths -> Versions \cup {None}]
  /\ modified \in [Paths -> Nat] /\ stored \in [Paths -> Nat]
  /\ pc \in [Clients -> PC]
  /\ path \in [Clients -> Paths]
  /\ data \in [Clients -> Versions \cup {None}]
  /\ answer \in [Clients -> {"none", "200", "304", "error"}]
  /\ began \in [Clients -> Nat]

\* Upstream served v at time t or later.
CurrentAt(p, v, t) == retired[p][v] = None \/ retired[p][v] >= t

\* What upstream serves, or has yet to publish, is not retired.
ServesCurrent == \A p \in Paths : \A v \in Versions : v >= upstream[p] => retired[p][v] = None

\* What is in the cache was current a request before it was stored, and expires a
\* time to live and at most another request after that.
FileRecent(p) ==
  file[p] # None =>
    /\ stored[p] <= now
    /\ modified[p] <= stored[p] + Patience + CacheTTL(p)
    /\ CurrentAt(p, file[p], stored[p] - Patience)

\* No request lasts longer than the timeout.
InTime(c) == ~At(c, "idle") => began[c] <= now /\ now <= began[c] + Patience

\* What was fetched was current when the request came in.
FetchedRecent(c) ==
  pc[c] \in {"store", "extend", "finish"} =>
    data[c] \in Versions /\ CurrentAt(path[c], data[c], began[c])

\* A request extends its own file, or one that was stored later.
ExtendsRecent(c) ==
  At(c, "extend") => CacheTTL(path[c]) > 0 /\ (Cached(c) => stored[path[c]] >= began[c])

\* The file that was found fresh may have been replaced, by a later one.
HitRecent(c) ==
  At(c, "get") /\ Cached(c) => modified[path[c]] > began[c] \/ stored[path[c]] >= began[c]

\* What was read from the cache was current two requests and a time to live before.
ReadRecent(c) ==
  At(c, "stamp") =>
    /\ data[c] \in Versions
    /\ CurrentAt(path[c], data[c], began[c] + 1 - CacheTTL(path[c]) - 2 * Patience)

HandlerRecent(c) ==
  InTime(c) /\ FetchedRecent(c) /\ ExtendsRecent(c) /\ HitRecent(c) /\ ReadRecent(c)

Recent ==
  /\ ServesCurrent
  /\ \A p \in Paths : FileRecent(p)
  /\ \A c \in Clients : HandlerRecent(c)

-----------------------------------------------------------------------------
(* Types.                                                                   *)

LEMMA TTLIsNat == \A p \in Paths : CacheTTL(p) \in Nat
BY ConstantsAssumption DEF CacheTTL

LEMMA VersionsAreNot == None \notin Versions /\ Versions \subseteq Nat
BY ConstantsAssumption DEF Versions

LEMMA ShapeInit == Init => Shape
BY ConstantsAssumption DEF Init, Shape, Versions, PC

LEMMA ShapeHandle ==
  ASSUME Shape, NEW c \in Clients, Arrive(c) \/ Reject(c) \/ Handle(c)
  PROVE  Shape'
<1> USE DEF Shape, PC, Goto, Answer, world, cache, request
<1>1. CASE Arrive(c)
  <2>1. PICK p \in Paths : \E s \in {copy[c][p].label, None} :
          /\ path' = [path EXCEPT ![c] = p]
          /\ Goto(c, IF s = None THEN "exists" ELSE "condExists")
    BY <1>1 DEF Arrive
  <2> QED BY <1>1, <2>1 DEF Arrive
<1>10. CASE Reject(c)
  BY <1>10 DEF Reject
<1>2. CASE CondExists(c) \/ CondModified(c) \/ Exists(c) \/ Fresh(c)
  BY <1>2 DEF CondExists, CondModified, Exists, Fresh
<1>3. CASE Get(c)
  <2>1. file[path[c]] \in Versions \cup {None}
    OBVIOUS
  <2>2. CASE Cached(c)
    BY <1>3, <2>1, <2>2 DEF Get
  <2>3. CASE ~Cached(c)
    BY <1>3, <2>3 DEF Get
  <2> QED BY <2>2, <2>3
<1>4. CASE ServeHit(c) \/ ServeFetched(c)
  <2>1. PICK l : Serve(c, l)
    BY <1>4 DEF ServeHit, ServeFetched
  <2> QED BY <2>1 DEF Serve
<1>5. CASE Fetch(c) \/ Receive(c) \/ FetchFails(c) \/ StoreFails(c)
  BY <1>5 DEF Fetch, Receive, FetchFails, StoreFails
<1>6. CASE Store(c)
  BY <1>6 DEF Store
<1>7. CASE Extend(c)
  BY <1>7, TTLIsNat DEF Extend
<1> QED BY <1>1, <1>2, <1>3, <1>4, <1>5, <1>6, <1>7, <1>10 DEF Handle

LEMMA ShapeNext == Shape /\ [Next]_vars => Shape'
<1> SUFFICES ASSUME Shape, [Next]_vars PROVE Shape'
  OBVIOUS
<1>1. ASSUME NEW p \in Paths, Publish(p) PROVE Shape'
  <2>1. upstream[p] + 1 \in Versions
    BY <1>1, ConstantsAssumption DEF Publish, Shape, Versions
  <2> QED BY <1>1, <2>1 DEF Publish, Shape, cache, request
<1>2. ASSUME NEW p \in Paths, Evict(p) PROVE Shape'
  BY <1>2 DEF Evict, Shape, world, request
<1>3. CASE Tick \/ UNCHANGED vars
  BY <1>3 DEF Tick, vars, Shape, cache, request
<1> QED BY <1>1, <1>2, <1>3, ShapeHandle DEF Next

LEMMA ShapeAlways == Spec => []Shape
BY ShapeInit, ShapeNext, PTL DEF Spec

-----------------------------------------------------------------------------
(* Every part of the invariant is kept.                                     *)

LEMMA RecentInit == Init => Recent
BY ConstantsAssumption
DEF Init, Recent, ServesCurrent, FileRecent, HandlerRecent, InTime, FetchedRecent, ExtendsRecent,
    HitRecent, ReadRecent, At

\* A step of one handler that changes neither the world nor the cache.
LEMMA RecentElsewhere ==
  ASSUME Shape, Recent, NEW c \in Clients,
         UNCHANGED <<world, cache>>,
         \A d \in Clients \ {c} :
           pc'[d] = pc[d] /\ path'[d] = path[d] /\ data'[d] = data[d] /\ began'[d] = began[d],
         HandlerRecent(c)'
  PROVE  Recent'
<1> USE DEF Recent, world, cache
<1>1. ServesCurrent' /\ \A p \in Paths : FileRecent(p)'
  BY DEF ServesCurrent, FileRecent, CurrentAt
<1>2. ASSUME NEW d \in Clients \ {c} PROVE HandlerRecent(d)'
  BY DEF HandlerRecent, InTime, FetchedRecent, ExtendsRecent, HitRecent, ReadRecent, CurrentAt, At, Cached
<1> QED BY <1>1, <1>2

LEMMA RecentLocal ==
  ASSUME Shape, Recent, NEW c \in Clients,
         \/ Arrive(c) \/ Reject(c) \/ CondExists(c) \/ CondModified(c) \/ Exists(c) \/ Fresh(c)
         \/ Get(c) \/ ServeHit(c) \/ Fetch(c) \/ Receive(c) \/ FetchFails(c) \/ StoreFails(c)
         \/ ServeFetched(c)
  PROVE  Recent'
<1> USE ConstantsAssumption DEF Shape, Goto, Answer, At, world, cache, request
<1> SUFFICES /\ UNCHANGED <<world, cache>>
             /\ \A d \in Clients \ {c} :
                  pc'[d] = pc[d] /\ path'[d] = path[d] /\ data'[d] = data[d] /\ began'[d] = began[d]
             /\ HandlerRecent(c)'
  BY RecentElsewhere
<1>1. CASE Arrive(c)
  BY <1>1
  DEF Arrive, HandlerRecent, InTime, FetchedRecent, ExtendsRecent, HitRecent, ReadRecent
<1>2. CASE Reject(c)
  BY <1>2
  DEF Reject, HandlerRecent, InTime, FetchedRecent, ExtendsRecent, HitRecent, ReadRecent
<1>3. CASE CondExists(c) \/ CondModified(c) \/ Exists(c)
  BY <1>3
  DEF CondExists, CondModified, Exists, Recent, HandlerRecent, InTime, FetchedRecent, ExtendsRecent,
      HitRecent, ReadRecent
<1>4. CASE Fresh(c)
  <2>1. HitRecent(c)'
    <3>1. IsFresh(path[c]) \/ pc'[c] # "get"
      BY <1>4 DEF Fresh
    <3>2. began[c] <= now
      BY <1>4 DEF Fresh, Recent, HandlerRecent, InTime
    <3>3. modified[path[c]] \in Nat /\ began[c] \in Nat
      OBVIOUS
    <3> QED BY <1>4, <3>1, <3>2, <3>3 DEF Fresh, IsFresh, HitRecent
  <2> QED BY <1>4, <2>1
      DEF Fresh, Recent, HandlerRecent, InTime, FetchedRecent, ExtendsRecent, ReadRecent
<1>5. CASE Get(c)
  <2>1. ASSUME Cached(c)
        PROVE  CurrentAt(path[c], file[path[c]], began[c] + 1 - CacheTTL(path[c]) - 2 * Patience)
    <3> DEFINE p == path[c]
               r == retired[p][file[p]]
    <3>1. /\ p \in Paths /\ file[p] \in Versions
          /\ CacheTTL(p) \in Nat /\ Patience \in Nat \ {0}
          /\ modified[p] \in Nat /\ stored[p] \in Nat /\ began[c] \in Nat
      BY <2>1, TTLIsNat DEF Cached
    <3>2. r \in Nat \cup {None}
      BY <3>1
    <3>3. modified[p] > began[c] \/ stored[p] >= began[c]
      BY <1>5, <2>1 DEF Get, Recent, HandlerRecent, HitRecent
    <3>4. modified[p] <= stored[p] + Patience + CacheTTL(p)
      BY <2>1, <3>1 DEF Recent, FileRecent, Cached
    <3>5. r = None \/ r >= stored[p] - Patience
      BY <2>1, <3>1 DEF Recent, FileRecent, Cached, CurrentAt
    <3> QED BY <3>1, <3>2, <3>3, <3>4, <3>5 DEF CurrentAt
  <2>2. ReadRecent(c)'
    BY <1>5, <2>1, VersionsAreNot DEF Get, ReadRecent, CurrentAt, Cached
  <2> QED BY <1>5, <2>2
      DEF Get, Recent, HandlerRecent, InTime, FetchedRecent, ExtendsRecent, HitRecent
<1>6. CASE ServeHit(c) \/ ServeFetched(c)
  <2>1. PICK l : Serve(c, l)
    BY <1>6 DEF ServeHit, ServeFetched
  <2> QED BY <2>1
      DEF Serve, HandlerRecent, InTime, FetchedRecent, ExtendsRecent, HitRecent, ReadRecent
<1>7. CASE Fetch(c) \/ FetchFails(c)
  BY <1>7
  DEF Fetch, FetchFails, Recent, HandlerRecent, InTime, FetchedRecent, ExtendsRecent, HitRecent,
      ReadRecent
<1>8. CASE Receive(c)
  <2>1. retired[path[c]][upstream[path[c]]] = None
    <3>1. path[c] \in Paths /\ upstream[path[c]] \in Versions
      OBVIOUS
    <3>2. \A v \in Nat : v >= v
      OBVIOUS
    <3>3. upstream[path[c]] \in Nat
      BY <3>1, VersionsAreNot
    <3> QED BY <3>1, <3>2, <3>3 DEF Recent, ServesCurrent
  <2>2. FetchedRecent(c)'
    BY <1>8, <2>1 DEF Receive, FetchedRecent, CurrentAt
  <2> QED BY <1>8, <2>2
      DEF Receive, Recent, HandlerRecent, InTime, ExtendsRecent, HitRecent, ReadRecent
<1>9. CASE StoreFails(c)
  BY <1>9
  DEF StoreFails, Recent, HandlerRecent, InTime, FetchedRecent, ExtendsRecent, HitRecent, ReadRecent,
      CurrentAt
<1> QED BY <1>1, <1>2, <1>3, <1>4, <1>5, <1>6, <1>7, <1>8, <1>9

\* A store puts in a file that is newer than any request in flight.
LEMMA RecentStore ==
  ASSUME Shape, Recent, NEW c \in Clients, Store(c)
  PROVE  Recent'
<1> USE ConstantsAssumption DEF Shape, Goto, At, world, request
<1>1. ServesCurrent'
  BY DEF Store, Recent, ServesCurrent
<1>2. /\ data[c] \in Versions
      /\ CurrentAt(path[c], data[c], began[c])
      /\ began[c] <= now /\ now <= began[c] + Patience
  BY DEF Store, Recent, HandlerRecent, FetchedRecent, InTime
<1>3. ASSUME NEW p \in Paths PROVE FileRecent(p)'
  <2>1. CASE p # path[c]
    BY <2>1 DEF Store, Recent, FileRecent, CurrentAt
  <2>2. CASE p = path[c]
    <3>1. /\ file'[p] = data[c] /\ modified'[p] = now /\ stored'[p] = now
          /\ UNCHANGED <<now, retired>>
      BY <2>2 DEF Store
    <3>2. CacheTTL(p) \in Nat /\ retired[p][data[c]] \in Nat \cup {None}
      BY <1>2, TTLIsNat
    <3> QED BY <1>2, <2>2, <3>1, <3>2 DEF FileRecent, CurrentAt
  <2> QED BY <2>1, <2>2
<1>4. ASSUME NEW d \in Clients PROVE HandlerRecent(d)'
  <2>1. InTime(d)' /\ ReadRecent(d)' /\ FetchedRecent(d)'
    BY DEF Store, Recent, HandlerRecent, InTime, ReadRecent, FetchedRecent, CurrentAt
  <2>2. ExtendsRecent(d)'
    BY DEF Store, Recent, HandlerRecent, InTime, ExtendsRecent, Cached
  <2>3. HitRecent(d)'
    BY DEF Store, Recent, HandlerRecent, InTime, HitRecent, Cached
  <2> QED BY <2>1, <2>2, <2>3 DEF HandlerRecent
<1> QED BY <1>1, <1>3, <1>4 DEF Recent

\* An extension reaches a file that was stored since the request came in.
LEMMA RecentExtend ==
  ASSUME Shape, Recent, NEW c \in Clients, Extend(c)
  PROVE  Recent'
<1> USE ConstantsAssumption, TTLIsNat DEF Shape, Goto, At, world, request
<1>1. ServesCurrent'
  BY DEF Extend, Recent, ServesCurrent
<1>2. /\ CacheTTL(path[c]) > 0
      /\ Cached(c) => stored[path[c]] >= began[c]
      /\ now <= began[c] + Patience
  BY DEF Extend, Recent, HandlerRecent, ExtendsRecent, InTime
<1>3. ASSUME NEW p \in Paths PROVE FileRecent(p)'
  <2>1. CASE p # path[c] \/ ~Cached(c)
    BY <2>1 DEF Extend, Recent, FileRecent, CurrentAt, Cached
  <2>2. CASE p = path[c] /\ Cached(c)
    BY <1>2, <2>2 DEF Extend, Recent, FileRecent, CurrentAt, Cached
  <2> QED BY <2>1, <2>2
<1>4. ASSUME NEW d \in Clients PROVE HandlerRecent(d)'
  <2>1. InTime(d)' /\ ReadRecent(d)' /\ FetchedRecent(d)' /\ ExtendsRecent(d)'
    BY DEF Extend, Recent, HandlerRecent, InTime, ReadRecent, FetchedRecent, ExtendsRecent, CurrentAt,
           Cached
  <2>2. HitRecent(d)'
    <3>1. CASE path[d] # path[c] \/ ~Cached(c)
      BY <3>1 DEF Extend, Recent, HandlerRecent, HitRecent, Cached
    <3>2. CASE path[d] = path[c] /\ Cached(c)
      <4>1. modified'[path[d]] = now + CacheTTL(path[c])
        BY <3>2 DEF Extend
      <4>2. At(d, "get")' => began[d] <= now /\ began'[d] = began[d]
        BY DEF Extend, Recent, HandlerRecent, InTime
      <4>3. CacheTTL(path[c]) \in Nat /\ began[d] \in Nat
        OBVIOUS
      <4>4. path' = path
        BY DEF Extend
      <4> QED BY <1>2, <4>1, <4>2, <4>3, <4>4 DEF HitRecent
    <3> QED BY <3>1, <3>2
  <2> QED BY <2>1, <2>2 DEF HandlerRecent
<1> QED BY <1>1, <1>3, <1>4 DEF Recent

\* A version is retired at the present moment, which is late enough.
LEMMA RecentPublish ==
  ASSUME Shape, Recent, NEW q \in Paths, Publish(q)
  PROVE  Recent'
<1> USE ConstantsAssumption, TTLIsNat DEF Shape, cache, request
<1>1. ASSUME NEW p \in Paths, NEW v \in Versions, NEW t \in Int, t <= now, CurrentAt(p, v, t)
      PROVE  retired'[p][v] = None \/ retired'[p][v] >= t
  BY <1>1 DEF Publish, CurrentAt
<1>2. ServesCurrent'
  <2> SUFFICES ASSUME NEW p \in Paths, NEW v \in Versions, v >= upstream'[p]
               PROVE  retired'[p][v] = None
    BY DEF ServesCurrent
  <2>1. upstream[p] \in Nat /\ upstream[q] \in Versions /\ v \in Nat
    BY VersionsAreNot
  <2>2. CASE p # q
    BY <2>2 DEF Publish, Recent, ServesCurrent
  <2>3. CASE p = q
    <3>1. v >= upstream[p] + 1
      BY <2>3 DEF Publish
    <3>2. v # upstream[p] /\ v >= upstream[p]
      BY <2>1, <3>1
    <3>3. retired[p][v] = None
      BY <3>2 DEF Recent, ServesCurrent
    <3> QED BY <2>3, <3>2, <3>3 DEF Publish
  <2> QED BY <2>2, <2>3
<1>3. ASSUME NEW p \in Paths PROVE FileRecent(p)'
  <2>1. file[p] # None => stored[p] - Patience \in Int /\ stored[p] - Patience <= now
    BY DEF Recent, FileRecent
  <2> QED BY <1>1, <2>1 DEF Publish, Recent, FileRecent, CurrentAt
<1>4. ASSUME NEW c \in Clients PROVE HandlerRecent(c)'
  <2>1. InTime(c)' /\ ExtendsRecent(c)' /\ HitRecent(c)'
    BY DEF Publish, Recent, HandlerRecent, InTime, ExtendsRecent, HitRecent, At, Cached
  <2>2. FetchedRecent(c)'
    BY <1>1 DEF Publish, Recent, HandlerRecent, InTime, FetchedRecent, CurrentAt, At
  <2>3. ReadRecent(c)'
    <3> DEFINE t == began[c] + 1 - CacheTTL(path[c]) - 2 * Patience
    <3>1. t \in Int /\ (~At(c, "idle") => t <= now)
      BY DEF Recent, HandlerRecent, InTime
    <3>2. At(c, "stamp") => data[c] \in Versions /\ CurrentAt(path[c], data[c], t)
      BY DEF Recent, HandlerRecent, ReadRecent
    <3>3. At(c, "stamp") =>
            retired'[path[c]][data[c]] = None \/ retired'[path[c]][data[c]] >= t
      BY <1>1, <3>1, <3>2 DEF At
    <3> QED BY <3>2, <3>3 DEF Publish, ReadRecent, CurrentAt, At
  <2> QED BY <2>1, <2>2, <2>3 DEF HandlerRecent
<1> QED BY <1>2, <1>3, <1>4 DEF Recent

LEMMA RecentWorld ==
  ASSUME Shape, Recent, Tick \/ (\E p \in Paths : Evict(p)) \/ UNCHANGED vars
  PROVE  Recent'
<1> USE DEF Shape, world, cache, request
<1>1. ServesCurrent'
  BY DEF Tick, Evict, vars, Recent, ServesCurrent
<1>2. ASSUME NEW p \in Paths PROVE FileRecent(p)'
  BY ConstantsAssumption DEF Tick, Evict, vars, Recent, FileRecent, CurrentAt
<1>3. ASSUME NEW c \in Clients PROVE HandlerRecent(c)'
  <2>1. InTime(c)'
    BY ConstantsAssumption DEF Tick, Evict, vars, Recent, HandlerRecent, InTime, At, Busy
  <2>2. FetchedRecent(c)' /\ ReadRecent(c)'
    BY DEF Tick, Evict, vars, Recent, HandlerRecent, FetchedRecent, ReadRecent, CurrentAt, At
  <2>3. ExtendsRecent(c)' /\ HitRecent(c)'
    BY DEF Tick, Evict, vars, Recent, HandlerRecent, ExtendsRecent, HitRecent, At, Cached
  <2> QED BY <2>1, <2>2, <2>3 DEF HandlerRecent
<1> QED BY <1>1, <1>2, <1>3 DEF Recent

LEMMA RecentNext == Shape /\ Recent /\ [Next]_vars => Recent'
BY RecentLocal, RecentStore, RecentExtend, RecentPublish, RecentWorld DEF Next, Handle

LEMMA RecentAlways == Spec => []Recent
BY ShapeAlways, RecentInit, RecentNext, PTL DEF Spec

-----------------------------------------------------------------------------
\* What is served with a 200 was current upstream less than a time to live and
\* three lengths of a request ago.
THEOREM ServedRecent == Spec => ServedIsRecent
<1> DEFINE Young(c) ==
      LET r == retired[path[c]][data[c]]
      IN r = None \/ now < r + CacheTTL(path[c]) + 3 * Patience
<1>1. Shape /\ Recent /\ [Next]_vars => [\A c \in Clients : Answers(c, "200") => Young(c)]_vars
  <2> SUFFICES ASSUME Shape, Recent, Next, NEW c \in Clients, Answers(c, "200") PROVE Young(c)
    OBVIOUS
  <2>1. ServeHit(c) \/ ServeFetched(c)
    <3>1. pc'[c] = "idle" /\ pc[c] # "idle" /\ answer'[c] = "200"
      BY DEF Answers, At
    <3>2. ASSUME NEW d \in Clients, Arrive(d) \/ Reject(d) \/ Handle(d) PROVE d = c
      BY <3>1, <3>2
      DEF Arrive, Reject, Handle, CondExists, CondModified, Exists, Fresh, Get, ServeHit, Serve, Fetch,
          Receive, FetchFails, Store, StoreFails, Extend, ServeFetched, Goto, Shape
    <3>3. ~(Tick \/ \E p \in Paths : Publish(p) \/ Evict(p))
      BY <3>1 DEF Tick, Publish, Evict
    <3>4. Arrive(c) \/ Reject(c) \/ Handle(c)
      BY <3>2, <3>3 DEF Next
    <3> QED
      BY <3>1, <3>4
      DEF Arrive, Reject, Handle, CondExists, CondModified, Exists, Fresh, Get, Fetch, Receive,
          FetchFails, Store, StoreFails, Extend, Goto, Answer, At, Shape
  <2>2. /\ path[c] \in Paths /\ began[c] \in Nat /\ now \in Nat
        /\ CacheTTL(path[c]) \in Nat /\ Patience \in Nat \ {0}
        /\ now <= began[c] + Patience
    BY TTLIsNat, ConstantsAssumption DEF Shape, Recent, HandlerRecent, InTime, Answers
  <2>3. /\ data[c] \in Versions
        /\ CurrentAt(path[c], data[c], began[c] + 1 - CacheTTL(path[c]) - 2 * Patience)
    <3>1. CASE ServeHit(c)
      BY <3>1 DEF ServeHit, Recent, HandlerRecent, ReadRecent
    <3>2. CASE ServeFetched(c)
      <4>1. data[c] \in Versions /\ CurrentAt(path[c], data[c], began[c])
        BY <3>2 DEF ServeFetched, Recent, HandlerRecent, FetchedRecent, At
      <4>2. retired[path[c]][data[c]] \in Nat \cup {None}
        BY <2>2, <4>1 DEF Shape
      <4> QED BY <2>2, <4>1, <4>2 DEF CurrentAt
    <3> QED BY <2>1, <3>1, <3>2
  <2>4. retired[path[c]][data[c]] \in Nat \cup {None}
    BY <2>2, <2>3 DEF Shape
  <2> QED BY <2>2, <2>3, <2>4 DEF CurrentAt
<1> QED BY <1>1, ShapeAlways, RecentAlways, PTL DEF Spec, ServedIsRecent

=============================================================================
