-------------------------- MODULE ServerLifeProofs --------------------------
(***************************************************************************)
(* Proofs about ServerLife, for any servers, callers of Shutdown and        *)
(* requests: types, what a returned Shutdown means, and what a request may  *)
(* find when the cache is closed.                                           *)
(***************************************************************************)
EXTENDS ServerLife, TLAPS

LEMMA Ranks ==
  /\ "cache" \in Parts /\ "monitor" \in Parts /\ Servers \subseteq Parts /\ "http" \in Servers
  /\ \A p \in Parts : Rank[p] \in 1..5 /\ (Rank[p] = 5 => p = "cache")
  /\ Rank["cache"] = 5
BY ConstantsAssumption DEF Parts, Rank

LEMMA OneTurn ==
  ASSUME NEW p \in Parts, NEW q \in Parts, Turn(p), Turn(q)
  PROVE  p = q
BY ConstantsAssumption DEF Turn, Parts, Rank

LEMMA TypeInit == Init => TypeOK
<1> SUFFICES ASSUME Init PROVE TypeOK
  OBVIOUS
<1> USE DEF Init
<1>1. /\ start \in {"none", "select", "stopping", "returned"}
      /\ once \in {"free", "running", "done"}
      /\ monitor \in {"idle", "lock", "hold", "exit"}
      /\ waiting \in BOOLEAN /\ expired \in BOOLEAN /\ failed \in BOOLEAN
      /\ stopCh \in BOOLEAN
      /\ mutex \in Requests \cup {None}
  OBVIOUS
<1>2. life \in [Servers -> {"none", "launched", "listening", "ended"}]
  OBVIOUS
<1>3. /\ call \in [Calls -> {"idle", "once", "in", "returned"}]
      /\ outcome \in [Calls -> {"none", "nil", "error"}]
  OBVIOUS
<1>4. req \in [Requests -> {"none", "package", "stats", "dashboard", "memory", "usage", "look",
                           "leave", "download", "fetch"}]
  OBVIOUS
<1>5. port \in [Requests -> Servers]
  BY Ranks
<1>6. down \in SUBSET Servers /\ todo \in SUBSET Parts /\ closes \in 0..1
  OBVIOUS
<1> QED BY <1>1, <1>2, <1>3, <1>4, <1>5, <1>6 DEF TypeOK

\* One call runs the shutdown, nobody returns before it has, and what is not to be
\* done any more is done.
OnceKept ==
  /\ once = "free" => todo = {} /\ closes = 0 /\ \A c \in Calls : call[c] = "idle"
  /\ once = "running" => \A c \in Calls : call[c] # "returned"
  /\ once = "done" => todo = {}
  /\ \A c \in Calls : outcome[c] # "none" => call[c] = "returned"
  /\ \A c, d \in Calls : call[c] = "in" /\ call[d] = "in" => c = d
  /\ once # "running" => \A c \in Calls : call[c] # "in"

DoneIsDone ==
  once # "free" =>
    /\ \A s \in Servers : s \notin todo => s \in down /\ (InFlight(s) = {} \/ failed)
    /\ "monitor" \notin todo => stopCh
    /\ "cache" \in todo => closes = 0
    /\ "cache" \notin todo => todo = {} /\ closes = 1

Told == once = "done" /\ failed => \E c \in Calls : outcome[c] = "error"

\* The server whose requests are waited for takes no more of them.
Waited == waiting => \E s \in Servers : Turn(s) /\ s \in down

Inv == TypeOK /\ OnceKept /\ DoneIsDone /\ Told /\ Waited

-----------------------------------------------------------------------------
(* No request comes to a server that is down.                               *)

LEMMA FlightShrinks ==
  ASSUME TypeOK, NEW s \in Servers, s \in down, Next
  PROVE  InFlight(s)' \subseteq InFlight(s)
<1> USE DEF InFlight, handling
<1>1. CASE UNCHANGED <<req, port>>
  BY <1>1
<1>2. CASE \E r \in Requests : Served(r) \/ Count(r) \/ Lock(r) \/ Usage(r) \/ RequestStep(r)
  <2> PICK r \in Requests : Served(r) \/ Count(r) \/ Lock(r) \/ Usage(r) \/ RequestStep(r)
    BY <1>2
  <2>1. \/ Leaves(r)
        \/ /\ req[r] \in {"dashboard", "memory", "usage", "look"}
           /\ \E p \in {"memory", "usage", "look", "leave"} : Becomes(r, p)
        \/ req[r] = "download" /\ Becomes(r, "fetch")
    BY DEF Served, Count, Lock, Usage, RequestStep, Look, Unlock
  <2>2. \A q \in Requests : q # r => req'[q] = req[q] /\ port'[q] = port[q]
    BY <2>1 DEF Leaves, Becomes, TypeOK
  <2>3. r \in InFlight(s)' => r \in InFlight(s)
    BY <2>1 DEF Leaves, Becomes, TypeOK
  <2> QED BY <2>2, <2>3
<1>3. CASE \E r \in Requests, t \in Servers : \E k \in Kinds(t) : Arrive(r, t, k)
  BY <1>3 DEF Arrive, Listening, TypeOK
<1>4. CASE \/ Start \/ Cancelled \/ StartReturns
           \/ \E t \in Servers : Listen(t) \/ Ends(t)
           \/ CheckMemory \/ MonitorStep \/ MonitorExits
  BY <1>1, <1>4 DEF Start, Cancelled, StartReturns, Listen, Ends, CheckMemory, MonitorStep,
     MonitorLocks, MonitorUnlocks, MonitorExits
<1>5. CASE (\E c \in Calls : CallStep(c)) \/ ShutdownStep \/ Expire
  BY <1>1, <1>5 DEF CallStep, Enter, SecondReturns, FirstReturns, ShutdownStep, StopServer,
     AwaitRequests, StopMonitor, CloseCache, Expire
<1> QED BY <1>2, <1>3, <1>4, <1>5 DEF Next

-----------------------------------------------------------------------------
(* Steps outside the shutdown.                                              *)

LEMMA TypeOthers ==
  ASSUME TypeOK,
         \/ Start \/ Cancelled \/ StartReturns
         \/ \E s \in Servers : Listen(s) \/ Ends(s)
         \/ CheckMemory \/ MonitorStep \/ MonitorExits
  PROVE  TypeOK' /\ UNCHANGED shutting /\ UNCHANGED handling
<1> USE DEF TypeOK, shutting, handling
<1>1. CASE Start
  BY <1>1 DEF Start
<1>2. CASE Cancelled
  BY <1>2 DEF Cancelled
<1>3. CASE StartReturns
  BY <1>3 DEF StartReturns
<1>4. CASE \E s \in Servers : Listen(s) \/ Ends(s)
  BY <1>4 DEF Listen, Ends
<1>5. CASE CheckMemory \/ MonitorStep \/ MonitorExits
  BY <1>5 DEF CheckMemory, MonitorStep, MonitorLocks, MonitorUnlocks, MonitorExits, serving
<1> QED BY <1>1, <1>2, <1>3, <1>4, <1>5

LEMMA TypeRequests ==
  ASSUME TypeOK,
         \/ \E r \in Requests : Served(r) \/ Count(r) \/ Lock(r) \/ Usage(r) \/ RequestStep(r)
         \/ \E r \in Requests, s \in Servers : \E k \in Kinds(s) : Arrive(r, s, k)
  PROVE  TypeOK' /\ UNCHANGED shutting
<1> USE Ranks DEF TypeOK, shutting, serving, Leaves, Becomes
<1>1. CASE \E r \in Requests : Served(r) \/ Count(r) \/ Lock(r)
  BY <1>1 DEF Served, Count, Lock
<1>2. CASE \E r \in Requests : Usage(r) \/ RequestStep(r)
  BY <1>2 DEF Usage, RequestStep, Look, Unlock
<1>3. CASE \E r \in Requests, s \in Servers : \E k \in Kinds(s) : Arrive(r, s, k)
  BY <1>3 DEF Arrive, Kinds
<1> QED BY <1>1, <1>2, <1>3

-----------------------------------------------------------------------------
(* Steps of the shutdown. Each leaves the requests alone.                   *)

LEMMA CallKeeps ==
  ASSUME Inv, NEW c \in Calls, CallStep(c)
  PROVE  Inv'
<1> USE DEF Inv, OnceKept
<1>1. \A s \in Servers : InFlight(s)' = InFlight(s)
  BY DEF CallStep, Enter, SecondReturns, FirstReturns, InFlight, handling
<1>2. CASE Enter(c) /\ once = "free"
  <2>1. TypeOK'
    BY <1>2 DEF Enter, TypeOK, serving, handling
  <2>2. OnceKept'
    BY <1>2 DEF Enter, TypeOK
  <2>3. DoneIsDone' /\ Told'
    BY <1>2, Ranks DEF Enter, DoneIsDone, Told, Parts
  <2>4. Waited'
    BY <1>2 DEF Enter, Waited, Turn
  <2> QED BY <2>1, <2>2, <2>3, <2>4
<1>3. CASE Enter(c) /\ once # "free"
  <2>1. TypeOK'
    BY <1>3 DEF Enter, TypeOK, serving, handling
  <2>2. OnceKept'
    BY <1>3 DEF Enter, TypeOK
  <2>3. DoneIsDone' /\ Told' /\ Waited'
    BY <1>1, <1>3 DEF Enter, DoneIsDone, Told, Waited, Turn
  <2> QED BY <2>1, <2>2, <2>3
<1>4. CASE SecondReturns(c)
  <2>1. TypeOK'
    BY <1>4 DEF SecondReturns, TypeOK, serving, handling
  <2>2. OnceKept'
    BY <1>4 DEF SecondReturns, TypeOK
  <2>3. DoneIsDone'
    BY <1>1, <1>4 DEF SecondReturns, DoneIsDone
  <2>4. Told'
    BY <1>4 DEF SecondReturns, Told, TypeOK
  <2>5. Waited'
    BY <1>4 DEF SecondReturns, Waited, Turn
  <2> QED BY <2>1, <2>2, <2>3, <2>4, <2>5
<1>5. CASE FirstReturns(c)
  <2>1. TypeOK'
    BY <1>5 DEF FirstReturns, TypeOK, serving, handling
  <2>2. OnceKept'
    BY <1>5 DEF FirstReturns, TypeOK
  <2>3. DoneIsDone'
    BY <1>1, <1>5 DEF FirstReturns, DoneIsDone
  <2>4. Told'
    BY <1>5 DEF FirstReturns, Told, TypeOK
  <2>5. Waited'
    BY <1>5 DEF FirstReturns, Waited, Turn
  <2> QED BY <2>1, <2>2, <2>3, <2>4, <2>5
<1> QED BY <1>2, <1>3, <1>4, <1>5 DEF CallStep

LEMMA ShutdownKeeps ==
  ASSUME Inv, ShutdownStep \/ Expire
  PROVE  Inv'
<1> USE DEF Inv
<1>1. /\ \A s \in Servers : InFlight(s)' = InFlight(s)
      /\ UNCHANGED <<serving, handling, monitor, once, call, outcome>>
  BY DEF ShutdownStep, StopServer, AwaitRequests, StopMonitor, CloseCache, Expire, InFlight,
     handling
<1>2. CASE \E s \in Servers : StopServer(s)
  <2> PICK s \in Servers : StopServer(s)
    BY <1>2
  <2>1. s # "cache" /\ s # "monitor" /\ once = "running"
    BY ConstantsAssumption DEF StopServer, Turn
  <2>2. TypeOK'
    BY <1>1 DEF StopServer, Stopped, TypeOK, serving, handling
  <2>3. OnceKept'
    BY <1>1, <2>1 DEF StopServer, OnceKept
  <2>4. "cache" \in todo
    BY <2>1 DEF StopServer, Turn, DoneIsDone
  <2>5. DoneIsDone'
    BY <1>1, <2>1, <2>4 DEF StopServer, Stopped, DoneIsDone
  <2>6. Waited'
    BY <1>1 DEF StopServer, Waited, Turn
  <2> QED BY <1>1, <2>1, <2>2, <2>3, <2>5, <2>6 DEF Told
<1>3. CASE \E s \in Servers : AwaitRequests(s)
  <2> PICK s \in Servers : AwaitRequests(s)
    BY <1>3
  <2>1. s # "cache" /\ s # "monitor" /\ once = "running"
    BY ConstantsAssumption DEF AwaitRequests, Turn
  <2>2. TypeOK'
    BY <1>1 DEF AwaitRequests, Stopped, TypeOK, serving, handling
  <2>3. OnceKept'
    BY <1>1, <2>1 DEF AwaitRequests, OnceKept
  <2>4. "cache" \in todo
    BY <2>1 DEF AwaitRequests, Turn, DoneIsDone
  <2>5. s \in down
    BY Ranks, OneTurn DEF AwaitRequests, Waited
  <2>6. failed => failed'
    BY DEF AwaitRequests
  <2>7. \A t \in Servers : t \notin todo' => t \in down' /\ (InFlight(t)' = {} \/ failed')
    BY <1>1, <2>1, <2>5, <2>6 DEF AwaitRequests, Stopped, DoneIsDone
  <2>8. DoneIsDone'
    BY <1>1, <2>1, <2>4, <2>7 DEF AwaitRequests, Stopped, DoneIsDone
  <2>9. Told' /\ Waited'
    BY <1>1, <2>1 DEF AwaitRequests, Told, Waited
  <2> QED BY <2>2, <2>3, <2>8, <2>9
<1>4. CASE StopMonitor
  <2>1. once = "running"
    BY <1>4 DEF StopMonitor, Turn
  <2>2. TypeOK'
    BY <1>1, <1>4 DEF StopMonitor, Stopped, TypeOK, serving, handling
  <2>3. OnceKept'
    BY <1>1, <1>4, <2>1 DEF StopMonitor, OnceKept
  <2>4. "cache" \in todo
    BY <1>4, <2>1 DEF StopMonitor, Turn, DoneIsDone
  <2>5. DoneIsDone'
    BY <1>1, <1>4, <2>1, <2>4, ConstantsAssumption DEF StopMonitor, Stopped, DoneIsDone
  <2>6. ~waiting'
    BY <1>4, Ranks, OneTurn, ConstantsAssumption DEF StopMonitor, Waited
  <2> QED BY <1>1, <2>1, <2>2, <2>3, <2>5, <2>6 DEF Told, Waited
<1>5. CASE CloseCache
  <2>1. once = "running" /\ "cache" \in todo /\ closes = 0
    BY <1>5 DEF CloseCache, Turn, DoneIsDone
  <2>2. (failed => failed') /\ failed' \in BOOLEAN
    <3>1. failed \in BOOLEAN /\ (failed' = failed \/ failed' = TRUE)
      BY <1>5 DEF CloseCache, TypeOK
    <3> QED BY <3>1
  <2>3. TypeOK'
    BY <1>1, <1>5, <2>1, <2>2 DEF CloseCache, Stopped, TypeOK, serving, handling
  <2>4. OnceKept'
    BY <1>1, <1>5, <2>1 DEF CloseCache, OnceKept
  <2>5. todo = {"cache"}
    <3>1. \A q \in todo : Rank[q] = 5
      BY <1>5, Ranks DEF CloseCache, Turn, TypeOK
    <3> QED BY <2>1, <3>1, Ranks DEF TypeOK
  <2>6. todo' = {} /\ closes' = 1 /\ stopCh' /\ down' = down
    BY <1>5, <2>1, <2>5 DEF CloseCache, Stopped, DoneIsDone
  <2>7. \A s \in Servers : s \in down' /\ (InFlight(s)' = {} \/ failed')
    BY <1>1, <2>1, <2>2, <2>5, <2>6, ConstantsAssumption DEF DoneIsDone
  <2>8. DoneIsDone'
    BY <2>6, <2>7 DEF DoneIsDone
  <2>9. ~waiting'
    BY <1>5, Ranks, OneTurn, ConstantsAssumption DEF CloseCache, Waited
  <2> QED BY <1>1, <2>1, <2>3, <2>4, <2>8, <2>9 DEF Told, Waited
<1>6. CASE Expire
  <2>1. TypeOK'
    BY <1>1, <1>6 DEF Expire, TypeOK, serving, handling
  <2> QED BY <1>1, <1>6, <2>1 DEF Expire, OnceKept, DoneIsDone, Told, Waited, Turn
<1> QED BY <1>2, <1>3, <1>4, <1>5, <1>6 DEF ShutdownStep

-----------------------------------------------------------------------------
LEMMA InvInit == Init => Inv
BY TypeInit DEF Init, Inv, OnceKept, DoneIsDone, Told, Waited

LEMMA InvNext == Inv /\ [Next]_vars => Inv'
<1> SUFFICES ASSUME Inv, [Next]_vars PROVE Inv'
  OBVIOUS
<1>1. CASE UNCHANGED vars
  BY <1>1 DEF vars, Inv, TypeOK, OnceKept, DoneIsDone, Told, InFlight, Waited,
     Turn
<1>2. ASSUME Next, TypeOK', UNCHANGED shutting PROVE Inv'
  <2>1. OnceKept' /\ Told' /\ Waited'
    BY <1>2 DEF Inv, OnceKept, Told, Waited, Turn, shutting
  <2>2. DoneIsDone'
    BY <1>2, FlightShrinks DEF Inv, DoneIsDone, shutting
  <2> QED BY <1>2, <2>1, <2>2 DEF Inv
<1>3. CASE \/ Start \/ Cancelled \/ StartReturns
           \/ \E s \in Servers : Listen(s) \/ Ends(s)
           \/ CheckMemory \/ MonitorStep \/ MonitorExits
  BY <1>2, <1>3, TypeOthers DEF Inv, Next
<1>4. CASE \/ \E r \in Requests : Served(r) \/ Count(r) \/ Lock(r) \/ Usage(r) \/ RequestStep(r)
           \/ \E r \in Requests, s \in Servers : \E k \in Kinds(s) : Arrive(r, s, k)
  BY <1>2, <1>4, TypeRequests DEF Inv, Next
<1>5. CASE (\E c \in Calls : CallStep(c)) \/ ShutdownStep \/ Expire
  BY <1>5, CallKeeps, ShutdownKeeps
<1> QED BY <1>1, <1>3, <1>4, <1>5 DEF Next

LEMMA InvAlways == Spec => []Inv
BY InvInit, InvNext, PTL DEF Spec

\* The state of the server keeps its types; the cache in particular is closed at most
\* once, however many goroutines shut the server down.
THEOREM TypeCorrect == Spec => []TypeOK
<1>1. Inv => TypeOK
  BY DEF Inv
<1> QED BY <1>1, InvAlways, PTL

\* A call of Shutdown that has returned, the first or another, has stopped everything.
THEOREM ReturnedIsStopped == Spec => []ReturnedMeansStopped
<1>1. Inv => ReturnedMeansStopped
  <2> SUFFICES ASSUME Inv, NEW c \in Calls, call[c] = "returned"
               PROVE  closes = 1 /\ stopCh /\ \A s \in Servers : ~Listening(s)
    BY DEF ReturnedMeansStopped
  <2>1. once = "done" /\ todo = {}
    BY DEF Inv, OnceKept, TypeOK
  <2> QED BY <2>1 DEF Inv, DoneIsDone, Listening
<1> QED BY <1>1, InvAlways, PTL

\* The cache is closed under a request only by a shutdown that says that it failed.
THEOREM CloseIsQuiet == Spec => []QuietClose
<1>1. Inv => QuietClose
  <2> SUFFICES ASSUME Inv PROVE QuietClose
    OBVIOUS
  <2>1. ASSUME closes > 0, NEW s \in Servers, InFlight(s) # {} PROVE failed
    <3>1. once # "free" /\ todo = {}
      BY <2>1 DEF Inv, OnceKept, DoneIsDone
    <3> QED BY <2>1, <3>1 DEF Inv, DoneIsDone
  <2> QED BY <2>1 DEF Inv, Told, QuietClose
<1> QED BY <1>1, InvAlways, PTL
=============================================================================
