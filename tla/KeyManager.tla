----------------------------- MODULE KeyManager -----------------------------
(***************************************************************************)
(* keymanager.KeyManager: the files of the key directory, the in-memory     *)
(* keyCache with fetch times, and the lock that FetchKey holds while it     *)
(* asks the keyservers; used by backend.handleKeyRequest.                   *)
(*                                                                         *)
(* Abstractions: a name is a spelling of a key ID, which is also the name   *)
(* of its file; a time is young or older than KeyTTL; a critical section    *)
(* that does no I/O on key files is one step.                               *)
(* A name ending in Mut is a faulty variant of the definition after it; no  *)
(* specification uses it.                                                   *)
(***************************************************************************)
EXTENDS Naturals, FiniteSets

CONSTANTS
  Names,      \* spellings of key IDs
  Upper,      \* the upper-case spelling of a name
  Procs,      \* goroutines
  Servers,    \* how many keyservers are configured
  Ops,        \* the operations this instance exercises
  MaxCalls,   \* bound on the calls of all goroutines together
  MaxFaults,  \* bound on failed writes and crashes
  None

AllOps == {"fetch", "verify", "request", "refresh", "list", "remove"}

ASSUME ConstantsAssumption ==
  /\ Names # {}
  /\ Upper \in [Names -> Names]
  /\ \A n \in Names : Upper[Upper[n]] = Upper[n]
  /\ None \notin Procs \cup Names
  /\ Servers \in Nat \ {0}
  /\ Ops \subseteq AllOps
  /\ MaxCalls \in Nat /\ MaxFaults \in Nat

VARIABLES
  file,     \* what the file of a name holds: nothing there, a cut key, a whole one
  fileAge,  \* age of its modification time
  cache,    \* age of the fetch time in keyCache, "none" without an entry
  lock,     \* owner of fetchMutex; readers are single steps
  pc,
  asked,    \* the name a call was made with
  key,      \* the spelling FetchKey works on
  seen,     \* the age FetchKey found in the cache
  tries,    \* keyservers it has asked
  after,    \* where FetchKey returns to
  todo,     \* names a refresh has still to fetch
  snap,     \* names a listing read from the directory
  result,   \* of the last call: "none" while it runs
  calls, faults

disk == <<file, fileAge>>
bounds == <<calls, faults>>
fetching == <<key, seen, tries>>
vars == <<file, fileAge, cache, lock, pc, asked, key, seen, tries, after, todo, snap, result,
          calls, faults>>

Ages == {"young", "old"}
PC == {"idle", "fLook", "fStat", "fLock", "fTry", "fWrite", "vHas", "vAnswer", "kHas", "kRead",
       "rCollect", "rLoop", "lRead", "lSwap", "remove"}

TypeOK ==
  /\ file \in [Names -> {"none", "cut", "whole"}]
  /\ fileAge \in [Names -> Ages]
  /\ cache \in [Names -> Ages \cup {"none"}]
  /\ lock \in Procs \cup {None}
  /\ pc \in [Procs -> PC]
  /\ asked \in [Procs -> Names] /\ key \in [Procs -> Names]
  /\ seen \in [Procs -> Ages \cup {"none"}]
  /\ tries \in [Procs -> 0..(Servers - 1)]
  /\ after \in [Procs -> {"idle", "vAnswer", "kRead", "rLoop"}]
  /\ todo \in [Procs -> SUBSET Names] /\ snap \in [Procs -> SUBSET Names]
  /\ result \in [Procs -> {"none", "ok", "error", "yes", "no", "cut", "whole"}]
  /\ calls \in 0..MaxCalls /\ faults \in 0..MaxFaults

Variants(n) == {m \in Names : Upper[m] = Upper[n]}
Known(n) == {m \in Variants(n) : cache[m] # "none"}
OnDisk == {n \in Names : file[n] # "none"}

\* What New and ListAvailableKeys make of a set of files that are there.
Loaded(S) == [n \in Names |-> IF n \in S \cap OnDisk THEN fileAge[n] ELSE "none"]

\* New: the directory may hold keys, of any spelling and age, and loads them all.
Init ==
  /\ \E S \in SUBSET Names : file = [n \in Names |-> IF n \in S THEN "whole" ELSE "none"]
  /\ fileAge \in [Names -> Ages]
  /\ \A n \in Names \ OnDisk : fileAge[n] = "young"
  /\ cache = Loaded(Names)
  /\ lock = None
  /\ pc = [c \in Procs |-> "idle"]
  /\ asked = [c \in Procs |-> CHOOSE n \in Names : TRUE] /\ key = asked
  /\ seen = [c \in Procs |-> "none"]
  /\ tries = [c \in Procs |-> 0]
  /\ after = [c \in Procs |-> "idle"]
  /\ todo = [c \in Procs |-> {}] /\ snap = [c \in Procs |-> {}]
  /\ result = [c \in Procs |-> "none"]
  /\ calls = 0 /\ faults = 0

At(c, here) == pc[c] = here
Goto(c, there) == pc' = [pc EXCEPT ![c] = there]
Return(c, r) == Goto(c, "idle") /\ result' = [result EXCEPT ![c] = r]

Start(c, op, first) ==
  /\ op \in Ops
  /\ At(c, "idle")
  /\ calls < MaxCalls
  /\ calls' = calls + 1
  /\ \E n \in Names : asked' = [asked EXCEPT ![c] = n]
  /\ Goto(c, first)
  /\ after' = [after EXCEPT ![c] = "idle"]
  /\ result' = [result EXCEPT ![c] = "none"]
  /\ UNCHANGED <<disk, cache, lock, fetching, todo, snap, faults>>

-----------------------------------------------------------------------------
(* FetchKey                                                                 *)

\* FetchKey returns to its caller.
FetchReturns(c, r) ==
  /\ Goto(c, IF after[c] = "kRead" /\ r = "error" THEN "idle" ELSE after[c])
  /\ result' = [result EXCEPT ![c] = r]

\* The upper-case spelling is looked up among all; a spelling found is kept.
FetchLook(c) ==
  /\ At(c, "fLook")
  /\ lock = None
  /\ IF Known(asked[c]) = {}
     THEN key' = [key EXCEPT ![c] = Upper[asked[c]]] /\ seen' = [seen EXCEPT ![c] = "none"]
     ELSE \E n \in Known(asked[c]) :
            key' = [key EXCEPT ![c] = n] /\ seen' = [seen EXCEPT ![c] = cache[n]]
  /\ Goto(c, "fStat")
  /\ UNCHANGED <<disk, cache, lock, asked, tries, after, todo, snap, result, bounds>>

\* Without the lock: a known key that is on disk and not expired is enough.
FetchStat(c) ==
  /\ At(c, "fStat")
  /\ IF seen[c] = "young" /\ key[c] \in OnDisk
     THEN FetchReturns(c, "ok")
     ELSE Goto(c, "fLock") /\ UNCHANGED result
  /\ UNCHANGED <<disk, cache, lock, asked, fetching, after, todo, snap, bounds>>

\* (no second look)
FetchLockMut(c) ==
  /\ At(c, "fLock")
  /\ lock = None
  /\ lock' = c
  /\ tries' = [tries EXCEPT ![c] = 0]
  /\ Goto(c, "fTry")
  /\ UNCHANGED <<disk, cache, asked, key, seen, after, todo, snap, result, bounds>>

\* A second look under the lock, at the files and not at the times.
FetchLock(c) ==
  /\ At(c, "fLock")
  /\ lock = None
  /\ IF Known(key[c]) \cap OnDisk # {}
     THEN FetchReturns(c, "ok") /\ UNCHANGED <<lock, tries>>
     ELSE /\ lock' = c
          /\ tries' = [tries EXCEPT ![c] = 0]
          /\ Goto(c, "fTry") /\ UNCHANGED result
  /\ UNCHANGED <<disk, cache, asked, key, seen, after, todo, snap, bounds>>

\* A keyserver failed: the next one is asked, or the call fails.
NextServer(c) ==
  /\ IF tries[c] + 1 < Servers
     THEN /\ tries' = [tries EXCEPT ![c] = @ + 1]
          /\ Goto(c, "fTry") /\ UNCHANGED <<lock, result>>
     ELSE FetchReturns(c, "error") /\ lock' = None /\ UNCHANGED tries

\* (the lock is kept)
FetchFailsMut(c) ==
  /\ At(c, "fTry")
  /\ FetchReturns(c, "error")
  /\ UNCHANGED <<disk, cache, lock, asked, fetching, after, todo, snap, bounds>>

\* No answer within the timeout, an error, an empty answer, or no file to write to.
FetchFails(c) ==
  /\ At(c, "fTry")
  /\ NextServer(c)
  /\ UNCHANGED <<disk, cache, asked, key, seen, after, todo, snap, bounds>>

\* (the key is entered and the lock released before the file is written)
FetchCreatesMut(c) ==
  /\ At(c, "fTry")
  /\ file' = [file EXCEPT ![key[c]] = "cut"]
  /\ fileAge' = [fileAge EXCEPT ![key[c]] = "young"]
  /\ cache' = [cache EXCEPT ![key[c]] = "young"]
  /\ lock' = None
  /\ Goto(c, "fWrite")
  /\ UNCHANGED <<asked, fetching, after, todo, snap, result, bounds>>

\* os.Create truncates the file the key may already have.
FetchCreates(c) ==
  /\ At(c, "fTry")
  /\ file' = [file EXCEPT ![key[c]] = "cut"]
  /\ fileAge' = [fileAge EXCEPT ![key[c]] = "young"]
  /\ Goto(c, "fWrite")
  /\ UNCHANGED <<cache, lock, asked, fetching, after, todo, snap, result, bounds>>

\* What was written stays behind.
FetchWriteFails(c) ==
  /\ At(c, "fWrite")
  /\ faults < MaxFaults
  /\ faults' = faults + 1
  /\ NextServer(c)
  /\ UNCHANGED <<disk, cache, asked, key, seen, after, todo, snap, calls>>

FetchWrites(c) ==
  /\ At(c, "fWrite")
  /\ file' = [file EXCEPT ![key[c]] = "whole"]
  /\ fileAge' = [fileAge EXCEPT ![key[c]] = "young"]
  /\ cache' = [cache EXCEPT ![key[c]] = "young"]
  /\ lock' = None
  /\ FetchReturns(c, "ok")
  /\ UNCHANGED <<asked, fetching, after, todo, snap, bounds>>

FetchStep(c) ==
  \/ FetchLook(c) \/ FetchStat(c) \/ FetchLock(c) \/ FetchFails(c) \/ FetchCreates(c)
  \/ FetchWriteFails(c) \/ FetchWrites(c)

-----------------------------------------------------------------------------
(* The callers of FetchKey.                                                 *)

\* HasKey ignores the case; a key that is missing is fetched before going on.
HasOrFetch(c, next) ==
  /\ lock = None
  /\ IF Known(asked[c]) # {}
     THEN Goto(c, next) /\ UNCHANGED after
     ELSE Goto(c, "fLook") /\ after' = [after EXCEPT ![c] = next]
  /\ UNCHANGED <<disk, cache, lock, asked, fetching, todo, snap, result, bounds>>

VerifyHas(c) == At(c, "vHas") /\ HasOrFetch(c, "vAnswer")

\* VerifySignature: the signature is good if the key is there.
VerifyAnswer(c) ==
  /\ At(c, "vAnswer")
  /\ lock = None
  /\ Return(c, IF Known(asked[c]) # {} THEN "yes" ELSE "no")
  /\ UNCHANGED <<disk, cache, lock, asked, fetching, after, todo, snap, bounds>>

\* handleKeyRequest: the same, but a failed fetch ends the request.
RequestHas(c) == At(c, "kHas") /\ HasOrFetch(c, "kRead")

\* os.ReadFile of the name as it was spelled, under no lock.
RequestRead(c) ==
  /\ At(c, "kRead")
  /\ Return(c, IF file[asked[c]] = "none" THEN "error" ELSE file[asked[c]])
  /\ UNCHANGED <<disk, cache, lock, asked, fetching, after, todo, snap, bounds>>

\* RefreshExpiredKeys: the expired names are collected, then fetched one by one.
RefreshCollect(c) ==
  /\ At(c, "rCollect")
  /\ lock = None
  /\ todo' = [todo EXCEPT ![c] = {n \in Names : cache[n] = "old"}]
  /\ Goto(c, "rLoop")
  /\ UNCHANGED <<disk, cache, lock, asked, fetching, after, snap, result, bounds>>

RefreshLoop(c) ==
  /\ At(c, "rLoop")
  /\ IF todo[c] = {}
     THEN Return(c, "ok") /\ UNCHANGED <<asked, after, todo>>
     ELSE \E n \in todo[c] :
            /\ asked' = [asked EXCEPT ![c] = n]
            /\ todo' = [todo EXCEPT ![c] = @ \ {n}]
            /\ after' = [after EXCEPT ![c] = "rLoop"]
            /\ Goto(c, "fLook") /\ UNCHANGED result
  /\ UNCHANGED <<disk, cache, lock, fetching, snap, bounds>>

CallerStep(c) ==
  VerifyHas(c) \/ VerifyAnswer(c) \/ RequestHas(c) \/ RequestRead(c) \/ RefreshCollect(c) \/ RefreshLoop(c)

-----------------------------------------------------------------------------
(* ListAvailableKeys and RemoveKey                                          *)

\* The directory is read before the lock is taken ...
ListRead(c) ==
  /\ At(c, "lRead")
  /\ snap' = [snap EXCEPT ![c] = OnDisk]
  /\ Goto(c, "lSwap")
  /\ UNCHANGED <<disk, cache, lock, asked, fetching, after, todo, result, bounds>>

\* ... and the cache is replaced by what was read, as far as it is still there.
ListSwap(c) ==
  /\ At(c, "lSwap")
  /\ lock = None
  /\ cache' = Loaded(snap[c])
  /\ Return(c, "ok")
  /\ UNCHANGED <<disk, lock, asked, fetching, after, todo, snap, bounds>>

\* The file of a known spelling is removed, or else of the one asked for; then all
\* spellings leave the cache. A file that cannot be removed stops the call.
Remove(c) ==
  /\ At(c, "remove")
  /\ lock = None
  /\ \E n \in IF Known(asked[c]) = {} THEN {asked[c]} ELSE Known(asked[c]) :
       \/ /\ file' = [file EXCEPT ![n] = "none"]
          /\ fileAge' = [fileAge EXCEPT ![n] = "young"]
          /\ cache' = [m \in Names |-> IF m \in Variants(n) THEN "none" ELSE cache[m]]
          /\ Return(c, "ok")
       \/ /\ n \in OnDisk
          /\ Return(c, "error") /\ UNCHANGED <<disk, cache>>
  /\ UNCHANGED <<lock, asked, fetching, after, todo, snap, bounds>>

KeeperStep(c) == ListRead(c) \/ ListSwap(c) \/ Remove(c)

-----------------------------------------------------------------------------
(* Time and crashes.                                                        *)

\* A key becomes older than KeyTTL, in the cache and on disk alike.
Expire(n) ==
  /\ n \in OnDisk
  /\ fileAge[n] = "young"
  /\ fileAge' = [fileAge EXCEPT ![n] = "old"]
  /\ cache' = [cache EXCEPT ![n] = IF @ = "none" THEN @ ELSE "old"]
  /\ UNCHANGED <<file, lock, pc, asked, fetching, after, todo, snap, result, bounds>>

\* The process dies and starts again: New loads what the directory holds.
Crash ==
  /\ faults < MaxFaults
  /\ faults' = faults + 1
  /\ cache' = Loaded(Names)
  /\ lock' = None
  /\ pc' = [c \in Procs |-> "idle"]
  /\ UNCHANGED <<disk, asked, fetching, after, todo, snap, result, calls>>

Call(c) ==
  \/ Start(c, "fetch", "fLook") \/ Start(c, "verify", "vHas") \/ Start(c, "request", "kHas")
  \/ Start(c, "refresh", "rCollect") \/ Start(c, "list", "lRead") \/ Start(c, "remove", "remove")

Step(c) == FetchStep(c) \/ CallerStep(c) \/ KeeperStep(c)

Next ==
  \/ \E c \in Procs : Call(c) \/ Step(c)
  \/ \E n \in Names : Expire(n)
  \/ Crash

Spec == Init /\ [][Next]_vars

\* A goroutine inside a call is scheduled: the HTTP client gives up after 30 seconds,
\* and the lock is handed to each waiter eventually.
FairSpec == Spec /\ \A c \in Procs : WF_vars(Step(c))

-----------------------------------------------------------------------------
(* Correctness.                                                            *)

\* A key the cache knows has its file, whoever fetches, lists and removes.
KnownIsOnDisk == \A n \in Names : cache[n] # "none" => n \in OnDisk

\* Nor has its file been cut, as long as no write failed and the process lived: a
\* listing that saw a key arrive waits until it is there.
KnownIsWhole ==
  faults = 0 /\ lock = None => \A n \in Names : cache[n] # "none" => file[n] = "whole"

\* A good key that has not expired is never fetched again over its file: whoever
\* waited for the lock finds that the key has arrived (FetchKey). Only RemoveKey takes
\* such a key away.
GoodKeyStays ==
  [][\A n \in Names : cache[n] = "young" /\ file[n] = "whole" => file'[n] # "cut"]_vars

\* Each call returns, however many keyservers fail.
CallsReturn == \A c \in Procs : ~At(c, "idle") ~> At(c, "idle")

\* "If the key is already present and not expired, it returns immediately. Otherwise,
\* it tries each keyserver": a FetchKey that found a key expired and succeeds has
\* refreshed it.
ExpiredIsRefreshed ==
  [][\A c \in Procs :
       At(c, "fLock") /\ seen[c] = "old" /\ ~At(c, "fLock")' /\ result'[c] = "ok" =>
         cache'[key[c]] # "old"]_vars

=============================================================================
