----------------------------- MODULE CacheStore -----------------------------
(***************************************************************************)
(* The file cache: cache.Cache over storage.DatabaseStore.  Its state is    *)
(* the files under the cache directory, the "c:" entries of the database,   *)
(* and the counters kept in memory and saved now and then under "s:".       *)
(*                                                                         *)
(* No lock spans a call: goroutines interleave at every file operation,    *)
(* every database operation and every statsMutex section.  A call in        *)
(* progress is the sequence of steps it still has to take, prog[c]; the     *)
(* operators named after Go functions build those sequences and the actions *)
(* execute the first step of one of them.                                   *)
(*                                                                         *)
(* A name ending in Mut is a faulty variant of the definition after it; no  *)
(* specification uses it.                                                   *)
(***************************************************************************)
EXTENDS Integers, Sequences, FiniteSets, FiniteSetsExt, SequencesExt

CONSTANTS
  Paths, Data,
  SizeOf,      \* length of each content
  MaxSize,     \* the configured limit of the cache
  PruneBatch,  \* how many old items Add considers: 10 in the code
  Clients,     \* goroutines that call the cache
  Keeper,      \* the maintenance goroutine of the store
  Ops,         \* the operations this instance exercises
  Serial,      \* one call at a time
  Disks,       \* the kinds of disk: "sound", or "failing" at any file operation
  MaxCalls,    \* bound on the calls made, by all goroutines together
  MaxRestarts, \* bound on clean restarts
  MaxCrashes,  \* bound on crashes
  None

AllOps == {"get", "put", "putTTL", "remove", "sweep", "clear", "maintain"}

Entry == [size : Nat, hits : Nat, used : Nat, timed : BOOLEAN]

ASSUME ConstantsAssumption ==
  /\ SizeOf \in [Data -> Nat \ {0}]
  /\ MaxSize \in Nat
  /\ PruneBatch \in Nat \ {0}
  /\ Keeper \notin Clients
  /\ Ops \subseteq AllOps
  /\ Serial \in BOOLEAN
  /\ Disks \subseteq {"sound", "failing"}
  /\ MaxCalls \in Nat
  /\ MaxRestarts \in Nat
  /\ MaxCrashes \in Nat
  /\ IsFiniteSet(Paths) /\ IsFiniteSet(Clients)
  /\ Data \cap {"absent", "empty", "mixed"} = {}
  /\ None \notin Data \cup Entry

Procs == Clients \cup {Keeper}

VARIABLES
  disk,         \* the kind of disk the cache directory is on
  file,         \* the files: an inode number and a content
  entry,        \* the c: entries of the database, None when absent
  saved,        \* the s: counters of the database
  currentSize,  \* the counters in memory
  hitCount,
  missCount,
  clock,        \* source of LastAccessed times
  prog,         \* the steps each goroutine still has to take
  call,         \* the call each goroutine is in
  reply,        \* answer of each goroutine's last Get
  calls,        \* calls made so far
  restarts,
  crashes

mem == <<currentSize, hitCount, missCount>>
budget == <<calls, restarts, crashes>>
vars == <<disk, file, entry, saved, mem, clock, prog, call, reply, budget>>

\* What a file may hold besides a content put: nothing (no such file), no byte
\* (just truncated), or one writer's bytes over the tail of another's.
Contents == Data \cup {"absent", "empty", "mixed"}

Length(x) ==
  IF x \in Data THEN SizeOf[x]
  ELSE IF x = "mixed" THEN Max({SizeOf[d] : d \in Data}) ELSE 0

Absent(p) == file[p].content = "absent"
Present == {p \in Paths : entry[p] # None}

\* The sum of f, as the number of its units.
SumOf(f) == Cardinality(UNION {{x} \X (1..f[x]) : x \in DOMAIN f})

\* Bytes the entries account for.
SizeAt(p) == IF entry[p] = None THEN 0 ELSE entry[p].size
Total == SumOf([p \in Paths |-> SizeAt(p)])

\* What a Get of each path would find.
Visible ==
  [p \in Paths |-> IF entry[p] = None \/ Absent(p) THEN None ELSE file[p].content]
Readable == {p \in Present : ~Absent(p)}
\* Pairs of paths that a Get would find, the first used before the second.
Older == {r \in Readable \X Readable : entry[r[1]].used < entry[r[2]].used}

\* The paths of S in the orders of a sort by LastAccessed, least recently used
\* first (GetLRUItems, pruneCacheIfNeeded).
Sorted(S, before(_, _)) ==
  {s \in [1..Cardinality(S) -> S] : \A i, j \in DOMAIN s : i < j => s[i] # s[j] /\ before(s[i], s[j])}
AgeOrdersMut(S) == Sorted(S, LAMBDA p, q : entry[p].used >= entry[q].used)
AgeOrders(S) == Sorted(S, LAMBDA p, q : entry[p].used <= entry[q].used)

NoCall == [op |-> "none"]
Quiet == \A c \in Procs : call[c] = NoCall

-----------------------------------------------------------------------------
(* The calls, as sequences of steps.                                       *)

\* os.WriteFile: open and truncate, then write.
WriteFile(p, d) ==
  << [do |-> "open", path |-> p], [do |-> "fill", path |-> p, data |-> d, gen |-> 0] >>

\* SaveCacheEntry: add the size, then db.Set; touch when LastAccessed is now.
SaveCacheEntry(p, e, touch) ==
  << [do |-> "credit", path |-> p, entry |-> e, touch |-> touch] >>

\* DeleteCacheEntry: look the entry up, subtract its size, then db.Delete.
DeleteCacheEntry(p) == << [do |-> "find", path |-> p] >>

NewEntry(d) == [size |-> SizeOf[d], hits |-> 1, used |-> 0, timed |-> FALSE]

\* (Put saves the metadata only)
StorePutMut(p, d) == SaveCacheEntry(p, NewEntry(d), TRUE)

\* DatabaseStore.Put: writes the file, a second time after Cache.Add did.
StorePut(p, d) == WriteFile(p, d) \o SaveCacheEntry(p, NewEntry(d), TRUE)

\* DatabaseStore.Get
Get(p) == << [do |-> "check", path |-> p], [do |-> "hit", path |-> p],
             [do |-> "read", path |-> p] >>

\* (the metadata is saved before the file is written)
AddMut(p, d) ==
  << [do |-> "room", size |-> SizeOf[d]] >> \o SaveCacheEntry(p, NewEntry(d), TRUE) \o WriteFile(p, d)

\* Cache.Add
Add(p, d) ==
  WriteFile(p, d) \o << [do |-> "room", size |-> SizeOf[d]] >> \o StorePut(p, d)

\* Cache.PutWithExpiration
PutWithExpiration(p, d) == Add(p, d) \o << [do |-> "expire", path |-> p] >>

\* Cache.Remove
RemovePath(p) == << [do |-> "locate", path |-> p] >>

\* List the entries older than cutoff, the first count of them, then delete
\* them from the oldest on while need is over floor.  The entry of an item goes
\* when the outcome of os.Remove on its file is in after.
Pick(cutoff, count, need, floor, after) ==
  << [do |-> "pick", cutoff |-> cutoff, count |-> count,
      need |-> need, floor |-> floor, after |-> after] >>

\* Delete every item: the need of such a sweep never falls to its floor.
Everything == 1000

\* Cache.PruneStaleItems and FlushExpired, whose cutoffs are in the past.
Sweep(cutoff) ==
  Pick(cutoff, Cardinality(Paths), Everything, -Everything, {"removed", "missing"})

\* Cache.Clear ignores what os.Remove says.
Clear == Pick(clock + 1, Cardinality(Paths), Everything, -Everything,
              {"removed", "missing", "failed"})

\* One tick of the maintenance routine.
Maintain == << [do |-> "overfull"], [do |-> "persist"] >>

-----------------------------------------------------------------------------
\* What a step may be, by the operators above.
Outcomes == {"removed", "missing", "failed"}
Item == [path : Paths, size : Nat]
Steps ==
  [do : {"open", "check", "hit", "read", "find", "drop", "locate", "expire"}, path : Paths]
  \cup [do : {"fill"}, path : Paths, data : Data, gen : Nat]
  \cup [do : {"credit"}, path : Paths, entry : Entry, touch : BOOLEAN]
  \cup [do : {"set"}, path : Paths, entry : Entry]
  \cup [do : {"room", "debit"}, size : Nat]
  \cup [do : {"pick"}, cutoff : Nat, count : Nat, need : Int, floor : Int, after : SUBSET Outcomes]
  \cup [do : {"evict"}, items : Seq(Item), need : Int, floor : Int, after : SUBSET Outcomes]
  \cup [do : {"overfull", "persist"}]

\* A call, with what the caller could see when it began.
Calls ==
  [op : AllOps, path : Paths \cup {None}, data : Data \cup {None}, answer : Contents \cup {None},
   before : [Paths -> Contents \cup {None}], older : SUBSET (Paths \X Paths)]

TypeOK ==
  /\ disk \in Disks
  /\ file \in [Paths -> [gen : Nat, content : Contents]]
  /\ entry \in [Paths -> Entry \cup {None}]
  /\ saved \in [size : Nat, hits : Nat, misses : Nat]
  /\ currentSize \in Nat /\ hitCount \in Nat /\ missCount \in Nat /\ clock \in Nat
  /\ prog \in [Procs -> Seq(Steps)]
  /\ call \in [Procs -> Calls \cup {NoCall}]
  /\ reply \in [Procs -> Contents \cup {None}]
  /\ calls \in 0..MaxCalls /\ restarts \in 0..MaxRestarts /\ crashes \in 0..MaxCrashes

Init ==
  /\ disk \in Disks
  /\ file = [p \in Paths |-> [gen |-> 0, content |-> "absent"]]
  /\ entry = [p \in Paths |-> None]
  /\ saved = [size |-> 0, hits |-> 0, misses |-> 0]
  /\ currentSize = 0 /\ hitCount = 0 /\ missCount = 0
  /\ clock = 0
  /\ prog = [c \in Procs |-> <<>>]
  /\ call = [c \in Procs |-> NoCall]
  /\ reply = [c \in Procs |-> None]
  /\ calls = 0
  /\ restarts = 0
  /\ crashes = 0

-----------------------------------------------------------------------------
(* Starting and ending calls.  before and older record what the caller      *)
(* could see when the call began, for the refinement below.                 *)

Begin(c, op, p, d, steps) ==
  /\ op \in Ops
  /\ call[c] = NoCall
  /\ calls < MaxCalls
  /\ Serial => Quiet
  /\ call' = [call EXCEPT ![c] = [op |-> op, path |-> p, data |-> d, answer |-> None,
                                  before |-> Visible, older |-> Older]]
  /\ prog' = [prog EXCEPT ![c] = steps]
  /\ calls' = calls + 1
  /\ UNCHANGED <<disk, file, entry, saved, mem, clock, reply, restarts, crashes>>

CallGet(c, p) == Begin(c, "get", p, None, Get(p))
CallPut(c, p, d) == Begin(c, "put", p, d, Add(p, d))
CallPutTTL(c, p, d) == Begin(c, "putTTL", p, d, PutWithExpiration(p, d))
CallRemove(c, p) == Begin(c, "remove", p, None, RemovePath(p))
CallSweep(c) == \E cutoff \in 1..clock : Begin(c, "sweep", None, None, Sweep(cutoff))
CallClear(c) == Begin(c, "clear", None, None, Clear)
CallMaintain == Begin(Keeper, "maintain", None, None, Maintain)

Return(c) ==
  /\ call[c] # NoCall
  /\ prog[c] = <<>>
  /\ reply' = [reply EXCEPT ![c] = IF call[c].op = "get" THEN call[c].answer ELSE @]
  /\ call' = [call EXCEPT ![c] = NoCall]
  /\ UNCHANGED <<disk, file, entry, saved, mem, clock, prog, budget>>

-----------------------------------------------------------------------------
(* The steps.                                                              *)

Step(c, do) == prog[c] # <<>> /\ Head(prog[c]).do = do
Arg(c) == Head(prog[c])

\* Go on with the given steps, then with the rest of the call.
Continue(c, steps) == prog' = [prog EXCEPT ![c] = steps \o Tail(@)]
\* Return early.
Abort(c) == prog' = [prog EXCEPT ![c] = <<>>]

Open(c) ==
  /\ Step(c, "open")
  /\ LET p == Arg(c).path IN
       /\ file' = [file EXCEPT ![p].content = "empty"]
       /\ prog' = [prog EXCEPT ![c] = << [prog[c][2] EXCEPT !.gen = file[p].gen] >>
                                       \o SubSeq(@, 3, Len(@))]
  /\ UNCHANGED <<disk, entry, saved, mem, clock, call, reply, budget>>

\* The bytes go to the inode that was opened, over what another writer of the
\* same inode left there; a file removed in between keeps nothing.
Fill(c) ==
  /\ Step(c, "fill")
  /\ LET p == Arg(c).path
         d == Arg(c).data
         same == Arg(c).gen = file[p].gen
         over == IF Length(file[p].content) > SizeOf[d] THEN "mixed" ELSE d
     IN file' = IF same THEN [file EXCEPT ![p].content = over] ELSE file
  /\ Continue(c, <<>>)
  /\ UNCHANGED <<disk, entry, saved, mem, clock, call, reply, budget>>

\* The disk refuses the bytes: the call returns the error, the file stays cut.
FillFails(c) ==
  /\ disk = "failing"
  /\ Step(c, "fill")
  /\ Abort(c)
  /\ UNCHANGED <<disk, file, entry, saved, mem, clock, call, reply, budget>>

\* (credit only what is new to the cache)
CreditMut(c) ==
  /\ Step(c, "credit")
  /\ LET p == Arg(c).path
         now == clock + 1
         e == IF Arg(c).touch THEN [Arg(c).entry EXCEPT !.used = now] ELSE Arg(c).entry
     IN /\ currentSize' = IF entry[p] = None THEN currentSize + e.size ELSE currentSize
        /\ clock' = IF Arg(c).touch THEN now ELSE clock
        /\ Continue(c, << [do |-> "set", path |-> p, entry |-> e] >>)
  /\ UNCHANGED <<disk, file, entry, saved, hitCount, missCount, call, reply, budget>>

\* currentSize grows by the whole size, also when the entry is only rewritten.
Credit(c) ==
  /\ Step(c, "credit")
  /\ LET now == clock + 1
         e == IF Arg(c).touch THEN [Arg(c).entry EXCEPT !.used = now] ELSE Arg(c).entry
     IN /\ currentSize' = currentSize + e.size
        /\ clock' = IF Arg(c).touch THEN now ELSE clock
        /\ Continue(c, << [do |-> "set", path |-> Arg(c).path, entry |-> e] >>)
  /\ UNCHANGED <<disk, file, entry, saved, hitCount, missCount, call, reply, budget>>

SetEntry(c) ==
  /\ Step(c, "set")
  /\ entry' = [entry EXCEPT ![Arg(c).path] = Arg(c).entry]
  /\ Continue(c, <<>>)
  /\ UNCHANGED <<disk, file, saved, mem, clock, call, reply, budget>>

\* DeleteCacheEntry reads the entry it is about to subtract.
Find(c) ==
  /\ Step(c, "find")
  /\ LET p == Arg(c).path
         drop == << [do |-> "drop", path |-> p] >>
     IN Continue(c, IF entry[p] = None THEN drop
                    ELSE << [do |-> "debit", size |-> entry[p].size] >> \o drop)
  /\ UNCHANGED <<disk, file, entry, saved, mem, clock, call, reply, budget>>

Debit(c) ==
  /\ Step(c, "debit")
  /\ currentSize' = Max({0, currentSize - Arg(c).size})
  /\ Continue(c, <<>>)
  /\ UNCHANGED <<disk, file, entry, saved, hitCount, missCount, clock, call, reply, budget>>

Drop(c) ==
  /\ Step(c, "drop")
  /\ entry' = [entry EXCEPT ![Arg(c).path] = None]
  /\ Continue(c, <<>>)
  /\ UNCHANGED <<disk, file, saved, mem, clock, call, reply, budget>>

\* Get: no entry is a miss.
Check(c) ==
  /\ Step(c, "check")
  /\ \/ /\ entry[Arg(c).path] = None
        /\ missCount' = missCount + 1
        /\ Abort(c)
     \/ /\ entry[Arg(c).path] # None
        /\ UNCHANGED missCount
        /\ Continue(c, <<>>)
  /\ UNCHANGED <<disk, file, entry, saved, currentSize, hitCount, clock, call, reply, budget>>

\* RecordCacheHit reads the entry again, counts the hit and saves its copy; its
\* error, when the entry is gone, is only logged.
Hit(c) ==
  /\ Step(c, "hit")
  /\ LET p == Arg(c).path IN
       \/ /\ entry[p] = None
          /\ UNCHANGED hitCount
          /\ Continue(c, <<>>)
       \/ /\ entry[p] # None
          /\ hitCount' = hitCount + 1
          /\ Continue(c, SaveCacheEntry(p, [entry[p] EXCEPT !.hits = @ + 1], TRUE))
  /\ UNCHANGED <<disk, file, entry, saved, currentSize, missCount, clock, call, reply, budget>>

\* os.ReadFile: a missing file is an error, anything else is the answer.
Read(c) ==
  /\ Step(c, "read")
  /\ call' = [call EXCEPT ![c].answer =
                IF Absent(Arg(c).path) THEN None ELSE file[Arg(c).path].content]
  /\ Continue(c, <<>>)
  /\ UNCHANGED <<disk, file, entry, saved, mem, clock, reply, budget>>

\* Add looks at the size it would reach.
Room(c) ==
  /\ Step(c, "room")
  /\ LET newSize == currentSize + Arg(c).size
     IN Continue(c, IF newSize > MaxSize
                    THEN Pick(clock + 1, PruneBatch, newSize, MaxSize, {"removed"}) ELSE <<>>)
  /\ UNCHANGED <<disk, file, entry, saved, mem, clock, call, reply, budget>>

\* pruneCacheIfNeeded looks at the size, and aims for 90% of the limit.
Overfull(c) ==
  /\ Step(c, "overfull")
  /\ Continue(c, IF currentSize > MaxSize
                 THEN Pick(clock + 1, Cardinality(Paths), currentSize, (MaxSize * 9) \div 10,
                           {"removed", "missing"})
                 ELSE <<>>)
  /\ UNCHANGED <<disk, file, entry, saved, mem, clock, call, reply, budget>>

\* ListCacheEntries, sorted by age; a listed size is used later, as listed.
List(c) ==
  /\ Step(c, "pick")
  /\ LET a == Arg(c) IN
     \E old \in AgeOrders({p \in Present : entry[p].used < a.cutoff}) :
       LET items == [i \in 1..Min({Len(old), a.count}) |->
                       [path |-> old[i], size |-> entry[old[i]].size]]
       IN Continue(c, << [do |-> "evict", items |-> items, need |-> a.need,
                          floor |-> a.floor, after |-> a.after] >>)
  /\ UNCHANGED <<disk, file, entry, saved, mem, clock, call, reply, budget>>

\* What os.Remove may report for the file of p.
RemoveOutcomes(p) ==
  {IF Absent(p) THEN "missing" ELSE "removed"} \cup (IF disk = "failing" THEN {"failed"} ELSE {})

\* One turn of a deleting loop: os.Remove, then DeleteCacheEntry or the next item.
Evict(c) ==
  /\ Step(c, "evict")
  /\ LET a == Arg(c)
         p == a.items[1].path
         next(need) == << [a EXCEPT !.items = Tail(@), !.need = need] >>
     IN \/ /\ a.items = <<>> \/ a.need <= a.floor
           /\ Continue(c, <<>>)
           /\ UNCHANGED file
        \/ /\ a.items # <<>> /\ a.need > a.floor
           /\ \E outcome \in RemoveOutcomes(p) :
                /\ file' = IF outcome # "removed" THEN file
                           ELSE [file EXCEPT ![p] = [gen |-> @.gen + 1, content |-> "absent"]]
                /\ Continue(c, IF outcome \in a.after
                               THEN DeleteCacheEntry(p) \o next(a.need - a.items[1].size)
                               ELSE next(a.need))
  /\ UNCHANGED <<disk, entry, saved, mem, clock, call, reply, budget>>

\* Remove: an absent entry is an error, else its file and entry are deleted.
Locate(c) ==
  /\ Step(c, "locate")
  /\ LET p == Arg(c).path IN
       Continue(c, IF entry[p] = None THEN <<>>
                   ELSE << [do |-> "evict", items |-> << [path |-> p, size |-> 0] >>,
                            need |-> Everything, floor |-> -Everything,
                            after |-> {"removed", "missing"}] >>)
  /\ UNCHANGED <<disk, file, entry, saved, mem, clock, call, reply, budget>>

\* PutWithExpiration reads the entry back and saves it with a later LastModified.
Expire(c) ==
  /\ Step(c, "expire")
  /\ LET p == Arg(c).path IN
       Continue(c, IF entry[p] = None THEN <<>>
                   ELSE SaveCacheEntry(p, [entry[p] EXCEPT !.timed = TRUE], FALSE))
  /\ UNCHANGED <<disk, file, entry, saved, mem, clock, call, reply, budget>>

\* saveCacheState: one synced batch with the three counters.
SaveCacheState == saved' = [size |-> currentSize, hits |-> hitCount, misses |-> missCount]

Persist(c) ==
  /\ Step(c, "persist")
  /\ SaveCacheState
  /\ Continue(c, <<>>)
  /\ UNCHANGED <<disk, file, entry, mem, clock, call, reply, budget>>

-----------------------------------------------------------------------------
(* Restarts.                                                               *)

\* loadCacheState
LoadCacheState(s) ==
  /\ currentSize' = s.size
  /\ hitCount' = s.hits
  /\ missCount' = s.misses

\* Close saves the counters; the next NewDatabaseStore loads them.
Restart ==
  /\ restarts < MaxRestarts
  /\ Quiet
  /\ SaveCacheState
  /\ LoadCacheState(saved')
  /\ restarts' = restarts + 1
  /\ UNCHANGED <<disk, file, entry, clock, prog, call, reply, calls, crashes>>

\* The process dies; entries were written with a sync, counters were not.
Crash ==
  /\ crashes < MaxCrashes
  /\ LoadCacheState(saved)
  /\ prog' = [c \in Procs |-> <<>>]
  /\ call' = [c \in Procs |-> NoCall]
  /\ crashes' = crashes + 1
  /\ UNCHANGED <<disk, file, entry, saved, clock, reply, calls, restarts>>

FileStep(c) == Open(c) \/ Fill(c) \/ FillFails(c) \/ Read(c) \/ Evict(c)
EntryStep(c) ==
  Credit(c) \/ SetEntry(c) \/ Find(c) \/ Debit(c) \/ Drop(c) \/ Check(c) \/ Hit(c) \/ Expire(c) \/ Locate(c)
SizeStep(c) == Room(c) \/ Overfull(c) \/ List(c) \/ Persist(c)

Next ==
  \/ \E c \in Clients, p \in Paths :
       \/ CallGet(c, p) \/ CallRemove(c, p)
       \/ \E d \in Data : CallPut(c, p, d) \/ CallPutTTL(c, p, d)
  \/ \E c \in Clients : CallSweep(c) \/ CallClear(c)
  \/ CallMaintain
  \/ \E c \in Procs : FileStep(c) \/ EntryStep(c) \/ SizeStep(c) \/ Return(c)
  \/ Restart
  \/ Crash

Spec == Init /\ [][Next]_vars

-----------------------------------------------------------------------------
(* Correctness, of a cache used by one goroutine at a time.                *)

\* Between calls, the size the limit is checked against is never less than what
\* the entries add up to, whatever failed and across clean restarts: the cache
\* may think it is fuller than it is, never emptier.
SizeCoversEntries == Quiet => Total <= currentSize

\* Between calls, Exists says yes only of a path that has a file, although the
\* disk may have failed in the middle of any call.
ExistsMeansFile == Quiet => \A p \in Present : ~Absent(p)

\* Between calls, on a sound disk, an entry and its file stand or fall together,
\* and the file is as long as the entry says: nothing is served that is not
\* accounted for, and no file outlives its entry.
EntriesMatchFiles ==
  Quiet /\ disk = "sound" => \A p \in Paths :
    /\ entry[p] # None <=> ~Absent(p)
    /\ entry[p] # None => file[p].content \in Data /\ SizeOf[file[p].content] = entry[p].size

\* On a sound disk, a client that is alone sees a bounded LRU map.  (A failing
\* disk is mapped to a cache that is never used.)
Busy == CHOOSE c \in Procs : call[c] # NoCall
Sound(x, otherwise) == IF disk = "sound" THEN x ELSE otherwise

SeenContent == Sound(IF Quiet THEN Visible ELSE call[Busy].before, [p \in Paths |-> None])
SeenOlder == Sound(IF Quiet THEN Older ELSE call[Busy].older, {})
SeenReply == Sound([c \in Clients |-> reply[c]], [c \in Clients |-> None])

LRUMap == INSTANCE BoundedCache WITH
  content <- SeenContent, older <- SeenOlder, reply <- SeenReply

ImplementsLRUMap == LRUMap!Spec

-----------------------------------------------------------------------------
(* Correctness, of a cache used by several goroutines.                     *)

\* No file has been removed since the directory was created.
NothingRemoved == \A p \in Paths : file[p].gen = 0

\* As long as nothing is removed, a path that has an entry has a file at every
\* moment, whatever Puts, Gets, disk errors and crashes happen.
FileBeforeEntry == NothingRemoved => \A p \in Present : ~Absent(p)

\* As long as nothing is removed and the process lives, the size covers the
\* entries at every moment: each call adds the size before it writes the entry.
SizeBeforeEntry == NothingRemoved /\ crashes = 0 => Total <= currentSize

\* "Handles concurrent access with proper locking": a Get answers with the bytes
\* of one Put, or with an error.
GetReturnsWhole == \A c \in Clients : reply[c] \in Data \cup {None}

\* "Check if adding this file would exceed max size and prune if needed": Add
\* deletes no entry when the files in the cache and the new one fit the limit.
PruneOnlyIfNeeded ==
  [][\A c \in Clients : Step(c, "room") /\ Total + Arg(c).size <= MaxSize
       => Len(prog'[c]) < Len(prog[c])]_vars

=============================================================================
