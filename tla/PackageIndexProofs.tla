------------------------- MODULE PackageIndexProofs -------------------------
(***************************************************************************)
(* Proofs about PackageIndex, for any packages, goroutines and bounds: the  *)
(* cached count is coherent, the memory cache is bounded, and without a     *)
(* crash no hash mapping is lost.                                           *)
(***************************************************************************)
EXTENDS PackageIndex, FiniteSetTheorems, TLAPS

\* What a goroutine works on is of the kind its place in the code needs.
CurFits ==
  \A c \in Procs :
    /\ pc[c] \in {"uStore", "uInvalidate"} => cur[c] \in Pkgs
    /\ pc[c] \in {"uMem", "uBatch", "lMem", "lDb", "lFill"} => cur[c] \in Hashed

Typed == TypeOK /\ CurFits

\* The places of GetPackageCount between its Lock and its Unlock.
Counting == {"cCheck", "cIter", "cStore", "cUnlock"}

\* The count lock is held by whoever is between the two, and by nobody else.
CountOwned == \A c \in Procs : pc[c] \in Counting <=> countLock = c

\* The snapshot about to be stored is the packages, unless some writer has yet
\* to invalidate: writers after the iterator wait for the count lock.
SnapCurrent ==
  \A c \in Procs :
    At(c, "cStore") /\ (\A d \in Procs : ~Unannounced(d)) => snap[c] = packages

Coherent == CountOwned /\ SnapCurrent /\ CountCoherent

-----------------------------------------------------------------------------
LEMMA CardinalityIsNat ==
  ASSUME NEW S \in SUBSET Pkgs
  PROVE  IsFiniteSet(S) /\ Cardinality(S) \in Nat
BY FS_Subset, FS_CardinalityType, ConstantsAssumption

LEMMA TypedInit == Init => Typed
<1> SUFFICES ASSUME Init PROVE Typed
  OBVIOUS
<1>1. /\ calls \in 0..MaxCalls /\ stops \in 0..MaxStops /\ crashes \in 0..MaxCrashes
      /\ count \in Nat
  BY ConstantsAssumption DEF Init
<1>2. pc \in [Procs -> PC] /\ after \in [Procs -> {"idle", "uLoop", "uUnlock"}]
  BY DEF Init, PC
<1> QED BY <1>1, <1>2 DEF Init, Typed, TypeOK, CurFits

LEMMA TypedCall ==
  ASSUME Typed, NEW c \in Procs, CallCount(c) \/ CallUpdate(c) \/ CallBulk(c) \/ CallLookup(c)
  PROVE  Typed'
<1>1. /\ At(c, "idle")
      /\ calls < MaxCalls /\ calls' = calls + 1
      /\ UNCHANGED <<db, maps, counter, locks, snap, stops, crashes>>
  BY DEF CallCount, CallUpdate, CallBulk, CallLookup, Call
<1>2. calls' \in 0..MaxCalls
  BY <1>1, ConstantsAssumption DEF Typed, TypeOK
<1>3. CASE CallCount(c)
  BY <1>1, <1>2, <1>3
  DEF Typed, TypeOK, CurFits, CallCount, Call, Goto, At, PC, db, maps, counter, locks
<1>4. CASE CallUpdate(c)
  BY <1>1, <1>2, <1>4
  DEF Typed, TypeOK, CurFits, CallUpdate, Call, Goto, At, PC, db, maps, counter, locks
<1>5. CASE CallBulk(c)
  BY <1>1, <1>2, <1>5
  DEF Typed, TypeOK, CurFits, CallBulk, Call, Goto, At, PC, db, maps, counter, locks
<1>6. CASE CallLookup(c)
  BY <1>1, <1>2, <1>6, ConstantsAssumption
  DEF Typed, TypeOK, CurFits, CallLookup, Call, Goto, At, PC, db, maps, counter, locks
<1> QED BY <1>3, <1>4, <1>5, <1>6

LEMMA TypedCount ==
  ASSUME Typed, NEW c \in Procs, CountStep(c)
  PROVE  Typed'
<1> USE DEF Typed, TypeOK, CurFits, Goto, At, PC, db, maps, counter, locks, local, budget
<1>1. CASE CountLock(c)
  BY <1>1 DEF CountLock
<1>2. CASE CountCheck(c)
  BY <1>2 DEF CountCheck
<1>3. CASE CountIter(c)
  BY <1>3 DEF CountIter
<1>4. CASE CountStore(c)
  <2>1. Cardinality(snap[c]) \in Nat
    BY CardinalityIsNat
  <2> QED BY <1>4, <2>1 DEF CountStore
<1>5. CASE CountUnlock(c)
  BY <1>5 DEF CountUnlock
<1> QED BY <1>1, <1>2, <1>3, <1>4, <1>5 DEF CountStep

LEMMA TypedUpdate ==
  ASSUME Typed, NEW c \in Procs, UpdateStep(c)
  PROVE  Typed'
<1> USE DEF Typed, TypeOK, CurFits, Goto, At, PC, db, maps, counter, locks, local, budget
<1>1. CASE UpdateLock(c)
  BY <1>1 DEF UpdateLock
<1>2. CASE UpdateLoop(c)
  <2>1. PICK p \in todo[c] :
          /\ cur' = [cur EXCEPT ![c] = p]
          /\ todo' = [todo EXCEPT ![c] = @ \ {p}]
          /\ Goto(c, IF p \in packages THEN "uLoop" ELSE "uStore")
    BY <1>2 DEF UpdateLoop
  <2> QED BY <1>2, <2>1 DEF UpdateLoop
<1>3. CASE UpdateDone(c)
  BY <1>3 DEF UpdateDone
<1>4. CASE UpdateStore(c)
  BY <1>4 DEF UpdateStore
<1>5. CASE UpdateInvalidate(c)
  BY <1>5 DEF UpdateInvalidate
<1>6. CASE UpdateMem(c)
  BY <1>6 DEF UpdateMem, Remember
<1>7. CASE UpdateBatch(c)
  BY <1>7 DEF UpdateBatch, FlushIf
<1>8. CASE UpdateUnlock(c)
  BY <1>8 DEF UpdateUnlock
<1> QED BY <1>1, <1>2, <1>3, <1>4, <1>5, <1>6, <1>7, <1>8 DEF UpdateStep

LEMMA TypedBulk ==
  ASSUME Typed, NEW c \in Procs, BulkStep(c)
  PROVE  Typed'
<1> USE DEF Typed, TypeOK, CurFits, Goto, At, PC, db, maps, counter, locks, local, budget
<1>1. CASE BulkLock(c)
  BY <1>1 DEF BulkLock
<1>2. CASE BulkApply(c)
  BY <1>2 DEF BulkApply
<1>3. CASE BulkInvalidate(c)
  BY <1>3 DEF BulkInvalidate
<1>4. CASE BulkUnlock(c)
  BY <1>4 DEF BulkUnlock
<1> QED BY <1>1, <1>2, <1>3, <1>4 DEF BulkStep

LEMMA TypedLookup ==
  ASSUME Typed, NEW c \in Procs, LookupStep(c)
  PROVE  Typed'
<1> USE DEF Typed, TypeOK, CurFits, Goto, At, PC, db, maps, counter, locks, local, budget
<1>1. CASE LookupMem(c)
  BY <1>1 DEF LookupMem
<1>2. CASE LookupDb(c)
  BY <1>2 DEF LookupDb
<1>3. CASE LookupFill(c)
  BY <1>3 DEF LookupFill, Remember
<1> QED BY <1>1, <1>2, <1>3 DEF LookupStep

LEMMA TypedRestart == Typed /\ (Stop \/ Crash) => Typed'
<1>1. ASSUME Typed, Stop PROVE Typed'
  <2>1. stops' \in 0..MaxStops
    BY <1>1, ConstantsAssumption DEF Stop, Typed, TypeOK
  <2> QED BY <1>1, <2>1 DEF Stop, Typed, TypeOK, CurFits, Forget, Quiet, At, PC, locks, local
<1>2. ASSUME Typed, Crash PROVE Typed'
  <2>1. crashes' \in 0..MaxCrashes
    BY <1>2, ConstantsAssumption DEF Crash, Typed, TypeOK
  <2> QED BY <1>2, <2>1 DEF Crash, Typed, TypeOK, CurFits, Forget, PC, db, local
<1> QED BY <1>1, <1>2

LEMMA TypedNext == Typed /\ [Next]_vars => Typed'
<1> SUFFICES ASSUME Typed, [Next]_vars PROVE Typed'
  OBVIOUS
<1>1. ASSUME NEW c \in Procs, ProcStep(c) PROVE Typed'
  BY <1>1, TypedCount, TypedUpdate, TypedBulk, TypedLookup DEF ProcStep
<1>2. CASE CountAges
  BY <1>2 DEF CountAges, Typed, TypeOK, CurFits, db, maps, locks, local, budget
<1>3. CASE UNCHANGED vars
  BY <1>3 DEF vars, Typed, TypeOK, CurFits
<1> QED BY <1>1, <1>2, <1>3, TypedCall, TypedRestart DEF Next

LEMMA TypedAlways == Spec => []Typed
BY TypedInit, TypedNext, PTL DEF Spec

\* Every variable keeps its type.
THEOREM TypeCorrect == Spec => []TypeOK
<1>1. Typed => TypeOK
  BY DEF Typed
<1> QED BY <1>1, TypedAlways, PTL

-----------------------------------------------------------------------------
(* The cached count.                                                       *)

LEMMA CoherentInit == Init => Coherent
BY ConstantsAssumption
DEF Init, Coherent, CountOwned, SnapCurrent, CountCoherent, Counting, Unannounced, At

\* Steps that touch neither the packages nor the count, of a goroutine that is
\* not about to invalidate, does not count and does not start to.
LEMMA CoherentKept ==
  ASSUME Typed, Coherent, NEW c \in Procs,
         UNCHANGED <<packages, count, countTime, countLock, snap>>,
         \A d \in Procs : d # c => pc'[d] = pc[d],
         pc[c] \notin Counting /\ pc'[c] \notin Counting,
         Unannounced(c)' <=> Unannounced(c)
  PROVE  Coherent'
<1>1. \A d \in Procs : Unannounced(d)' <=> Unannounced(d)
  BY DEF Unannounced, At
<1>2. \A d \in Procs : pc'[d] \in Counting <=> pc[d] \in Counting
  OBVIOUS
<1>3. CountOwned'
  BY <1>2 DEF Coherent, CountOwned
<1>4. \A d \in Procs : At(d, "cStore")' => At(d, "cStore")
  BY DEF At, Counting
<1>5. SnapCurrent' /\ CountCoherent'
  BY <1>1, <1>4 DEF Coherent, SnapCurrent, CountCoherent
<1> QED BY <1>3, <1>5 DEF Coherent

LEMMA CoherentCall ==
  ASSUME Typed, Coherent, NEW c \in Procs,
         CallCount(c) \/ CallUpdate(c) \/ CallBulk(c) \/ CallLookup(c)
  PROVE  Coherent'
<1>1. /\ pc[c] = "idle"
      /\ \E p \in {"cLock", "uLock", "bLock", "lMem"} : pc' = [pc EXCEPT ![c] = p]
      /\ UNCHANGED <<packages, count, countTime, countLock, snap>>
  BY DEF CallCount, CallUpdate, CallBulk, CallLookup, Call, At, Goto, db, counter, locks
<1>2. /\ pc'[c] \in {"cLock", "uLock", "bLock", "lMem"}
      /\ \A d \in Procs : d # c => pc'[d] = pc[d]
  BY <1>1 DEF Typed, TypeOK
<1> QED BY <1>1, <1>2, CoherentKept DEF Counting, Unannounced, At

LEMMA CoherentCount ==
  ASSUME Typed, Coherent, NEW c \in Procs, CountStep(c)
  PROVE  Coherent'
<1> USE DEF Coherent, CountOwned, SnapCurrent, CountCoherent, Counting, Unannounced, At, Goto
<1>1. CASE CountLock(c)
  BY <1>1, ConstantsAssumption DEF CountLock, Typed, TypeOK, db, counter, local
<1>2. CASE CountCheck(c)
  BY <1>2 DEF CountCheck, Typed, TypeOK, db, counter, locks, local
<1>3. CASE CountIter(c)
  BY <1>3 DEF CountIter, Typed, TypeOK, db, counter, locks
<1>4. CASE CountStore(c)
  BY <1>4 DEF CountStore, Typed, TypeOK, db, locks, local
<1>5. CASE CountUnlock(c)
  BY <1>5, ConstantsAssumption DEF CountUnlock, Typed, TypeOK, db, counter, local
<1> QED BY <1>1, <1>2, <1>3, <1>4, <1>5 DEF CountStep

\* The steps of an update other than the store and the invalidation.
LEMMA CoherentUpdateRest ==
  ASSUME Typed, Coherent, NEW c \in Procs,
         UpdateLock(c) \/ UpdateLoop(c) \/ UpdateDone(c) \/ UpdateMem(c) \/ UpdateBatch(c)
           \/ UpdateUnlock(c)
  PROVE  Coherent'
<1>1. /\ pc[c] \in {"uLock", "uLoop", "uMem", "uBatch", "uUnlock"}
      /\ \E p \in {"cLock", "uLoop", "uStore", "uBatch", "idle"} : pc' = [pc EXCEPT ![c] = p]
      /\ UNCHANGED <<packages, count, countTime, countLock, snap>>
  BY DEF UpdateLock, UpdateLoop, UpdateDone, UpdateMem, UpdateBatch, UpdateUnlock, At, Goto,
         db, maps, counter, locks, local
<1>2. /\ pc'[c] \in {"cLock", "uLoop", "uStore", "uBatch", "idle"}
      /\ \A d \in Procs : d # c => pc'[d] = pc[d]
  BY <1>1 DEF Typed, TypeOK
<1> QED BY <1>1, <1>2, CoherentKept DEF Counting, Unannounced, At

\* A write to the packages leaves its writer unannounced.
LEMMA CoherentWrite ==
  ASSUME Typed, Coherent, NEW c \in Procs,
         pc[c] \in {"uStore", "bApply"},
         NEW p \in {"uInvalidate", "bInvalidate"}, pc' = [pc EXCEPT ![c] = p],
         countLock' = countLock
  PROVE  Coherent'
<1>1. Unannounced(c)' /\ \A d \in Procs : d # c => pc'[d] = pc[d]
  BY DEF Typed, TypeOK, Unannounced, At
<1>2. CountOwned'
  BY DEF Coherent, CountOwned, Counting, Typed, TypeOK
<1> QED BY <1>1, <1>2 DEF Coherent, SnapCurrent, CountCoherent

\* An invalidation finds the count lock free, so nobody is about to store.
LEMMA CoherentInvalidate ==
  ASSUME Typed, Coherent, NEW c \in Procs,
         pc[c] \in {"uInvalidate", "bInvalidate"},
         NEW p \in {"uMem", "uLoop", "bUnlock"}, pc' = [pc EXCEPT ![c] = p],
         countLock = None, countLock' = countLock, countTime' = "zero"
  PROVE  Coherent'
<1>1. \A d \in Procs : pc[d] \notin Counting
  BY ConstantsAssumption DEF Coherent, CountOwned
<1>2. \A d \in Procs : pc'[d] \notin Counting
  BY <1>1 DEF Typed, TypeOK, Counting
<1>3. CountOwned' /\ SnapCurrent' /\ CountCoherent'
  BY <1>2, ConstantsAssumption DEF CountOwned, SnapCurrent, CountCoherent, Counting, At
<1> QED BY <1>3 DEF Coherent

LEMMA CoherentUpdate ==
  ASSUME Typed, Coherent, NEW c \in Procs, UpdateStep(c)
  PROVE  Coherent'
<1>1. CASE UpdateStore(c)
  <2>1. pc[c] = "uStore" /\ pc' = [pc EXCEPT ![c] = "uInvalidate"] /\ countLock' = countLock
    BY <1>1 DEF UpdateStore, At, Goto, locks
  <2> QED BY <2>1, CoherentWrite
<1>2. CASE UpdateInvalidate(c)
  <2>1. PICK p \in {"uMem", "uLoop"} : pc' = [pc EXCEPT ![c] = p]
    BY <1>2 DEF UpdateInvalidate, Goto
  <2>2. /\ pc[c] = "uInvalidate" /\ countLock = None
        /\ countLock' = countLock /\ countTime' = "zero"
    BY <1>2 DEF UpdateInvalidate, At, locks
  <2> QED BY <2>1, <2>2, CoherentInvalidate
<1> QED BY <1>1, <1>2, CoherentUpdateRest DEF UpdateStep

LEMMA CoherentBulk ==
  ASSUME Typed, Coherent, NEW c \in Procs, BulkStep(c)
  PROVE  Coherent'
<1>1. CASE BulkLock(c) \/ BulkUnlock(c)
  <2>1. /\ pc[c] \in {"bLock", "bUnlock"}
        /\ \E p \in {"bApply", "idle"} : pc' = [pc EXCEPT ![c] = p]
        /\ UNCHANGED <<packages, count, countTime, countLock, snap>>
    BY <1>1 DEF BulkLock, BulkUnlock, At, Goto, db, counter, local
  <2>2. /\ pc'[c] \in {"bApply", "idle"}
        /\ \A d \in Procs : d # c => pc'[d] = pc[d]
    BY <2>1 DEF Typed, TypeOK
  <2> QED BY <2>1, <2>2, CoherentKept DEF Counting, Unannounced, At
<1>2. CASE BulkApply(c)
  <2> DEFINE new == todo[c] \ packages
  <2>1. CASE new = {}
    <3>1. /\ pc[c] = "bApply" /\ pc' = [pc EXCEPT ![c] = "bUnlock"]
          /\ UNCHANGED <<packages, count, countTime, countLock, snap>>
      BY <1>2, <2>1 DEF BulkApply, At, Goto, counter, locks, local
    <3>2. pc'[c] = "bUnlock" /\ \A d \in Procs : d # c => pc'[d] = pc[d]
      BY <3>1 DEF Typed, TypeOK
    <3> QED BY <3>1, <3>2, CoherentKept DEF Counting, Unannounced, At
  <2>2. CASE new # {}
    <3>1. pc[c] = "bApply" /\ pc' = [pc EXCEPT ![c] = "bInvalidate"] /\ countLock' = countLock
      BY <1>2, <2>2 DEF BulkApply, At, Goto, locks
    <3> QED BY <3>1, CoherentWrite
  <2> QED BY <2>1, <2>2
<1>3. CASE BulkInvalidate(c)
  <2>1. /\ pc[c] = "bInvalidate" /\ pc' = [pc EXCEPT ![c] = "bUnlock"]
        /\ countLock = None /\ countLock' = countLock /\ countTime' = "zero"
    BY <1>3 DEF BulkInvalidate, At, Goto, locks
  <2> QED BY <2>1, CoherentInvalidate
<1> QED BY <1>1, <1>2, <1>3 DEF BulkStep

LEMMA CoherentLookup ==
  ASSUME Typed, Coherent, NEW c \in Procs, LookupStep(c)
  PROVE  Coherent'
<1>1. /\ pc[c] \in {"lMem", "lDb", "lFill"}
      /\ \E p \in {"lDb", "lFill", "idle"} : pc' = [pc EXCEPT ![c] = p]
      /\ UNCHANGED <<packages, count, countTime, countLock, snap>>
  BY DEF LookupStep, LookupMem, LookupDb, LookupFill, At, Goto, db, counter, locks
<1>2. /\ pc'[c] \in {"lDb", "lFill", "idle"}
      /\ \A d \in Procs : d # c => pc'[d] = pc[d]
  BY <1>1 DEF Typed, TypeOK
<1> QED BY <1>1, <1>2, CoherentKept DEF Counting, Unannounced, At

\* After a restart nobody is counting and nothing is cached.
LEMMA CoherentRestart ==
  ASSUME Typed, Coherent, Stop \/ Crash
  PROVE  Coherent'
<1>1. countTime' = "zero" /\ \A d \in Procs : pc'[d] = "idle"
  BY DEF Stop, Crash, Forget, Quiet, At
<1>2. \A d \in Procs : countLock' # d
  BY <1>1, ConstantsAssumption
  DEF Stop, Crash, Quiet, At, locks, Coherent, CountOwned, Counting
<1> QED BY <1>1, <1>2 DEF Coherent, CountOwned, SnapCurrent, CountCoherent, Counting, At

LEMMA CoherentNext == Typed /\ Coherent /\ [Next]_vars => Coherent'
<1> SUFFICES ASSUME Typed, Coherent, [Next]_vars PROVE Coherent'
  OBVIOUS
<1>1. ASSUME NEW c \in Procs, ProcStep(c) PROVE Coherent'
  BY <1>1, CoherentCount, CoherentUpdate, CoherentBulk, CoherentLookup DEF ProcStep
<1>2. CASE CountAges
  BY <1>2
  DEF CountAges, Coherent, CountOwned, SnapCurrent, CountCoherent, Unannounced, At, db, locks, local
<1>3. CASE UNCHANGED vars
  BY <1>3 DEF vars, Coherent, CountOwned, SnapCurrent, CountCoherent, Unannounced, At
<1> QED BY <1>1, <1>2, <1>3, CoherentCall, CoherentRestart DEF Next

\* No interleaving of counts and stores leaves a stale count to be served: the
\* iterator is taken and the count stored inside the lock that writers need to
\* invalidate it.
THEOREM CountIsCoherent == Spec => []CountCoherent
<1>1. Coherent => CountCoherent
  BY DEF Coherent
<1> QED BY <1>1, TypedAlways, CoherentInit, CoherentNext, PTL DEF Spec

-----------------------------------------------------------------------------
(* The memory cache and the mappings.                                      *)

LEMMA RememberBounds ==
  ASSUME NEW p \in Hashed, mem \in SUBSET Hashed, MemBounded, Remember(p)
  PROVE  MemBounded'
<1>1. IsFiniteSet(mem) /\ Cardinality(mem) \in Nat
  BY CardinalityIsNat, ConstantsAssumption
<1>2. CASE Cardinality(mem) >= MemLimit
  <2>1. mem' = {p}
    BY <1>2 DEF Remember
  <2>2. Cardinality({p}) = 1
    BY FS_Singleton
  <2>3. 1 <= MemLimit
    BY ConstantsAssumption
  <2> QED BY <2>1, <2>2, <2>3 DEF MemBounded
<1>3. CASE Cardinality(mem) < MemLimit
  <2>1. mem' = mem \cup {p}
    BY <1>1, <1>3, ConstantsAssumption DEF Remember
  <2>2. Cardinality(mem \cup {p}) <= Cardinality(mem) + 1
    <3>1. Cardinality(mem \cup {p}) = IF p \in mem THEN Cardinality(mem) ELSE Cardinality(mem) + 1
      BY <1>1, FS_AddElement
    <3> QED BY <1>1, <3>1
  <2>3. Cardinality(mem \cup {p}) \in Nat
    BY <1>1, FS_AddElement, FS_CardinalityType
  <2> QED BY <1>1, <1>3, <2>1, <2>2, <2>3, ConstantsAssumption DEF MemBounded
<1> QED BY <1>1, <1>2, <1>3, ConstantsAssumption

\* Updates and lookups keep the memory cache within its limit.
THEOREM MemoryIsBounded == Spec => []MemBounded
<1>1. Init => MemBounded
  BY FS_EmptySet, ConstantsAssumption DEF Init, MemBounded
<1>2. Typed /\ MemBounded /\ [Next]_vars => MemBounded'
  <2> SUFFICES ASSUME Typed, MemBounded, [Next]_vars PROVE MemBounded'
    OBVIOUS
  <2>1. ASSUME NEW c \in Procs, UpdateMem(c) \/ LookupFill(c) PROVE MemBounded'
    <3>1. cur[c] \in Hashed /\ mem \in SUBSET Hashed /\ Remember(cur[c])
      BY <2>1 DEF UpdateMem, LookupFill, At, Typed, TypeOK, CurFits
    <3> QED BY <3>1, RememberBounds
  <2>2. CASE Stop \/ Crash
    BY <2>2, FS_EmptySet, ConstantsAssumption DEF Stop, Crash, Forget, MemBounded
  <2>3. ASSUME mem' = mem PROVE MemBounded'
    BY <2>3 DEF MemBounded
  <2>4. ASSUME NEW c \in Procs, CallCount(c) \/ CallUpdate(c) \/ CallBulk(c) \/ CallLookup(c)
        PROVE mem' = mem
    BY <2>4 DEF CallCount, CallUpdate, CallBulk, CallLookup, Call, maps
  <2>5. ASSUME NEW c \in Procs, CountStep(c) \/ BulkStep(c) PROVE mem' = mem
    BY <2>5 DEF CountStep, CountLock, CountCheck, CountIter, CountStore, CountUnlock,
                BulkStep, BulkLock, BulkApply, BulkInvalidate, BulkUnlock, maps
  <2>6. ASSUME NEW c \in Procs, UpdateStep(c), ~UpdateMem(c) PROVE mem' = mem
    BY <2>6 DEF UpdateStep, UpdateLock, UpdateLoop, UpdateDone, UpdateStore, UpdateInvalidate,
                UpdateBatch, UpdateUnlock, maps
  <2>7. ASSUME NEW c \in Procs, LookupStep(c), ~LookupFill(c) PROVE mem' = mem
    BY <2>7 DEF LookupStep, LookupMem, LookupDb, maps
  <2>8. CASE CountAges \/ UNCHANGED vars
    BY <2>8, <2>3 DEF CountAges, vars, maps
  <2> QED
    BY <2>1, <2>2, <2>3, <2>4, <2>5, <2>6, <2>7, <2>8 DEF Next, ProcStep
<1> QED BY <1>1, <1>2, TypedAlways, PTL DEF Spec

\* A goroutine that has stored p and not yet handed its mapping on.
HandingOn(c, p) == cur[c] = p /\ pc[c] \in {"uInvalidate", "uMem", "uBatch"}

\* Steps that add no package, drop no mapping, and of a goroutine not handing on.
LEMMA MappingKeptByOthers ==
  ASSUME Typed, MappingNeverLost, NEW c \in Procs,
         packages' = packages, hashes \cup batch \subseteq hashes' \cup batch',
         \A d \in Procs : d # c => pc'[d] = pc[d] /\ cur'[d] = cur[d],
         \A p \in Hashed : HandingOn(c, p) => HandingOn(c, p)' \/ p \in hashes' \cup batch'
  PROVE  MappingNeverLost'
<1> SUFFICES ASSUME NEW p \in packages \cap Hashed, p \notin hashes' \cup batch'
             PROVE  \E d \in Procs : HandingOn(d, p)'
  BY DEF MappingNeverLost, HandingOn
<1>1. PICK d \in Procs : HandingOn(d, p)
  BY DEF MappingNeverLost, HandingOn
<1>2. HandingOn(d, p)'
  BY <1>1 DEF HandingOn
<1> QED BY <1>2

\* Only a crash can lose a mapping.
LEMMA MappingNext == Typed /\ MappingNeverLost /\ [Next]_vars => MappingNeverLost' \/ Crash
<1> SUFFICES ASSUME Typed, MappingNeverLost, [Next]_vars, ~Crash PROVE MappingNeverLost'
  OBVIOUS
<1>1. ASSUME NEW c \in Procs, CallCount(c) \/ CallUpdate(c) \/ CallBulk(c) \/ CallLookup(c)
      PROVE MappingNeverLost'
  <2>1. /\ pc[c] = "idle" /\ UNCHANGED <<packages, hashes, batch>>
        /\ \A d \in Procs : d # c => pc'[d] = pc[d] /\ cur'[d] = cur[d]
    BY <1>1 DEF CallCount, CallUpdate, CallBulk, CallLookup, Call, At, Goto, db, maps,
                Typed, TypeOK
  <2> QED BY <2>1, MappingKeptByOthers DEF HandingOn
<1>2. ASSUME NEW c \in Procs, CountStep(c) \/ LookupStep(c) PROVE MappingNeverLost'
  <2>1. /\ UNCHANGED <<packages, hashes, batch, cur>>
        /\ pc[c] \notin {"uInvalidate", "uMem", "uBatch"}
        /\ \A d \in Procs : d # c => pc'[d] = pc[d]
    BY <1>2 DEF CountStep, CountLock, CountCheck, CountIter, CountStore, CountUnlock,
                LookupStep, LookupMem, LookupDb, LookupFill, At, Goto, db, maps, local,
                Typed, TypeOK
  <2> QED BY <2>1, MappingKeptByOthers DEF HandingOn
<1>3. ASSUME NEW c \in Procs, UpdateLock(c) \/ UpdateLoop(c) \/ UpdateDone(c) \/ UpdateUnlock(c)
      PROVE MappingNeverLost'
  <2>1. /\ UNCHANGED <<packages, hashes, batch>>
        /\ pc[c] \notin {"uInvalidate", "uMem", "uBatch"}
        /\ \A d \in Procs : d # c => pc'[d] = pc[d] /\ cur'[d] = cur[d]
    BY <1>3 DEF UpdateLock, UpdateLoop, UpdateDone, UpdateUnlock, At, Goto, db, maps, local,
                Typed, TypeOK
  <2> QED BY <2>1, MappingKeptByOthers DEF HandingOn
<1>4. ASSUME NEW c \in Procs, UpdateStore(c) PROVE MappingNeverLost'
  <2>1. /\ packages' = packages \cup {cur[c]} /\ UNCHANGED <<hashes, batch, cur>>
        /\ pc[c] = "uStore" /\ pc' = [pc EXCEPT ![c] = "uInvalidate"]
    BY <1>4 DEF UpdateStore, At, Goto, maps, local
  <2> QED BY <2>1 DEF MappingNeverLost, Typed, TypeOK
<1>5. ASSUME NEW c \in Procs, UpdateInvalidate(c) \/ UpdateMem(c) PROVE MappingNeverLost'
  <2>1. /\ UNCHANGED <<packages, hashes, batch, cur>>
        /\ cur[c] \in Hashed => pc'[c] \in {"uMem", "uBatch"}
        /\ \A d \in Procs : d # c => pc'[d] = pc[d]
    BY <1>5 DEF UpdateInvalidate, UpdateMem, At, Goto, db, maps, local, Typed, TypeOK
  <2> QED BY <2>1, MappingKeptByOthers DEF HandingOn
<1>6. ASSUME NEW c \in Procs, UpdateBatch(c) PROVE MappingNeverLost'
  <2>1. /\ UNCHANGED <<packages, cur>>
        /\ hashes' \cup batch' = hashes \cup batch \cup {cur[c]}
        /\ \A d \in Procs : d # c => pc'[d] = pc[d]
    BY <1>6 DEF UpdateBatch, FlushIf, Goto, local, Typed, TypeOK
  <2> QED BY <2>1, MappingKeptByOthers DEF HandingOn
<1>7. ASSUME NEW c \in Procs, BulkLock(c) \/ BulkInvalidate(c) \/ BulkUnlock(c)
      PROVE MappingNeverLost'
  <2>1. /\ UNCHANGED <<packages, hashes, batch, cur>>
        /\ pc[c] \notin {"uInvalidate", "uMem", "uBatch"}
        /\ \A d \in Procs : d # c => pc'[d] = pc[d]
    BY <1>7 DEF BulkLock, BulkInvalidate, BulkUnlock, At, Goto, db, maps, local, Typed, TypeOK
  <2> QED BY <2>1, MappingKeptByOthers DEF HandingOn
<1>8. ASSUME NEW c \in Procs, BulkApply(c) PROVE MappingNeverLost'
  <2>1. /\ packages' = packages \cup (todo[c] \ packages)
        /\ hashes' = hashes \cup ((todo[c] \ packages) \cap Hashed)
        /\ UNCHANGED <<batch, cur>>
        /\ pc[c] = "bApply"
        /\ \A d \in Procs : d # c => pc'[d] = pc[d]
    BY <1>8 DEF BulkApply, At, Goto, maps, local, Typed, TypeOK
  <2> QED BY <2>1 DEF MappingNeverLost
<1>9. CASE Stop
  <2>1. /\ packages' = packages /\ hashes' = hashes \cup batch
        /\ \A d \in Procs : pc[d] = "idle"
    BY <1>9 DEF Stop, Quiet, At
  <2> QED BY <2>1 DEF MappingNeverLost
<1>10. CASE CountAges \/ UNCHANGED vars
  BY <1>10 DEF CountAges, vars, db, maps, local, MappingNeverLost
<1> QED
  BY <1>1, <1>2, <1>3, <1>4, <1>5, <1>6, <1>7, <1>8, <1>9, <1>10
  DEF Next, ProcStep, UpdateStep, BulkStep

\* Crashes are counted.
LEMMA CrashesCounted == Typed /\ [Next]_vars => crashes' \in Nat /\ crashes' >= crashes
<1> SUFFICES ASSUME Typed, [Next]_vars PROVE crashes' \in Nat /\ crashes' >= crashes
  OBVIOUS
<1>1. crashes \in Nat
  BY ConstantsAssumption DEF Typed, TypeOK
<1>2. CASE Crash
  BY <1>1, <1>2 DEF Crash
<1>3. ASSUME NEW c \in Procs, ProcStep(c) PROVE crashes' = crashes
  BY <1>3
  DEF ProcStep, CountStep, CountLock, CountCheck, CountIter, CountStore, CountUnlock,
      UpdateStep, UpdateLock, UpdateLoop, UpdateDone, UpdateStore, UpdateInvalidate, UpdateMem,
      UpdateBatch, UpdateUnlock, BulkStep, BulkLock, BulkApply, BulkInvalidate, BulkUnlock,
      LookupStep, LookupMem, LookupDb, LookupFill, budget
<1>4. ASSUME NEW c \in Procs, CallCount(c) \/ CallUpdate(c) \/ CallBulk(c) \/ CallLookup(c)
      PROVE crashes' = crashes
  BY <1>4 DEF CallCount, CallUpdate, CallBulk, CallLookup, Call
<1>5. CASE CountAges \/ Stop \/ UNCHANGED vars
  BY <1>1, <1>5 DEF CountAges, Stop, budget, vars
<1> QED BY <1>1, <1>2, <1>3, <1>4, <1>5 DEF Next

\* Unless the process died, every package of the index that has a hash keeps its
\* mapping in the database or in the batch, across clean restarts.
THEOREM MappingsAreKept == Spec => []MappingKept
<1>1. Init => MappingKept
  BY DEF Init, MappingKept, MappingNeverLost
<1>2. Typed /\ MappingKept /\ [Next]_vars => MappingKept'
  <2> SUFFICES ASSUME Typed, MappingKept, [Next]_vars, crashes' = 0 PROVE MappingNeverLost'
    BY DEF MappingKept
  <2>1. crashes \in Nat
    BY ConstantsAssumption DEF Typed, TypeOK
  <2>2. crashes = 0
    BY <2>1, CrashesCounted
  <2>3. ~Crash
    BY <2>2 DEF Crash
  <2> QED BY <2>2, <2>3, MappingNext DEF MappingKept
<1> QED BY <1>1, <1>2, TypedAlways, PTL DEF Spec

=============================================================================
