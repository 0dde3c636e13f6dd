-------------------------- MODULE KeyManagerProofs --------------------------
(***************************************************************************)
(* Proofs about KeyManager, for any names, goroutines and keyservers: a     *)
(* known key is on disk and whole, and a good key is never fetched over.    *)
(***************************************************************************)
EXTENDS KeyManager, TLAPS

\* Past the second look of FetchKey.
Writing == {"fTry", "fWrite"}

\* The lock is held by the goroutine past the second look, and by no other.
LockOwned == \A c \in Procs : pc[c] \in Writing <=> lock = c

\* The key in hand is unknown until it is written.
KeyInHandUnknown == \A c \in Procs : pc[c] \in Writing => cache[key[c]] = "none"

\* Without a fault the only cut file is the one that is being written.
CutIsInHand ==
  faults = 0 => \A n \in Names : file[n] = "cut" => \E c \in Procs : At(c, "fWrite") /\ key[c] = n

Sound == LockOwned /\ KeyInHandUnknown /\ KnownIsOnDisk /\ CutIsInHand

-----------------------------------------------------------------------------
(* Types.                                                                   *)

LEMMA LoadedType == TypeOK => \A S : Loaded(S) \in [Names -> Ages \cup {"none"}]
BY DEF TypeOK, Loaded, OnDisk

LEMMA TypedInit == Init => TypeOK
<1> SUFFICES ASSUME Init PROVE TypeOK
  OBVIOUS
<1>1. file \in [Names -> {"none", "cut", "whole"}] /\ fileAge \in [Names -> Ages]
  BY DEF Init
<1>2. cache \in [Names -> Ages \cup {"none"}]
  BY <1>1 DEF Init, Loaded, OnDisk
<1>3. asked \in [Procs -> Names] /\ key \in [Procs -> Names]
  BY ConstantsAssumption DEF Init
<1>4. calls \in 0..MaxCalls /\ faults \in 0..MaxFaults /\ tries \in [Procs -> 0..(Servers - 1)]
  BY ConstantsAssumption DEF Init
<1> QED BY <1>1, <1>2, <1>3, <1>4 DEF Init, TypeOK, PC

LEMMA TypedCall ==
  ASSUME TypeOK, NEW c \in Procs, Call(c)
  PROVE  TypeOK'
<1>1. PICK op \in AllOps, first \in PC : Start(c, op, first)
  BY DEF Call, AllOps, PC
<1>2. calls' \in 0..MaxCalls
  BY <1>1, ConstantsAssumption DEF Start, TypeOK
<1> QED BY <1>1, <1>2 DEF Start, Goto, TypeOK, disk, fetching

LEMMA TypedFetch ==
  ASSUME TypeOK, NEW c \in Procs, FetchStep(c)
  PROVE  TypeOK'
<1> USE DEF TypeOK, PC, Goto, FetchReturns, disk, fetching, bounds
<1>1. CASE FetchLook(c)
  BY <1>1, ConstantsAssumption DEF FetchLook, Known, Variants
<1>2. CASE FetchStat(c)
  BY <1>2 DEF FetchStat
<1>3. CASE FetchLock(c)
  <2>1. 0 \in 0..(Servers - 1)
    BY ConstantsAssumption
  <2> QED BY <1>3, <2>1 DEF FetchLock
<1>4. ASSUME NextServer(c)
      PROVE  /\ tries' \in [Procs -> 0..(Servers - 1)]
             /\ pc' \in [Procs -> PC]
             /\ result' \in [Procs -> {"none", "ok", "error", "yes", "no", "cut", "whole"}]
             /\ lock' \in Procs \cup {None}
  <2>1. tries[c] + 1 < Servers => tries[c] + 1 \in 0..(Servers - 1)
    BY ConstantsAssumption
  <2> QED BY <1>4, <2>1 DEF NextServer
<1>5. CASE FetchFails(c)
  BY <1>4, <1>5 DEF FetchFails
<1>6. CASE FetchCreates(c)
  BY <1>6 DEF FetchCreates, Ages
<1>7. CASE FetchWriteFails(c)
  <2>1. faults' \in 0..MaxFaults
    BY <1>7, ConstantsAssumption DEF FetchWriteFails
  <2> QED BY <1>4, <1>7, <2>1 DEF FetchWriteFails
<1>8. CASE FetchWrites(c)
  BY <1>8 DEF FetchWrites, Ages
<1> QED BY <1>1, <1>2, <1>3, <1>5, <1>6, <1>7, <1>8 DEF FetchStep

LEMMA TypedCaller ==
  ASSUME TypeOK, NEW c \in Procs, CallerStep(c)
  PROVE  TypeOK'
<1> USE DEF TypeOK, PC, Goto, Return, HasOrFetch, disk, fetching, bounds
<1>1. CASE VerifyHas(c) \/ VerifyAnswer(c)
  BY <1>1 DEF VerifyHas, VerifyAnswer
<1>2. CASE RequestHas(c) \/ RequestRead(c)
  BY <1>2 DEF RequestHas, RequestRead
<1>3. CASE RefreshCollect(c)
  BY <1>3 DEF RefreshCollect
<1>4. CASE RefreshLoop(c)
  BY <1>4 DEF RefreshLoop
<1> QED BY <1>1, <1>2, <1>3, <1>4 DEF CallerStep

LEMMA TypedKeeper ==
  ASSUME TypeOK, NEW c \in Procs, KeeperStep(c)
  PROVE  TypeOK'
<1> USE DEF TypeOK, PC, Goto, Return, disk, fetching, bounds
<1>1. CASE ListRead(c)
  BY <1>1 DEF ListRead, OnDisk
<1>2. CASE ListSwap(c)
  BY <1>2, LoadedType DEF ListSwap
<1>3. CASE Remove(c)
  <2>1. PICK n \in IF Known(asked[c]) = {} THEN {asked[c]} ELSE Known(asked[c]) :
          \/ /\ file' = [file EXCEPT ![n] = "none"]
             /\ fileAge' = [fileAge EXCEPT ![n] = "young"]
             /\ cache' = [m \in Names |-> IF m \in Variants(n) THEN "none" ELSE cache[m]]
             /\ Return(c, "ok")
          \/ /\ n \in OnDisk
             /\ Return(c, "error") /\ UNCHANGED <<disk, cache>>
    BY <1>3 DEF Remove
  <2> QED BY <1>3, <2>1 DEF Remove, Ages
<1> QED BY <1>1, <1>2, <1>3 DEF KeeperStep

LEMMA TypedNext == TypeOK /\ [Next]_vars => TypeOK'
<1> SUFFICES ASSUME TypeOK, [Next]_vars PROVE TypeOK'
  OBVIOUS
<1>1. ASSUME NEW n \in Names, Expire(n) PROVE TypeOK'
  BY <1>1 DEF Expire, TypeOK, Ages, fetching, bounds
<1>2. CASE Crash
  <2>1. faults' \in 0..MaxFaults
    BY <1>2, ConstantsAssumption DEF Crash, TypeOK
  <2> QED BY <1>2, <2>1, LoadedType DEF Crash, TypeOK, PC, disk, fetching
<1>3. CASE UNCHANGED vars
  BY <1>3 DEF vars, TypeOK
<1> QED BY <1>1, <1>2, <1>3, TypedCall, TypedFetch, TypedCaller, TypedKeeper DEF Next, Step

\* The key manager keeps its types, the number of keyservers asked included.
THEOREM TypeCorrect == Spec => []TypeOK
BY TypedInit, TypedNext, PTL DEF Spec

-----------------------------------------------------------------------------
(* The lock and the key in hand.                                            *)

LEMMA SoundInit == Init => Sound
<1> SUFFICES ASSUME Init PROVE Sound
  OBVIOUS
<1>1. KnownIsOnDisk
  BY DEF Init, Loaded, KnownIsOnDisk
<1>2. CutIsInHand
  BY DEF Init, CutIsInHand
<1>3. LockOwned /\ KeyInHandUnknown
  BY ConstantsAssumption DEF Init, LockOwned, KeyInHandUnknown, Writing
<1> QED BY <1>1, <1>2, <1>3 DEF Sound

\* Steps that leave keys alone and do not enter or leave FetchKey's last part.
LEMMA SoundElsewhere ==
  ASSUME TypeOK, Sound, NEW c \in Procs,
         UNCHANGED <<file, cache, lock, faults>>,
         pc[c] \notin Writing, pc'[c] \notin Writing,
         \A d \in Procs \ {c} : pc'[d] = pc[d] /\ key'[d] = key[d]
  PROVE  Sound'
<1>1. LockOwned'
  BY DEF Sound, LockOwned
<1>2. KeyInHandUnknown'
  BY DEF Sound, KeyInHandUnknown
<1>3. KnownIsOnDisk'
  BY DEF Sound, KnownIsOnDisk, OnDisk
<1>4. CutIsInHand'
  <2>1. \A d \in Procs : At(d, "fWrite") => d # c
    BY DEF At, Writing
  <2> QED BY <2>1 DEF Sound, CutIsInHand, At
<1> QED BY <1>1, <1>2, <1>3, <1>4 DEF Sound

\* A keyserver failed, and the write too if there was a fault: its owner keeps the
\* lock or releases it, and no key is touched.
LEMMA SoundNextServer ==
  ASSUME TypeOK, Sound, NEW c \in Procs, NextServer(c),
         pc[c] \in Writing,
         UNCHANGED <<file, cache, key, after>>,
         \/ At(c, "fTry") /\ faults' = faults
         \/ faults' # 0
  PROVE  Sound'
<1>1. /\ \A d \in Procs \ {c} : pc'[d] = pc[d] /\ pc[d] \notin Writing
      /\ lock = c
      /\ \/ pc'[c] = "fTry" /\ lock' = c
         \/ pc'[c] \notin Writing /\ lock' = None
  BY DEF NextServer, FetchReturns, Goto, TypeOK, Sound, LockOwned, Writing
<1>2. LockOwned'
  BY <1>1, ConstantsAssumption DEF LockOwned, Writing
<1>3. KeyInHandUnknown'
  BY <1>1 DEF Sound, KeyInHandUnknown
<1>4. KnownIsOnDisk'
  BY DEF Sound, KnownIsOnDisk, OnDisk
<1>5. CutIsInHand'
  <2> SUFFICES ASSUME faults' = 0 PROVE CutIsInHand'
    BY DEF CutIsInHand
  <2>1. At(c, "fTry") /\ faults = 0
    OBVIOUS
  <2>2. \A d \in Procs : ~At(d, "fWrite")
    BY <1>1, <2>1 DEF At, Writing
  <2> QED BY <2>1, <2>2 DEF Sound, CutIsInHand
<1> QED BY <1>2, <1>3, <1>4, <1>5 DEF Sound

LEMMA SoundFetch ==
  ASSUME TypeOK, Sound, NEW c \in Procs, FetchStep(c)
  PROVE  Sound'
<1>1. CASE FetchLook(c) \/ FetchStat(c)
  <2>1. /\ UNCHANGED <<file, cache, lock, faults>>
        /\ pc[c] \notin Writing /\ pc'[c] \notin Writing
        /\ \A d \in Procs \ {c} : pc'[d] = pc[d] /\ key'[d] = key[d]
    BY <1>1 DEF FetchLook, FetchStat, FetchReturns, Goto, At, Writing, TypeOK, disk, fetching, bounds
  <2> QED BY <2>1, SoundElsewhere
<1>2. CASE FetchLock(c) /\ lock' = lock
  <2>1. /\ UNCHANGED <<file, cache, lock, faults>>
        /\ pc[c] \notin Writing /\ pc'[c] \notin Writing
        /\ \A d \in Procs \ {c} : pc'[d] = pc[d] /\ key'[d] = key[d]
    BY <1>2, ConstantsAssumption
    DEF FetchLock, FetchReturns, Goto, At, Writing, TypeOK, disk, bounds
  <2> QED BY <2>1, SoundElsewhere
<1>3. CASE FetchLock(c) /\ lock' # lock
  <2>1. /\ Known(key[c]) \cap OnDisk = {}
        /\ pc[c] = "fLock" /\ pc'[c] = "fTry" /\ lock = None /\ lock' = c
        /\ \A d \in Procs \ {c} : pc'[d] = pc[d]
        /\ UNCHANGED <<file, cache, key, faults>>
    BY <1>3 DEF FetchLock, Goto, At, TypeOK, disk, bounds
  <2>2. \A d \in Procs \ {c} : pc'[d] \notin Writing
    BY <2>1, ConstantsAssumption DEF Sound, LockOwned
  <2>3. cache[key[c]] = "none"
    <3>1. key[c] \in Names /\ key[c] \in Variants(key[c])
      BY DEF TypeOK, Variants
    <3> QED BY <2>1, <3>1 DEF Known, Sound, KnownIsOnDisk
  <2>4. LockOwned' /\ KeyInHandUnknown'
    BY <2>1, <2>2, <2>3 DEF LockOwned, KeyInHandUnknown, Writing
  <2>5. KnownIsOnDisk'
    BY <2>1 DEF Sound, KnownIsOnDisk, OnDisk
  <2>6. CutIsInHand'
    BY <2>1 DEF Sound, CutIsInHand, At
  <2> QED BY <2>4, <2>5, <2>6 DEF Sound
<1>4. CASE FetchFails(c)
  BY <1>4, SoundNextServer DEF FetchFails, disk, bounds, At, Writing
<1>5. CASE FetchWriteFails(c)
  <2>1. faults' # 0
    BY <1>5, ConstantsAssumption DEF FetchWriteFails, TypeOK
  <2> QED BY <1>5, <2>1, SoundNextServer DEF FetchWriteFails, disk, At, Writing
<1>6. CASE FetchCreates(c)
  <2>1. /\ pc[c] = "fTry" /\ pc'[c] = "fWrite"
        /\ \A d \in Procs \ {c} : pc'[d] = pc[d]
        /\ file' = [file EXCEPT ![key[c]] = "cut"]
        /\ UNCHANGED <<cache, lock, key, faults>>
    BY <1>6 DEF FetchCreates, Goto, At, TypeOK, fetching, bounds
  <2>2. LockOwned' /\ KeyInHandUnknown'
    BY <2>1 DEF Sound, LockOwned, KeyInHandUnknown, Writing
  <2>3. KnownIsOnDisk'
    BY <2>1 DEF Sound, KnownIsOnDisk, OnDisk, TypeOK
  <2>4. CutIsInHand'
    BY <2>1 DEF Sound, CutIsInHand, At, TypeOK
  <2> QED BY <2>2, <2>3, <2>4 DEF Sound
<1>7. CASE FetchWrites(c)
  <2>1. /\ pc[c] = "fWrite" /\ pc'[c] \notin Writing
        /\ \A d \in Procs \ {c} : pc'[d] = pc[d]
        /\ file' = [file EXCEPT ![key[c]] = "whole"]
        /\ cache' = [cache EXCEPT ![key[c]] = "young"]
        /\ lock' = None
        /\ UNCHANGED <<key, faults>>
    BY <1>7 DEF FetchWrites, FetchReturns, Goto, At, TypeOK, Writing, fetching, bounds
  <2>2. \A d \in Procs \ {c} : pc[d] \notin Writing
    BY <2>1 DEF Sound, LockOwned, Writing
  <2>3. LockOwned' /\ KeyInHandUnknown'
    BY <2>1, <2>2, ConstantsAssumption DEF LockOwned, KeyInHandUnknown
  <2>4. KnownIsOnDisk'
    BY <2>1 DEF Sound, KnownIsOnDisk, OnDisk, TypeOK
  <2>5. CutIsInHand'
    BY <2>1, <2>2 DEF Sound, CutIsInHand, At, TypeOK, Writing
  <2> QED BY <2>3, <2>4, <2>5 DEF Sound
<1> QED BY <1>1, <1>2, <1>3, <1>4, <1>5, <1>6, <1>7 DEF FetchStep

LEMMA SoundCaller ==
  ASSUME TypeOK, Sound, NEW c \in Procs, Call(c) \/ CallerStep(c)
  PROVE  Sound'
<1>1. CASE CallerStep(c)
  <2>1. /\ UNCHANGED <<file, cache, lock, faults>>
        /\ pc[c] \notin Writing /\ pc'[c] \notin Writing
        /\ \A d \in Procs \ {c} : pc'[d] = pc[d] /\ key'[d] = key[d]
    BY <1>1
    DEF CallerStep, VerifyHas, VerifyAnswer, RequestHas, RequestRead, RefreshCollect, RefreshLoop,
        HasOrFetch, Return, Goto, At, Writing, TypeOK, disk, fetching, bounds
  <2> QED BY <2>1, SoundElsewhere
<1>2. CASE Call(c)
  <2>1. PICK op \in AllOps, first \in PC \ Writing : Start(c, op, first)
    BY <1>2 DEF Call, AllOps, PC, Writing
  <2>2. /\ UNCHANGED <<file, cache, lock, faults>>
        /\ pc[c] \notin Writing /\ pc'[c] \notin Writing
        /\ \A d \in Procs \ {c} : pc'[d] = pc[d] /\ key'[d] = key[d]
    BY <2>1 DEF Start, Goto, At, Writing, TypeOK, disk, fetching
  <2> QED BY <2>2, SoundElsewhere
<1> QED BY <1>1, <1>2

\* A listing or a removal works while nobody holds the lock.
LEMMA SoundKeeper ==
  ASSUME TypeOK, Sound, NEW c \in Procs, KeeperStep(c)
  PROVE  Sound'
<1>1. CASE ListRead(c)
  <2>1. /\ UNCHANGED <<file, cache, lock, faults>>
        /\ pc[c] \notin Writing /\ pc'[c] \notin Writing
        /\ \A d \in Procs \ {c} : pc'[d] = pc[d] /\ key'[d] = key[d]
    BY <1>1 DEF ListRead, Goto, At, Writing, TypeOK, disk, fetching, bounds
  <2> QED BY <2>1, SoundElsewhere
<1>2. CASE ListSwap(c) \/ Remove(c)
  <2>1. /\ lock = None /\ lock' = None /\ faults' = faults
        /\ pc[c] \notin Writing /\ pc'[c] \notin Writing
        /\ \A d \in Procs \ {c} : pc'[d] = pc[d]
    BY <1>2 DEF ListSwap, Remove, Return, Goto, At, Writing, TypeOK, disk, bounds
  <2>2. \A d \in Procs : pc[d] \notin Writing /\ pc'[d] \notin Writing
    BY <2>1, ConstantsAssumption DEF Sound, LockOwned
  <2>3. LockOwned' /\ KeyInHandUnknown'
    BY <2>1, <2>2, ConstantsAssumption DEF LockOwned, KeyInHandUnknown
  <2>4. \A n \in Names : file'[n] \in {file[n], "none"}
    BY <1>2 DEF ListSwap, Remove, TypeOK, disk
  <2>5. CutIsInHand'
    BY <2>1, <2>2, <2>4 DEF Sound, CutIsInHand, At, Writing, TypeOK
  <2>6. ListSwap(c) => KnownIsOnDisk'
    BY DEF ListSwap, Loaded, KnownIsOnDisk, OnDisk, disk
  <2>7. ASSUME Remove(c) PROVE KnownIsOnDisk'
    <3>1. CASE UNCHANGED <<disk, cache>>
      BY <3>1 DEF Sound, KnownIsOnDisk, OnDisk, disk
    <3>2. CASE ~UNCHANGED <<disk, cache>>
      <4>1. PICK n \in Names :
              /\ file' = [file EXCEPT ![n] = "none"]
              /\ cache' = [m \in Names |-> IF m \in Variants(n) THEN "none" ELSE cache[m]]
        BY <2>7, <3>2 DEF Remove, Known, Variants, TypeOK
      <4>2. n \in Variants(n)
        BY DEF Variants
      <4> QED BY <4>1, <4>2 DEF Sound, KnownIsOnDisk, OnDisk, TypeOK
    <3> QED BY <3>1, <3>2
  <2>8. KnownIsOnDisk'
    BY <1>2, <2>6, <2>7
  <2> QED BY <2>3, <2>5, <2>8 DEF Sound
<1> QED BY <1>1, <1>2 DEF KeeperStep

LEMMA SoundWorld ==
  ASSUME TypeOK, Sound, (\E n \in Names : Expire(n)) \/ Crash
  PROVE  Sound'
<1>1. ASSUME NEW n \in Names, Expire(n) PROVE Sound'
  <2>1. /\ UNCHANGED <<file, lock, pc, key, faults>>
        /\ \A m \in Names : cache'[m] = "none" <=> cache[m] = "none"
    BY <1>1 DEF Expire, TypeOK, fetching, bounds
  <2>2. LockOwned' /\ CutIsInHand'
    BY <2>1 DEF Sound, LockOwned, CutIsInHand, At
  <2>3. KeyInHandUnknown' /\ KnownIsOnDisk'
    BY <2>1 DEF Sound, KeyInHandUnknown, KnownIsOnDisk, OnDisk, TypeOK
  <2> QED BY <2>2, <2>3 DEF Sound
<1>2. CASE Crash
  <2>1. /\ \A c \in Procs : pc'[c] = "idle"
        /\ lock' = None /\ faults' # 0
    BY <1>2, ConstantsAssumption DEF Crash, TypeOK
  <2>2. LockOwned' /\ KeyInHandUnknown' /\ CutIsInHand'
    BY <2>1, ConstantsAssumption DEF LockOwned, KeyInHandUnknown, CutIsInHand, Writing
  <2>3. KnownIsOnDisk'
    BY <1>2 DEF Crash, Loaded, KnownIsOnDisk, OnDisk, disk
  <2> QED BY <2>2, <2>3 DEF Sound
<1> QED BY <1>1, <1>2

LEMMA SoundNext == TypeOK /\ Sound /\ [Next]_vars => Sound'
<1> SUFFICES ASSUME TypeOK, Sound, [Next]_vars PROVE Sound'
  OBVIOUS
<1>1. CASE UNCHANGED vars
  BY <1>1 DEF vars, Sound, LockOwned, KeyInHandUnknown, KnownIsOnDisk, CutIsInHand, OnDisk, At
<1> QED BY <1>1, SoundFetch, SoundCaller, SoundKeeper, SoundWorld DEF Next, Step

LEMMA SoundAlways == Spec => []Sound
BY TypeCorrect, SoundInit, SoundNext, PTL DEF Spec

-----------------------------------------------------------------------------
(* What follows.                                                            *)

\* A key that keyCache knows has its file, whoever fetches, lists and removes.
THEOREM KnownKeysAreOnDisk == Spec => []KnownIsOnDisk
<1>1. Sound => KnownIsOnDisk
  BY DEF Sound
<1> QED BY <1>1, SoundAlways, PTL

\* Without a fault a known key is whole once nobody is writing.
THEOREM KnownKeysAreWhole == Spec => []KnownIsWhole
<1>1. TypeOK /\ Sound => KnownIsWhole
  <2> SUFFICES ASSUME TypeOK, Sound, faults = 0, lock = None,
                      NEW n \in Names, cache[n] # "none"
               PROVE  file[n] = "whole"
    BY DEF KnownIsWhole
  <2>1. file[n] # "none"
    BY DEF Sound, KnownIsOnDisk, OnDisk
  <2>2. file[n] # "cut"
    BY ConstantsAssumption DEF Sound, CutIsInHand, LockOwned, Writing, At
  <2> QED BY <2>1, <2>2 DEF TypeOK
<1> QED BY <1>1, TypeCorrect, SoundAlways, PTL

\* FetchKey never opens the file of a good key that has not expired for writing.
THEOREM GoodKeysStay == Spec => GoodKeyStays
<1> DEFINE Kept == \A n \in Names : cache[n] = "young" /\ file[n] = "whole" => file'[n] # "cut"
<1>1. TypeOK /\ Sound /\ [Next]_vars => [Kept]_vars
  <2> SUFFICES ASSUME TypeOK, Sound, Next,
                      NEW n \in Names, cache[n] = "young", file[n] = "whole", file'[n] = "cut"
               PROVE  FALSE
    OBVIOUS
  <2>1. PICK c \in Procs : FetchCreates(c)
    <3>1. ASSUME NEW c \in Procs, Call(c) \/ CallerStep(c) PROVE file' = file
      BY <3>1
      DEF Call, Start, CallerStep, VerifyHas, VerifyAnswer, RequestHas, RequestRead, RefreshCollect,
          RefreshLoop, HasOrFetch, disk
    <3>2. ASSUME NEW c \in Procs, KeeperStep(c) PROVE file'[n] # "cut"
      BY <3>2 DEF KeeperStep, ListRead, ListSwap, Remove, disk, TypeOK
    <3>3. ASSUME NEW c \in Procs, FetchStep(c), ~FetchCreates(c) PROVE file'[n] # "cut"
      BY <3>3
      DEF FetchStep, FetchLook, FetchStat, FetchLock, FetchFails, FetchWriteFails, FetchWrites,
          disk, TypeOK
    <3>4. (\E m \in Names : Expire(m)) \/ Crash => file' = file
      BY DEF Expire, Crash, disk
    <3> QED BY <3>1, <3>2, <3>3, <3>4 DEF Next, Step
  <2>2. n = key[c]
    BY <2>1 DEF FetchCreates, TypeOK
  <2> QED BY <2>1, <2>2 DEF FetchCreates, At, Sound, KeyInHandUnknown, Writing
<1> QED BY <1>1, TypeCorrect, SoundAlways, PTL DEF Spec, GoodKeyStays

=============================================================================
