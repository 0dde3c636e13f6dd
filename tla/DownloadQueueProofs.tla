------------------------- MODULE DownloadQueueProofs -------------------------
(***************************************************************************)
(* Proofs about DownloadQueue, for any tasks, workers, callers of Stop and  *)
(* capacity.  The inductive invariant is built in three layers: what the    *)
(* variables range over, the order of the shutdown, and where tasks are.    *)
(***************************************************************************)
EXTENDS DownloadQueue, FiniteSetTheorems, TLAPS

\* A worker holds a task exactly while its handler runs.
JobWhileHandling == \A w \in Workers : job[w] = None <=> worker[w] # "handling"

Typed == TypeOK /\ JobWhileHandling

\* The callers inside the function that stopOnce runs.
Inside == {"flag", "signal", "wait", "close"}

\* How far the one caller inside stopOnce is decides what is already shut.
StopPhases ==
  /\ \A r, s \in Stoppers : stopper[r] \in Inside /\ stopper[s] \in Inside => r = s
  /\ \A s \in Stoppers :
       /\ stopper[s] \in Inside => stopOnce = "running" /\ ~taskClosed
       /\ stopper[s] \in {"signal", "wait", "close"} => isStopping
       /\ stopper[s] \in {"flag", "signal"} => ~stopClosed
       /\ stopper[s] \in {"wait", "close"} => stopClosed
       /\ stopper[s] = "close" => \A w \in Workers : worker[w] = "exited"
       /\ stopper[s] = "returned" => stopOnce = "done"
       /\ stopper[s] # "panicked"
  /\ stopOnce = "fresh" => ~stopClosed /\ ~taskClosed
  /\ stopOnce = "done" => taskClosed

Shutdown == Typed /\ ShutdownOrder /\ StopPhases

-----------------------------------------------------------------------------
(* Layer one: types.                                                       *)

LEMMA TypedInit == Init => Typed
<1> SUFFICES ASSUME Init PROVE Typed
  OBVIOUS
<1>1. taskCh \in Seq(Tasks) /\ Len(taskCh) <= Capacity
  BY ConstantsAssumption DEF Init
<1>2. submit \in [Tasks -> SubmitState] /\ stopper \in [Stoppers -> StopState]
  BY DEF Init, SubmitState, StopState
<1>3. worker \in [Workers -> WorkerState] /\ job \in [Workers -> Tasks \cup {None}]
  BY DEF Init, WorkerState
<1> QED
  BY <1>1, <1>2, <1>3 DEF Init, Typed, TypeOK, JobWhileHandling

LEMMA SendTyped ==
  ASSUME Typed, NEW t \in Tasks, Send(t)
  PROVE  Typed'
<1>1. taskCh' \in Seq(Tasks) /\ Len(taskCh') <= Capacity
  <2>1. CASE taskClosed
    BY <2>1 DEF Send, Typed, TypeOK
  <2>2. CASE ~taskClosed
    <3>1. taskCh' = Append(taskCh, t) /\ Len(taskCh) < Capacity
      BY <2>2 DEF Send
    <3>2. taskCh \in Seq(Tasks)
      BY DEF Typed, TypeOK
    <3>3. taskCh' \in Seq(Tasks) /\ Len(taskCh') = Len(taskCh) + 1 /\ Len(taskCh) \in Nat
      BY <3>1, <3>2
    <3> QED BY <3>1, <3>3, ConstantsAssumption
  <2> QED BY <2>1, <2>2
<1>3. submit' \in [Tasks -> SubmitState]
  BY DEF Send, Typed, TypeOK, SubmitState
<1>2. UNCHANGED <<taskClosed, stopClosed, stopVars, workVars>>
  BY DEF Send
<1> QED
  BY <1>1, <1>2, <1>3 DEF Typed, TypeOK, JobWhileHandling, stopVars, workVars

LEMMA TypedNext == Typed /\ [Next]_vars => Typed'
<1> SUFFICES ASSUME Typed, [Next]_vars PROVE Typed'
  OBVIOUS
<1> USE DEF Typed, TypeOK, JobWhileHandling, chanVars, stopVars, workVars
<1>1. ASSUME NEW w \in Workers, Spawn(w) PROVE Typed'
  BY <1>1 DEF Spawn, WorkerState
<1>2. ASSUME NEW w \in Workers, Receive(w) PROVE Typed'
  <2>1. Head(taskCh) \in Tasks /\ taskCh' \in Seq(Tasks) /\ Len(taskCh') <= Capacity
    BY <1>2, ConstantsAssumption DEF Receive
  <2> QED BY <1>2, <2>1, ConstantsAssumption DEF Receive, WorkerState
<1>3. ASSUME NEW w \in Workers, HandlerReturns(w) PROVE Typed'
  <2>1. job[w] \in Tasks
    BY <1>3 DEF HandlerReturns
  <2> QED BY <1>3, <2>1 DEF HandlerReturns, WorkerState
<1>4. ASSUME NEW w \in Workers, WorkerExit(w) PROVE Typed'
  BY <1>4 DEF WorkerExit, WorkerState
<1>5. ASSUME NEW t \in Tasks, SubmitCheck(t) \/ SubmitTimeout(t) \/ SubmitRecheck(t)
      PROVE Typed'
  BY <1>5 DEF SubmitCheck, SubmitTimeout, SubmitRecheck, SubmitState
<1>6. ASSUME NEW t \in Tasks, SubmitSend(t) \/ SubmitRetry(t) PROVE Typed'
  <2>1. CASE Send(t)
    BY <2>1, SendTyped
  <2>2. CASE ~Send(t)
    BY <1>6, <2>2 DEF SubmitSend, SubmitRetry, SubmitState
  <2> QED BY <2>1, <2>2
<1>7. ASSUME NEW s \in Stoppers, StopEnter(s) \/ StopLate(s) \/ StopStep(s) PROVE Typed'
  <2>1. UNCHANGED <<taskCh, submit, workVars>>
    BY <1>7 DEF StopEnter, StopLate, StopStep, StopUnblock, SetStopping, CloseStopCh,
                AwaitWorkers, CloseTaskCh
  <2>2. taskClosed' \in BOOLEAN /\ stopClosed' \in BOOLEAN /\ isStopping' \in BOOLEAN
    BY <1>7 DEF StopEnter, StopLate, StopStep, StopUnblock, SetStopping, CloseStopCh,
                AwaitWorkers, CloseTaskCh
  <2>3. stopOnce' \in {"fresh", "running", "done"} /\ stopper' \in [Stoppers -> StopState]
    BY <1>7 DEF StopEnter, StopLate, StopStep, StopUnblock, SetStopping, CloseStopCh,
                AwaitWorkers, CloseTaskCh, StopState
  <2> QED BY <2>1, <2>2, <2>3
<1>8. CASE UNCHANGED vars
  BY <1>8 DEF vars
<1> QED
  BY <1>1, <1>2, <1>3, <1>4, <1>5, <1>6, <1>7, <1>8 DEF Next, WorkerStep, SubmitStep

-----------------------------------------------------------------------------
(* Layer two: the order of the shutdown.                                   *)

LEMMA ShutdownInit == Init => Shutdown
<1> SUFFICES ASSUME Init PROVE Shutdown
  OBVIOUS
<1> QED BY TypedInit DEF Init, Shutdown, ShutdownOrder, StopPhases, Inside

LEMMA ShutdownNext == Shutdown /\ [Next]_vars => Shutdown'
<1> SUFFICES ASSUME Shutdown, [Next]_vars PROVE (ShutdownOrder /\ StopPhases)'
  BY TypedNext DEF Shutdown
<1> USE DEF Shutdown, Typed, TypeOK, ShutdownOrder, StopPhases, Inside, chanVars, stopVars, workVars
<1>1. ASSUME NEW w \in Workers, Spawn(w) PROVE (ShutdownOrder /\ StopPhases)'
  BY <1>1 DEF Spawn
<1>2. ASSUME NEW w \in Workers, Receive(w) \/ HandlerReturns(w)
      PROVE (ShutdownOrder /\ StopPhases)'
  BY <1>2 DEF Receive, HandlerReturns
<1>3. ASSUME NEW w \in Workers, WorkerExit(w) PROVE (ShutdownOrder /\ StopPhases)'
  BY <1>3 DEF WorkerExit
<1>4. ASSUME NEW t \in Tasks, SubmitCheck(t) \/ SubmitStep(t)
      PROVE (ShutdownOrder /\ StopPhases)'
  <2>1. UNCHANGED <<taskClosed, stopClosed, isStopping, stopOnce, stopper, worker>>
    BY <1>4 DEF SubmitCheck, SubmitStep, SubmitSend, SubmitTimeout, SubmitRecheck, SubmitRetry, Send
  <2> QED BY <2>1
<1>5. ASSUME NEW s \in Stoppers, StopEnter(s) PROVE (ShutdownOrder /\ StopPhases)'
  BY <1>5 DEF StopEnter
<1>6. ASSUME NEW s \in Stoppers, StopLate(s) \/ StopUnblock(s)
      PROVE (ShutdownOrder /\ StopPhases)'
  BY <1>6 DEF StopLate, StopUnblock
<1>7. ASSUME NEW s \in Stoppers, SetStopping(s) PROVE (ShutdownOrder /\ StopPhases)'
  BY <1>7 DEF SetStopping
<1>8. ASSUME NEW s \in Stoppers, CloseStopCh(s) PROVE (ShutdownOrder /\ StopPhases)'
  BY <1>8 DEF CloseStopCh
<1>9. ASSUME NEW s \in Stoppers, AwaitWorkers(s) PROVE (ShutdownOrder /\ StopPhases)'
  BY <1>9 DEF AwaitWorkers
<1>10. ASSUME NEW s \in Stoppers, CloseTaskCh(s) PROVE (ShutdownOrder /\ StopPhases)'
  BY <1>10 DEF CloseTaskCh
<1>11. CASE UNCHANGED vars
  BY <1>11 DEF vars
<1> QED
  BY <1>1, <1>2, <1>3, <1>4, <1>5, <1>6, <1>7, <1>8, <1>9, <1>10, <1>11
  DEF Next, WorkerStep, StopStep

LEMMA ShutdownAlways == Spec => []Shutdown
BY ShutdownInit, ShutdownNext, PTL DEF Spec

-----------------------------------------------------------------------------
(* Layer three: where tasks are.                                           *)

\* A received task leaves the buffer: the other slots keep their tasks.
LEMMA TailSlots ==
  ASSUME NEW S, NEW q \in Seq(S), q # <<>>
  PROVE  /\ Head(q) = q[1] /\ 1 \in DOMAIN q
         /\ \A i \in DOMAIN Tail(q) : i + 1 \in DOMAIN q /\ Tail(q)[i] = q[i + 1] /\ i + 1 # 1
         /\ \A i \in DOMAIN q : i # 1 => i - 1 \in DOMAIN Tail(q) /\ Tail(q)[i - 1] = q[i]
OBVIOUS

LEMMA AppendSlots ==
  ASSUME NEW S, NEW q \in Seq(S), NEW x \in S
  PROVE  /\ DOMAIN Append(q, x) = DOMAIN q \cup {Len(q) + 1}
         /\ Len(q) + 1 \notin DOMAIN q
         /\ Append(q, x)[Len(q) + 1] = x
         /\ \A i \in DOMAIN q : Append(q, x)[i] = q[i]
OBVIOUS

LEMMA PlacesInit == Init => AnswerIsTruth
BY ConstantsAssumption DEF Init, AnswerIsTruth, OnePlace, InBuffer, BeingHandled

LEMMA PlacesReceive ==
  ASSUME Typed, AnswerIsTruth, NEW w \in Workers, Receive(w)
  PROVE  AnswerIsTruth'
<1> DEFINE h == Head(taskCh)
<1>1. /\ taskCh \in Seq(Tasks) /\ taskCh # <<>> /\ taskCh' = Tail(taskCh)
      /\ job' = [job EXCEPT ![w] = h]
      /\ job \in [Workers -> Tasks \cup {None}]
      /\ handled' = handled /\ submit' = submit
      /\ job[w] = None
  BY DEF Receive, Typed, TypeOK, JobWhileHandling
<1>2. h \in Tasks /\ InBuffer(h) /\ h # None
  BY <1>1, TailSlots, ConstantsAssumption DEF InBuffer
<1>3. \A i, j \in DOMAIN taskCh : taskCh[i] = taskCh[j] => i = j
  BY DEF AnswerIsTruth, OnePlace
<1>4. \A t \in Tasks : InBuffer(t)' <=> InBuffer(t) /\ t # h
  <2> SUFFICES ASSUME NEW t \in Tasks PROVE InBuffer(t)' <=> InBuffer(t) /\ t # h
    OBVIOUS
  <2>1. ASSUME InBuffer(t)' PROVE InBuffer(t) /\ t # h
    <3>1. PICK i \in DOMAIN Tail(taskCh) : Tail(taskCh)[i] = t
      BY <1>1, <2>1 DEF InBuffer
    <3>2. i + 1 \in DOMAIN taskCh /\ taskCh[i + 1] = t /\ i + 1 # 1
      BY <1>1, <3>1, TailSlots
    <3>3. 1 \in DOMAIN taskCh /\ h = taskCh[1]
      BY <1>1, TailSlots
    <3> QED BY <1>3, <3>2, <3>3 DEF InBuffer
  <2>2. ASSUME InBuffer(t), t # h PROVE InBuffer(t)'
    <3>1. PICK i \in DOMAIN taskCh : taskCh[i] = t
      BY <2>2 DEF InBuffer
    <3>2. i # 1
      BY <1>1, <2>2, <3>1, TailSlots
    <3>3. i - 1 \in DOMAIN Tail(taskCh) /\ Tail(taskCh)[i - 1] = t
      BY <1>1, <3>1, <3>2, TailSlots
    <3> QED BY <1>1, <3>3 DEF InBuffer
  <2> QED BY <2>1, <2>2
<1>5. \A t \in Tasks : BeingHandled(t)' <=> BeingHandled(t) \/ t = h
  BY <1>1, <1>2, ConstantsAssumption DEF BeingHandled
<1>6. \A i, j \in DOMAIN taskCh' : taskCh'[i] = taskCh'[j] => i = j
  <2> SUFFICES ASSUME NEW i \in DOMAIN Tail(taskCh), NEW j \in DOMAIN Tail(taskCh),
                      Tail(taskCh)[i] = Tail(taskCh)[j]
               PROVE  i = j
    BY <1>1
  <2>1. i + 1 = j + 1
    BY <1>1, <1>3, TailSlots
  <2>2. i \in Nat /\ j \in Nat
    BY <1>1
  <2> QED BY <2>1, <2>2
<1>7. \A u, v \in Workers : job'[u] = job'[v] /\ job'[u] # None => u = v
  BY <1>1, <1>2 DEF AnswerIsTruth, OnePlace, BeingHandled
<1> QED
  BY <1>1, <1>2, <1>4, <1>5, <1>6, <1>7 DEF AnswerIsTruth, OnePlace

LEMMA PlacesHandled ==
  ASSUME Typed, AnswerIsTruth, NEW w \in Workers, HandlerReturns(w)
  PROVE  AnswerIsTruth'
<1>1. /\ job' = [job EXCEPT ![w] = None] /\ job[w] \in Tasks
      /\ job \in [Workers -> Tasks \cup {None}]
      /\ handled' = handled \cup {job[w]}
      /\ taskCh' = taskCh /\ submit' = submit
  BY DEF HandlerReturns, Typed, TypeOK, JobWhileHandling, chanVars
<1>2. \A t \in Tasks : InBuffer(t)' <=> InBuffer(t)
  BY <1>1 DEF InBuffer
<1>3. \A t \in Tasks : BeingHandled(t)' <=> BeingHandled(t) /\ t # job[w]
  BY <1>1, ConstantsAssumption DEF BeingHandled, AnswerIsTruth, OnePlace
<1>4. BeingHandled(job[w])
  BY DEF BeingHandled
<1>5. \A u, v \in Workers : job'[u] = job'[v] /\ job'[u] # None => u = v
  BY <1>1 DEF AnswerIsTruth, OnePlace
<1> QED
  BY <1>1, <1>2, <1>3, <1>4, <1>5 DEF AnswerIsTruth, OnePlace

LEMMA PlacesSend ==
  ASSUME Typed, AnswerIsTruth, NEW t \in Tasks, Send(t), submit[t] \in {"sending", "retrying"}
  PROVE  AnswerIsTruth'
<1>1. /\ submit \in [Tasks -> SubmitState] /\ taskCh \in Seq(Tasks)
      /\ job' = job /\ handled' = handled
  BY DEF Send, Typed, TypeOK, workVars
<1>2. \A u \in Tasks : BeingHandled(u)' <=> BeingHandled(u)
  BY <1>1 DEF BeingHandled
<1>3. ~InBuffer(t) /\ ~BeingHandled(t) /\ t \notin handled
  BY DEF AnswerIsTruth
<1>4. CASE taskClosed
  <2>1. taskCh' = taskCh /\ submit' = [submit EXCEPT ![t] = "panicked"]
    BY <1>4 DEF Send
  <2>2. \A u \in Tasks : InBuffer(u)' <=> InBuffer(u)
    BY <2>1 DEF InBuffer
  <2> QED BY <1>1, <1>2, <1>3, <2>1, <2>2 DEF AnswerIsTruth, OnePlace
<1>5. CASE ~taskClosed
  <2>1. taskCh' = Append(taskCh, t) /\ submit' = [submit EXCEPT ![t] = "accepted"]
    BY <1>5 DEF Send
  <2>2. \A u \in Tasks : InBuffer(u)' <=> InBuffer(u) \/ u = t
    BY <1>1, <2>1, AppendSlots DEF InBuffer
  <2>3. \A i, j \in DOMAIN taskCh' : taskCh'[i] = taskCh'[j] => i = j
    <3>1. \A i, j \in DOMAIN taskCh : taskCh[i] = taskCh[j] => i = j
      BY DEF AnswerIsTruth, OnePlace
    <3>2. \A i \in DOMAIN taskCh : taskCh[i] # t
      BY <1>3 DEF InBuffer
    <3> QED BY <1>1, <2>1, <3>1, <3>2, AppendSlots
  <2> QED BY <1>1, <1>2, <1>3, <2>1, <2>2, <2>3 DEF AnswerIsTruth, OnePlace
<1> QED BY <1>4, <1>5

\* Steps that leave the tasks where they are and accept none.
LEMMA PlacesKept ==
  ASSUME AnswerIsTruth, UNCHANGED <<taskCh, job, handled>>,
         \A t \in Tasks : submit'[t] = "accepted" <=> submit[t] = "accepted"
  PROVE  AnswerIsTruth'
BY DEF AnswerIsTruth, OnePlace, InBuffer, BeingHandled

LEMMA PlacesNext == Typed /\ AnswerIsTruth /\ [Next]_vars => AnswerIsTruth'
<1> SUFFICES ASSUME Typed, AnswerIsTruth, [Next]_vars PROVE AnswerIsTruth'
  OBVIOUS
<1> USE DEF chanVars, stopVars, workVars
<1>1. ASSUME NEW w \in Workers, Spawn(w) \/ WorkerExit(w) PROVE AnswerIsTruth'
  BY <1>1, PlacesKept DEF Spawn, WorkerExit
<1>2. ASSUME NEW w \in Workers, Receive(w) PROVE AnswerIsTruth'
  BY <1>2, PlacesReceive
<1>3. ASSUME NEW w \in Workers, HandlerReturns(w) PROVE AnswerIsTruth'
  BY <1>3, PlacesHandled
<1>4. ASSUME NEW t \in Tasks, SubmitCheck(t) \/ SubmitTimeout(t) \/ SubmitRecheck(t)
      PROVE AnswerIsTruth'
  <2>1. \A u \in Tasks : submit'[u] = "accepted" <=> submit[u] = "accepted"
    BY <1>4 DEF SubmitCheck, SubmitTimeout, SubmitRecheck, Typed, TypeOK
  <2>2. UNCHANGED <<taskCh, job, handled>>
    BY <1>4 DEF SubmitCheck, SubmitTimeout, SubmitRecheck
  <2> QED BY <2>1, <2>2, PlacesKept
<1>5. ASSUME NEW t \in Tasks, SubmitSend(t) \/ SubmitRetry(t) PROVE AnswerIsTruth'
  <2>1. submit[t] \in {"sending", "retrying"}
    BY <1>5 DEF SubmitSend, SubmitRetry
  <2>2. CASE Send(t)
    BY <2>1, <2>2, PlacesSend
  <2>3. CASE ~Send(t)
    <3>1. /\ submit' = [submit EXCEPT ![t] = "refused"]
          /\ UNCHANGED <<taskCh, job, handled>>
      BY <1>5, <2>3 DEF SubmitSend, SubmitRetry
    <3>2. \A u \in Tasks : submit'[u] = "accepted" <=> submit[u] = "accepted"
      BY <2>1, <3>1 DEF Typed, TypeOK
    <3> QED BY <3>1, <3>2, PlacesKept
  <2> QED BY <2>2, <2>3
<1>6. ASSUME NEW s \in Stoppers, StopEnter(s) \/ StopLate(s) \/ StopStep(s)
      PROVE AnswerIsTruth'
  <2>1. UNCHANGED <<taskCh, job, handled, submit>>
    BY <1>6 DEF StopEnter, StopLate, StopStep, StopUnblock, SetStopping, CloseStopCh,
                AwaitWorkers, CloseTaskCh
  <2> QED BY <2>1, PlacesKept
<1>7. CASE UNCHANGED vars
  BY <1>7, PlacesKept DEF vars
<1> QED
  BY <1>1, <1>2, <1>3, <1>4, <1>5, <1>6, <1>7 DEF Next, WorkerStep, SubmitStep

-----------------------------------------------------------------------------
\* Every variable keeps its type, the buffer its capacity included.
THEOREM TypeCorrect == Spec => []TypeOK
<1>1. Shutdown => TypeOK
  BY DEF Shutdown, Typed
<1> QED BY <1>1, ShutdownAlways, PTL

\* Stop raises the flag, then signals, and closes the task channel only when
\* every worker has left.
THEOREM ShutdownIsOrdered == Spec => []ShutdownOrder
<1>1. Shutdown => ShutdownOrder
  BY DEF Shutdown
<1> QED BY <1>1, ShutdownAlways, PTL

\* No channel is closed twice, and a Stop that returned left no worker.
THEOREM StopIsSafe == Spec => []StopIsFinal
<1>1. Shutdown => StopIsFinal
  BY DEF Shutdown, ShutdownOrder, StopPhases, StopIsFinal
<1> QED BY <1>1, ShutdownAlways, PTL

\* Submit's answer is the truth: no task is lost, duplicated or run after it
\* was refused, whatever the interleaving of submitters, workers and Stop.
THEOREM AnswersAreTrue == Spec => []AnswerIsTruth
<1>1. Shutdown => Typed
  BY DEF Shutdown
<1> QED BY <1>1, ShutdownAlways, PlacesInit, PlacesNext, PTL DEF Spec

\* No handler starts once some call of Stop has returned.
THEOREM NothingStarts == Spec => NothingStartsAfterStop
<1>1. Shutdown /\ [Next]_vars
        => [(\E s \in Stoppers : stopper[s] = "returned") => job' = job]_vars
  <2> SUFFICES ASSUME Shutdown, Next, NEW s \in Stoppers, stopper[s] = "returned"
               PROVE  job' = job
    OBVIOUS
  <2>1. \A w \in Workers : worker[w] = "exited"
    BY DEF Shutdown, ShutdownOrder, StopPhases
  <2>2. ASSUME NEW w \in Workers, Spawn(w) \/ WorkerStep(w) PROVE FALSE
    BY <2>1, <2>2 DEF Spawn, WorkerStep, Receive, HandlerReturns, WorkerExit
  <2>3. ASSUME NEW t \in Tasks, SubmitCheck(t) \/ SubmitStep(t) PROVE job' = job
    BY <2>3 DEF SubmitCheck, SubmitStep, SubmitSend, SubmitTimeout, SubmitRecheck, SubmitRetry,
                Send, workVars
  <2>4. ASSUME NEW r \in Stoppers, StopEnter(r) \/ StopLate(r) \/ StopStep(r)
        PROVE  job' = job
    BY <2>4 DEF StopEnter, StopLate, StopStep, StopUnblock, SetStopping, CloseStopCh,
                AwaitWorkers, CloseTaskCh, workVars
  <2> QED BY <2>2, <2>3, <2>4 DEF Next
<1> QED BY <1>1, ShutdownAlways, PTL DEF Spec, NothingStartsAfterStop

-----------------------------------------------------------------------------
(* The queue implements TaskPool: each step of it is a step of the pool or   *)
(* leaves the pool as it is.                                                *)

PoolVars == <<taskCh, Active, handled, Refused, taskClosed>>

Inv == Shutdown /\ AnswerIsTruth

LEMMA InvAlways == Spec => []Inv
<1>1. Shutdown => Typed
  BY DEF Shutdown
<1> QED BY <1>1, ShutdownAlways, PlacesInit, PlacesNext, PTL DEF Spec, Inv

\* A worker that waits leaves a slot of the pool free.
LEMMA FreeSlot ==
  ASSUME Typed, NEW w \in Workers, worker[w] = "waiting"
  PROVE  Cardinality(Active) < Cardinality(Workers)
<1> DEFINE B == {v \in Workers : job[v] # None}
           f == [v \in B |-> job[v]]
<1>1. /\ IsFiniteSet(Workers \ {w})
      /\ Cardinality(Workers \ {w}) = Cardinality(Workers) - 1
      /\ Cardinality(Workers) \in Nat
  BY FS_RemoveElement, FS_CardinalityType, ConstantsAssumption
<1>2. B \in SUBSET (Workers \ {w})
  BY DEF Typed, JobWhileHandling
<1>3. IsFiniteSet(B) /\ Cardinality(B) <= Cardinality(Workers) - 1
  BY <1>1, <1>2, FS_Subset
<1>4. f \in Surjection(B, Active)
  BY DEF Surjection, Active
<1>5. IsFiniteSet(Active) /\ Cardinality(Active) <= Cardinality(B)
  BY <1>3, <1>4, FS_Surjection
<1>6. Cardinality(B) \in Nat /\ Cardinality(Active) \in Nat
  BY <1>3, <1>5, FS_CardinalityType
<1> QED BY <1>1, <1>3, <1>5, <1>6

\* A task whose Submit has not been answered is unknown to the pool.
LEMMA Unanswered ==
  ASSUME AnswerIsTruth, NEW t \in Tasks, submit[t] \notin {"accepted", "refused", "panicked"}
  PROVE  t \notin Pool!Known
BY DEF AnswerIsTruth, InBuffer, BeingHandled, Pool!Known, Active, Refused

\* Answering a task with an error or a panic refuses it.
LEMMA RefuseStep ==
  ASSUME Inv, NEW t \in Tasks, submit[t] \notin {"accepted", "refused", "panicked"},
         NEW a \in {"refused", "panicked"}, submit' = [submit EXCEPT ![t] = a],
         UNCHANGED <<taskCh, job, handled, taskClosed>>
  PROVE  Pool!Refuse(t)
<1>1. t \notin Pool!Known
  BY Unanswered DEF Inv
<1>2. Refused' = Refused \cup {t}
  BY DEF Inv, Shutdown, Typed, TypeOK, Refused
<1>3. Active' = Active
  BY DEF Active
<1> QED BY <1>1, <1>2, <1>3 DEF Pool!Refuse

\* Moving on inside Submit changes nothing in the pool.
LEMMA SubmitStutters ==
  ASSUME Inv, NEW t \in Tasks, submit[t] \notin {"refused", "panicked"},
         NEW a \in {"sending", "timedOut", "retrying"}, submit' = [submit EXCEPT ![t] = a],
         UNCHANGED <<taskCh, job, handled, taskClosed>>
  PROVE  UNCHANGED PoolVars
<1>1. Refused' = Refused
  BY DEF Inv, Shutdown, Typed, TypeOK, Refused
<1> QED BY <1>1 DEF PoolVars, Active

LEMMA AcceptStep ==
  ASSUME Inv, NEW t \in Tasks, submit[t] \in {"sending", "retrying"}, Send(t), ~taskClosed
  PROVE  Pool!Accept(t)
<1>1. t \notin Pool!Known
  BY Unanswered DEF Inv
<1>2. /\ Len(taskCh) < Capacity /\ taskCh' = Append(taskCh, t)
      /\ submit' = [submit EXCEPT ![t] = "accepted"]
      /\ UNCHANGED <<job, handled, taskClosed>>
  BY DEF Send, workVars
<1>3. Refused' = Refused
  BY <1>2 DEF Inv, Shutdown, Typed, TypeOK, Refused
<1>4. Active' = Active
  BY <1>2 DEF Active
<1> QED BY <1>1, <1>2, <1>3, <1>4 DEF Pool!Accept

LEMMA BeginStep ==
  ASSUME Inv, NEW w \in Workers, Receive(w)
  PROVE  Pool!Begin
<1> USE DEF Inv, Shutdown
<1>1. ~taskClosed
  BY DEF Receive, ShutdownOrder
<1>2. Cardinality(Active) < Cardinality(Workers)
  BY FreeSlot DEF Receive
<1>3. /\ taskCh # <<>> /\ taskCh' = Tail(taskCh) /\ Head(taskCh) \in Tasks
      /\ job' = [job EXCEPT ![w] = Head(taskCh)]
      /\ job \in [Workers -> Tasks \cup {None}] /\ job[w] = None
      /\ UNCHANGED <<handled, submit, taskClosed>>
  BY DEF Receive, Typed, TypeOK, JobWhileHandling
<1>4. Active' = Active \cup {Head(taskCh)}
  <2>1. \A v \in Workers : v # w => job'[v] = job[v]
    BY <1>3
  <2>2. job'[w] = Head(taskCh) /\ Head(taskCh) # None
    BY <1>3, ConstantsAssumption
  <2> QED BY <1>3, <2>1, <2>2 DEF Active
<1>5. Refused' = Refused
  BY <1>3 DEF Refused
<1>6. Pool!Cardinality(Active) = Cardinality(Active)
  BY DEF Pool!Cardinality, Cardinality
<1> QED BY <1>1, <1>2, <1>3, <1>4, <1>5, <1>6 DEF Pool!Begin

LEMMA FinishStep ==
  ASSUME Inv, NEW w \in Workers, HandlerReturns(w)
  PROVE  \E t \in Tasks : Pool!Finish(t)
<1>1. /\ job[w] \in Tasks /\ job[w] # None
      /\ job' = [job EXCEPT ![w] = None]
      /\ job \in [Workers -> Tasks \cup {None}]
      /\ handled' = handled \cup {job[w]}
      /\ UNCHANGED <<taskCh, submit, taskClosed>>
  BY ConstantsAssumption
  DEF Inv, Shutdown, Typed, TypeOK, JobWhileHandling, HandlerReturns, chanVars
<1>2. \A v \in Workers : job[v] = job[w] => v = w
  BY <1>1 DEF Inv, AnswerIsTruth, OnePlace
<1>3. Active' = Active \ {job[w]}
  <2>1. \A v \in Workers : v # w => job'[v] = job[v] /\ job[v] # job[w]
    BY <1>1, <1>2
  <2>2. job'[w] = None
    BY <1>1
  <2> QED BY <1>1, <2>1, <2>2 DEF Active
<1>4. Refused' = Refused
  BY <1>1 DEF Refused
<1>5. Pool!Finish(job[w])
  BY <1>1, <1>3, <1>4 DEF Pool!Finish, Active
<1> QED BY <1>1, <1>5

LEMMA HaltStep ==
  ASSUME Inv, NEW s \in Stoppers, CloseTaskCh(s)
  PROVE  Pool!Halt
<1>1. Active = {}
  BY DEF Inv, Shutdown, Typed, JobWhileHandling, StopPhases, CloseTaskCh, Active
<1>2. taskClosed' = TRUE /\ UNCHANGED <<taskCh, job, handled, submit>>
  BY DEF CloseTaskCh, workVars
<1>3. Active' = Active /\ Refused' = Refused
  BY <1>2 DEF Active, Refused
<1> QED BY <1>1, <1>2, <1>3 DEF Pool!Halt

LEMMA PoolInit == Init => Pool!Init
BY DEF Init, Pool!Init, Active, Refused

LEMMA PoolNext == Inv /\ [Next]_vars => [Pool!Next]_PoolVars
<1> SUFFICES ASSUME Inv, [Next]_vars PROVE Pool!Next \/ UNCHANGED PoolVars
  OBVIOUS
<1>1. ASSUME NEW w \in Workers, Spawn(w) \/ WorkerExit(w) PROVE UNCHANGED PoolVars
  BY <1>1 DEF Spawn, WorkerExit, PoolVars, Active, Refused, chanVars
<1>2. ASSUME NEW w \in Workers, Receive(w) PROVE Pool!Next
  BY <1>2, BeginStep DEF Pool!Next
<1>3. ASSUME NEW w \in Workers, HandlerReturns(w) PROVE Pool!Next
  BY <1>3, FinishStep DEF Pool!Next
<1>4. ASSUME NEW t \in Tasks, SubmitCheck(t) \/ SubmitTimeout(t) \/ SubmitRecheck(t)
      PROVE Pool!Next \/ UNCHANGED PoolVars
  <2>1. PICK a \in {"refused", "sending", "timedOut", "retrying"} :
          submit' = [submit EXCEPT ![t] = a]
    BY <1>4 DEF SubmitCheck, SubmitTimeout, SubmitRecheck
  <2>2. /\ submit[t] \in {"idle", "sending", "timedOut"}
        /\ UNCHANGED <<taskCh, job, handled, taskClosed>>
    BY <1>4 DEF SubmitCheck, SubmitTimeout, SubmitRecheck, chanVars, workVars
  <2>3. CASE a = "refused"
    BY <2>1, <2>2, <2>3, RefuseStep DEF Pool!Next
  <2>4. CASE a # "refused"
    BY <2>1, <2>2, <2>4, SubmitStutters
  <2> QED BY <2>3, <2>4
<1>5. ASSUME NEW t \in Tasks, SubmitSend(t) \/ SubmitRetry(t) PROVE Pool!Next
  <2>1. submit[t] \in {"sending", "retrying"}
    BY <1>5 DEF SubmitSend, SubmitRetry
  <2>2. CASE Send(t) /\ ~taskClosed
    BY <2>1, <2>2, AcceptStep DEF Pool!Next
  <2>3. CASE Send(t) /\ taskClosed
    <3>1. /\ submit' = [submit EXCEPT ![t] = "panicked"]
          /\ UNCHANGED <<taskCh, job, handled, taskClosed>>
      BY <2>3 DEF Send, workVars
    <3> QED BY <2>1, <3>1, RefuseStep DEF Pool!Next
  <2>4. CASE ~Send(t)
    <3>1. /\ submit' = [submit EXCEPT ![t] = "refused"]
          /\ UNCHANGED <<taskCh, job, handled, taskClosed>>
      BY <1>5, <2>4 DEF SubmitSend, SubmitRetry, chanVars, workVars
    <3> QED BY <2>1, <3>1, RefuseStep DEF Pool!Next
  <2> QED BY <2>2, <2>3, <2>4
<1>6. ASSUME NEW s \in Stoppers, CloseTaskCh(s) PROVE Pool!Next
  BY <1>6, HaltStep DEF Pool!Next
<1>7. ASSUME NEW s \in Stoppers,
             \/ StopEnter(s) \/ StopLate(s) \/ StopUnblock(s)
             \/ SetStopping(s) \/ CloseStopCh(s) \/ AwaitWorkers(s)
      PROVE  UNCHANGED PoolVars
  <2>1. UNCHANGED <<taskCh, job, handled, submit, taskClosed>>
    BY <1>7 DEF StopEnter, StopLate, StopUnblock, SetStopping, CloseStopCh, AwaitWorkers,
                chanVars, workVars
  <2> QED BY <2>1 DEF PoolVars, Active, Refused
<1>8. CASE UNCHANGED vars
  BY <1>8 DEF vars, PoolVars, Active, Refused
<1> QED
  BY <1>1, <1>2, <1>3, <1>4, <1>5, <1>6, <1>7, <1>8
  DEF Next, WorkerStep, SubmitStep, StopStep

\* The queue is a bounded FIFO pool: at most as many tasks run as there are
\* workers, in the order of acceptance, each once, and none after the shutdown.
THEOREM QueueImplementsPool == Spec => ImplementsPool
<1>1. Inv /\ [Next]_vars => [Pool!Next]_(Pool!vars)
  BY PoolNext DEF Pool!vars, PoolVars
<1> QED BY <1>1, PoolInit, InvAlways, PTL DEF Spec, ImplementsPool, Pool!Spec

=============================================================================
