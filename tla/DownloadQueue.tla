--------------------------- MODULE DownloadQueue ---------------------------
(***************************************************************************)
(* The bounded worker queue of internal/queue/queue.go, used by the backend *)
(* manager as its download queue.  Goroutines call Submit concurrently, a   *)
(* fixed pool of workers receives from the task channel, and Stop shuts the *)
(* pool down: flag, close(stopCh), wait for the workers, close(taskCh).     *)
(*                                                                         *)
(* Each task is submitted by a goroutine of its own, so the state of a      *)
(* Submit call is indexed by the task it submits.  The priority of a task   *)
(* is stored and never read, so it is left out.  A name ending in Mut is    *)
(* a faulty variant of the definition that follows it; no specification     *)
(* uses it.                                                                 *)
(***************************************************************************)
EXTENDS Naturals, Sequences, FiniteSets

CONSTANTS
  Tasks,      \* tasks that some goroutine may submit
  Workers,    \* the worker goroutines that Start spawns
  Stoppers,   \* goroutines that may call Stop
  Capacity,   \* buffer of taskCh: 100 in the code
  None        \* no task

ASSUME ConstantsAssumption ==
  /\ Capacity \in Nat \ {0}
  /\ None \notin Tasks
  /\ IsFiniteSet(Workers)

VARIABLES
  taskCh,      \* buffered content of the task channel
  taskClosed,  \* taskCh has been closed
  stopClosed,  \* stopCh has been closed
  isStopping,  \* the atomic flag
  stopOnce,    \* state of the sync.Once
  submit,      \* where each Submit call is
  worker,      \* where each worker goroutine is
  job,         \* the task a worker is handling
  handled,     \* tasks whose handler call has returned
  stopper      \* where each Stop call is

chanVars == <<taskCh, taskClosed, stopClosed>>
stopVars == <<isStopping, stopOnce, stopper>>
workVars == <<worker, job, handled>>
vars == <<taskCh, taskClosed, stopClosed, isStopping, stopOnce, submit,
          worker, job, handled, stopper>>

SubmitState == {"idle", "sending", "timedOut", "retrying",
                "accepted", "refused", "panicked"}
WorkerState == {"off", "waiting", "handling", "exited"}
StopState == {"idle", "flag", "signal", "wait", "close",
              "blocked", "returned", "panicked"}

TypeOK ==
  /\ taskCh \in Seq(Tasks)
  /\ Len(taskCh) <= Capacity
  /\ taskClosed \in BOOLEAN
  /\ stopClosed \in BOOLEAN
  /\ isStopping \in BOOLEAN
  /\ stopOnce \in {"fresh", "running", "done"}
  /\ submit \in [Tasks -> SubmitState]
  /\ worker \in [Workers -> WorkerState]
  /\ job \in [Workers -> Tasks \cup {None}]
  /\ handled \in SUBSET Tasks
  /\ stopper \in [Stoppers -> StopState]

Init ==
  /\ taskCh = <<>>
  /\ taskClosed = FALSE
  /\ stopClosed = FALSE
  /\ isStopping = FALSE
  /\ stopOnce = "fresh"
  /\ submit = [t \in Tasks |-> "idle"]
  /\ worker = [w \in Workers |-> "off"]
  /\ job = [w \in Workers |-> None]
  /\ handled = {}
  /\ stopper = [s \in Stoppers |-> "idle"]

-----------------------------------------------------------------------------
(* Start and the worker loop.                                              *)

\* Start: wg.Add(1) and the go statement, for one worker.
Spawn(w) ==
  /\ worker[w] = "off"
  /\ worker' = [worker EXCEPT ![w] = "waiting"]
  /\ UNCHANGED <<job, handled, submit, chanVars, stopVars>>

Started == \A w \in Workers : worker[w] # "off"

\* (a receive that leaves the task in the buffer)
ReceiveMut(w) ==
  /\ worker[w] = "waiting"
  /\ taskCh # <<>>
  /\ job' = [job EXCEPT ![w] = Head(taskCh)]
  /\ worker' = [worker EXCEPT ![w] = "handling"]
  /\ UNCHANGED <<taskCh, handled, submit, taskClosed, stopClosed, stopVars>>

\* The select takes the receive case; Go picks either case when both are ready.
Receive(w) ==
  /\ worker[w] = "waiting"
  /\ taskCh # <<>>
  /\ job' = [job EXCEPT ![w] = Head(taskCh)]
  /\ taskCh' = Tail(taskCh)
  /\ worker' = [worker EXCEPT ![w] = "handling"]
  /\ UNCHANGED <<handled, submit, taskClosed, stopClosed, stopVars>>

\* (a loop that returns on a handler error)
HandlerReturnsMut(w) ==
  /\ worker[w] = "handling"
  /\ handled' = handled \cup {job[w]}
  /\ job' = [job EXCEPT ![w] = None]
  /\ worker' = [worker EXCEPT ![w] = "exited"]
  /\ UNCHANGED <<submit, chanVars, stopVars>>

\* handler(task.Data) returns; its error is dropped and the loop goes on.
HandlerReturns(w) ==
  /\ worker[w] = "handling"
  /\ handled' = handled \cup {job[w]}
  /\ job' = [job EXCEPT ![w] = None]
  /\ worker' = [worker EXCEPT ![w] = "waiting"]
  /\ UNCHANGED <<submit, chanVars, stopVars>>

\* (workers that leave only when the task channel is closed)
WorkerExitMut(w) ==
  /\ worker[w] = "waiting"
  /\ taskClosed /\ taskCh = <<>>
  /\ worker' = [worker EXCEPT ![w] = "exited"]
  /\ UNCHANGED <<job, handled, submit, chanVars, stopVars>>

\* The select takes the stopCh case, or receives from the closed task channel.
WorkerExit(w) ==
  /\ worker[w] = "waiting"
  /\ stopClosed \/ (taskClosed /\ taskCh = <<>>)
  /\ worker' = [worker EXCEPT ![w] = "exited"]
  /\ UNCHANGED <<job, handled, submit, chanVars, stopVars>>

-----------------------------------------------------------------------------
(* Submit.                                                                 *)

\* First load of isStopping: refused, or on to the select.
SubmitCheck(t) ==
  /\ submit[t] = "idle"
  /\ submit' = [submit EXCEPT ![t] = IF isStopping THEN "refused" ELSE "sending"]
  /\ UNCHANGED <<chanVars, stopVars, workVars>>

\* A send on the task channel: a closed channel panics, a full one blocks.
Send(t) ==
  /\ \/ /\ taskClosed
        /\ submit' = [submit EXCEPT ![t] = "panicked"]
        /\ UNCHANGED taskCh
     \/ /\ ~taskClosed
        /\ Len(taskCh) < Capacity
        /\ submit' = [submit EXCEPT ![t] = "accepted"]
        /\ taskCh' = Append(taskCh, t)
  /\ UNCHANGED <<taskClosed, stopClosed, stopVars, workVars>>

SubmitSend(t) ==
  /\ submit[t] = "sending"
  /\ Send(t)

\* (no timer on a full channel)
SubmitTimeoutMut(t) ==
  /\ submit[t] = "sending"
  /\ Len(taskCh) < Capacity
  /\ submit' = [submit EXCEPT ![t] = "timedOut"]
  /\ UNCHANGED <<chanVars, stopVars, workVars>>

\* The 50ms timer wins the select; it may also win against a ready send.
SubmitTimeout(t) ==
  /\ submit[t] = "sending"
  /\ submit' = [submit EXCEPT ![t] = "timedOut"]
  /\ UNCHANGED <<chanVars, stopVars, workVars>>

\* Second load of isStopping, after the timeout.
SubmitRecheck(t) ==
  /\ submit[t] = "timedOut"
  /\ submit' = [submit EXCEPT ![t] = IF isStopping THEN "refused" ELSE "retrying"]
  /\ UNCHANGED <<chanVars, stopVars, workVars>>

\* The select with a default: send now, or "queue is full".
SubmitRetry(t) ==
  /\ submit[t] = "retrying"
  /\ \/ Send(t)
     \/ /\ ~taskClosed
        /\ Len(taskCh) >= Capacity
        /\ submit' = [submit EXCEPT ![t] = "refused"]
        /\ UNCHANGED <<chanVars, stopVars, workVars>>

-----------------------------------------------------------------------------
(* Stop.  backend.New calls Start before the manager can be shut down, so   *)
(* Stop is called once every worker is spawned.                             *)

\* stopOnce.Do runs its function for the first caller only.
StopEnter(s) ==
  /\ stopper[s] = "idle"
  /\ Started
  /\ stopOnce = "fresh"
  /\ stopOnce' = "running"
  /\ stopper' = [stopper EXCEPT ![s] = "flag"]
  /\ UNCHANGED <<isStopping, submit, chanVars, workVars>>

\* Any other caller of Do waits for the first one to finish.
StopLate(s) ==
  /\ stopper[s] = "idle"
  /\ Started
  /\ stopOnce # "fresh"
  /\ stopper' = [stopper EXCEPT ![s] = "blocked"]
  /\ UNCHANGED <<isStopping, stopOnce, submit, chanVars, workVars>>

StopUnblock(s) ==
  /\ stopper[s] = "blocked"
  /\ stopOnce = "done"
  /\ stopper' = [stopper EXCEPT ![s] = "returned"]
  /\ UNCHANGED <<isStopping, stopOnce, submit, chanVars, workVars>>

SetStopping(s) ==
  /\ stopper[s] = "flag"
  /\ isStopping' = TRUE
  /\ stopper' = [stopper EXCEPT ![s] = "signal"]
  /\ UNCHANGED <<stopOnce, submit, chanVars, workVars>>

CloseStopCh(s) ==
  /\ stopper[s] = "signal"
  /\ stopClosed' = TRUE
  /\ stopper' = [stopper EXCEPT ![s] = IF stopClosed THEN "panicked" ELSE "wait"]
  /\ UNCHANGED <<taskCh, taskClosed, isStopping, stopOnce, submit, workVars>>

\* (Stop does not wait for the workers)
AwaitWorkersMut(s) ==
  /\ stopper[s] = "wait"
  /\ stopper' = [stopper EXCEPT ![s] = "close"]
  /\ UNCHANGED <<isStopping, stopOnce, submit, chanVars, workVars>>

\* wg.Wait returns once every worker has run its deferred wg.Done.
AwaitWorkers(s) ==
  /\ stopper[s] = "wait"
  /\ \A w \in Workers : worker[w] = "exited"
  /\ stopper' = [stopper EXCEPT ![s] = "close"]
  /\ UNCHANGED <<isStopping, stopOnce, submit, chanVars, workVars>>

CloseTaskCh(s) ==
  /\ stopper[s] = "close"
  /\ taskClosed' = TRUE
  /\ stopOnce' = "done"
  /\ stopper' = [stopper EXCEPT ![s] = IF taskClosed THEN "panicked" ELSE "returned"]
  /\ UNCHANGED <<taskCh, stopClosed, isStopping, submit, workVars>>

-----------------------------------------------------------------------------
WorkerStep(w) == Receive(w) \/ HandlerReturns(w) \/ WorkerExit(w)

SubmitStep(t) ==
  SubmitSend(t) \/ SubmitTimeout(t) \/ SubmitRecheck(t) \/ SubmitRetry(t)

StopStep(s) ==
  StopUnblock(s) \/ SetStopping(s) \/ CloseStopCh(s) \/ AwaitWorkers(s) \/ CloseTaskCh(s)

Next ==
  \/ \E w \in Workers : Spawn(w) \/ WorkerStep(w)
  \/ \E t \in Tasks : SubmitCheck(t) \/ SubmitStep(t)
  \/ \E s \in Stoppers : StopEnter(s) \/ StopLate(s) \/ StopStep(s)

Spec == Init /\ [][Next]_vars

\* Every goroutine that can go on is scheduled, but a handler call need not return,
\* and nobody has to call Submit or Stop.
FairSpec ==
  /\ Spec
  /\ \A w \in Workers : WF_vars(Spawn(w)) /\ WF_vars(Receive(w) \/ WorkerExit(w))
  /\ \A t \in Tasks : WF_vars(SubmitStep(t))
  /\ \A s \in Stoppers : WF_vars(StopStep(s))

-----------------------------------------------------------------------------
(* Correctness.                                                            *)

InBuffer(t) == \E i \in DOMAIN taskCh : taskCh[i] = t
BeingHandled(t) == \E w \in Workers : job[w] = t

\* A task is in at most one place: one slot of the buffer, one worker, or the
\* set of tasks already handled.
OnePlace ==
  /\ \A i, j \in DOMAIN taskCh : taskCh[i] = taskCh[j] => i = j
  /\ \A v, w \in Workers : job[v] = job[w] /\ job[v] # None => v = w
  /\ \A t \in Tasks : /\ ~(InBuffer(t) /\ BeingHandled(t))
                      /\ ~(InBuffer(t) /\ t \in handled)
                      /\ ~(BeingHandled(t) /\ t \in handled)

\* Submit's answer is the truth: a task whose Submit returned nil is in the
\* buffer, in a worker or handled, each exactly once, and a task whose Submit
\* returned an error or panicked is nowhere and will never run.
AnswerIsTruth ==
  /\ OnePlace
  /\ \A t \in Tasks :
       submit[t] = "accepted" <=> InBuffer(t) \/ BeingHandled(t) \/ t \in handled

\* Stop's order: the flag is up before a worker can be told to stop, a worker
\* leaves only when told, and the task channel is closed only when none is left
\* to receive from it, so no worker ever takes the closed-channel branch.
ShutdownOrder ==
  /\ stopClosed => isStopping
  /\ \A w \in Workers : worker[w] = "exited" => stopClosed
  /\ taskClosed => stopClosed /\ \A w \in Workers : worker[w] = "exited"

\* Concurrent calls of Stop never close a channel twice, and any call that has
\* returned, the blocked ones included, leaves no worker and an open-ended
\* refusal: the channel is closed and the flag is up.
StopIsFinal ==
  \A s \in Stoppers :
    /\ stopper[s] # "panicked"
    /\ stopper[s] = "returned" =>
         taskClosed /\ isStopping /\ \A w \in Workers : worker[w] = "exited"

\* No task starts once some call of Stop has returned.
NothingStartsAfterStop ==
  [][(\E s \in Stoppers : stopper[s] = "returned") => job' = job]_vars

\* Every call of Submit returns, with an answer or a panic, even when no worker
\* ever takes a task again: the timer bounds the wait on a full channel.
SubmitReturns ==
  \A t \in Tasks :
    submit[t] \in {"sending", "timedOut", "retrying"}
      ~> submit[t] \in {"accepted", "refused", "panicked"}

HandlersReturn == \A w \in Workers : []<>(worker[w] # "handling")

\* When handlers return, every call of Stop does, whatever is in the buffer.
StopReturns ==
  HandlersReturn => \A s \in Stoppers : stopper[s] # "idle" ~> stopper[s] = "returned"

\* When handlers return, an accepted task is handled, unless Stop is called first.
AcceptedIsHandled ==
  HandlersReturn =>
    \A t \in Tasks : submit[t] = "accepted" ~> (t \in handled \/ isStopping)

\* The queue implements the task pool it promises: a bounded FIFO, no more
\* tasks running than workers, no task run twice or after the shutdown.
Active == {job[w] : w \in Workers} \ {None}
Refused == {t \in Tasks : submit[t] \in {"refused", "panicked"}}

Pool == INSTANCE TaskPool WITH
  Slots <- Cardinality(Workers),
  pending <- taskCh,
  active <- Active,
  finished <- handled,
  refused <- Refused,
  halted <- taskClosed

ImplementsPool == Pool!Spec

\* What the two loads of isStopping are there for ("Check if queue is stopping
\* or stopped"): a Submit that races with Stop gets an error, not a panic.
SubmitNeverPanics == \A t \in Tasks : submit[t] # "panicked"

=============================================================================
