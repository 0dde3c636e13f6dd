------------------------------ MODULE TaskPool ------------------------------
(***************************************************************************)
(* What the download queue promises to its callers, with no channel, flag  *)
(* or goroutine in sight: tasks wait in a bounded FIFO, at most Slots of    *)
(* them run at a time, each runs at most once, an offer is answered once,   *)
(* and when the pool halts nothing is running and nothing runs later.      *)
(***************************************************************************)
EXTENDS Naturals, Sequences, FiniteSets

CONSTANTS Tasks, Capacity, Slots

VARIABLES
  pending,   \* accepted tasks, in the order of acceptance
  active,    \* tasks being run
  finished,  \* tasks that ran
  refused,   \* tasks that were turned away
  halted     \* the pool has shut down

vars == <<pending, active, finished, refused, halted>>

Known == {pending[i] : i \in DOMAIN pending} \cup active \cup finished \cup refused

Init ==
  /\ pending = <<>>
  /\ active = {}
  /\ finished = {}
  /\ refused = {}
  /\ halted = FALSE

Accept(t) ==
  /\ ~halted
  /\ t \notin Known
  /\ Len(pending) < Capacity
  /\ pending' = Append(pending, t)
  /\ UNCHANGED <<active, finished, refused, halted>>

Refuse(t) ==
  /\ t \notin Known
  /\ refused' = refused \cup {t}
  /\ UNCHANGED <<pending, active, finished, halted>>

Begin ==
  /\ ~halted
  /\ pending # <<>>
  /\ Cardinality(active) < Slots
  /\ active' = active \cup {Head(pending)}
  /\ pending' = Tail(pending)
  /\ UNCHANGED <<finished, refused, halted>>

Finish(t) ==
  /\ t \in active
  /\ active' = active \ {t}
  /\ finished' = finished \cup {t}
  /\ UNCHANGED <<pending, refused, halted>>

Halt ==
  /\ active = {}
  /\ halted' = TRUE
  /\ UNCHANGED <<pending, active, finished, refused>>

Next ==
  \/ \E t \in Tasks : Accept(t) \/ Refuse(t) \/ Finish(t)
  \/ Begin
  \/ Halt

Spec == Init /\ [][Next]_vars

=============================================================================
