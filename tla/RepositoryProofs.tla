-------------------------- MODULE RepositoryProofs --------------------------
(***************************************************************************)
(* Proofs about the programs that work on a repository in git.              *)
(*                                                                         *)
(* rebase.py: what the person committed is never lost, a run that is not    *)
(* interactive moves the branch only to a whole rebase, and a push discards *)
(* only what was fetched. The inductive invariant IInv says what each phase *)
(* of a run may rely on: the backup, the clean start and the fetch; and     *)
(* that a stopped rebase still has everything it began with.                *)
(*                                                                         *)
(* The programs that keep a repository up: a successful update leaves it    *)
(* automated, what a copying program reports is copied, and what stands on  *)
(* the branch is replaced by those who read it. The inductive invariant     *)
(* Sound says what a run in each phase may still claim of the branch, of    *)
(* the clone it shares with another program and with people, and of what it *)
(* noted that others changed.                                               *)
(***************************************************************************)
EXTENDS GitRebase, RepositoryUpkeep, TLAPS

-----------------------------------------------------------------------------
(* The rebase.                                                              *)


\* Until the rebase, nothing is stopped and the branch keeps what the run saw.
CleanStart == run.phase \in {"backup", "fetch", "rebase"} => ~replay.active
HeldOnBranch == run.phase = "backup" => run.held \subseteq source
HeldInBackup == run.phase \in {"fetch", "rebase"} => run.held \subseteq (UNION backups)

\* What is stopped can still become all that was there.
MadeInReplay ==
  replay.active => made \subseteq replay.done \cup replay.rest \cup (UNION backups) \cup dropped
WholeInReplay ==
  replay.active /\ run.phase \in {"status", "resolve"} /\ run.mode # "interactive"
    => source \subseteq replay.done \cup replay.rest \cup dropped

TrackingFetched ==
  run.phase \in {"rebase", "status", "resolve", "push"} => tracking \subseteq fetched

IInv ==
  /\ TypeOK /\ CleanStart /\ HeldOnBranch /\ HeldInBackup
  /\ MadeInReplay /\ WholeInReplay /\ TrackingFetched /\ OwnWorkKept

\* git rebase keeps every change it is given, on the branch or in the replay.
LEMMA ReplayKeeps ==
  ASSUME TypeOK, NEW onto \in SUBSET Changes, NEW changes \in SUBSET Changes,
         Replayed(onto, changes)
  PROVE  /\ source' \in SUBSET Changes
         /\ replay' \in [active : BOOLEAN, done : SUBSET Changes, rest : SUBSET Changes]
         /\ ~replay'.active => source' = onto \cup changes
         /\ replay'.active => source' = source /\ replay'.done \cup replay'.rest = onto \cup changes
<1>1. CASE source' = onto \cup changes /\ replay' = NoReplay
  BY <1>1 DEF TypeOK, NoReplay
<1>2. ASSUME NEW c \in Clashes(changes),
             replay' = [active |-> TRUE, done |-> onto \cup {d \in changes : d < c},
                        rest |-> {d \in changes : c <= d}],
             source' = source
      PROVE  /\ source' \in SUBSET Changes
             /\ replay' \in [active : BOOLEAN, done : SUBSET Changes, rest : SUBSET Changes]
             /\ replay'.active /\ replay'.done \cup replay'.rest = onto \cup changes
  <2>1. Changes \subseteq Nat /\ c \in Nat
    BY <1>2, RebaseAssumption DEF Clashes
  <2>2. {d \in changes : d < c} \cup {d \in changes : c <= d} = changes
    <3>1. \A d \in changes : d < c \/ c <= d
      BY <2>1
    <3> QED  BY <3>1
  <2> QED  BY <1>2, <2>2 DEF TypeOK
<1> QED  BY <1>1, <1>2 DEF Replayed

\* So does git rebase --continue, of what is left in the replay.
LEMMA ContinueKeeps ==
  ASSUME TypeOK, NEW c \in replay.rest, NEW kept \in SUBSET {c}, Continued(c, kept)
  PROVE  /\ source' \in SUBSET Changes
         /\ replay' \in [active : BOOLEAN, done : SUBSET Changes, rest : SUBSET Changes]
         /\ ~replay'.active => source' = replay.done \cup kept \cup (replay.rest \ {c})
         /\ replay'.active => /\ source' = source
                              /\ replay'.done \cup replay'.rest
                                   = replay.done \cup kept \cup (replay.rest \ {c})
<1> DEFINE rest == replay.rest \ {c}
<1>0. replay.done \in SUBSET Changes /\ replay.rest \in SUBSET Changes /\ c \in Changes
  BY DEF TypeOK
<1>1. CASE source' = replay.done \cup kept \cup rest /\ replay' = NoReplay
  BY <1>0, <1>1 DEF TypeOK, NoReplay
<1>2. ASSUME NEW d \in rest \cap Clashing,
             replay' = [active |-> TRUE, done |-> replay.done \cup kept \cup {e \in rest : e < d},
                        rest |-> {e \in rest : d <= e}],
             source' = source
      PROVE  /\ source' \in SUBSET Changes
             /\ replay' \in [active : BOOLEAN, done : SUBSET Changes, rest : SUBSET Changes]
             /\ replay'.active /\ replay'.done \cup replay'.rest = replay.done \cup kept \cup rest
  <2>1. Changes \subseteq Nat /\ d \in Nat
    BY <1>0, <1>2, RebaseAssumption
  <2>2. {e \in rest : e < d} \cup {e \in rest : d <= e} = rest
    <3>1. \A e \in rest : e \in Nat
      BY <1>0, <2>1
    <3>2. \A e \in rest : e < d \/ d <= e
      BY <2>1, <3>1
    <3> QED  BY <3>2
  <2> QED  BY <1>0, <1>2, <2>2 DEF TypeOK
<1> QED  BY <1>1, <1>2 DEF Continued

LEMMA InitIInv == Init => IInv
BY RebaseAssumption, BudgetAssumption DEF Init, IInv, TypeOK, CleanStart, HeldOnBranch, HeldInBackup, MadeInReplay,
   WholeInReplay, TrackingFetched, OwnWorkKept, NoReplay, NoRun, Modes, Results, Changes

LEMMA Spends == ASSUME TypeOK, Spend \/ Free PROVE spent' \in 0..Budget
BY BudgetAssumption DEF TypeOK, Spend, Free

\* Every step of a run and of a person preserves the invariant.
LEMMA StepIInv == IInv /\ [Next]_vars => IInv'
<1> SUFFICES ASSUME IInv, [Next]_vars PROVE IInv'
  OBVIOUS
<1> USE DEF IInv
<1>t. TypeOK /\ CleanStart /\ HeldOnBranch /\ HeldInBackup /\ MadeInReplay /\ WholeInReplay
      /\ TrackingFetched /\ OwnWorkKept
  OBVIOUS
<1> DEFINE Rest == CleanStart' /\ HeldOnBranch' /\ HeldInBackup' /\ MadeInReplay'
                   /\ WholeInReplay' /\ TrackingFetched' /\ OwnWorkKept'
<1> USE DEF At, GoTo, Ends, NoRun, NoReplay, Modes, Results
<1>1. CASE UNCHANGED vars
  BY <1>1 DEF vars, TypeOK, CleanStart, HeldOnBranch, HeldInBackup, MadeInReplay,
     WholeInReplay, TrackingFetched, OwnWorkKept
<1>2. CASE Start
  <2>1. TypeOK'
    <3>1. PICK mode \in Modes, push \in BOOLEAN :
            \/ run' = [NoRun EXCEPT !.result = "failed"]
            \/ run' = [phase |-> "backup", mode |-> mode, push |-> push,
                       held |-> source, result |-> "none"]
      BY <1>2 DEF Start
    <3>2. run' \in [phase : {"idle", "backup", "fetch", "rebase", "status", "resolve", "push"},
                    mode : Modes, push : BOOLEAN, held : SUBSET Changes, result : Results]
      <4>1. CASE run' = [NoRun EXCEPT !.result = "failed"]
        BY <4>1 DEF TypeOK
      <4>2. CASE run' = [phase |-> "backup", mode |-> mode, push |-> push,
                         held |-> source, result |-> "none"]
        <5>1. source \in SUBSET Changes  BY DEF TypeOK
        <5> QED  BY <4>2, <5>1
      <4> QED  BY <3>1, <4>1, <4>2
    <3> QED  BY <1>2, <3>2, Spends DEF Start, TypeOK
  <2>2. Rest  BY <1>2 DEF Start, CleanStart, HeldOnBranch, HeldInBackup, MadeInReplay,
          WholeInReplay, TrackingFetched, OwnWorkKept
  <2> QED  BY <2>1, <2>2
<1>3. CASE CommandFails
  <2>1. TypeOK'  BY <1>3, Spends DEF CommandFails, TypeOK
  <2>2. Rest  BY <1>3 DEF CommandFails, CleanStart, HeldOnBranch, HeldInBackup, MadeInReplay,
          WholeInReplay, TrackingFetched, OwnWorkKept
  <2> QED  BY <2>1, <2>2
<1>4. CASE CreateBackup
  <2>1. TypeOK'  BY <1>4, Spends DEF CreateBackup, TypeOK
  <2>2. Rest  BY <1>4 DEF CreateBackup, TypeOK, CleanStart, HeldOnBranch, HeldInBackup,
          MadeInReplay, WholeInReplay, TrackingFetched, OwnWorkKept
  <2> QED  BY <2>1, <2>2
<1>5. CASE Fetch
  <2>1. TypeOK'  BY <1>5, Spends DEF Fetch, TypeOK
  <2>2. Rest  BY <1>5 DEF Fetch, TypeOK, CleanStart, HeldOnBranch, HeldInBackup, MadeInReplay,
          WholeInReplay, TrackingFetched, OwnWorkKept
  <2> QED  BY <2>1, <2>2
<1>6. CASE Rebase
  <2>1. ASSUME UNCHANGED <<source, replay, dropped>>, Spend PROVE IInv'
    <3>1. TypeOK'  BY <1>6, <2>1, Spends DEF Rebase, TypeOK
    <3>2. Rest  BY <1>6, <2>1 DEF Rebase, TypeOK, CleanStart, HeldOnBranch, HeldInBackup,
            MadeInReplay, WholeInReplay, TrackingFetched, OwnWorkKept
    <3> QED  BY <3>1, <3>2
  <2>2. ASSUME NEW off \in SUBSET (source \ target), Free,
               off = {} \/ run.mode = "interactive",
               Replayed(target, (source \ target) \ off),
               dropped' = dropped \cup (off \ run.held)
        PROVE  IInv'
    <3>1. target \in SUBSET Changes /\ (source \ target) \ off \in SUBSET Changes
      BY DEF TypeOK, Changes
    <3>2. /\ source' \in SUBSET Changes
          /\ replay' \in [active : BOOLEAN, done : SUBSET Changes, rest : SUBSET Changes]
          /\ ~replay'.active => source' = target \cup ((source \ target) \ off)
          /\ replay'.active => source' = source
               /\ replay'.done \cup replay'.rest = target \cup ((source \ target) \ off)
      BY <2>2, <3>1, ReplayKeeps
    <3>3. TypeOK'
      BY <1>6, <2>2, <3>2, Spends DEF Rebase, TypeOK
    <3>4. run' = [run EXCEPT !.phase = "status"] /\ UNCHANGED <<target, remote, tracking, backups, made, fetched>>
      BY <1>6 DEF Rebase
    <3>5. run.held \subseteq (UNION backups) /\ run.phase = "rebase"
      BY <1>6 DEF Rebase, HeldInBackup
    <3>6. run'.phase = "status" /\ run'.mode = run.mode
      BY <3>4 DEF TypeOK
    <3>7. source \subseteq target \cup ((source \ target) \ off) \cup (UNION backups) \cup dropped'
      BY <2>2, <3>5
    <3>8. made' \subseteq target \cup ((source \ target) \ off) \cup (UNION backups') \cup dropped'
      BY <2>2, <3>4, <3>7 DEF OwnWorkKept
    <3>9. OwnWorkKept' /\ MadeInReplay'
      BY <2>2, <3>2, <3>4, <3>8 DEF OwnWorkKept, MadeInReplay
    <3>10. WholeInReplay'
      BY <2>2, <3>2, <3>6 DEF WholeInReplay
    <3>11. CleanStart' /\ HeldOnBranch' /\ HeldInBackup' /\ TrackingFetched'
      BY <3>4, <3>5, <3>6 DEF CleanStart, HeldOnBranch, HeldInBackup, TrackingFetched
    <3> QED  BY <3>3, <3>9, <3>10, <3>11
  <2> QED  BY <1>6, <2>1, <2>2 DEF Rebase
<1>7. CASE Status
  <2>1. TypeOK'  BY <1>7, Spends DEF Status, TypeOK
  <2>2. Rest  BY <1>7 DEF Status, TypeOK, CleanStart, HeldOnBranch, HeldInBackup, MadeInReplay,
          WholeInReplay, TrackingFetched, OwnWorkKept
  <2> QED  BY <2>1, <2>2
<1>8. CASE NothingToResolve
  <2>1. TypeOK'  BY <1>8, Spends DEF NothingToResolve, TypeOK
  <2>2. Rest  BY <1>8 DEF NothingToResolve, TypeOK, CleanStart, HeldOnBranch, HeldInBackup,
          MadeInReplay, WholeInReplay, TrackingFetched, OwnWorkKept
  <2> QED  BY <2>1, <2>2
<1>9. CASE ForcePush
  <2>1. TypeOK'  BY <1>9, Spends DEF ForcePush, TypeOK
  <2>2. Rest  BY <1>9 DEF ForcePush, TypeOK, CleanStart, HeldOnBranch, HeldInBackup, MadeInReplay,
          WholeInReplay, TrackingFetched, OwnWorkKept
  <2> QED  BY <2>1, <2>2
<1>10. CASE Interrupt
  <2>1. TypeOK'  BY <1>10, Spends DEF Interrupt, TypeOK
  <2>2. Rest  BY <1>10 DEF Interrupt, CleanStart, HeldOnBranch, HeldInBackup, MadeInReplay,
          WholeInReplay, TrackingFetched, OwnWorkKept
  <2> QED  BY <2>1, <2>2
<1>11. ASSUME NEW c \in replay.rest, Unresolved(c) PROVE IInv'
  <2>1. TypeOK'  BY <1>11, Spends DEF Unresolved, TypeOK
  <2>2. Rest  BY <1>11 DEF Unresolved, CleanStart, HeldOnBranch, HeldInBackup, MadeInReplay,
          WholeInReplay, TrackingFetched, OwnWorkKept
  <2> QED  BY <2>1, <2>2
<1>12. ASSUME NEW c \in replay.rest, Resolve(c) PROVE IInv'
  <2>0. /\ run.phase = "resolve" /\ replay.active
        /\ UNCHANGED <<target, remote, tracking, backups, made, dropped, fetched>>
        /\ IF replay'.active THEN run' = [NoRun EXCEPT !.result = "failed"]
           ELSE run' = [run EXCEPT !.phase = "push"]
    BY <1>12 DEF Resolve
  <2>1. ASSUME UNCHANGED <<source, replay>>, Spend PROVE IInv'
    <3>1. TypeOK'  BY <2>0, <2>1, Spends DEF TypeOK
    <3>2. Rest  BY <2>0, <2>1 DEF CleanStart, HeldOnBranch, HeldInBackup, MadeInReplay,
            WholeInReplay, TrackingFetched, OwnWorkKept
    <3> QED  BY <3>1, <3>2
  <2>2. ASSUME Continued(c, {c}), Free PROVE IInv'
    <3>1. /\ source' \in SUBSET Changes
          /\ replay' \in [active : BOOLEAN, done : SUBSET Changes, rest : SUBSET Changes]
          /\ ~replay'.active => source' = replay.done \cup replay.rest
          /\ replay'.active => source' = source
               /\ replay'.done \cup replay'.rest = replay.done \cup replay.rest
      <4>1. {c} \cup (replay.rest \ {c}) = replay.rest
        OBVIOUS
      <4> QED  BY <2>2, <4>1, ContinueKeeps
    <3>2. TypeOK'
      BY <2>0, <2>2, <3>1, Spends DEF TypeOK
    <3>3. OwnWorkKept' /\ MadeInReplay'
      BY <2>0, <3>1 DEF OwnWorkKept, MadeInReplay
    <3>4. run' \in {[NoRun EXCEPT !.result = "failed"], [run EXCEPT !.phase = "push"]}
      BY <2>0
    <3>5. run'.phase \in {"idle", "push"}
      BY <3>4 DEF TypeOK
    <3>6. CleanStart' /\ HeldOnBranch' /\ HeldInBackup' /\ WholeInReplay' /\ TrackingFetched'
      BY <2>0, <3>5 DEF CleanStart, HeldOnBranch, HeldInBackup, WholeInReplay, TrackingFetched
    <3> QED  BY <3>2, <3>3, <3>6
  <2> QED  BY <1>12, <2>1, <2>2 DEF Resolve
<1>13. CASE Commit
  <2>1. TypeOK'  BY <1>13, Spends DEF Commit, TypeOK, Changes
  <2>2. Rest  BY <1>13 DEF Commit, CleanStart, HeldOnBranch, HeldInBackup, MadeInReplay,
          WholeInReplay, TrackingFetched, OwnWorkKept
  <2> QED  BY <2>1, <2>2
<1>14. CASE Pull
  <2>1. TypeOK'  BY <1>14, Spends DEF Pull, TypeOK
  <2>2. Rest  BY <1>14 DEF Pull, CleanStart, HeldOnBranch, HeldInBackup, MadeInReplay,
          WholeInReplay, TrackingFetched, OwnWorkKept
  <2> QED  BY <2>1, <2>2
<1>15. CASE TargetMoves
  <2>1. TypeOK'  BY <1>15, Spends DEF TargetMoves, TypeOK
  <2>2. Rest  BY <1>15 DEF TargetMoves, CleanStart, HeldOnBranch, HeldInBackup, MadeInReplay,
          WholeInReplay, TrackingFetched, OwnWorkKept
  <2> QED  BY <2>1, <2>2
<1>16. CASE OtherPushes
  <2>1. TypeOK'  BY <1>16, Spends DEF OtherPushes, TypeOK, Changes
  <2>2. Rest  BY <1>16 DEF OtherPushes, CleanStart, HeldOnBranch, HeldInBackup, MadeInReplay,
          WholeInReplay, TrackingFetched, OwnWorkKept
  <2> QED  BY <2>1, <2>2
<1>17. CASE FinishByHand
  <2>0. replay.active /\ Free /\ UNCHANGED <<target, remote, tracking, backups, run, made, fetched>>
    BY <1>17 DEF FinishByHand
  <2>1. ASSUME NEW c \in replay.rest, NEW kept \in SUBSET {c}, Continued(c, kept),
               dropped' = dropped \cup ({c} \ kept)
        PROVE  IInv'
    <3>1. /\ source' \in SUBSET Changes
          /\ replay' \in [active : BOOLEAN, done : SUBSET Changes, rest : SUBSET Changes]
          /\ ~replay'.active => source' = replay.done \cup kept \cup (replay.rest \ {c})
          /\ replay'.active => source' = source
               /\ replay'.done \cup replay'.rest = replay.done \cup kept \cup (replay.rest \ {c})
      BY <2>1, ContinueKeeps
    <3>2. replay.done \cup replay.rest \cup dropped
            = replay.done \cup kept \cup (replay.rest \ {c}) \cup dropped'
      BY <2>1
    <3>3. dropped' \in SUBSET Changes
      BY <2>1 DEF TypeOK
    <3>4. TypeOK'
      BY <2>0, <3>1, <3>3, Spends DEF TypeOK
    <3>5. OwnWorkKept' /\ MadeInReplay'
      <4>1. made \subseteq replay.done \cup replay.rest \cup (UNION backups) \cup dropped
        BY <2>0 DEF MadeInReplay
      <4>2. made \subseteq replay.done \cup kept \cup (replay.rest \ {c}) \cup (UNION backups)
                            \cup dropped'
        BY <2>1, <4>1
      <4>3. made \subseteq source \cup (UNION backups) \cup dropped'
        BY <2>1 DEF OwnWorkKept
      <4>4. made' = made /\ backups' = backups
        BY <2>0
      <4>5. CASE replay'.active
        <5>1. replay'.done \cup replay'.rest = replay.done \cup kept \cup (replay.rest \ {c})
              /\ source' = source
          BY <3>1, <4>5
        <5> QED  BY <4>2, <4>3, <4>4, <5>1 DEF OwnWorkKept, MadeInReplay
      <4>6. CASE ~replay'.active
        <5>1. source' = replay.done \cup kept \cup (replay.rest \ {c})
          BY <3>1, <4>6
        <5> QED  BY <4>2, <4>4, <4>6, <5>1 DEF OwnWorkKept, MadeInReplay
      <4> QED  BY <4>5, <4>6
    <3>6. WholeInReplay'
      BY <2>0, <3>1, <3>2 DEF WholeInReplay
    <3>7. CleanStart' /\ HeldOnBranch' /\ HeldInBackup' /\ TrackingFetched'
      BY <2>0 DEF CleanStart, HeldOnBranch, HeldInBackup, TrackingFetched
    <3> QED  BY <3>4, <3>5, <3>6, <3>7
  <2>2. ASSUME replay' = NoReplay, UNCHANGED <<source, dropped>> PROVE IInv'
    <3>1. TypeOK'  BY <2>0, <2>2, Spends DEF TypeOK
    <3>2. Rest  BY <2>0, <2>2 DEF CleanStart, HeldOnBranch, HeldInBackup, MadeInReplay,
            WholeInReplay, TrackingFetched, OwnWorkKept
    <3> QED  BY <3>1, <3>2
  <2>3. PICK c \in replay.rest :
          \/ Continued(c, {c}) /\ UNCHANGED dropped
          \/ Continued(c, {}) /\ dropped' = dropped \cup {c}
          \/ replay' = NoReplay /\ UNCHANGED <<source, dropped>>
    BY <1>17 DEF FinishByHand
  <2>4. CASE Continued(c, {c}) /\ UNCHANGED dropped
    <3>1. dropped' = dropped \cup ({c} \ {c})  BY <2>4
    <3> QED  BY <2>1, <2>4, <3>1
  <2>5. CASE Continued(c, {}) /\ dropped' = dropped \cup {c}
    <3>1. dropped' = dropped \cup ({c} \ {})  BY <2>5
    <3> QED  BY <2>1, <2>5, <3>1
  <2> QED  BY <2>2, <2>3, <2>4, <2>5
<1> QED
  BY <1>1, <1>2, <1>3, <1>4, <1>5, <1>6, <1>7, <1>8, <1>9, <1>10, <1>11, <1>12, <1>13,
     <1>14, <1>15, <1>16, <1>17 DEF Next, RunStep

\* The invariant holds in every reachable state of rebase.py and its clone.
THEOREM Invariance == Spec => []IInv
BY InitIInv, StepIInv, PTL DEF Spec

\* Every reachable state has the declared type.
THEOREM TypeCorrect == Spec => []TypeOK
BY Invariance, PTL DEF IInv

\* What a person commits survives every run of rebase.py, unless the person
\* dropped it (create_backup_branch before perform_rebase).
THEOREM OwnWorkSafe == Spec => []OwnWorkKept
BY Invariance, PTL DEF IInv

LEMMA StepMovesWhole ==
  IInv /\ [Next]_vars
    => (run.mode # "interactive" /\ run' # run => (source \ source') \subseteq dropped)
<1> SUFFICES ASSUME IInv, Next, run.mode # "interactive", run' # run
             PROVE  (source \ source') \subseteq dropped
  BY DEF vars
<1>t. TypeOK  BY DEF IInv
<1>1. CASE UNCHANGED source
  BY <1>1
<1>2. CASE Rebase
  <2>1. ASSUME NEW off \in SUBSET (source \ target), off = {},
               Replayed(target, (source \ target) \ off)
        PROVE  (source \ source') \subseteq dropped
    <3>1. target \in SUBSET Changes /\ (source \ target) \ off \in SUBSET Changes
      BY <1>t DEF TypeOK, Changes
    <3>2. source' = source \/ source' = target \cup ((source \ target) \ off)
      BY <1>t, <2>1, <3>1, ReplayKeeps
    <3> QED  BY <2>1, <3>2
  <2> QED  BY <1>1, <1>2, <2>1 DEF Rebase
<1>3. ASSUME NEW c \in replay.rest, Resolve(c)
      PROVE  (source \ source') \subseteq dropped
  <2>1. source \subseteq replay.done \cup replay.rest \cup dropped
    BY <1>3 DEF IInv, WholeInReplay, Resolve, At
  <2>2. CASE Continued(c, {c})
    <3>1. source' = source \/ source' = replay.done \cup {c} \cup (replay.rest \ {c})
      BY <1>t, <2>2, ContinueKeeps
    <3> QED  BY <2>1, <3>1
  <2> QED  BY <1>1, <1>3, <2>2 DEF Resolve
<1> QED
  BY <1>1, <1>2, <1>3 DEF Next, RunStep, Start, CommandFails, CreateBackup, Fetch, Status,
     NothingToResolve, ForcePush, Interrupt, Unresolved, Commit, Pull, TargetMoves, OtherPushes,
     FinishByHand

LEMMA StepDiscards ==
  IInv /\ [Next]_vars => (run' # run => (remote \ remote') \subseteq fetched)
<1> SUFFICES ASSUME IInv, Next, run' # run PROVE (remote \ remote') \subseteq fetched
  BY DEF vars
<1>1. CASE UNCHANGED remote
  BY <1>1
<1>2. CASE ForcePush
  <2>1. tracking \subseteq fetched
    BY <1>2 DEF IInv, TrackingFetched, ForcePush, At
  <2> QED  BY <1>2, <2>1 DEF ForcePush
<1> QED
  BY <1>1, <1>2 DEF Next, RunStep, Start, CommandFails, CreateBackup, Fetch, Rebase, Status,
     NothingToResolve, Interrupt, Unresolved, Resolve, Commit, Pull, TargetMoves, OtherPushes,
     FinishByHand

\* A run that is not interactive takes nothing off the branch (perform_rebase,
\* resolve_conflicts): the branch moves only to a rebase that is complete.
THEOREM BranchMovesWhole == Spec => MovesWhole
BY Invariance, StepMovesWhole, PTL DEF Spec, MovesWhole

\* Whatever others push between the fetch of a run and its push by force, the
\* push discards only what this clone has received (force_push_changes).
THEOREM LeaseProtects == Spec => DiscardsOnlyFetched
BY Invariance, StepDiscards, PTL DEF Spec, DiscardsOnlyFetched

-----------------------------------------------------------------------------
(* The programs that keep a repository up.                                  *)


Vals == UNION {Values(f) : f \in Files}
Job == [phase : {"idle", "copy", "folder", "end", "push"}, force : BOOLEAN, todo : SUBSET (Copied \cup Retired),
        failed : SUBSET Copied, touched : SUBSET Files]
Update == [phase : {"idle", "list", "detect", "clean", "validate", "patch",
                    "get", "del", "put", "end"},
           cleanup : BOOLEAN, force : BOOLEAN, dry : BOOLEAN, has : BOOLEAN, good : BOOLEAN,
           file : {Flow, Config}, read : [Automation -> Nat], todo : SUBSET Automation,
           touched : SUBSET Files]

MainTyped == main \in [Files -> Version] /\ TypeOfTree(Content(main))
CloneTyped == clone \in Clone /\ TypeOfTree(clone.files)
TreesTyped == tree \in [Cloners -> Clone] /\ \A c \in Cloners : TypeOfTree(tree[c].files)
JobsTyped == job \in [Programs -> Job]

\* What a run of the updater that may still report success has made: the
\* workflow before it goes on to the configuration, and that before it ends.
Succeeding == updater.good /\ ~updater.dry /\ ~(updater.cleanup /\ updater.has /\ ~updater.force)
FlowDone == main[Flow].val = "reusable" \/ Flow \in updater.touched
ConfigDone == main[Config].val = "full" \/ Config \in updater.touched
InPhase(phases) == updater.phase \in phases
Automates ==
  /\ InPhase({"list", "detect", "clean"}) => updater.file = Flow
  /\ InPhase({"clean"}) => updater.cleanup
  /\ InPhase({"validate", "patch"}) => updater.has /\ ~updater.force
  /\ Succeeding =>
       /\ InPhase({"validate", "patch"}) => FlowDone
       /\ InPhase({"get", "del", "put"}) /\ updater.file = Config => FlowDone
       /\ UAt("end") => FlowDone /\ ConfigDone

\* What a copying program of the operator has dealt with is as it left it,
\* between the removal of a directory and its copy too.
Dealt(j) == Copied \ (j.failed \cup j.touched \cup j.todo
                      \cup (IF j.phase = "folder" THEN Folder ELSE {}))
Synced(p, f, v) == v = "source" \/ (p = "setup" /\ f \in Shared /\ v = "newer")
Claims(p, j, files) ==
  /\ j.todo \subseteq Copied /\ j.phase # "push"
  /\ j.phase = "end" => j.todo = {}
  /\ j.phase # "idle" => \A f \in Dealt(j) : Synced(p, f, files[f])
Copies(p) == Claims(p, job[p], clone.files)
Operator == Programs \ Cloners

FilesKept == MainTyped /\ CloneTyped /\ TreesTyped /\ JobsTyped /\ \A p \in Operator : Copies(p)
Sound == FilesKept /\ updater \in Update /\ Automates /\ spent \in 0..Budget

-----------------------------------------------------------------------------
(* Files and trees.                                                         *)

LEMMA ValuesOf ==
  /\ \A f \in Files : "absent" \in Values(f) /\ Values(f) \subseteq Vals
  /\ \A f \in Copied : Values(f) = {"absent"} \cup Compared
  /\ Values(Flow) = {"absent", "other", "reusable"}
  /\ Values(Config) = {"absent", "broken", "bare", "full"}
<1>1. Flow # Config
  BY DEF Flow, Config
<1>2. Flow \notin Copied /\ Config \notin Copied
  BY FilesAssumption DEF Automation
<1>3. \A f \in Copied : Values(f) = {"absent"} \cup Compared
  BY <1>2 DEF Values
<1>4. Values(Flow) = {"absent", "other", "reusable"}
  BY <1>1, <1>2 DEF Values
<1>5. Values(Config) = {"absent", "broken", "bare", "full"}
  BY <1>1, <1>2 DEF Values
<1>6. \A f \in Files : "absent" \in Values(f)
  <2> TAKE f \in Files
  <2>1. CASE f \in Copied \/ f = Flow \/ f = Config
    BY <1>3, <1>4, <1>5, <2>1
  <2>2. CASE f \notin Copied /\ f # Flow /\ f # Config
    <3>1. Values(f) = {"absent", "present"}
      BY <2>2 DEF Values
    <3> QED  BY <3>1
  <2> QED  BY <2>1, <2>2
<1>7. \A f \in Files : Values(f) \subseteq Vals
  BY DEF Vals
<1> QED  BY <1>3, <1>4, <1>5, <1>6, <1>7

LEMMA Parts == UpkeepTypeOK <=> /\ MainTyped /\ CloneTyped /\ TreesTyped /\ JobsTyped
                                /\ updater \in Update /\ spent \in 0..Budget
BY DEF UpkeepTypeOK, MainTyped, CloneTyped, TreesTyped, JobsTyped, Job, Update, UpdaterTypeOK, SyncTypeOK

LEMMA MainValues ==
  ASSUME MainTyped
  PROVE  \A f \in Files : main[f].val \in Values(f) /\ main[f].sha \in Nat
BY DEF MainTyped, TypeOfTree, Content, Version

LEMMA Contents ==
  ASSUME MainTyped
  PROVE  [base |-> main, files |-> Content(main)] \in Clone /\ TypeOfTree(Content(main))
<1>1. Content(main) \in [Files -> Vals]
  BY MainValues DEF Content, Vals
<1> QED  BY <1>1 DEF MainTyped, Clone, Vals

LEMMA Writes ==
  ASSUME MainTyped, NEW f \in Files, NEW v \in Values(f), Write(f, v)
  PROVE  MainTyped' /\ main'[f].val = v /\ \A g \in Files \ {f} : main'[g] = main[g]
<1>1. main \in [Files -> Version] /\ main[f].sha \in Nat /\ v \in Vals
  BY MainValues, ValuesOf DEF MainTyped
<1> DEFINE z == [val |-> v, sha |-> main[f].sha + 1]
<1>2. z \in Version /\ z.val = v
  BY <1>1 DEF Version, Vals
<1>3. main' = [main EXCEPT ![f] = z]
  BY DEF Write
<1> HIDE DEF z
<1>4. main' \in [Files -> Version] /\ main'[f] = z /\ \A g \in Files \ {f} : main'[g] = main[g]
  BY <1>1, <1>2, <1>3
<1>5. \A g \in Files : main'[g].val \in Values(g)
  BY <1>2, <1>4, MainValues
<1>6. TypeOfTree(Content(main'))
  BY <1>5 DEF TypeOfTree, Content
<1> QED  BY <1>2, <1>4, <1>6 DEF MainTyped

LEMMA Pushes ==
  ASSUME MainTyped, NEW files \in [Files -> Vals], TypeOfTree(files), main' = Pushed(files)
  PROVE  MainTyped'
<1>1. ASSUME NEW f \in Files
      PROVE  main'[f] \in Version /\ main'[f].val = files[f]
  <2>1. main[f] \in Version /\ main[f].sha \in Nat /\ files[f] \in Vals
    BY MainValues DEF MainTyped
  <2>2. main'[f] = IF files[f] = main[f].val THEN main[f]
                   ELSE [val |-> files[f], sha |-> main[f].sha + 1]
    BY DEF Pushed
  <2>3. CASE files[f] = main[f].val
    BY <2>1, <2>2, <2>3
  <2>4. CASE files[f] # main[f].val
    BY <2>1, <2>2, <2>4 DEF Version, Vals
  <2> QED  BY <2>3, <2>4
<1>2. main' \in [Files -> Version]
  BY <1>1 DEF Pushed
<1>3. TypeOfTree(Content(main'))
  BY <1>1 DEF TypeOfTree, Content
<1> QED  BY <1>2, <1>3 DEF MainTyped

LEMMA UpkeepSpends == ASSUME spent \in 0..Budget, Spend \/ Free PROVE spent' \in 0..Budget
BY BudgetAssumption DEF Spend, Free

-----------------------------------------------------------------------------
(* The programs that copy.                                                  *)

\* Dispatches, and what the operator's programs learn of each other's changes.
LEMMA StepSets ==
  ASSUME JobsTyped, NEW p \in Programs, NEW j \in Job, NEW changed \in SUBSET Files, Step(p, j, changed)
  PROVE  /\ JobsTyped' /\ job'[p] = j
         /\ \A q \in Operator \ {p} :
              /\ job'[q].phase = job[q].phase /\ job'[q].todo = job[q].todo
              /\ job'[q].failed = job[q].failed
              /\ p \in Operator /\ ~JAt(q, "idle") => job'[q].touched = job[q].touched \cup changed
              /\ p \in Cloners => job'[q] = job[q]
<1>1. job \in [Programs -> Job]
  BY DEF JobsTyped
<1>2. CASE p \in Cloners
  <2>1. job' = [job EXCEPT ![p] = j]
    BY <1>2 DEF Step
  <2> QED  BY <1>1, <1>2, <2>1 DEF JobsTyped, Operator
<1>3. CASE p \notin Cloners
  <2> DEFINE q == Other(p)
             t == IF JAt(q, "idle") THEN {} ELSE job[q].touched \cup changed
             k == [job[q] EXCEPT !.touched = t]
  <2>1. q \in Operator /\ q # p /\ Operator = {p, q}
    BY <1>3 DEF Other, Operator, Programs, Cloners
  <2>2. q \in Programs /\ job[q] \in Job
    BY <1>1, <2>1 DEF Operator
  <2>3. t \in SUBSET Files
    BY <2>2 DEF Job
  <2>4. k \in Job /\ k.phase = job[q].phase /\ k.todo = job[q].todo /\ k.failed = job[q].failed /\ k.touched = t
    <3> HIDE DEF q, t
    <3> QED  BY <2>2, <2>3 DEF Job
  <2>5. job' = [job EXCEPT ![p] = j, ![q].touched = t]
    BY <1>1, <1>3, <2>1, <2>2 DEF Step
  <2>6. ~JAt(q, "idle") => t = job[q].touched \cup changed
    OBVIOUS
  <2> HIDE DEF q, t
  <2>7. job'[p] = j /\ job'[q] = k /\ \A r \in Programs \ {p, q} : job'[r] = job[r]
    BY <1>1, <2>1, <2>2, <2>5
  <2>8. DOMAIN job' = Programs /\ job' = [r \in Programs |-> job'[r]]
    BY <1>1, <2>5
  <2> HIDE DEF k
  <2>9. \A r \in Programs : job'[r] \in Job
    BY <1>1, <2>4, <2>7
  <2>10. JobsTyped'
    BY <2>8, <2>9 DEF JobsTyped
  <2> QED  BY <1>3, <2>1, <2>4, <2>6, <2>7, <2>10
<1> QED  BY <1>2, <1>3

\* A program that made no step keeps what it claims, as it knows what changed.
LEMMA Seen ==
  ASSUME NEW q, Copies(q), NEW changed,
         job'[q].phase = job[q].phase, job'[q].todo = job[q].todo, job'[q].failed = job[q].failed,
         ~JAt(q, "idle") => job[q].touched \cup changed \subseteq job'[q].touched,
         \A f \in Copied \ changed : clone'.files[f] = clone.files[f]
  PROVE  Copies(q)'
<1>1. ASSUME job[q].phase # "idle", NEW f \in Dealt(job'[q])
      PROVE  f \in Dealt(job[q]) /\ f \in Copied \ changed
  BY <1>1 DEF Dealt, JAt
<1>2. ASSUME job[q].phase # "idle", NEW f \in Dealt(job'[q])
      PROVE  Synced(q, f, clone'.files[f])
  <2>1. Synced(q, f, clone.files[f])
    BY <1>1, <1>2 DEF Copies, Claims
  <2> QED  BY <1>1, <1>2, <2>1
<1> QED  BY <1>2 DEF Copies, Claims

\* The files of a program are set.
LEMMA SetsFiles ==
  ASSUME CloneTyped, TreesTyped, NEW p \in Programs, NEW files \in [Files -> Vals], TypeOfTree(files),
         SetFiles(p, files)
  PROVE  /\ CloneTyped' /\ TreesTyped'
         /\ p \in Cloners => UNCHANGED clone
         /\ p \notin Cloners => clone'.files = files /\ UNCHANGED tree
<1>1. CASE p \in Cloners
  <2>1. tree' = [tree EXCEPT ![p].files = files] /\ UNCHANGED clone /\ tree[p] \in Clone
    BY <1>1 DEF SetFiles, TreesTyped
  <2> DEFINE z == [tree[p] EXCEPT !.files = files]
  <2>2. z \in Clone /\ z.files = files
    BY <2>1 DEF Clone, Vals
  <2>3. tree' = [tree EXCEPT ![p] = z]
    BY <2>1
  <2> HIDE DEF z
  <2> QED  BY <1>1, <2>1, <2>2, <2>3 DEF CloneTyped, TreesTyped, TypeOfTree
<1>2. CASE p \notin Cloners
  <2>1. clone' = [clone EXCEPT !.files = files] /\ UNCHANGED tree /\ clone \in Clone
    BY <1>2 DEF SetFiles, CloneTyped
  <2>2. clone' \in Clone /\ clone'.files = files
    BY <2>1 DEF Clone, Vals
  <2> QED  BY <1>2, <2>1, <2>2 DEF CloneTyped, TreesTyped, TypeOfTree
<1> QED  BY <1>1, <1>2

LEMMA FilesTyped ==
  ASSUME FilesKept, NEW p \in Programs
  PROVE  FilesOf(p) \in [Files -> Vals] /\ TypeOfTree(FilesOf(p)) /\ job[p] \in Job
BY DEF FilesKept, CloneTyped, TreesTyped, JobsTyped, FilesOf, Clone, Vals

\* A step of one program in one set of files: its own claims must be shown, the
\* others' stay.
LEMMA OneStep ==
  ASSUME FilesKept, NEW p \in Programs, NEW j \in Job, NEW changed \in SUBSET Files, Step(p, j, changed),
         NEW files \in [Files -> Vals], TypeOfTree(files), SetFiles(p, files), UNCHANGED main,
         p \in Operator => \A f \in Copied \ changed : files[f] = FilesOf(p)[f],
         p \in Operator => Claims(p, j, files)
  PROVE  FilesKept'
<1>1. JobsTyped' /\ CloneTyped' /\ TreesTyped' /\ MainTyped'
  BY StepSets, SetsFiles DEF FilesKept, MainTyped
<1>2. ASSUME NEW q \in Operator \ {p}
      PROVE  Copies(q)'
  <2>1. Copies(q)
    BY <1>2 DEF FilesKept
  <2>2. /\ job'[q].phase = job[q].phase /\ job'[q].todo = job[q].todo
        /\ job'[q].failed = job[q].failed
        /\ p \in Operator /\ ~JAt(q, "idle") => job'[q].touched = job[q].touched \cup changed
        /\ p \in Cloners => job'[q] = job[q]
    BY <1>2, StepSets DEF FilesKept
  <2>3. CASE p \in Cloners
    <3>1. UNCHANGED clone
      BY <2>3, SetsFiles DEF FilesKept
    <3>2. \A f \in Copied \ {} : clone'.files[f] = clone.files[f]
      BY <3>1
    <3>3. ~JAt(q, "idle") => job[q].touched \cup {} \subseteq job'[q].touched
      BY <2>2, <2>3
    <3> QED  BY <2>1, <2>2, <3>2, <3>3, Seen
  <2>4. CASE p \notin Cloners
    <3>1. p \in Operator /\ FilesOf(p) = clone.files /\ clone'.files = files
      BY <2>4, SetsFiles DEF FilesKept, FilesOf, Operator
    <3>2. \A f \in Copied \ changed : clone'.files[f] = clone.files[f]
      BY <3>1
    <3>3. ~JAt(q, "idle") => job[q].touched \cup changed \subseteq job'[q].touched
      BY <2>2, <3>1
    <3> QED  BY <2>1, <2>2, <3>2, <3>3, Seen
  <2> QED  BY <2>3, <2>4
<1>3. p \in Operator => Copies(p)'
  BY StepSets, SetsFiles DEF FilesKept, Copies, Operator
<1> QED  BY <1>1, <1>2, <1>3 DEF FilesKept, Operator

\* A program that only goes on.
LEMMA JobAlone ==
  ASSUME FilesKept, NEW p \in Programs, NEW j \in Job, job' = [job EXCEPT ![p] = j], UNCHANGED clone,
         TreesTyped', MainTyped', p \in Operator => Claims(p, j, clone.files)
  PROVE  FilesKept'
<1>1. JobsTyped' /\ job'[p] = j /\ \A q \in Programs \ {p} : job'[q] = job[q]
  BY DEF FilesKept, JobsTyped
<1>2. CloneTyped'
  BY DEF FilesKept, CloneTyped
<1>3. ASSUME NEW q \in Operator PROVE Copies(q)'
  <2>1. CASE q = p
    BY <1>1, <1>3, <2>1 DEF Copies
  <2>2. CASE q # p
    BY <1>1, <1>3, <2>2 DEF Copies, Operator, FilesKept
  <2> QED  BY <2>1, <2>2
<1> QED  BY <1>1, <1>2, <1>3 DEF FilesKept

LEMMA Begun ==
  ASSUME NEW p \in Programs, NEW force \in BOOLEAN
  PROVE  LET j == [Idle EXCEPT !.phase = "copy", !.force = force, !.todo = TodoOf(p)]
         IN  j \in Job /\ (p \in Operator => Claims(p, j, clone.files))
<1> DEFINE j == [Idle EXCEPT !.phase = "copy", !.force = force, !.todo = TodoOf(p)]
<1>1. TodoOf(p) \subseteq Copied \cup Retired /\ (p \in Operator => TodoOf(p) = Copied)
  BY DEF TodoOf, Operator, Cloners
<1>2. /\ j \in Job /\ j.phase = "copy" /\ j.todo = TodoOf(p)
  BY <1>1 DEF Idle, Job
<1> HIDE DEF j
<1>3. p \in Operator => Claims(p, j, clone.files)
  BY <1>1, <1>2 DEF Claims, Dealt
<1> QED  BY <1>2, <1>3 DEF j

LEMMA Ended == Idle \in Job /\ \A p, files : Claims(p, Idle, files)
BY DEF Idle, Job, Claims

LEMMA StartKeeps ==
  ASSUME FilesKept, NEW p \in Programs, StartJob(p)
  PROVE  FilesKept' /\ UNCHANGED main /\ (Spend \/ Free)
<1>0. PICK force \in BOOLEAN :
        job' = [job EXCEPT ![p] = [Idle EXCEPT !.phase = "copy", !.force = force, !.todo = TodoOf(p)]]
  BY DEF StartJob, Forces
<1> DEFINE j == [Idle EXCEPT !.phase = "copy", !.force = force, !.todo = TodoOf(p)]
<1>1. j \in Job /\ (p \in Operator => Claims(p, j, clone.files))
  BY Begun
<1>2. job' = [job EXCEPT ![p] = j] /\ UNCHANGED main /\ UNCHANGED clone /\ (Spend \/ Free)
  BY <1>0 DEF StartJob
<1> HIDE DEF j
<1>3. MainTyped'
  BY <1>2 DEF FilesKept, MainTyped
<1>4. TreesTyped'
  <2> DEFINE z == [base |-> main, files |-> Content(main)]
  <2>1. z \in Clone /\ TypeOfTree(z.files)
    BY Contents DEF FilesKept
  <2>2. tree' = [tree EXCEPT ![p] = z] \/ UNCHANGED tree
    BY DEF StartJob
  <2> HIDE DEF z
  <2> QED  BY <2>1, <2>2 DEF FilesKept, TreesTyped, TypeOfTree
<1> QED  BY <1>1, <1>2, <1>3, <1>4, JobAlone

LEMMA FinishKeeps ==
  ASSUME FilesKept, NEW p \in Programs, FinishCopy(p)
  PROVE  FilesKept' /\ UNCHANGED main /\ Free
<1>1. MainTyped' /\ TreesTyped' /\ UNCHANGED main /\ UNCHANGED clone /\ Free
  BY DEF FinishCopy, FilesKept, MainTyped, TreesTyped
<1>2. job[p] \in Job /\ JAt(p, "copy") /\ job[p].todo = {} /\ job \in [Programs -> Job]
  BY FilesTyped DEF FinishCopy, FilesKept, JobsTyped
<1> DEFINE e == [job[p] EXCEPT !.phase = "end"]
           s == [job[p] EXCEPT !.phase = "push"]
<1>3. /\ e \in Job /\ s \in Job /\ e.phase = "end" /\ e.todo = {}
      /\ e.failed = job[p].failed /\ e.touched = job[p].touched
  BY <1>2 DEF Job
<1>4. \/ p \notin Cloners /\ job' = [job EXCEPT ![p] = e]
      \/ p \in Cloners /\ job' = [job EXCEPT ![p] = s]
      \/ p \in Cloners /\ job' = [job EXCEPT ![p] = Idle]
  BY <1>2 DEF FinishCopy
<1> HIDE DEF e, s
<1>5. p \in Operator => Claims(p, e, clone.files)
  <2> SUFFICES ASSUME p \in Operator PROVE Claims(p, e, clone.files)
    OBVIOUS
  <2>1. Claims(p, job[p], clone.files)
    BY DEF FilesKept, Copies
  <2>2. Dealt(e) \subseteq Dealt(job[p])
    BY <1>2, <1>3 DEF Dealt, JAt
  <2> QED  BY <1>2, <1>3, <2>1, <2>2 DEF Claims, JAt
<1>6. p \in Operator => p \notin Cloners
  BY DEF Operator
<1> QED  BY <1>1, <1>3, <1>4, <1>5, <1>6, Ended, JobAlone

LEMMA EndKeeps ==
  ASSUME FilesKept, NEW p \in Programs, Report(p) \/ StopJob(p)
  PROVE  FilesKept' /\ UNCHANGED main /\ (Spend \/ Free)
<1>1. /\ MainTyped' /\ TreesTyped' /\ UNCHANGED main /\ UNCHANGED clone /\ (Spend \/ Free)
      /\ job' = [job EXCEPT ![p] = Idle]
  BY DEF Report, StopJob, FilesKept, MainTyped, TreesTyped
<1> QED  BY <1>1, Ended, JobAlone

\* Only the programs with clones of their own push: what stands on the branch
\* is what the receiver cloned, and the bot does not look.
LEMMA PushKeeps ==
  ASSUME FilesKept, NEW p \in Programs, PushTree(p)
  PROVE  /\ FilesKept' /\ (Spend \/ Free) /\ job[p] # job'[p]
         /\ \/ UNCHANGED main
            \/ p = "bot"
            \/ p = "receiver" /\ tree[p].base = main
<1>1. /\ JAt(p, "push") /\ job' = [job EXCEPT ![p] = Idle] /\ UNCHANGED tree /\ UNCHANGED clone
      /\ (Spend \/ Free)
      /\ UNCHANGED main \/ ((p = "bot" \/ tree[p].base = main) /\ main' = Pushed(tree[p].files))
  BY DEF PushTree
<1>2. p \in Cloners
  BY <1>1 DEF FilesKept, Copies, Claims, Operator, JAt
<1>3. MainTyped'
  <2>1. tree[p].files \in [Files -> Vals] /\ TypeOfTree(tree[p].files)
    BY <1>2 DEF FilesKept, TreesTyped, Clone, Vals
  <2>2. CASE UNCHANGED main
    BY <2>2 DEF FilesKept, MainTyped
  <2>3. CASE main' = Pushed(tree[p].files)
    BY <2>1, <2>3, Pushes DEF FilesKept
  <2> QED  BY <1>1, <2>2, <2>3
<1>4. TreesTyped'
  BY <1>1 DEF FilesKept, TreesTyped
<1>5. FilesKept'
  BY <1>1, <1>3, <1>4, Ended, JobAlone
<1>6. job'[p].phase = "idle"
  BY <1>1 DEF FilesKept, JobsTyped, Idle
<1> QED  BY <1>1, <1>2, <1>5, <1>6 DEF JAt, Cloners

LEMMA CopyKeeps ==
  ASSUME FilesKept, NEW p \in Programs, NEW f \in job[p].todo, CopyFile(p, f)
  PROVE  FilesKept' /\ UNCHANGED main /\ (Spend \/ Free)
<1> DEFINE files == FilesOf(p)
           v == IF f \in Retired THEN "absent" ELSE "source"
           j == [job[p] EXCEPT !.todo = @ \ {f}]
           k == [j EXCEPT !.failed = @ \cup ({f} \cap Copied)]
           n == IF p = "bot" THEN Idle ELSE k
           copied == [files EXCEPT ![f] = v]
<1>1. /\ files \in [Files -> Vals] /\ TypeOfTree(files) /\ job[p] \in Job
      /\ JAt(p, "copy") /\ f \in Singles(p) /\ f \in Copied \cup Retired /\ f \in Files
  BY FilesTyped DEF CopyFile, Job, Files
<1>2. /\ j \in Job /\ j.phase = "copy" /\ j.todo = job[p].todo \ {f}
      /\ j.failed = job[p].failed /\ j.touched = job[p].touched
  BY <1>1 DEF Job, JAt
<1>3. /\ \/ /\ f \in Retired \/ Replaces(p, files[f])
            /\ SetFiles(p, copied) /\ Step(p, j, {f}) /\ Free
         \/ /\ f \notin Retired /\ ~Replaces(p, files[f])
            /\ SetFiles(p, files) /\ Step(p, j, {}) /\ Free
         \/ SetFiles(p, files) /\ Spend /\ Step(p, n, {})
      /\ UNCHANGED main
  BY DEF CopyFile
<1>4. /\ k \in Job /\ k.phase = "copy" /\ k.todo = job[p].todo \ {f}
      /\ k.failed = job[p].failed \cup ({f} \cap Copied) /\ k.touched = job[p].touched
  <2> HIDE DEF j
  <2> QED  BY <1>2 DEF Job
<1>5. v \in Values(f) /\ v \in Vals /\ (f \in Copied => v = "source")
  <2>1. "absent" \in Values(f) /\ Values(f) \subseteq Vals
    BY <1>1, ValuesOf
  <2>2. f \notin Retired => "source" \in Values(f)
    BY <1>1, ValuesOf DEF Compared
  <2>3. f \in Copied => f \notin Retired
    BY FilesAssumption
  <2> QED  BY <2>1, <2>2, <2>3
<1> HIDE DEF j, k, files, v
<1>6. copied \in [Files -> Vals] /\ copied[f] = v /\ \A g \in Files \ {f} : copied[g] = files[g]
  BY <1>1, <1>5
<1>7. TypeOfTree(copied)
  BY <1>1, <1>5, <1>6 DEF TypeOfTree
<1> HIDE DEF copied
<1>8. Copied \subseteq Files
  BY DEF Files
<1>9. p \in Operator => /\ Claims(p, job[p], files) /\ files = clone.files /\ f \in Copied
                        /\ \A g \in Dealt(j) : g = f \/ g \in Dealt(job[p])
                        /\ \A g \in Dealt(k) : g \in Dealt(job[p])
  <2> SUFFICES ASSUME p \in Operator
               PROVE  /\ Claims(p, job[p], files) /\ files = clone.files /\ f \in Copied
                      /\ \A g \in Dealt(j) : g = f \/ g \in Dealt(job[p])
                      /\ \A g \in Dealt(k) : g \in Dealt(job[p])
    OBVIOUS
  <2>1. Claims(p, job[p], files) /\ files = clone.files
    BY DEF FilesKept, Copies, FilesOf, Operator, files
  <2>2. f \in Copied
    BY <2>1 DEF Claims
  <2>3. \A g \in Dealt(j) : g = f \/ g \in Dealt(job[p])
    BY <1>1, <1>2 DEF Dealt, JAt
  <2>4. \A g \in Dealt(k) : g \in Dealt(job[p])
    BY <1>1, <1>4, <2>2 DEF Dealt, JAt
  <2> QED  BY <2>1, <2>2, <2>3, <2>4
<1>10. CASE SetFiles(p, copied) /\ Step(p, j, {f}) /\ Free
  <2>1. p \in Operator => Claims(p, j, copied)
    <3> SUFFICES ASSUME p \in Operator PROVE Claims(p, j, copied)
      OBVIOUS
    <3>1. \A g \in Dealt(j) : Synced(p, g, copied[g])
      BY <1>1, <1>5, <1>6, <1>8, <1>9 DEF Claims, Synced, JAt, Dealt
    <3> QED  BY <1>2, <1>9, <3>1 DEF Claims
  <2>2. \A g \in Copied \ {f} : copied[g] = files[g]
    BY <1>6, <1>8
  <2>3. {f} \in SUBSET Files
    BY <1>1
  <2> QED  BY <1>2, <1>3, <1>6, <1>7, <1>10, <2>1, <2>2, <2>3, OneStep DEF files
<1>11. CASE f \notin Retired /\ ~Replaces(p, files[f]) /\ SetFiles(p, files) /\ Step(p, j, {}) /\ Free
  <2>1. p \in Operator => Claims(p, j, files)
    <3> SUFFICES ASSUME p \in Operator PROVE Claims(p, j, files)
      OBVIOUS
    <3>1. Synced(p, f, files[f])
      <4>1. p \in {"setup", "tracked"}
        BY DEF Operator, Programs, Cloners
      <4>2. p = "setup" => f \in Shared
        BY <1>1, <1>9 DEF Singles, Copied
      <4> QED  BY <1>11, <4>1, <4>2 DEF Synced, Replaces, SetupReplaces, TrackedReplaces
    <3>2. \A g \in Dealt(j) : Synced(p, g, files[g])
      BY <1>1, <1>9, <3>1 DEF Claims, JAt
    <3> QED  BY <1>2, <1>9, <3>2 DEF Claims
  <2>2. {} \in SUBSET Files
    OBVIOUS
  <2> QED  BY <1>1, <1>2, <1>3, <1>11, <2>1, <2>2, OneStep DEF files
<1>12. CASE SetFiles(p, files) /\ Spend /\ Step(p, n, {})
  <2>1. n \in Job
    BY <1>4, Ended
  <2>2. p \in Operator => Claims(p, n, files)
    <3> SUFFICES ASSUME p \in Operator PROVE Claims(p, n, files)
      OBVIOUS
    <3>1. n = k
      BY DEF Operator, Cloners
    <3>2. \A g \in Dealt(k) : Synced(p, g, files[g])
      BY <1>1, <1>9 DEF Claims, JAt
    <3> QED  BY <1>4, <1>9, <3>1, <3>2 DEF Claims
  <2>3. {} \in SUBSET Files
    OBVIOUS
  <2> HIDE DEF n
  <2> QED  BY <1>1, <1>3, <1>12, <2>1, <2>2, <2>3, OneStep DEF files
<1> QED  BY <1>3, <1>10, <1>11, <1>12

LEMMA RemoveKeeps ==
  ASSUME FilesKept, NEW p \in Programs, RemoveFolder(p)
  PROVE  FilesKept' /\ UNCHANGED main /\ (Spend \/ Free)
<1> DEFINE files == FilesOf(p)
           same == \A f \in Folder : files[f] = "source"
           identical == same /\ \A f \in Own : files[f] = "absent"
           j == [job[p] EXCEPT !.todo = {}]
           a == [j EXCEPT !.phase = "copy"]
           b == [j EXCEPT !.phase = "folder"]
           k == [j EXCEPT !.failed = @ \cup Folder]
           removed == [f \in Files |-> IF f \in Folder \cup Own THEN "absent" ELSE files[f]]
<1>1. /\ files \in [Files -> Vals] /\ TypeOfTree(files) /\ job[p] \in Job /\ JAt(p, "copy")
      /\ Singles(p) = {} /\ job[p].todo # {}
  BY FilesTyped DEF RemoveFolder
<1>2. j \in Job /\ j.phase = "copy" /\ j.todo = {} /\ j.failed = job[p].failed /\ j.touched = job[p].touched
  BY <1>1 DEF Job, JAt
<1>3. /\ \/ p = "setup" /\ identical /\ SetFiles(p, files) /\ Step(p, a, {}) /\ Free
         \/ SetFiles(p, removed) /\ Step(p, b, Folder \cup Own) /\ Free
         \/ SetFiles(p, files) /\ Spend /\ Step(p, k, {})
      /\ UNCHANGED main
  BY DEF RemoveFolder
<1>4. /\ a \in Job /\ a.phase = "copy" /\ a.todo = {} /\ a.failed = job[p].failed /\ a.touched = job[p].touched
      /\ b \in Job /\ b.phase = "folder" /\ b.todo = {} /\ b.failed = job[p].failed /\ b.touched = job[p].touched
      /\ k \in Job /\ k.phase = "copy" /\ k.todo = {} /\ k.failed = job[p].failed \cup Folder
      /\ k.touched = job[p].touched
  <2> HIDE DEF j
  <2> QED  BY <1>2 DEF Job, Copied
<1> HIDE DEF j, a, b, k, files
<1>5. Copied \subseteq Files /\ Folder \subseteq Copied /\ Folder \cup Own \in SUBSET Files /\ Copied \cap Own = {}
  BY FilesAssumption DEF Files, Copied
<1>6. /\ removed \in [Files -> Vals] /\ TypeOfTree(removed)
      /\ \A g \in Copied \ (Folder \cup Own) : removed[g] = files[g]
  <2>1. \A f \in Files : removed[f] = IF f \in Folder \cup Own THEN "absent" ELSE files[f]
    OBVIOUS
  <2>2. \A f \in Files : "absent" \in Values(f) /\ "absent" \in Vals
    BY ValuesOf
  <2>3. removed \in [Files -> Vals]
    BY <1>1, <2>2
  <2> HIDE DEF removed
  <2>4. TypeOfTree(removed)
    BY <1>1, <2>1, <2>2 DEF TypeOfTree
  <2> QED  BY <1>5, <2>1, <2>3, <2>4
<1> HIDE DEF removed
<1>7. p \in Operator => Claims(p, job[p], files) /\ job[p].todo \subseteq Folder
  <2>1. p \in Operator => Claims(p, job[p], files)
    BY DEF FilesKept, Copies, FilesOf, Operator, files
  <2>2. job[p].todo \subseteq Folder
    BY <1>1 DEF Singles
  <2> QED  BY <2>1, <2>2
<1>8. CASE p = "setup" /\ identical /\ SetFiles(p, files) /\ Step(p, a, {}) /\ Free
  <2>1. p \in Operator => Claims(p, a, files)
    <3> SUFFICES ASSUME p \in Operator PROVE Claims(p, a, files)
      OBVIOUS
    <3>1. \A g \in Dealt(a) : g \in Folder \/ g \in Dealt(job[p])
      BY <1>1, <1>4, <1>7 DEF Dealt, JAt
    <3>2. \A g \in Dealt(a) : Synced(p, g, files[g])
      BY <1>1, <1>7, <1>8, <3>1 DEF Claims, JAt, Synced
    <3> QED  BY <1>4, <3>2 DEF Claims
  <2>2. {} \in SUBSET Files
    OBVIOUS
  <2> QED  BY <1>1, <1>3, <1>4, <1>8, <2>1, <2>2, OneStep DEF files
<1>9. CASE SetFiles(p, removed) /\ Step(p, b, Folder \cup Own) /\ Free
  <2>1. p \in Operator => Claims(p, b, removed)
    <3> SUFFICES ASSUME p \in Operator PROVE Claims(p, b, removed)
      OBVIOUS
    <3>1. \A g \in Dealt(b) : g \in Dealt(job[p]) /\ g \in Copied \ (Folder \cup Own)
      BY <1>1, <1>4, <1>5, <1>7 DEF Dealt, JAt
    <3>2. \A g \in Dealt(b) : Synced(p, g, removed[g])
      BY <1>1, <1>6, <1>7, <3>1 DEF Claims, JAt
    <3> QED  BY <1>4, <3>2 DEF Claims
  <2> QED  BY <1>3, <1>4, <1>5, <1>6, <1>9, <2>1, OneStep DEF files
<1>10. CASE SetFiles(p, files) /\ Spend /\ Step(p, k, {})
  <2>1. p \in Operator => Claims(p, k, files)
    <3> SUFFICES ASSUME p \in Operator PROVE Claims(p, k, files)
      OBVIOUS
    <3>1. \A g \in Dealt(k) : g \in Dealt(job[p])
      BY <1>1, <1>4, <1>7 DEF Dealt, JAt
    <3>2. \A g \in Dealt(k) : Synced(p, g, files[g])
      BY <1>1, <1>7, <3>1 DEF Claims, JAt
    <3> QED  BY <1>4, <3>2 DEF Claims
  <2>2. {} \in SUBSET Files
    OBVIOUS
  <2> QED  BY <1>1, <1>3, <1>4, <1>10, <2>1, <2>2, OneStep DEF files
<1> QED  BY <1>3, <1>8, <1>9, <1>10

LEMMA FolderKeeps ==
  ASSUME FilesKept, NEW p \in Programs, CopyFolder(p)
  PROVE  FilesKept' /\ UNCHANGED main /\ (Spend \/ Free)
<1> DEFINE files == FilesOf(p)
<1>1. files \in [Files -> Vals] /\ TypeOfTree(files) /\ job[p] \in Job /\ JAt(p, "folder")
  BY FilesTyped DEF CopyFolder
<1>2. PICK done \in {Folder, {}} :
        /\ SetFiles(p, [f \in Files |-> IF f \in done THEN "source" ELSE files[f]])
        /\ IF done = Folder THEN Free ELSE Spend
        /\ Step(p, [job[p] EXCEPT !.phase = "copy", !.failed = @ \cup (Folder \ done)], Folder)
  BY DEF CopyFolder
<1> DEFINE j == [job[p] EXCEPT !.phase = "copy", !.failed = @ \cup (Folder \ done)]
           copied == [f \in Files |-> IF f \in done THEN "source" ELSE files[f]]
<1>3. /\ SetFiles(p, copied) /\ Step(p, j, Folder) /\ (Spend \/ Free) /\ UNCHANGED main
  BY <1>2 DEF CopyFolder
<1>4. Copied \subseteq Files /\ Folder \subseteq Copied /\ Folder \in SUBSET Files /\ done \subseteq Folder
  BY DEF Files, Copied
<1>5. /\ j \in Job /\ j.phase = "copy" /\ j.todo = job[p].todo
      /\ j.failed = job[p].failed \cup (Folder \ done) /\ j.touched = job[p].touched
  BY <1>1, <1>4 DEF Job
<1>6. /\ copied \in [Files -> Vals] /\ TypeOfTree(copied)
      /\ \A g \in done : copied[g] = "source"
      /\ \A g \in Copied \ done : copied[g] = files[g]
  <2>1. \A f \in Files : copied[f] = IF f \in done THEN "source" ELSE files[f]
    OBVIOUS
  <2>2. \A f \in Folder : "source" \in Values(f) /\ "source" \in Vals
    BY <1>4, ValuesOf DEF Compared
  <2>3. copied \in [Files -> Vals]
    BY <1>1, <1>4, <2>2
  <2> HIDE DEF copied
  <2>4. TypeOfTree(copied)
    BY <1>1, <1>4, <2>1, <2>2 DEF TypeOfTree
  <2> QED  BY <1>4, <2>1, <2>3, <2>4
<1> HIDE DEF j, copied, files
<1>7. p \in Operator => Claims(p, j, copied)
  <2> SUFFICES ASSUME p \in Operator PROVE Claims(p, j, copied)
    OBVIOUS
  <2>1. Claims(p, job[p], files)
    BY DEF FilesKept, Copies, FilesOf, Operator, files
  <2>2. \A g \in Dealt(j) : g \in done \/ (g \in Dealt(job[p]) /\ g \in Copied \ done)
    BY <1>1, <1>4, <1>5 DEF Dealt, JAt
  <2>3. \A g \in Dealt(j) : Synced(p, g, copied[g])
    BY <1>1, <1>6, <2>1, <2>2 DEF Claims, JAt, Synced
  <2> QED  BY <1>5, <2>1, <2>3 DEF Claims
<1>8. p \in Operator => \A g \in Copied \ Folder : copied[g] = files[g]
  BY <1>4, <1>6
<1> QED  BY <1>3, <1>4, <1>5, <1>6, <1>7, <1>8, OneStep DEF files

\* Of the programs that copy, those with a clone of their own change the branch.
LEMMA SyncKeeps ==
  ASSUME FilesKept, NEW p \in Programs, SyncStep(p)
  PROVE  /\ FilesKept' /\ (Spend \/ Free)
         /\ \/ UNCHANGED main
            \/ p = "bot" /\ job[p] # job'[p]
            \/ p = "receiver" /\ tree[p].base = main /\ job[p] # job'[p]
<1>1. CASE StartJob(p) \/ FinishCopy(p) \/ Report(p) \/ StopJob(p)
  BY <1>1, StartKeeps, FinishKeeps, EndKeeps
<1>2. CASE PushTree(p)
  BY <1>2, PushKeeps
<1>3. CASE RemoveFolder(p) \/ CopyFolder(p)
  BY <1>3, RemoveKeeps, FolderKeeps
<1>4. CASE \E f \in job[p].todo : CopyFile(p, f)
  BY <1>4, CopyKeeps
<1> QED  BY <1>1, <1>2, <1>3, <1>4 DEF SyncStep, JobGoesOn

-----------------------------------------------------------------------------
(* The updater.                                                             *)

UpdaterSound == updater \in Update /\ Automates

LEMMA StartUpdateSound ==
  ASSUME MainTyped, UpdaterSound, StartUpdate
  PROVE  MainTyped' /\ UpdaterSound' /\ Spend
<1>1. MainTyped' /\ Spend
  BY DEF StartUpdate, Keeps, MainTyped
<1>2. PICK cleanup, force, dry \in BOOLEAN :
        updater' = [NoUpdate EXCEPT !.phase = "list", !.cleanup = cleanup, !.force = force, !.dry = dry]
  BY DEF StartUpdate
<1>3. updater' \in Update /\ updater'.phase = "list" /\ updater'.file = Flow
  BY <1>2 DEF NoUpdate, Update
<1> QED  BY <1>1, <1>3 DEF UpdaterSound, Automates, InPhase, UAt

LEMMA RaiseSound ==
  ASSUME MainTyped, UpdaterSound, RequestRaises
  PROVE  MainTyped' /\ UpdaterSound' /\ Spend
<1>1. MainTyped' /\ Spend /\ updater' = [updater EXCEPT !.phase = "end", !.good = FALSE]
  BY DEF RequestRaises, Keeps, MainTyped
<1>2. updater' \in Update /\ updater'.phase = "end" /\ updater'.good = FALSE
  BY <1>1 DEF UpdaterSound, Update
<1> QED  BY <1>1, <1>2 DEF UpdaterSound, Automates, InPhase, Succeeding

LEMMA ListSound ==
  ASSUME MainTyped, UpdaterSound, ListWorkflows
  PROVE  MainTyped' /\ UpdaterSound' /\ Free
<1> DEFINE r == [f \in Automation |-> IF f # Config /\ main[f].val # "absent" THEN main[f].sha ELSE 0]
<1>1. /\ MainTyped' /\ Free /\ UAt("list")
      /\ updater' = [updater EXCEPT !.phase = "detect", !.read = r]
  BY DEF ListWorkflows, Keeps, MainTyped
<1>2. r \in [Automation -> Nat]
  BY MainValues DEF Files
<1> HIDE DEF r
<1>3. updater' \in Update /\ updater'.phase = "detect" /\ updater'.file = updater.file
  BY <1>1, <1>2 DEF UpdaterSound, Update
<1> QED  BY <1>1, <1>3 DEF UpdaterSound, Automates, InPhase, UAt

LEMMA DetectSound ==
  ASSUME MainTyped, UpdaterSound, Detect
  PROVE  MainTyped' /\ UpdaterSound' /\ (Spend \/ Free)
<1>1. MainTyped' /\ UNCHANGED main /\ UAt("detect") /\ (Spend \/ Free)
  BY DEF Detect, Keeps, MainTyped
<1>2. PICK has \in BOOLEAN :
        /\ has => main[Flow].val = "reusable"
        /\ updater' = [updater EXCEPT !.has = has,
             !.phase = IF updater.cleanup THEN "clean"
                       ELSE IF has /\ ~updater.force THEN "validate" ELSE "get",
             !.todo = IF updater.cleanup THEN Listed ELSE {}]
  BY DEF Detect
<1> DEFINE t == IF updater.cleanup THEN Listed ELSE {}
           h == IF updater.cleanup THEN "clean" ELSE IF has /\ ~updater.force THEN "validate" ELSE "get"
<1>3. t \in SUBSET Automation
  BY DEF Listed
<1>4. updater' = [updater EXCEPT !.has = has, !.phase = h, !.todo = t]
  BY <1>2
<1>5. updater.file = Flow
  BY <1>1 DEF UpdaterSound, Automates, InPhase, UAt
<1> HIDE DEF t
<1>6. /\ updater' \in Update /\ updater'.file = Flow /\ updater'.has = has
      /\ updater'.phase = h /\ updater'.cleanup = updater.cleanup /\ updater'.force = updater.force
  BY <1>3, <1>4, <1>5 DEF UpdaterSound, Update
<1>7. FlowDone' \/ ~has
  BY <1>1, <1>2 DEF FlowDone
<1>8. Flow # Config
  BY DEF Flow, Config
<1>12. \/ h = "clean" /\ updater.cleanup
       \/ h = "validate" /\ has /\ ~updater.force
       \/ h = "get"
  OBVIOUS
<1> HIDE DEF h
<1>9. CASE h = "clean" /\ updater.cleanup
  BY <1>1, <1>6, <1>9 DEF Automates, InPhase, UAt, UpdaterSound
<1>10. CASE h = "validate" /\ has /\ ~updater.force
  BY <1>1, <1>6, <1>7, <1>10 DEF Automates, InPhase, UAt, UpdaterSound
<1>11. CASE h = "get"
  BY <1>1, <1>6, <1>8, <1>11 DEF Automates, InPhase, UAt, UpdaterSound
<1> QED  BY <1>9, <1>10, <1>11, <1>12

LEMMA RemoveOldSound ==
  ASSUME MainTyped, UpdaterSound, NEW f \in updater.todo, RemoveOld(f)
  PROVE  MainTyped' /\ UpdaterSound' /\ (Spend \/ Free)
<1>1. f \in Automation /\ f \in Files /\ "absent" \in Values(f)
  BY ValuesOf DEF UpdaterSound, Update, Files
<1>2. UAt("clean") /\ (UNCHANGED main \/ Write(f, "absent")) /\ (Spend \/ Free)
  BY DEF RemoveOld
<1>3. MainTyped'
  <2>1. CASE UNCHANGED main
    BY <2>1 DEF MainTyped
  <2>2. CASE Write(f, "absent")
    BY <1>1, <2>2, Writes
  <2> QED  BY <1>2, <2>1, <2>2
<1>4. PICK good \in BOOLEAN : updater' = [updater EXCEPT !.todo = @ \ {f}, !.good = @ /\ good]
  BY DEF RemoveOld
<1> DEFINE g == updater.good /\ good
           t == updater.todo \ {f}
<1>5. g \in BOOLEAN /\ t \in SUBSET Automation
  BY DEF UpdaterSound, Update
<1>6. updater' = [updater EXCEPT !.todo = t, !.good = g]
  BY <1>4
<1> HIDE DEF g, t
<1>7. /\ updater' \in Update /\ updater'.file = updater.file /\ updater'.phase = updater.phase
      /\ updater'.cleanup = updater.cleanup
  BY <1>5, <1>6 DEF UpdaterSound, Update
<1> QED  BY <1>2, <1>3, <1>7 DEF UpdaterSound, Automates, InPhase, UAt

LEMMA CleanupSound ==
  ASSUME MainTyped, UpdaterSound, CleanupDone
  PROVE  MainTyped' /\ UpdaterSound' /\ Free
<1> DEFINE h == IF updater.has /\ ~updater.force THEN "validate"
                ELSE IF updater.good THEN "get" ELSE "end"
<1>1. MainTyped' /\ Free /\ UAt("clean") /\ updater' = [updater EXCEPT !.phase = h]
  BY DEF CleanupDone, Keeps, MainTyped
<1>2. updater.file = Flow /\ updater.cleanup /\ Flow # Config
  BY <1>1 DEF UpdaterSound, Automates, InPhase, UAt, Flow, Config
<1>3. h \in {"validate", "get", "end"}
  OBVIOUS
<1>4. /\ updater' \in Update /\ updater'.file = updater.file /\ updater'.phase = h
      /\ updater'.cleanup = updater.cleanup /\ updater'.force = updater.force
      /\ updater'.has = updater.has /\ updater'.good = updater.good
  BY <1>1, <1>3 DEF UpdaterSound, Update
<1>8. \/ h = "validate" /\ updater.has /\ ~updater.force
      \/ h = "get"
      \/ h = "end" /\ ~updater.good
  OBVIOUS
<1> HIDE DEF h
<1>5. CASE h = "validate" /\ updater.has /\ ~updater.force
  BY <1>1, <1>2, <1>4, <1>5 DEF UpdaterSound, Automates, InPhase, UAt, Succeeding
<1>6. CASE h = "get"
  BY <1>1, <1>2, <1>4, <1>6 DEF UpdaterSound, Automates, InPhase, UAt
<1>7. CASE h = "end" /\ ~updater.good
  BY <1>1, <1>4, <1>7 DEF UpdaterSound, Automates, InPhase, UAt, Succeeding
<1> QED  BY <1>1, <1>5, <1>6, <1>7, <1>8

LEMMA ValidateSound ==
  ASSUME MainTyped, UpdaterSound, Validate
  PROVE  MainTyped' /\ UpdaterSound' /\ Free
<1>1. MainTyped' /\ Free /\ UNCHANGED main /\ UAt("validate")
  BY DEF Validate, Keeps, MainTyped
<1>2. /\ updater.has /\ ~updater.force /\ (Succeeding => FlowDone)
      /\ main[Config].sha \in Nat /\ updater \in Update
  BY <1>1, MainValues DEF UpdaterSound, Automates, InPhase, UAt, Files, Automation
<1>3. main[Config].val \in {"absent", "broken", "bare", "full"}
  BY MainValues, ValuesOf DEF Files, Automation
<1>4. CASE main[Config].val = "absent"
  <2>1. updater' = [updater EXCEPT !.phase = "get", !.file = Config]
    BY <1>4 DEF Validate
  <2>2. /\ updater' \in Update /\ updater'.phase = "get" /\ updater'.touched = updater.touched
        /\ Succeeding' = Succeeding
    BY <1>2, <2>1 DEF Update, Succeeding
  <2> QED  BY <1>1, <1>2, <2>2 DEF UpdaterSound, Automates, InPhase, UAt, FlowDone
<1>5. CASE main[Config].val = "full"
  <2>1. updater' = [updater EXCEPT !.phase = "end"]
    BY <1>5 DEF Validate
  <2>2. /\ updater' \in Update /\ updater'.phase = "end" /\ updater'.touched = updater.touched
        /\ Succeeding' = Succeeding
    BY <1>2, <2>1 DEF Update, Succeeding
  <2> QED  BY <1>1, <1>2, <1>5, <2>2 DEF UpdaterSound, Automates, InPhase, UAt, FlowDone, ConfigDone
<1>6. CASE main[Config].val = "broken"
  <2>1. updater' = [updater EXCEPT !.phase = "end", !.good = FALSE]
    BY <1>6 DEF Validate
  <2>2. updater' \in Update /\ updater'.phase = "end" /\ ~updater'.good
    BY <1>2, <2>1 DEF Update
  <2> QED  BY <1>1, <2>2 DEF UpdaterSound, Automates, InPhase, Succeeding
<1>7. CASE main[Config].val = "bare"
  <2> DEFINE r == [updater.read EXCEPT ![Config] = main[Config].sha]
  <2>1. updater' = [updater EXCEPT !.phase = "patch", !.read = r]
    BY <1>7 DEF Validate
  <2>2. r \in [Automation -> Nat]
    BY <1>2 DEF Update
  <2> HIDE DEF r
  <2>3. /\ updater' \in Update /\ updater'.phase = "patch" /\ updater'.touched = updater.touched
        /\ updater'.has = updater.has /\ updater'.force = updater.force /\ Succeeding' = Succeeding
    BY <1>2, <2>1, <2>2 DEF Update, Succeeding
  <2> QED  BY <1>1, <1>2, <2>3 DEF UpdaterSound, Automates, InPhase, UAt, FlowDone
<1> QED  BY <1>1, <1>3, <1>4, <1>5, <1>6, <1>7

LEMMA PatchSound ==
  ASSUME MainTyped, UpdaterSound, UpdateConfiguration
  PROVE  MainTyped' /\ UpdaterSound' /\ (Spend \/ Free)
<1>1. /\ Config \in Files /\ Flow \in Files /\ "full" \in Values(Config) /\ Flow # Config
      /\ updater \in Update
  BY ValuesOf DEF UpdaterSound, Files, Automation, Flow, Config
<1>2. UAt("patch") /\ (UNCHANGED main \/ Write(Config, "full")) /\ (Spend \/ Free)
  BY DEF UpdateConfiguration
<1>3. MainTyped'
  <2>1. CASE UNCHANGED main
    BY <2>1 DEF MainTyped
  <2>2. CASE Write(Config, "full")
    BY <1>1, <2>2, Writes
  <2> QED  BY <1>2, <2>1, <2>2
<1>4. PICK good \in BOOLEAN :
        /\ updater.dry \/ ~good \/ Write(Config, "full")
        /\ updater' = [updater EXCEPT !.phase = "end", !.good = @ /\ good]
  BY DEF UpdateConfiguration
<1> DEFINE g == updater.good /\ good
<1>5. g \in BOOLEAN /\ (g => good /\ updater.good) /\ updater' = [updater EXCEPT !.phase = "end", !.good = g]
  BY <1>1, <1>4 DEF Update
<1> HIDE DEF g
<1>6. /\ updater' \in Update /\ updater'.phase = "end" /\ updater'.good = g
      /\ updater'.dry = updater.dry /\ updater'.cleanup = updater.cleanup
      /\ updater'.has = updater.has /\ updater'.force = updater.force
      /\ updater'.touched = updater.touched
  BY <1>1, <1>5 DEF Update
<1>7. ASSUME Succeeding' PROVE FlowDone' /\ ConfigDone'
  <2>1. Succeeding /\ ~updater.dry /\ good
    BY <1>5, <1>6, <1>7 DEF Succeeding
  <2>2. FlowDone
    BY <1>2, <2>1 DEF UpdaterSound, Automates, InPhase, UAt
  <2>3. Write(Config, "full")
    BY <1>4, <2>1
  <2>4. main'[Config].val = "full" /\ main'[Flow] = main[Flow]
    BY <1>1, <2>3, Writes
  <2> QED  BY <1>6, <2>2, <2>4 DEF FlowDone, ConfigDone
<1>8. UpdaterSound'
  BY <1>6, <1>7 DEF UpdaterSound, Automates, InPhase, UAt
<1> QED  BY <1>2, <1>3, <1>8

LEMMA GetSound ==
  ASSUME MainTyped, UpdaterSound, GetExisting
  PROVE  MainTyped' /\ UpdaterSound' /\ Free
<1>1. MainTyped' /\ Free /\ UNCHANGED main /\ UAt("get")
  BY DEF GetExisting, Keeps, MainTyped
<1>2. updater \in Update /\ (Succeeding /\ updater.file = Config => FlowDone)
  BY <1>1 DEF UpdaterSound, Automates, InPhase, UAt
<1>3. CASE updater.dry
  <2>1. updater' = [updater EXCEPT !.phase = "end"]
    BY <1>3 DEF GetExisting
  <2>2. updater' \in Update /\ updater'.phase = "end" /\ updater'.dry
    BY <1>2, <1>3, <2>1 DEF Update
  <2> QED  BY <1>1, <2>2 DEF UpdaterSound, Automates, InPhase, Succeeding
<1>4. CASE ~updater.dry /\ main[updater.file].val = "absent"
  <2>1. updater' = [updater EXCEPT !.phase = "put"]
    BY <1>4 DEF GetExisting
  <2>2. /\ updater' \in Update /\ updater'.phase = "put" /\ updater'.file = updater.file
        /\ updater'.touched = updater.touched /\ Succeeding' = Succeeding
    BY <1>2, <2>1 DEF Update, Succeeding
  <2> QED  BY <1>1, <1>2, <2>2 DEF UpdaterSound, Automates, InPhase, UAt, FlowDone
<1>5. CASE ~updater.dry /\ main[updater.file].val # "absent"
  <2> DEFINE r == [updater.read EXCEPT ![updater.file] = main[updater.file].sha]
  <2>1. updater' = [updater EXCEPT !.phase = "del", !.read = r]
    BY <1>5 DEF GetExisting
  <2>2. r \in [Automation -> Nat]
    BY <1>2, MainValues DEF Update, Files, Automation
  <2> HIDE DEF r
  <2>3. /\ updater' \in Update /\ updater'.phase = "del" /\ updater'.file = updater.file
        /\ updater'.touched = updater.touched /\ Succeeding' = Succeeding
    BY <1>2, <2>1, <2>2 DEF Update, Succeeding
  <2> QED  BY <1>1, <1>2, <2>3 DEF UpdaterSound, Automates, InPhase, UAt, FlowDone
<1> QED  BY <1>3, <1>4, <1>5

LEMMA DeleteSound ==
  ASSUME MainTyped, UpdaterSound, DeleteExisting
  PROVE  MainTyped' /\ UpdaterSound' /\ (Spend \/ Free)
<1> DEFINE x == updater.file
<1>1. /\ x \in {Flow, Config} /\ x \in Files /\ Flow \in Files /\ Flow # Config /\ "absent" \in Values(x)
      /\ updater \in Update
  BY ValuesOf DEF UpdaterSound, Update, Files, Automation, Flow, Config
<1>2. /\ UAt("del") /\ (UNCHANGED main \/ Write(x, "absent")) /\ (Spend \/ Free)
      /\ updater' = [updater EXCEPT !.phase = "put"]
  BY DEF DeleteExisting
<1>3. MainTyped' /\ (x = Config => main'[Flow] = main[Flow])
  <2>1. CASE UNCHANGED main
    BY <2>1 DEF MainTyped
  <2>2. CASE Write(x, "absent")
    BY <1>1, <2>2, Writes
  <2> QED  BY <1>2, <2>1, <2>2
<1>4. /\ updater' \in Update /\ updater'.phase = "put" /\ updater'.file = x
      /\ updater'.touched = updater.touched /\ Succeeding' = Succeeding
  BY <1>1, <1>2 DEF Update, Succeeding
<1>5. x = Config /\ Succeeding' => FlowDone'
  <2>1. x = Config /\ Succeeding => FlowDone
    BY <1>2 DEF UpdaterSound, Automates, InPhase, UAt
  <2> QED  BY <1>3, <1>4, <2>1 DEF FlowDone
<1>6. UpdaterSound'
  BY <1>4, <1>5 DEF UpdaterSound, Automates, InPhase, UAt
<1> QED  BY <1>2, <1>3, <1>6

LEMMA PutSound ==
  ASSUME MainTyped, UpdaterSound, PutNew
  PROVE  MainTyped' /\ UpdaterSound' /\ (Spend \/ Free)
<1> DEFINE x == updater.file
           v == IF x = Flow THEN "reusable" ELSE "full"
<1>1. /\ x \in {Flow, Config} /\ x \in Files /\ Flow \in Files /\ Config \in Files /\ Flow # Config
      /\ v \in Values(x) /\ updater \in Update
  BY ValuesOf DEF UpdaterSound, Update, Files, Automation, Flow, Config
<1>2. UAt("put") /\ (UNCHANGED main \/ Write(x, v)) /\ (Spend \/ Free)
  BY DEF PutNew
<1>3. PICK good \in BOOLEAN : (~good \/ Write(x, v)) /\ updater' = NextFile(good)
  BY DEF PutNew
<1> DEFINE g == updater.good /\ good
<1>4. /\ g \in BOOLEAN /\ (g => good /\ updater.good)
      /\ x = Flow => updater' = [updater EXCEPT !.phase = "get", !.file = Config, !.good = g]
      /\ x # Flow => updater' = [updater EXCEPT !.phase = "end", !.good = g]
  BY <1>1, <1>3 DEF Update, NextFile
<1> HIDE DEF g
<1>5. /\ updater' \in Update /\ updater'.file = Config /\ updater'.good = g
      /\ updater'.dry = updater.dry /\ updater'.cleanup = updater.cleanup
      /\ updater'.has = updater.has /\ updater'.force = updater.force
      /\ updater'.touched = updater.touched
      /\ updater'.phase = IF x = Flow THEN "get" ELSE "end"
  BY <1>1, <1>4 DEF Update
<1>6. /\ MainTyped'
      /\ Write(x, v) => main'[x].val = v /\ (x # Flow => main'[Flow] = main[Flow])
  <2>1. CASE Write(x, v)
    BY <1>1, <2>1, Writes
  <2>2. CASE ~Write(x, v)
    BY <1>2, <2>2 DEF MainTyped
  <2> QED  BY <2>1, <2>2
<1>7. ASSUME Succeeding' PROVE FlowDone' /\ (x # Flow => ConfigDone')
  <2>1. Succeeding /\ Write(x, v)
    BY <1>3, <1>4, <1>5, <1>7 DEF Succeeding
  <2>2. CASE x = Flow
    BY <1>6, <2>1, <2>2 DEF FlowDone
  <2>3. CASE x # Flow
    <3>1. x = Config /\ FlowDone
      BY <1>1, <1>2, <2>1, <2>3 DEF UpdaterSound, Automates, InPhase, UAt
    <3> QED  BY <1>5, <1>6, <2>1, <2>3, <3>1 DEF FlowDone, ConfigDone
  <2> QED  BY <2>2, <2>3
<1>8. UpdaterSound'
  <2>1. CASE x = Flow
    BY <1>5, <1>7, <2>1 DEF UpdaterSound, Automates, InPhase, UAt
  <2>2. CASE x # Flow
    BY <1>5, <1>7, <2>2 DEF UpdaterSound, Automates, InPhase, UAt
  <2> QED  BY <2>1, <2>2
<1> QED  BY <1>2, <1>6, <1>8

LEMMA EndUpdateSound ==
  ASSUME MainTyped, UpdaterSound, EndUpdate
  PROVE  MainTyped' /\ UpdaterSound' /\ Free
<1>1. MainTyped' /\ Free /\ updater' = NoUpdate
  BY DEF EndUpdate, Keeps, MainTyped
<1>2. updater' \in Update /\ updater'.phase = "idle"
  BY <1>1 DEF NoUpdate, Update
<1> QED  BY <1>1, <1>2 DEF UpdaterSound, Automates, InPhase, UAt

LEMMA UpdaterSteps ==
  ASSUME MainTyped, UpdaterSound, UpdaterStep
  PROVE  MainTyped' /\ UpdaterSound' /\ (Spend \/ Free) /\ UNCHANGED clone
<1>1. CASE StartUpdate \/ RequestRaises \/ ListWorkflows \/ Detect
  <2>1. UNCHANGED clone
    BY <1>1 DEF StartUpdate, RequestRaises, ListWorkflows, Detect, Keeps
  <2> QED  BY <1>1, <2>1, StartUpdateSound, RaiseSound, ListSound, DetectSound
<1>2. CASE CleanupDone \/ Validate \/ UpdateConfiguration \/ GetExisting
  <2>1. UNCHANGED clone
    BY <1>2 DEF CleanupDone, Validate, UpdateConfiguration, GetExisting, Keeps
  <2> QED  BY <1>2, <2>1, CleanupSound, ValidateSound, PatchSound, GetSound
<1>3. CASE DeleteExisting \/ PutNew \/ EndUpdate
  <2>1. UNCHANGED clone
    BY <1>3 DEF DeleteExisting, PutNew, EndUpdate, Keeps
  <2> QED  BY <1>3, <2>1, DeleteSound, PutSound, EndUpdateSound
<1>4. CASE \E f \in updater.todo : RemoveOld(f)
  <2>1. UNCHANGED clone
    BY <1>4 DEF RemoveOld
  <2> QED  BY <1>4, <2>1, RemoveOldSound
<1> QED  BY <1>1, <1>2, <1>3, <1>4 DEF UpdaterStep

\* What others change is noted, and the run claims nothing of it.
LEMMA NotedSound ==
  ASSUME UpdaterSound, Noted
  PROVE  UpdaterSound'
<1> DEFINE t == IF UAt("idle") THEN {} ELSE updater.touched \cup {f \in Files : main'[f] # main[f]}
<1>1. t \in SUBSET Files /\ updater' = [updater EXCEPT !.touched = t] /\ updater \in Update
  BY DEF UpdaterSound, Update, Noted
<1>2. ~UAt("idle") => updater.touched \subseteq t /\ \A f \in Files \ t : main'[f] = main[f]
  OBVIOUS
<1> HIDE DEF t
<1>3. /\ updater' \in Update /\ updater'.phase = updater.phase /\ updater'.touched = t
      /\ updater'.file = updater.file /\ updater'.has = updater.has /\ updater'.good = updater.good
      /\ updater'.force = updater.force /\ updater'.cleanup = updater.cleanup
      /\ updater'.dry = updater.dry
  BY <1>1 DEF Update
<1>4. Flow \in Files /\ Config \in Files
  BY DEF Files, Automation
<1>5. ~UAt("idle") => (FlowDone => FlowDone') /\ (ConfigDone => ConfigDone')
  <2> SUFFICES ASSUME ~UAt("idle") PROVE (FlowDone => FlowDone') /\ (ConfigDone => ConfigDone')
    OBVIOUS
  <2>1. FlowDone => FlowDone'
    BY <1>2, <1>3, <1>4 DEF FlowDone
  <2>2. ConfigDone => ConfigDone'
    BY <1>2, <1>3, <1>4 DEF ConfigDone
  <2> QED  BY <2>1, <2>2
<1>6. Succeeding' = Succeeding
  BY <1>3 DEF Succeeding
<1>7. Automates'
  BY <1>3, <1>5, <1>6 DEF UpdaterSound, Automates, InPhase, UAt
<1> QED  BY <1>3, <1>7 DEF UpdaterSound

-----------------------------------------------------------------------------
(* People.                                                                  *)

LEMMA NotedFiles ==
  ASSUME FilesKept, CloneTyped', MainTyped', UNCHANGED tree, NotedByJobs
  PROVE  FilesKept'
<1> DEFINE changed == {f \in Files : clone'.files[f] # clone.files[f]}
           t(p) == job[p].touched \cup changed
           k(p) == [job[p] EXCEPT !.touched = t(p)]
<1>1. job \in [Programs -> Job]
  BY DEF FilesKept, JobsTyped
<1>2. ASSUME NEW p \in Programs
      PROVE  /\ k(p) \in Job /\ k(p).phase = job[p].phase /\ k(p).todo = job[p].todo
             /\ k(p).failed = job[p].failed /\ k(p).touched = t(p)
  <2>1. t(p) \in SUBSET Files
    BY <1>1 DEF Job
  <2> HIDE DEF t
  <2> QED  BY <1>1, <2>1 DEF Job
<1>3. job' = [p \in Programs |-> IF p \in Cloners \/ JAt(p, "idle") THEN job[p] ELSE k(p)]
  BY DEF NotedByJobs
<1> HIDE DEF k
<1>4. JobsTyped'
  BY <1>1, <1>2, <1>3 DEF JobsTyped
<1>5. ASSUME NEW q \in Operator PROVE Copies(q)'
  <2>1. q \in Programs /\ q \notin Cloners /\ Copies(q)
    BY <1>5 DEF FilesKept, Operator
  <2>2. job'[q] = IF JAt(q, "idle") THEN job[q] ELSE k(q)
    BY <1>3, <2>1
  <2>3. job'[q].phase = job[q].phase /\ job'[q].todo = job[q].todo /\ job'[q].failed = job[q].failed
    BY <1>2, <2>1, <2>2
  <2>4. ~JAt(q, "idle") => job[q].touched \cup changed \subseteq job'[q].touched
    BY <1>2, <2>1, <2>2
  <2>5. \A f \in Copied \ changed : clone'.files[f] = clone.files[f]
    BY DEF Files
  <2> HIDE DEF changed
  <2> QED  BY <2>1, <2>3, <2>4, <2>5, Seen
<1>6. TreesTyped'
  BY DEF FilesKept, TreesTyped
<1> QED  BY <1>4, <1>5, <1>6 DEF FilesKept

LEMMA PersonKeeps ==
  ASSUME FilesKept, PersonStep
  PROVE  FilesKept' /\ Spend
<1>1. Noted /\ NotedByJobs /\ UNCHANGED tree /\ MainTyped /\ CloneTyped
  BY DEF PersonStep, FilesKept
<1>2. ASSUME NEW f \in Files, EditOnline(f) PROVE MainTyped' /\ CloneTyped' /\ Spend
  <2>1. PICK v \in Edited(f) : Write(f, v)
    BY <1>2 DEF EditOnline
  <2>2. v \in Values(f)
    BY DEF Edited
  <2>3. MainTyped'
    BY <1>1, <2>1, <2>2, Writes
  <2> QED  BY <1>1, <1>2, <2>3 DEF EditOnline, CloneTyped
<1>3. ASSUME NEW f \in Files, EditClone(f) PROVE MainTyped' /\ CloneTyped' /\ Spend
  <2>1. PICK v \in Edited(f) : clone' = [clone EXCEPT !.files[f] = v]
    BY <1>3 DEF EditClone
  <2>2. v \in Values(f) /\ v \in Vals
    BY ValuesOf DEF Edited
  <2> DEFINE files == [clone.files EXCEPT ![f] = v]
  <2>3. clone \in Clone /\ clone.files \in [Files -> Vals] /\ TypeOfTree(clone.files)
    BY <1>1 DEF CloneTyped, Clone, Vals
  <2>4. files \in [Files -> Vals] /\ TypeOfTree(files)
    BY <2>2, <2>3 DEF TypeOfTree
  <2>5. clone' = [clone EXCEPT !.files = files]
    BY <2>1, <2>3 DEF Clone
  <2> HIDE DEF files
  <2>6. clone' \in Clone /\ clone'.files = files
    BY <2>3, <2>4, <2>5 DEF Clone, Vals
  <2> QED  BY <1>1, <1>3, <2>4, <2>6 DEF EditClone, MainTyped, CloneTyped
<1>4. ASSUME PushClone PROVE MainTyped' /\ CloneTyped' /\ Spend
  <2>1. clone \in Clone /\ clone.files \in [Files -> Vals] /\ TypeOfTree(clone.files)
    BY <1>1 DEF CloneTyped, Clone, Vals
  <2>2. MainTyped'
    BY <1>1, <1>4, <2>1, Pushes DEF PushClone
  <2>3. clone' = [clone EXCEPT !.base = main'] /\ main' \in [Files -> Version]
    BY <1>4, <2>2 DEF PushClone, MainTyped
  <2>4. clone' \in Clone /\ clone'.files = clone.files
    BY <2>1, <2>3 DEF Clone
  <2> QED  BY <1>4, <2>1, <2>2, <2>4 DEF PushClone, CloneTyped
<1>5. ASSUME PullClone PROVE MainTyped' /\ CloneTyped' /\ Spend
  BY <1>1, <1>5, Contents DEF PullClone, MainTyped, CloneTyped
<1>6. PushClone \/ PullClone \/ \E f \in Files : EditOnline(f) \/ EditClone(f)
  BY DEF PersonStep
<1>7. MainTyped' /\ CloneTyped' /\ Spend
  BY <1>2, <1>3, <1>4, <1>5, <1>6
<1> QED  BY <1>1, <1>7, NotedFiles

-----------------------------------------------------------------------------
(* The invariant.                                                           *)

LEMMA InitSound == UpkeepInit => Sound
<1> SUFFICES ASSUME UpkeepInit PROVE Sound
  OBVIOUS
<1>1. MainTyped
  <2>1. PICK kept \in BOOLEAN :
          main = [f \in Files |->
            [sha |-> 1,
             val |-> CASE f \in Copied -> IF kept THEN "older" ELSE "absent"
                       [] f = Flow     -> IF kept THEN "reusable" ELSE "other"
                       [] f = Config   -> IF kept THEN "bare" ELSE "absent"
                       [] OTHER        -> "present"]]
    BY DEF UpkeepInit, FilesInit
  <2>2. ASSUME NEW f \in Files PROVE main[f].val \in Values(f) /\ main[f].sha = 1
    <3>1. Flow # Config /\ Flow \notin Copied /\ Config \notin Copied
      BY FilesAssumption DEF Flow, Config, Automation
    <3>2. CASE f \in Copied
      BY <2>1, <3>2, ValuesOf DEF Compared
    <3>3. CASE f = Flow
      BY <2>1, <3>1, <3>3, ValuesOf
    <3>4. CASE f = Config
      BY <2>1, <3>1, <3>4, ValuesOf
    <3>5. CASE f \notin Copied /\ f # Flow /\ f # Config
      BY <2>1, <3>5 DEF Values
    <3> QED  BY <3>2, <3>3, <3>4, <3>5
  <2>3. \A f \in Files : main[f] = [val |-> main[f].val, sha |-> 1] /\ main[f].val \in Vals
    BY <2>1, <2>2, ValuesOf
  <2>4. DOMAIN main = Files /\ main = [f \in Files |-> main[f]]
    BY <2>1
  <2>5. \A f \in Files : main[f] \in Version
    <3>1. Version = [val : Vals, sha : Nat]
      BY DEF Version, Vals
    <3>2. \A v \in Vals : [val |-> v, sha |-> 1] \in Version
      BY <3>1
    <3> QED  BY <2>3, <3>2
  <2>6. main \in [Files -> Version]
    BY <2>4, <2>5
  <2> QED  BY <2>2, <2>6 DEF MainTyped, TypeOfTree, Content
<1>2. CloneTyped
  BY <1>1, Contents DEF UpkeepInit, FilesInit, CloneTyped
<1>3. TreesTyped
  BY <1>2 DEF UpkeepInit, SyncInit, TreesTyped, CloneTyped
<1>4. JobsTyped /\ \A p \in Operator : Copies(p)
  BY Ended DEF UpkeepInit, SyncInit, JobsTyped, Copies, Operator
<1>5. updater \in Update /\ Automates
  BY DEF UpkeepInit, NoUpdate, Update, Automates, InPhase, UAt
<1>6. spent \in 0..Budget
  BY BudgetAssumption DEF UpkeepInit, FilesInit
<1> QED  BY <1>1, <1>2, <1>3, <1>4, <1>5, <1>6 DEF Sound, FilesKept

LEMMA StepSound == Sound /\ [UpkeepNext]_upkeepVars => Sound'
<1> SUFFICES ASSUME Sound, [UpkeepNext]_upkeepVars PROVE Sound'
  OBVIOUS
<1>1. FilesKept /\ UpdaterSound /\ spent \in 0..Budget
  BY DEF Sound, UpdaterSound
<1>2. ASSUME UpdaterStep, UNCHANGED <<job, tree>> PROVE Sound'
  <2>1. MainTyped' /\ UpdaterSound' /\ (Spend \/ Free) /\ UNCHANGED clone
    BY <1>1, <1>2, UpdaterSteps DEF FilesKept
  <2>2. FilesKept'
    BY <1>1, <1>2, <2>1 DEF FilesKept, CloneTyped, TreesTyped, JobsTyped, Copies
  <2>3. spent' \in 0..Budget
    BY <1>1, <2>1, UpkeepSpends
  <2> QED  BY <2>1, <2>2, <2>3 DEF Sound, UpdaterSound
<1>3. ASSUME NEW p \in Programs, SyncStep(p), Noted PROVE Sound'
  <2>1. FilesKept' /\ spent' \in 0..Budget
    BY <1>1, <1>3, SyncKeeps, UpkeepSpends
  <2>2. UpdaterSound'
    BY <1>1, <1>3, NotedSound
  <2> QED  BY <2>1, <2>2 DEF Sound, UpdaterSound
<1>4. ASSUME PersonStep PROVE Sound'
  <2>1. FilesKept' /\ spent' \in 0..Budget
    BY <1>1, <1>4, PersonKeeps, UpkeepSpends
  <2>2. UpdaterSound'
    BY <1>1, <1>4, NotedSound DEF PersonStep
  <2> QED  BY <2>1, <2>2 DEF Sound, UpdaterSound
<1>5. ASSUME UNCHANGED upkeepVars PROVE Sound'
  BY <1>5 DEF Sound, FilesKept, MainTyped, CloneTyped, TreesTyped, JobsTyped, Copies, Automates,
              Succeeding, FlowDone, ConfigDone, InPhase, UAt, upkeepVars
<1> QED  BY <1>2, <1>3, <1>4, <1>5 DEF UpkeepNext

LEMMA UpkeepSound == UpkeepSpec => []Sound
BY InitSound, StepSound, PTL DEF UpkeepSpec

-----------------------------------------------------------------------------
(* The theorems.                                                            *)

\* The variables keep their types.
THEOREM UpkeepTypeCorrect == UpkeepSpec => []UpkeepTypeOK
<1>1. Sound => UpkeepTypeOK
  BY Parts DEF Sound, FilesKept
<1> QED  BY <1>1, UpkeepSound, PTL

\* A successful update leaves the repository automated, whatever it began from
\* and whatever else went on (update_repository).
THEOREM UpdateAutomates == UpkeepSpec => []SuccessMeansAutomated
<1>1. Sound => SuccessMeansAutomated
  BY DEF Sound, Automates, SuccessMeansAutomated, Succeeding, FlowDone, ConfigDone, UAt
<1> QED  BY <1>1, UpkeepSound, PTL

\* What a copying program reports as copied is as in ghcommon, with both at work
\* in one clone and people editing it (repo-sync.py, sync-repo-setup.py).
THEOREM CopiesAreReported == UpkeepSpec => []ReportedMeansSynced
<1>1. ASSUME Sound, NEW p \in Programs \ Cloners, JAt(p, "end"),
             NEW f \in Copied \ (job[p].failed \cup job[p].touched)
      PROVE  Synced(p, f, clone.files[f])
  <2>1. Claims(p, job[p], clone.files)
    BY <1>1 DEF Sound, FilesKept, Copies, Operator
  <2>2. f \in Dealt(job[p])
    BY <1>1, <2>1 DEF Dealt, Claims, JAt
  <2> QED  BY <1>1, <2>1, <2>2 DEF Claims, JAt
<1>2. Sound => ReportedMeansSynced
  BY <1>1 DEF ReportedMeansSynced, Synced
<1> QED  BY <1>2, UpkeepSound, PTL

\* Nothing that stands on the branch is replaced unread but by people and by the
\* forced push of the bot (_remove_file, _update_file, git push).
THEOREM ReplacedOnceRead == UpkeepSpec => EditsAreRead
<1> DEFINE ReadBefore(f) ==
      main'[f] # main[f] /\ main[f].val # "absent" =>
        \/ updater' # updater /\ f \in Automation /\ updater.read[f] = main[f].sha
        \/ job["receiver"] # job'["receiver"] /\ tree["receiver"].base[f] = main[f]
        \/ job["bot"] # job'["bot"] \/ PersonStep
<1>1. ASSUME Sound, [UpkeepNext]_upkeepVars, NEW f \in Files PROVE ReadBefore(f)
  <2> SUFFICES ASSUME main'[f] # main[f], main[f].val # "absent",
                      ~PersonStep, job["bot"] = job'["bot"]
               PROVE  \/ updater' # updater /\ f \in Automation /\ updater.read[f] = main[f].sha
                      \/ job["receiver"] # job'["receiver"] /\ tree["receiver"].base[f] = main[f]
    OBVIOUS
  <2>1. FilesKept /\ MainTyped /\ updater \in Update
    BY <1>1 DEF Sound, FilesKept
  <2>2. CASE UpdaterStep
    <3> DEFINE wrote(x) == x \in Automation /\ updater.read[x] = main[x].sha /\ updater' # updater
    <3>1. PICK x \in Automation :
            (\E v \in Values(x) : Write(x, v)) /\ (main[x].val = "absent" \/ wrote(x))
      <4>1. \/ \E x \in updater.todo : RemoveOld(x)
            \/ UpdateConfiguration \/ DeleteExisting \/ PutNew
        BY <2>2 DEF UpdaterStep, StartUpdate, RequestRaises, ListWorkflows, Detect, CleanupDone,
                    Validate, GetExisting, EndUpdate, Keeps
      <4>2. ASSUME NEW x \in updater.todo, RemoveOld(x)
            PROVE  Write(x, "absent") /\ wrote(x) /\ "absent" \in Values(x)
        <5>1. x \in Automation /\ "absent" \in Values(x)
          BY <2>1, ValuesOf DEF Update, Files
        <5>2. Write(x, "absent") /\ updater.read[x] = main[x].sha
          BY <4>2 DEF RemoveOld
        <5>3. updater'.todo = updater.todo \ {x}
          BY <2>1, <4>2 DEF RemoveOld, Update
        <5> QED  BY <4>2, <5>1, <5>2, <5>3
      <4>3. ASSUME UpdateConfiguration
            PROVE  Write(Config, "full") /\ wrote(Config) /\ "full" \in Values(Config)
        <5>1. Write(Config, "full") /\ updater.read[Config] = main[Config].sha /\ updater.phase = "patch"
          BY <4>3 DEF UpdateConfiguration, UAt
        <5>2. updater'.phase = "end"
          BY <2>1, <4>3 DEF UpdateConfiguration, Update
        <5> QED  BY <5>1, <5>2, ValuesOf DEF Automation
      <4>4. ASSUME DeleteExisting
            PROVE  LET x == updater.file IN Write(x, "absent") /\ wrote(x) /\ "absent" \in Values(x)
        <5>1. updater.file \in Automation /\ "absent" \in Values(updater.file)
          BY <2>1, ValuesOf DEF Update, Automation, Files
        <5>2. /\ Write(updater.file, "absent") /\ updater.read[updater.file] = main[updater.file].sha
              /\ updater.phase = "del"
          BY <4>4 DEF DeleteExisting, UAt
        <5>3. updater'.phase = "put"
          BY <2>1, <4>4 DEF DeleteExisting, Update
        <5> QED  BY <5>1, <5>2, <5>3
      <4>5. ASSUME PutNew
            PROVE  LET x == updater.file
                       v == IF x = Flow THEN "reusable" ELSE "full"
                   IN  Write(x, v) /\ main[x].val = "absent" /\ v \in Values(x) /\ x \in Automation
        <5>1. updater.file \in {Flow, Config} /\ Flow # Config
          BY <2>1 DEF Update, Flow, Config
        <5> QED  BY <4>5, <5>1, ValuesOf DEF PutNew, Automation
      <4> QED  BY <2>1, <4>1, <4>2, <4>3, <4>4, <4>5 DEF Update, Automation
    <3>2. x = f
      BY <2>1, <3>1, Writes DEF Files
    <3> QED  BY <3>1, <3>2
  <2>3. ASSUME NEW p \in Programs, SyncStep(p)
        PROVE  job["receiver"] # job'["receiver"] /\ tree["receiver"].base[f] = main[f]
    BY <2>1, <2>3, SyncKeeps
  <2> QED  BY <1>1, <2>2, <2>3 DEF UpkeepNext, upkeepVars
<1>2. Sound /\ [UpkeepNext]_upkeepVars =>
        [\A f \in Files : main'[f] # main[f] /\ main[f].val # "absent" =>
           \/ updater' # updater /\ f \in Automation /\ updater.read[f] = main[f].sha
           \/ job["receiver"] # job'["receiver"] /\ tree["receiver"].base[f] = main[f]
           \/ job["bot"] # job'["bot"] \/ PersonStep]_upkeepVars
  BY <1>1
<1> QED  BY <1>2, UpkeepSound, PTL DEF UpkeepSpec, EditsAreRead

=============================================================================
