----------------------------- MODULE GitRebase -----------------------------
(***************************************************************************)
(* rebase.py in a clone where a person works too: the branch is backed up,  *)
(* rebased onto the local target branch and pushed by force if asked to,    *)
(* while others push to the same branch of the remote. Git is external.     *)
(*                                                                         *)
(* A branch is the set of its changes, replayed in the order of their       *)
(* numbers; equal sets are equal commits. The person stays on the branch    *)
(* and commits only while no rebase is stopped. What goes wrong, the runs   *)
(* and what people do beyond committing come out of one budget.             *)
(* A name ending in Mut is a faulty variant of the definition after it; no  *)
(* specification uses it.                                                   *)
(***************************************************************************)
EXTENDS Integers, FiniteSets, Faults

CONSTANTS
  Ours,      \* changes the person commits to the branch
  Others,    \* changes others push to it
  Upstream,  \* changes the target branch receives
  Clashing,  \* changes that conflict with those of the target branch
  SaveBoth   \* those of them whose conflicts are in code: both versions are saved

Changes == Ours \cup Others \cup Upstream
Modes == {"interactive", "automated", "smart"}
Results == {"none", "success", "conflicts", "failed"}

ASSUME RebaseAssumption ==
  /\ Changes \subseteq Nat
  /\ Clashing \subseteq Ours \cup Others /\ SaveBoth \subseteq Clashing

VARIABLES
  source, target,  \* the local branches
  remote,          \* the branch at origin
  tracking,        \* origin's branch as this clone last saw it
  backups,         \* what the backup branches hold
  replay,          \* the rebase in progress, or stopped
  run,
  made,            \* ghost: what the person committed
  dropped,         \* ghost: what the person took off the branch
  fetched          \* ghost: what this clone has ever received

vars == <<source, target, remote, tracking, backups, replay, run, made, dropped, fetched, spent>>

NoReplay == [active |-> FALSE, done |-> {}, rest |-> {}]
NoRun == [phase |-> "idle", mode |-> "smart", push |-> FALSE, held |-> {}, result |-> "none"]

TypeOK ==
  /\ source \subseteq Changes /\ target \subseteq Upstream
  /\ remote \subseteq Changes /\ tracking \subseteq Changes
  /\ backups \subseteq SUBSET Changes
  /\ replay \in [active : BOOLEAN, done : SUBSET Changes, rest : SUBSET Changes]
  /\ run \in [phase : {"idle", "backup", "fetch", "rebase", "status", "resolve", "push"},
              mode : Modes, push : BOOLEAN, held : SUBSET Changes, result : Results]
  /\ made \subseteq Ours /\ dropped \subseteq Changes /\ fetched \subseteq Changes
  /\ spent \in 0..Budget

Init ==
  /\ source = {} /\ target = {} /\ remote = {} /\ tracking = {} /\ backups = {}
  /\ replay = NoReplay /\ run = NoRun
  /\ made = {} /\ dropped = {} /\ fetched = {} /\ spent = 0

-----------------------------------------------------------------------------
(* git rebase. A change that clashes stops the replay before it; the branch *)
(* moves when everything is replayed.                                       *)

Clashes(changes) == {c \in changes \cap Clashing : ~(target \subseteq source)}
FirstOf(changes, c) == c \in changes /\ \A d \in changes : c <= d

ReplayedMut(onto, changes) ==
  /\ source' = onto \cup {d \in changes : \A c \in Clashes(changes) : d < c}
  /\ replay' = NoReplay
Replayed(onto, changes) ==
  \/ /\ Clashes(changes) = {}
     /\ source' = onto \cup changes /\ replay' = NoReplay
  \/ \E c \in Clashes(changes) :
       /\ FirstOf(Clashes(changes), c)
       /\ replay' = [active |-> TRUE,
                     done |-> onto \cup {d \in changes : d < c},
                     rest |-> {d \in changes : c <= d}]
       /\ UNCHANGED source

\* git rebase --continue, once the conflict of the change c is resolved, or
\* --skip, which keeps nothing of it.
Continued(c, kept) ==
  LET rest == replay.rest \ {c} IN
  \/ /\ rest \cap Clashing = {}
     /\ source' = replay.done \cup kept \cup rest /\ replay' = NoReplay
  \/ \E d \in rest \cap Clashing :
       /\ FirstOf(rest \cap Clashing, d)
       /\ replay' = [active |-> TRUE,
                     done |-> replay.done \cup kept \cup {e \in rest : e < d},
                     rest |-> {e \in rest : d <= e}]
       /\ UNCHANGED source

-----------------------------------------------------------------------------
(* The run of the tool.                                                     *)

At(phase) == run.phase = phase
GoTo(phase) == run' = [run EXCEPT !.phase = phase]
Ends(result) == run' = [NoRun EXCEPT !.result = result]

\* A dry run finds no current branch, as every command of it prints nothing,
\* and neither does a run that finds a rebase stopped: both fail.
Start ==
  /\ At("idle") /\ Spend
  /\ \E mode \in Modes, push, dry \in BOOLEAN :
       IF dry \/ replay.active THEN Ends("failed")
       ELSE run' = [phase |-> "backup", mode |-> mode, push |-> push,
                    held |-> source, result |-> "none"]
  /\ UNCHANGED <<source, target, remote, tracking, backups, replay, made, dropped, fetched>>

CommandFailsMut ==
  /\ (At("backup") \/ At("fetch")) /\ Spend
  /\ IF At("backup") THEN GoTo("fetch") ELSE Ends("failed")
  /\ UNCHANGED <<source, target, remote, tracking, backups, replay, made, dropped, fetched>>
\* A git command that fails, or a target branch that does not exist.
CommandFails ==
  /\ (At("backup") \/ At("fetch")) /\ Spend /\ Ends("failed")
  /\ UNCHANGED <<source, target, remote, tracking, backups, replay, made, dropped, fetched>>

CreateBackup ==
  /\ At("backup") /\ GoTo("fetch") /\ Free
  /\ backups' = backups \cup {source}
  /\ UNCHANGED <<source, target, remote, tracking, replay, made, dropped, fetched>>

Fetch ==
  /\ At("fetch") /\ GoTo("rebase") /\ Free
  /\ tracking' = remote /\ fetched' = fetched \cup remote
  /\ UNCHANGED <<source, target, remote, backups, replay, made, dropped>>

\* The result of git rebase is not looked at: it may also not have begun.
\* In the interactive mode the person edits the list of changes.
Rebase ==
  /\ At("rebase") /\ GoTo("status")
  /\ \/ Spend /\ UNCHANGED <<source, replay, dropped>>
     \/ /\ Free
        /\ \E off \in SUBSET (source \ target) :
             /\ off = {} \/ run.mode = "interactive"
             /\ Replayed(target, (source \ target) \ off)
             /\ dropped' = dropped \cup (off \ run.held)
  /\ UNCHANGED <<target, remote, tracking, backups, made, fetched>>

\* Whatever git status prints, it has answered: the rebase is taken for done.
Status ==
  /\ At("status")
  /\ \/ GoTo("push") /\ Free
     \/ GoTo("resolve") /\ Spend
  /\ UNCHANGED <<source, target, remote, tracking, backups, replay, made, dropped, fetched>>

\* No conflict is left to resolve: a clean status counts as success.
NothingToResolve ==
  /\ At("resolve") /\ ~replay.active
  /\ \/ GoTo("push") /\ Free
     \/ Ends("failed") /\ Spend
  /\ UNCHANGED <<source, target, remote, tracking, backups, replay, made, dropped, fetched>>

\* The version to save beside the other one is asked of MERGE_HEAD, which a
\* rebase does not have; and a person may say no.
Unresolved(c) ==
  /\ At("resolve") /\ replay.active /\ FirstOf(replay.rest, c)
  /\ run.mode = "interactive" \/ c \in SaveBoth
  /\ Ends("conflicts") /\ Free
  /\ UNCHANGED <<source, target, remote, tracking, backups, replay, made, dropped, fetched>>

\* The next conflict fails the command, and so the run.
Resolve(c) ==
  /\ At("resolve") /\ replay.active /\ FirstOf(replay.rest, c)
  /\ run.mode = "interactive" \/ c \notin SaveBoth
  /\ \/ Continued(c, {c}) /\ Free
     \/ UNCHANGED <<source, replay>> /\ Spend
  /\ IF replay'.active THEN Ends("failed") ELSE GoTo("push")
  /\ UNCHANGED <<target, remote, tracking, backups, made, dropped, fetched>>

ForcePushMut ==
  /\ At("push") /\ Ends("success") /\ Free
  /\ IF run.push THEN remote' = source /\ tracking' = source ELSE UNCHANGED <<remote, tracking>>
  /\ UNCHANGED <<source, target, backups, replay, made, dropped, fetched>>
\* The lease: the remote is as this clone last saw it. A push that fails, or
\* whose answer is lost, leaves the result a success.
ForcePush ==
  /\ At("push") /\ Ends("success")
  /\ \/ run.push /\ remote = tracking /\ remote' = source /\ tracking' = source /\ Free
     \/ run.push /\ remote = tracking /\ remote' = source /\ UNCHANGED tracking /\ Spend
     \/ run.push /\ remote # tracking /\ UNCHANGED <<remote, tracking>> /\ Free
     \/ run.push /\ UNCHANGED <<remote, tracking>> /\ Spend
     \/ ~run.push /\ UNCHANGED <<remote, tracking>> /\ Free
  /\ UNCHANGED <<source, target, backups, replay, made, dropped, fetched>>

Interrupt ==
  /\ ~At("idle") /\ Spend /\ Ends("none")
  /\ UNCHANGED <<source, target, remote, tracking, backups, replay, made, dropped, fetched>>

RunStep ==
  \/ Start \/ CommandFails \/ CreateBackup \/ Fetch \/ Rebase \/ Status
  \/ NothingToResolve \/ ForcePush \/ Interrupt
  \/ \E c \in replay.rest : Unresolved(c) \/ Resolve(c)

-----------------------------------------------------------------------------
(* People.                                                                  *)

Commit ==
  /\ ~replay.active /\ Free
  /\ \E c \in Ours \ made : source' = source \cup {c} /\ made' = made \cup {c}
  /\ UNCHANGED <<target, remote, tracking, backups, replay, run, dropped, fetched>>

Pull ==
  /\ ~replay.active /\ Spend
  /\ source' = source \cup remote /\ tracking' = remote /\ fetched' = fetched \cup remote
  /\ UNCHANGED <<target, remote, backups, replay, run, made, dropped>>

TargetMoves ==
  /\ Spend
  /\ \E u \in Upstream \ target : target' = target \cup {u}
  /\ UNCHANGED <<source, remote, tracking, backups, replay, run, made, dropped, fetched>>

OtherPushes ==
  /\ Spend
  /\ \E o \in Others \ remote : remote' = remote \cup {o}
  /\ UNCHANGED <<source, target, tracking, backups, replay, run, made, dropped, fetched>>

\* A stopped rebase is gone on with, gone on with without a change, or aborted.
FinishByHand ==
  /\ replay.active /\ Free
  /\ \E c \in replay.rest :
       /\ FirstOf(replay.rest, c)
       /\ \/ Continued(c, {c}) /\ UNCHANGED dropped
          \/ Continued(c, {}) /\ dropped' = dropped \cup {c}
          \/ replay' = NoReplay /\ UNCHANGED <<source, dropped>>
  /\ UNCHANGED <<target, remote, tracking, backups, run, made, fetched>>

Next == RunStep \/ Commit \/ Pull \/ TargetMoves \/ OtherPushes \/ FinishByHand

Spec == Init /\ [][Next]_vars

-----------------------------------------------------------------------------
(* Properties.                                                              *)

\* What the person committed is on the branch or in a backup, through
\* interactive rebases, conflicts, interrupts and failed runs, unless the person
\* dropped it: by hand, or in the list of changes of a run that had begun before
\* it was committed (run_rebase).
OwnWorkKept ==
  made \subseteq source \cup (UNION backups) \cup dropped

\* A run of another mode than the interactive one takes nothing off the branch
\* that no person dropped: it leaves the branch as it was, or moves it to all
\* it held before (perform_rebase).
MovesWhole ==
  [][run.mode # "interactive" /\ run' # run => (source \ source') \subseteq dropped]_vars

\* A push by force discards nothing of the remote that this clone has not
\* received, whoever pushes between the fetch and the push (force_push_changes).
DiscardsOnlyFetched ==
  [][run' # run => (remote \ remote') \subseteq fetched]_vars

=============================================================================
