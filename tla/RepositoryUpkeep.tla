-------------------------- MODULE RepositoryUpkeep --------------------------
(***************************************************************************)
(* A repository that all of those programs keep up, side by side, while     *)
(* people edit its files on GitHub and in the operator's clone.             *)
(***************************************************************************)
EXTENDS AutomationUpdate, FileSync

upkeepVars == <<main, clone, spent, updater, job, tree>>

UpkeepTypeOK ==
  /\ main \in [Files -> Version] /\ TypeOfTree(Content(main))
  /\ clone \in Clone /\ TypeOfTree(clone.files)
  /\ UpdaterTypeOK /\ SyncTypeOK
  /\ spent \in 0..Budget

UpkeepInit == FilesInit /\ SyncInit /\ updater = NoUpdate

\* A change of the branch by others than the updater is noted for its run.
Noted ==
  updater' = [updater EXCEPT !.touched =
    IF UAt("idle") THEN {} ELSE @ \cup {f \in Files : main'[f] # main[f]}]
NotedByJobs ==
  job' = [p \in Programs |-> IF p \in Cloners \/ JAt(p, "idle") THEN job[p]
            ELSE [job[p] EXCEPT !.touched = @ \cup {f \in Files : clone'.files[f] # clone.files[f]}]]

PersonStep ==
  /\ PushClone \/ PullClone \/ \E f \in Files : EditOnline(f) \/ EditClone(f)
  /\ Noted /\ NotedByJobs /\ UNCHANGED tree

UpkeepNext ==
  \/ UpdaterStep /\ UNCHANGED <<job, tree>>
  \/ \E p \in Programs : SyncStep(p) /\ Noted
  \/ PersonStep

UpkeepSpec == UpkeepInit /\ [][UpkeepNext]_upkeepVars

\* A run of the workflow of the receiver goes on; nobody has to start one.
UpkeepFairSpec == UpkeepSpec /\ WF_upkeepVars(JobGoesOn("receiver") /\ Noted)

-----------------------------------------------------------------------------
(* Properties.                                                              *)

\* What stands on the branch is replaced only by a program that has read it in
\* this state, or by people; only the forced push of the bot is blind
\* (_remove_file, _update_file, _create_file; git push of sync-receiver.yml).
EditsAreRead ==
  [][\A f \in Files : main'[f] # main[f] /\ main[f].val # "absent" =>
       \/ updater' # updater /\ f \in Automation /\ updater.read[f] = main[f].sha
       \/ job["receiver"] # job'["receiver"] /\ tree["receiver"].base[f] = main[f]
       \/ job["bot"] # job'["bot"] \/ PersonStep]_upkeepVars

\* A successful update leaves the repository with the new workflow and a
\* complete configuration, whatever it began from and whatever request failed,
\* unless others changed them meanwhile; except when it cleaned up around a
\* workflow that was the new one already (update_repository).
SuccessMeansAutomated ==
  UAt("end") /\ updater.good /\ ~updater.dry
      /\ ~(updater.cleanup /\ updater.has /\ ~updater.force)
    => /\ main[Flow].val = "reusable" \/ Flow \in updater.touched
       /\ main[Config].val = "full" \/ Config \in updater.touched

\* A run of a copying program leaves every file of ghcommon in the operator's
\* clone as it is there, or newer after the setup, apart from those it reports
\* as failed and those people or the other program changed meanwhile.
ReportedMeansSynced ==
  \A p \in Programs \ Cloners : JAt(p, "end") =>
    \A f \in Copied \ (job[p].failed \cup job[p].touched) :
      clone.files[f] = "source" \/ (p = "setup" /\ f \in Shared /\ clone.files[f] = "newer")

\* If the receiver is started again and again, through refused pushes, failed
\* copies and stopped runs, every copied file the branch has becomes that of
\* ghcommon once people and the other programs leave it alone; if it is forced
\* again and again, those the branch never had come too (git diff --quiet and
\* force_sync of sync-receiver.yml).
Again(forced) == []<>(JAt("receiver", "copy") /\ (forced => job["receiver"].force))
Settles ==
  /\ Again(FALSE) => <>[](\A f \in Copied : main[f].val \in {"absent", "source"})
  /\ Again(TRUE) => <>[](\A f \in Copied : main[f].val = "source")

=============================================================================
