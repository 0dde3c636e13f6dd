----------------------------- MODULE ProjectSync -----------------------------
(***************************************************************************)
(* Runs of the four programs on one account, side by side and one after     *)
(* another, with people who change labels and milestones meanwhile.         *)
(***************************************************************************)
EXTENDS ProjectManagers, LabelTools

RunGoes(r) == ManagerStep(r) \/ SyncStep(r)

SyncNext ==
  \/ \E r \in Runs : StartManager(r) \/ StartSync(r) \/ RunGoes(r) \/ RunDies(r)
  \/ PeopleChange

SyncSpec == AccountInit /\ [][SyncNext]_accountVars

\* A run that has started goes on, unless it waits for the person it asks;
\* nobody has to start one.
SyncFairSpec ==
  SyncSpec /\ \A r \in Runs : WF_accountVars(runs[r].tool # "ask" /\ RunGoes(r))

-----------------------------------------------------------------------------
(* Properties.                                                              *)

\* No title gets a second project, however often the setup is run again after
\* crashes and lost answers, unless a listing failed or was too short, v2 ran
\* with --force, or two runs were at the projects together (create_all_projects).
OneProjectPerTitle == \A t \in ProjectTitles : projects[t] > 1 => excused

\* A run that reports success has every configured label right, whatever its
\* listing showed, apart from labels people changed meanwhile (sync_labels).
Reports == {"sync", "manager", "extra", "file"}
ReportsSuccess(r) ==
  /\ runs[r].tool \in Reports /\ ~runs[r].dry
  /\ Busy(r, "label") /\ Succeeded(r)
ReportedMeansApplied ==
  \A r \in Runs : ReportsSuccess(r) =>
    \A l \in Configured : label[l] = "right" \/ l \in touched[r]

\* If the sync of v3 is run again and again, it brings every label and every
\* milestone that is not closed to its configuration once people stop, beyond
\* the first page too, whatever failed or died meanwhile (sync_labels,
\* sync_milestones).
SyncsAgain ==
  []<>(\E r \in Runs : Busy(r, "labels") /\ runs[r].tool = "sync" /\ ~runs[r].dry)
Converges ==
  SyncsAgain =>
  <>[](/\ \A l \in Configured : label[l] = "right"
       /\ \A m \in Stones : stone[m] \in {"right", "closed"})

\* A dry run shows what would be done without making changes (the --dry-run
\* of main in v3).
DryRunQuiet ==
  [][\A r \in Runs : runs[r].dry /\ runs'[r] # runs[r] => UNCHANGED account]_accountVars

=============================================================================
