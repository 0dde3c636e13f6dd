--------------------------- MODULE ProjectManagers ---------------------------
(***************************************************************************)
(* unified_github_project_manager_v3.py and its predecessor v2: projects,   *)
(* labels and milestones from unified_project_config.json through the gh    *)
(* command. Both read a listing first and decide from it; when the listing  *)
(* fails they go on as if nothing existed.                                  *)
(*                                                                         *)
(* Tools: "sync" is v3 --sync-labels --sync-milestones, "v3" the full       *)
(* setup of v3, "v2" and "force" that of v2 without and with --force,       *)
(* "cleanup" v2 --cleanup-labels, "ask" v2 --interactive-cleanup. A part of *)
(* the setup of v2 run alone is a phase of it. Descriptions, READMEs and    *)
(* links of repositories, written anew or only shown each time, are left    *)
(* out.                                                                     *)
(* A name ending in Mut is a faulty variant of the definition after it; no  *)
(* specification uses it.                                                   *)
(***************************************************************************)
EXTENDS GitHubAccount

Manages(r) == runs[r].tool \in {"sync", "v3", "v2", "force", "cleanup", "ask"}
Cleans(r) == runs[r].tool \in {"cleanup", "ask"}
IsV3(r) == runs[r].tool \in {"sync", "v3"}

\* A report on what the cleanup would delete is a dry run of it.
Report(r) == Begin(r, "cleanup", TRUE, "labels")
StartV2(r) ==
  \/ \E tool \in {"v2", "force"}, dry \in BOOLEAN : Begin(r, tool, dry, "projects")
  \/ Begin(r, "cleanup", FALSE, "labels") \/ Report(r)
  \/ \E dry \in BOOLEAN : Begin(r, "ask", dry, "labels")
StartManager(r) ==
  \/ StartV2(r)
  \/ \E dry \in BOOLEAN : Begin(r, "sync", dry, "labels") \/ Begin(r, "v3", dry, "projects")

Enter(r, phase, plan) ==
  runs' = [runs EXCEPT ![r] = [@ EXCEPT !.phase = phase, !.plan = plan]]

-----------------------------------------------------------------------------
(* Projects.                                                                *)

\* A dry run of v2 gets an empty array for the projects, and raises.
DryListFails(r) ==
  /\ Busy(r, "projects") /\ ~IsV3(r) /\ runs[r].dry
  /\ Free /\ Ends(r)

MissingProjectsMut(r, seen) == {<<t, "create">> : t \in ProjectTitles}
\* What is not listed is created, by v2 --force all.
MissingProjects(r, seen) == {<<t, "create">> : t \in IF runs[r].tool = "force" THEN ProjectTitles ELSE ProjectTitles \ seen}
Overlaps(r) ==
  \E q \in Runs \ {r} : runs[q].phase \in {"projects", "project"}

ListProjects(r) ==
  /\ Busy(r, "projects") /\ (IsV3(r) \/ ~runs[r].dry)
  /\ \E seen \in SUBSET Existing :
       /\ IF seen = Existing \/ runs[r].tool \in ShortFor THEN Free ELSE seen = {} /\ Spend
       /\ runs' = [runs EXCEPT ![r] = [@ EXCEPT !.phase = "project", !.seen = seen,
                                              !.plan = MissingProjects(r, seen)]]
       /\ excused' = (excused \/ seen # Existing \/ runs[r].tool = "force" \/ Overlaps(r))
  /\ UNCHANGED <<projects, label, stone, config, touched>>

CreateProject(r, x) ==
  /\ Busy(r, "project") /\ Turn(r, x)
  /\ IF runs[r].dry THEN Nothing(r, x) ELSE Effect(r, x, AddProject(x[1]))
  /\ UNCHANGED others

\* v3 writes the numbers of the projects it listed into its configuration,
\* in a dry run too; a new project is known only to the next run.
EndProjects(r) ==
  /\ Busy(r, "project") /\ runs[r].plan = {}
  /\ config' = IF IsV3(r) THEN config \cup runs[r].seen ELSE config
  /\ runs' = [runs EXCEPT ![r] = [@ EXCEPT !.phase = "labels", !.seen = {}, !.good = TRUE]]
  /\ Free
  /\ UNCHANGED <<projects, label, stone, excused, touched>>

-----------------------------------------------------------------------------
(* Labels.                                                                  *)

Protected == Configured \cup Default
Orphans(shown) == shown \ Protected

\* Listed labels that differ are updated; to v2, --force is only another message.
Outdated(shown) == {l \in Configured \cap shown : ~Identical(l)}
LabelPlan(r, shown) ==
  IF Cleans(r) THEN {<<l, "delete">> : l \in Orphans(shown)}
  ELSE {<<l, "create">> : l \in Configured \ shown}
       \cup {<<l, "update">> : l \in Outdated(shown)}

ListLabels(r) ==
  /\ Busy(r, "labels") /\ Manages(r)
  /\ \/ Enter(r, "label", LabelPlan(r, FirstPage)) /\ Free
     \/ Enter(r, "label", LabelPlan(r, {})) /\ Spend
  /\ UNCHANGED <<projects, label, stone, config, excused, touched>>

CreateLabelMut(r, x) ==
  /\ Busy(r, "label") /\ Manages(r) /\ Turn(r, x) /\ x[2] = "create"
  /\ IF runs[r].dry \/ label[x[1]] # "none" THEN Nothing(r, x)
     ELSE Effect(r, x, SetLabel(x[1], "right"))
  /\ UNCHANGED others
\* gh label create --force writes over a label of that name.
CreateLabel(r, x) ==
  /\ Busy(r, "label") /\ Manages(r) /\ Turn(r, x) /\ x[2] = "create"
  /\ IF runs[r].dry THEN Nothing(r, x) ELSE Effect(r, x, SetLabel(x[1], "right"))
  /\ UNCHANGED others

EditLabel(r, x) ==
  IF label[x[1]] = "none" THEN Refused(r, x) ELSE Effect(r, x, SetLabel(x[1], "right"))
\* The _update_label of v3 that counts, the second one, knows no dry run.
UpdateLabel(r, x) ==
  /\ Busy(r, "label") /\ Manages(r) /\ Turn(r, x) /\ x[2] = "update"
  /\ IF runs[r].dry /\ ~IsV3(r) THEN Nothing(r, x) ELSE EditLabel(r, x)
  /\ UNCHANGED others

DeleteLabel(r, x) ==
  /\ Busy(r, "label") /\ Manages(r) /\ Turn(r, x) /\ x[2] = "delete"
  /\ IF runs[r].dry THEN Nothing(r, x)
     ELSE IF label[x[1]] = "none" THEN Refused(r, x)
     ELSE Effect(r, x, SetLabel(x[1], "none"))
  /\ UNCHANGED others

\* The person asked keeps the label, or wants no more questions.
KeepLabel(r, x) ==
  /\ Busy(r, "label") /\ runs[r].tool = "ask" /\ ~runs[r].dry /\ Turn(r, x) /\ Free
  /\ \E rest \in {runs[r].plan \ {x}, {}} : Enter(r, "label", rest)
  /\ UNCHANGED <<projects, label, stone, config, excused, touched>>

\* The result of sync_labels is that of the labels alone; milestones follow.
EndLabels(r) ==
  /\ Busy(r, "label") /\ Manages(r) /\ runs[r].plan = {} /\ Free
  /\ IF Cleans(r) THEN Ends(r)
     ELSE /\ runs' = [runs EXCEPT ![r] = [@ EXCEPT !.phase = "stones", !.good = TRUE]]
          /\ touched' = [touched EXCEPT ![r] = {}]
          /\ UNCHANGED <<projects, label, stone, config, excused>>

-----------------------------------------------------------------------------
(* Milestones: a listing holds the open ones.                               *)

StonePlanMut(r, shown) == {<<m, "create">> : m \in Stones \ shown}
\* v2 leaves listed ones alone; with --force it tries to create them again.
StonePlan(r, shown) ==
  {<<m, "create">> : m \in IF runs[r].tool = "force" THEN Stones ELSE Stones \ shown}
  \cup {<<m, "update">> : m \in {n \in shown : IsV3(r) /\ stone[n] = "wrong"}}

ListStones(r) ==
  /\ Busy(r, "stones")
  /\ \/ Enter(r, "stone", StonePlan(r, OpenStones)) /\ Free
     \/ Enter(r, "stone", StonePlan(r, {})) /\ Spend
  /\ UNCHANGED <<projects, label, stone, config, excused, touched>>

\* GitHub refuses a second milestone of a title, closed ones included.
CreateStone(r, x) ==
  /\ Busy(r, "stone") /\ Turn(r, x) /\ x[2] = "create"
  /\ IF runs[r].dry THEN Nothing(r, x)
     ELSE IF stone[x[1]] # "none" THEN Refused(r, x)
     ELSE Effect(r, x, SetStone(x[1], "right"))
  /\ UNCHANGED others

\* An update looks the number up in a listing of its own, then writes the
\* open state too. It knows no dry run.
FindStone(r, x) ==
  /\ Busy(r, "stone") /\ Turn(r, x) /\ x[2] = "update"
  /\ \/ /\ x[1] \in OpenStones /\ UNCHANGED account /\ Free
        /\ runs' = [runs EXCEPT ![r] = [@ EXCEPT !.phase = "patch", !.seen = {x[1]}]]
     \/ x[1] \notin OpenStones /\ Refused(r, x)
     \/ UNCHANGED account /\ Spend /\ Item(r, x, FALSE)
  /\ UNCHANGED others

PatchStone(r, x) ==
  /\ Busy(r, "patch") /\ x[2] = "update" /\ runs[r].seen = {x[1]}
  /\ \E good \in BOOLEAN :
       /\ runs' = [runs EXCEPT ![r].phase = "stone", ![r].seen = {},
                             ![r].plan = @ \ {x}, ![r].good = @ /\ good]
       /\ \/ stone[x[1]] # "none" /\ SetStone(x[1], "right") /\ (IF good THEN Free ELSE Spend)
          \/ stone[x[1]] = "none" /\ ~good /\ UNCHANGED account /\ Free
          \/ ~good /\ UNCHANGED account /\ Spend
  /\ UNCHANGED others

EndStones(r) == Busy(r, "stone") /\ runs[r].plan = {} /\ Free /\ Ends(r)

ManagerStep(r) ==
  \/ DryListFails(r) \/ ListProjects(r) \/ EndProjects(r)
  \/ ListLabels(r) \/ EndLabels(r) \/ ListStones(r) \/ EndStones(r)
  \/ \E x \in runs[r].plan :
       \/ CreateProject(r, x) \/ CreateLabel(r, x) \/ UpdateLabel(r, x) \/ DeleteLabel(r, x) \/ KeepLabel(r, x)
       \/ CreateStone(r, x) \/ FindStone(r, x) \/ PatchStone(r, x)

=============================================================================
