---------------------------- MODULE GitHubAccount ----------------------------
(***************************************************************************)
(* The projects of a GitHub account and the labels and milestones of one of *)
(* its repositories, as the four programs that set them up from a           *)
(* configuration reach them, and the runs of those programs. GitHub itself  *)
(* is external. The programs treat every repository in the same way, so one *)
(* stands for all.                                                          *)
(*                                                                         *)
(* Abstractions: a label is as configured or not, a milestone too, and      *)
(* titles that differ in case only are one title. What goes wrong, what     *)
(* people do and the runs beyond the repeated one come out of one budget.   *)
(* A name ending in Mut is a faulty variant of the definition after it; no  *)
(* specification uses it.                                                   *)
(***************************************************************************)
EXTENDS FiniteSets, Faults

CONSTANTS
  ProjectTitles,      \* of the configured projects, in order
  Labels,      \* names, in the order GitHub lists them
  Configured,  \* the labels of the configuration; the others are extra
  Default,     \* labels GitHub gives to every repository
  Stones,      \* configured milestones, in order, all open
  PageSize,    \* labels in a listing that is not asked for more: 30
  ShortFor,    \* tools whose listing of projects the account is too large for:
               \* v3 asks for 100, v2 for nothing and gets 30
  Runs, NoTool,
  Repeated     \* the run whose sync may be started any number of times

Tools == {"sync", "v3", "v2", "force", "cleanup", "ask", "manager", "extra", "file"}

ASSUME AccountAssumption ==
  /\ ProjectTitles \subseteq Nat /\ Stones \subseteq Nat
  /\ Labels \subseteq Nat /\ IsFiniteSet(Labels) /\ Configured \subseteq Labels
  /\ PageSize \in Nat /\ ShortFor \subseteq Tools

VARIABLES
  projects,  \* how many projects have a title
  label,
  stone,
  runs,
  config,    \* titles whose project number the configuration file holds
  excused,   \* ghost: there is a reason for a second project of a title
  touched    \* ghost: labels people changed since a run listed them

account == <<projects, label, stone>>
others == <<config, excused, touched>>
accountVars == <<projects, label, stone, runs, config, excused, touched, spent>>

AtRest == [tool |-> NoTool, dry |-> FALSE, phase |-> "idle", plan |-> {}, seen |-> {}, good |-> TRUE]

AccountTypeOK ==
  /\ projects \in [ProjectTitles -> Nat]
  /\ label \in [Labels -> {"none", "right", "wrong"}]
  /\ stone \in [Stones -> {"none", "right", "wrong", "closed"}]
  /\ runs \in [Runs ->
       [tool : Tools \cup {NoTool}, dry : BOOLEAN, good : BOOLEAN,
        phase : {"idle", "projects", "project", "labels", "label", "stones", "stone", "patch"},
        plan : SUBSET ((ProjectTitles \cup Labels \cup Stones) \X {"create", "update", "delete"}),
        seen : SUBSET (ProjectTitles \cup Stones)]]
  /\ config \subseteq ProjectTitles
  /\ excused \in BOOLEAN
  /\ touched \in [Runs -> SUBSET Labels]
  /\ spent \in 0..Budget

AccountInit ==
  /\ projects \in [ProjectTitles -> {0, 1}]
  /\ \E v \in {"none", "wrong"} : label = [l \in Labels |-> v]
  /\ stone = [m \in Stones |-> "none"]
  /\ runs = [r \in Runs |-> AtRest]
  /\ config = {} /\ excused = FALSE /\ touched = [r \in Runs |-> {}]
  /\ spent = 0

-----------------------------------------------------------------------------
(* Listings.                                                                *)

Present == {l \in Labels : label[l] # "none"}
Identical(l) == label[l] = "right"
FirstPage == {l \in Present : Cardinality({k \in Present : k < l}) < PageSize}
Existing == {t \in ProjectTitles : projects[t] > 0}
OpenStones == {m \in Stones : stone[m] \in {"right", "wrong"}}

-----------------------------------------------------------------------------
(* Runs. A run takes its items one by one; an item is done, done without    *)
(* an answer, or not done, and the last item ends the phase.                *)

Busy(r, phase) == runs[r].phase = phase
\* Items go in the order of the configuration, deletions last.
Turn(r, x) ==
  /\ x \in runs[r].plan
  /\ \A y \in runs[r].plan :
       IF x[2] = "delete" THEN y[2] = "delete" /\ x[1] <= y[1] ELSE y[2] # "delete" => x[1] <= y[1]
Item(r, x, good) ==
  runs' = [runs EXCEPT ![r].plan = @ \ {x}, ![r].good = @ /\ good]

Effect(r, x, changes) ==
  \/ changes /\ Free /\ Item(r, x, TRUE)
  \/ changes /\ Spend /\ Item(r, x, FALSE)
  \/ UNCHANGED account /\ Spend /\ Item(r, x, FALSE)
Refused(r, x) == UNCHANGED account /\ Free /\ Item(r, x, FALSE)
Nothing(r, x) == UNCHANGED account /\ Free /\ Item(r, x, TRUE)

SetLabel(l, v) == label' = [label EXCEPT ![l] = v] /\ UNCHANGED <<projects, stone>>
SetStone(m, v) == stone' = [stone EXCEPT ![m] = v] /\ UNCHANGED <<projects, label>>
AddProject(t) == projects' = [projects EXCEPT ![t] = @ + 1] /\ UNCHANGED <<label, stone>>

\* Only the repeated sync of labels and milestones costs nothing.
Begin(r, tool, dry, phase) ==
  /\ Busy(r, "idle")
  /\ runs' = [runs EXCEPT ![r] = [AtRest EXCEPT !.tool = tool, !.dry = dry, !.phase = phase]]
  /\ IF r = Repeated /\ tool = "sync" /\ ~dry THEN Free ELSE Spend
  /\ UNCHANGED <<projects, label, stone, config, excused, touched>>

\* What a run that carried out all its items reports.
Succeeded(r) == runs[r].plan = {} /\ runs[r].good

\* The end of a run.
Ends(r) ==
  /\ runs' = [runs EXCEPT ![r] = AtRest]
  /\ touched' = [touched EXCEPT ![r] = {}]
  /\ UNCHANGED <<projects, label, stone, config, excused>>

RunDies(r) ==
  /\ ~Busy(r, "idle") /\ Spend /\ Ends(r)

-----------------------------------------------------------------------------
(* People change labels and milestones.                                     *)

PeopleChange ==
  /\ Spend
  /\ \/ \E l \in Labels, v \in {"none", "wrong"} :
          /\ label[l] # v /\ SetLabel(l, v)
          /\ touched' = [r \in Runs |-> IF Busy(r, "label") THEN touched[r] \cup {l} ELSE {}]
     \/ \E m \in Stones, v \in {"none", "wrong", "closed"} :
          /\ stone[m] # "none" /\ stone[m] # v /\ SetStone(m, v)
          /\ UNCHANGED touched
  /\ UNCHANGED <<runs, config, excused>>

=============================================================================
