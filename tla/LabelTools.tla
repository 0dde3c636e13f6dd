----------------------------- MODULE LabelTools -----------------------------
(***************************************************************************)
(* label_manager.py ("manager", with --delete-extra "extra") and            *)
(* sync-github-labels.py ("file"): labels from a JSON file through the REST *)
(* interface. The first reads every page of the labels, the second only the *)
(* first; both give up when the listing fails, and their creations are      *)
(* refused when a label of that name exists.                                *)
(* A name ending in Mut is a faulty variant of the definition after it; no  *)
(* specification uses it.                                                   *)
(***************************************************************************)
EXTENDS GitHubAccount

Syncs(r) == runs[r].tool \in {"manager", "extra", "file"}

\* sync-github-labels.py has no dry run.
StartSync(r) ==
  \/ \E tool \in {"manager", "extra"}, dry \in BOOLEAN : Begin(r, tool, dry, "labels")
  \/ Begin(r, "file", FALSE, "labels")

Shown(r) == IF runs[r].tool = "file" THEN FirstPage ELSE Present
SyncPlan(r) ==
  {<<l, "create">> : l \in Configured \ Shown(r)}
  \cup {<<l, "update">> : l \in {k \in Configured \cap Shown(r) : ~Identical(k)}}
  \cup {<<l, "delete">> : l \in IF runs[r].tool = "extra" THEN Shown(r) \ Configured ELSE {}}

\* The repository cannot be reached.
GivesUp(r) == Spend /\ Ends(r)
GetLabels(r) ==
  /\ Busy(r, "labels") /\ Syncs(r)
  /\ \/ /\ runs' = [runs EXCEPT ![r] = [@ EXCEPT !.phase = "label", !.plan = SyncPlan(r)]]
        /\ Free
        /\ UNCHANGED <<projects, label, stone, config, excused, touched>>
     \/ GivesUp(r)

SyncLabel(r, x) ==
  /\ Busy(r, "label") /\ Syncs(r) /\ Turn(r, x)
  /\ IF runs[r].dry THEN Nothing(r, x)
     ELSE IF (x[2] = "create") = (label[x[1]] # "none") THEN Refused(r, x)
     ELSE Effect(r, x, SetLabel(x[1], IF x[2] = "delete" THEN "none" ELSE "right"))
  /\ UNCHANGED others

EndSync(r) ==
  /\ Busy(r, "label") /\ Syncs(r) /\ runs[r].plan = {} /\ Free /\ Ends(r)

SyncStep(r) == GetLabels(r) \/ EndSync(r) \/ \E x \in runs[r].plan : SyncLabel(r, x)

=============================================================================
