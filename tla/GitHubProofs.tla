---------------------------- MODULE GitHubProofs ----------------------------
(***************************************************************************)
(* Proofs about the programs that work on GitHub through its API.           *)
(*                                                                         *)
(* ProjectSync, for any configuration, page size and runs: no title gets a  *)
(* second project that no reason excuses, and a sync of labels that reports *)
(* success has applied the configuration.                                   *)
(*                                                                         *)
(* DuplicateIssues, for any update files, titles and passes: nothing is     *)
(* carried out twice unseen, no title loses its oldest issue, the cleanup   *)
(* spares the issue it names, and no file is archived untried.              *)
(***************************************************************************)
EXTENDS ProjectSync, DuplicateIssues, FiniteSetTheorems, TLAPS

Phases == {"idle", "projects", "project", "labels", "label", "stones", "stone", "patch"}
Plans == SUBSET ((ProjectTitles \cup Labels \cup Stones) \X {"create", "update", "delete"})
Run == [tool : Tools \cup {NoTool}, dry : BOOLEAN, good : BOOLEAN, phase : Phases,
        plan : Plans, seen : SUBSET (ProjectTitles \cup Stones)]

\* The titles a run has seen are what it may write into the configuration.
Typed == AccountTypeOK /\ \A r \in Runs : Busy(r, "project") => runs[r].seen \subseteq ProjectTitles

\* Without an excuse no title has two projects, one run at most is at the
\* creation of projects, and what it still has to create is not there.
CreatesMissing ==
  ~excused =>
    /\ \A t \in ProjectTitles : projects[t] <= 1
    /\ \A r \in Runs : Busy(r, "project") =>
         /\ \A x \in runs[r].plan : x[2] = "create" /\ (x[1] \in ProjectTitles => projects[x[1]] = 0)
         /\ \A q \in Runs : Busy(q, "project") => q = r

\* No run deletes a configured label; and a run that has carried out all so far
\* has made every configured label right, or still has to.
Carries(r) ==
  /\ \A x \in runs[r].plan : x[2] = "delete" => x[1] \notin Configured
  /\ runs[r].tool \in Reports /\ ~runs[r].dry /\ runs[r].good =>
       \A l \in Configured :
         \/ label[l] = "right" \/ l \in touched[r]
         \/ <<l, "create">> \in runs[r].plan \/ <<l, "update">> \in runs[r].plan
AppliesPlan == \A r \in Runs : Busy(r, "label") => Carries(r)

Sound == Typed /\ CreatesMissing /\ AppliesPlan

-----------------------------------------------------------------------------
(* The steps of a run.                                                      *)

\* A step of one run changes that run only.
Moves(r) == \E z \in Run : runs' = [runs EXCEPT ![r] = z]

LEMMA RunTyped == AccountTypeOK => runs \in [Runs -> Run] /\ \A r \in Runs : runs[r] \in Run
BY DEF AccountTypeOK, Run, Phases, Plans

LEMMA OthersStay ==
  ASSUME AccountTypeOK, NEW r \in Runs, NEW z, runs' = [runs EXCEPT ![r] = z]
  PROVE  runs'[r] = z /\ \A q \in Runs \ {r} : runs'[q] = runs[q]
BY DEF AccountTypeOK

\* A step that gives one run a new record.
LEMMA Goes ==
  ASSUME AccountTypeOK, NEW r \in Runs, NEW z \in Run, runs' = [runs EXCEPT ![r] = z]
  PROVE  /\ runs' \in [Runs -> Run] /\ runs'[r] = z
         /\ \A q \in Runs \ {r} : runs'[q] = runs[q]
<1>1. runs \in [Runs -> Run]
  BY RunTyped
<1> QED  BY <1>1

\* An item is taken off the plan.
LEMMA ItemGoes ==
  ASSUME AccountTypeOK, NEW r \in Runs, NEW x, NEW good \in BOOLEAN, Item(r, x, good)
  PROVE  /\ \A q \in Runs \ {r} : runs'[q] = runs[q]
         /\ runs' \in [Runs -> Run]
         /\ runs'[r].plan = runs[r].plan \ {x} /\ runs'[r].good = (runs[r].good /\ good)
         /\ runs'[r].tool = runs[r].tool /\ runs'[r].dry = runs[r].dry
         /\ runs'[r].phase = runs[r].phase /\ runs'[r].seen = runs[r].seen
<1> DEFINE z == [runs[r] EXCEPT !.plan = runs[r].plan \ {x}, !.good = runs[r].good /\ good]
<1>1. runs[r] \in Run
  BY RunTyped
<1>2. runs' = [runs EXCEPT ![r] = z]
  BY DEF Item
<1>3. z \in Run
  BY <1>1 DEF Run, Plans
<1>4. /\ z.plan = runs[r].plan \ {x} /\ z.good = (runs[r].good /\ good)
      /\ z.tool = runs[r].tool /\ z.dry = runs[r].dry
      /\ z.phase = runs[r].phase /\ z.seen = runs[r].seen
  BY <1>1 DEF Run
<1> HIDE DEF z
<1>5. runs' \in [Runs -> Run] /\ runs'[r] = z /\ \A q \in Runs \ {r} : runs'[q] = runs[q]
  BY <1>2, <1>3, Goes
<1> QED  BY <1>4, <1>5

\* A run that is not busy, and one that has just begun.
LEMMA IdleRun == AtRest \in Run /\ AtRest.phase = "idle"
BY DEF AtRest, Run, Phases, Plans

LEMMA NewRun ==
  ASSUME NEW tool \in Tools, NEW dry \in BOOLEAN, NEW phase \in Phases
  PROVE  /\ [AtRest EXCEPT !.tool = tool, !.dry = dry, !.phase = phase] \in Run
         /\ [AtRest EXCEPT !.tool = tool, !.dry = dry, !.phase = phase].phase = phase
BY DEF AtRest, Run, Plans

\* The budget holds.
LEMMA SpendTyped ==
  ASSUME AccountTypeOK, Spend \/ Free
  PROVE  spent' \in 0..Budget
BY BudgetAssumption DEF Spend, Free, AccountTypeOK

\* A run begins or ends.
LEMMA BeginGoes ==
  ASSUME AccountTypeOK, NEW r \in Runs, NEW tool \in Tools, NEW dry \in BOOLEAN, NEW phase \in {"labels", "projects"},
         Begin(r, tool, dry, phase)
  PROVE  /\ \A q \in Runs \ {r} : runs'[q] = runs[q]
         /\ runs' \in [Runs -> Run] /\ runs'[r].phase = phase
         /\ UNCHANGED <<projects, label, stone, config, excused, touched>>
         /\ spent' \in 0..Budget
<1> DEFINE z == [AtRest EXCEPT !.tool = tool, !.dry = dry, !.phase = phase]
<1>1. runs' = [runs EXCEPT ![r] = z] /\ UNCHANGED <<projects, label, stone, config, excused, touched>>
  BY DEF Begin
<1>2. phase \in Phases
  BY DEF Phases
<1>3. z \in Run /\ z.phase = phase
  BY <1>2, NewRun
<1>4. spent' \in 0..Budget
  BY SpendTyped DEF Begin
<1> HIDE DEF z
<1>5. runs' \in [Runs -> Run] /\ runs'[r] = z /\ \A q \in Runs \ {r} : runs'[q] = runs[q]
  BY <1>1, <1>3, Goes
<1> QED  BY <1>1, <1>3, <1>4, <1>5

LEMMA EndGoes ==
  ASSUME AccountTypeOK, NEW r \in Runs, Ends(r), Spend \/ Free
  PROVE  /\ \A q \in Runs \ {r} : runs'[q] = runs[q]
         /\ \A q \in Runs \ {r} : touched'[q] = touched[q]
         /\ runs' \in [Runs -> Run] /\ runs'[r].phase = "idle"
         /\ touched' \in [Runs -> SUBSET Labels]
         /\ UNCHANGED <<projects, label, stone, config, excused>>
         /\ spent' \in 0..Budget
<1>1. runs' = [runs EXCEPT ![r] = AtRest] /\ UNCHANGED <<projects, label, stone, config, excused>>
  BY DEF Ends
<1>2. runs' \in [Runs -> Run] /\ runs'[r] = AtRest /\ \A q \in Runs \ {r} : runs'[q] = runs[q]
  BY <1>1, IdleRun, Goes
<1>3. touched' = [touched EXCEPT ![r] = {}] /\ touched \in [Runs -> SUBSET Labels]
  BY DEF Ends, AccountTypeOK
<1>4. touched' \in [Runs -> SUBSET Labels] /\ \A q \in Runs \ {r} : touched'[q] = touched[q]
  BY <1>3
<1> QED  BY <1>1, <1>2, <1>4, IdleRun, SpendTyped

-----------------------------------------------------------------------------
(* What a step must leave so that the invariant survives it.                *)

\* The others do what they did, and people's changes stay noted.
Stays(r) ==
  /\ \A q \in Runs \ {r} : runs'[q] = runs[q]
  /\ \A q \in Runs \ {r} : touched[q] \subseteq touched'[q]

LEMMA TypedStays ==
  ASSUME Typed, AccountTypeOK', NEW r \in Runs, Stays(r),
         Busy(r, "project")' => runs'[r].seen \subseteq ProjectTitles
  PROVE  Typed'
<1> SUFFICES ASSUME NEW q \in Runs, Busy(q, "project")'
             PROVE  runs'[q].seen \subseteq ProjectTitles
  BY DEF Typed
<1>1. CASE q = r
  BY <1>1
<1>2. CASE q # r
  BY <1>2 DEF Typed, Stays, Busy
<1> QED  BY <1>1, <1>2

\* Outside the projects a step creates none.
LEMMA CreatesStays ==
  ASSUME CreatesMissing, NEW r \in Runs, Stays(r), UNCHANGED <<projects, excused>>,
         Busy(r, "project")' => Busy(r, "project") /\ runs'[r].plan \subseteq runs[r].plan
  PROVE  CreatesMissing'
<1> SUFFICES ASSUME ~excused
             PROVE  /\ \A t \in ProjectTitles : projects[t] <= 1
                    /\ \A q \in Runs : Busy(q, "project")' =>
                         /\ \A x \in runs'[q].plan : x[2] = "create" /\ (x[1] \in ProjectTitles => projects[x[1]] = 0)
                         /\ \A p \in Runs : Busy(p, "project")' => p = q
  BY DEF CreatesMissing, Busy
<1>1. \A q \in Runs : Busy(q, "project")' => Busy(q, "project") /\ runs'[q].plan \subseteq runs[q].plan
  BY DEF Stays, Busy
<1> QED  BY <1>1 DEF CreatesMissing

\* A label that is right stays right.
LEMMA AppliesStays ==
  ASSUME AppliesPlan, NEW r \in Runs, Stays(r),
         \A l \in Configured : label[l] = "right" => label'[l] = "right",
         Busy(r, "label")' => Carries(r)'
  PROVE  AppliesPlan'
<1> SUFFICES ASSUME NEW q \in Runs, Busy(q, "label")'
             PROVE  Carries(q)'
  BY DEF AppliesPlan
<1>1. CASE q = r
  BY <1>1
<1>2. CASE q # r
  <2>1. runs'[q] = runs[q] /\ touched[q] \subseteq touched'[q]
    BY <1>2 DEF Stays
  <2>2. Carries(q)
    BY <2>1 DEF AppliesPlan, Busy
  <2> QED  BY <2>1, <2>2 DEF Carries
<1> QED  BY <1>1, <1>2

\* The types of a step that leaves most of the account alone.
LEMMA TypeStays ==
  ASSUME AccountTypeOK, runs' \in [Runs -> Run], projects' \in [ProjectTitles -> Nat],
         label' \in [Labels -> {"none", "right", "wrong"}],
         stone' \in [Stones -> {"none", "right", "wrong", "closed"}],
         config' \subseteq ProjectTitles, excused' \in BOOLEAN, touched' \in [Runs -> SUBSET Labels],
         spent' \in 0..Budget
  PROVE  AccountTypeOK'
BY DEF AccountTypeOK, Run, Phases, Plans

\* A step away from the creations and the labels.
LEMMA Elsewhere ==
  ASSUME Sound, AccountTypeOK', NEW r \in Runs, Stays(r), UNCHANGED <<projects, label, excused>>,
         runs'[r].phase \notin {"project", "label"}
  PROVE  Sound'
<1>1. Typed'
  BY TypedStays DEF Sound, Busy
<1>2. CreatesMissing'
  BY CreatesStays DEF Sound, Busy
<1>3. AppliesPlan'
  BY AppliesStays DEF Sound, Busy
<1> QED  BY <1>1, <1>2, <1>3 DEF Sound

-----------------------------------------------------------------------------
(* Beginnings and ends.                                                     *)

LEMMA Begins ==
  ASSUME Sound, NEW r \in Runs, NEW tool \in Tools, NEW dry \in BOOLEAN, NEW phase \in {"labels", "projects"},
         Begin(r, tool, dry, phase)
  PROVE  Sound'
<1>1. AccountTypeOK
  BY DEF Sound, Typed
<1>2. /\ \A q \in Runs \ {r} : runs'[q] = runs[q]
      /\ runs' \in [Runs -> Run] /\ runs'[r].phase = phase
      /\ UNCHANGED <<projects, label, stone, config, excused, touched>>
      /\ spent' \in 0..Budget
  BY <1>1, BeginGoes
<1>3. AccountTypeOK'
  BY <1>1, <1>2, TypeStays DEF AccountTypeOK
<1>4. Stays(r)
  BY <1>2 DEF Stays
<1> QED  BY <1>2, <1>3, <1>4, Elsewhere

LEMMA RunStarts ==
  ASSUME Sound, NEW r \in Runs, StartManager(r) \/ StartSync(r)
  PROVE  Sound'
<1>1. PICK tool \in Tools, dry \in BOOLEAN, phase \in {"labels", "projects"} : Begin(r, tool, dry, phase)
  BY DEF StartManager, StartV2, Report, StartSync, Tools
<1> QED  BY <1>1, Begins

LEMMA EndsRun ==
  ASSUME Sound, NEW r \in Runs, Ends(r), Spend \/ Free
  PROVE  Sound'
<1>1. AccountTypeOK
  BY DEF Sound, Typed
<1>2. /\ \A q \in Runs \ {r} : runs'[q] = runs[q]
      /\ \A q \in Runs \ {r} : touched'[q] = touched[q]
      /\ runs' \in [Runs -> Run] /\ runs'[r].phase = "idle"
      /\ touched' \in [Runs -> SUBSET Labels]
      /\ UNCHANGED <<projects, label, stone, config, excused>>
      /\ spent' \in 0..Budget
  BY <1>1, EndGoes
<1>3. AccountTypeOK'
  BY <1>1, <1>2, TypeStays DEF AccountTypeOK
<1>4. Stays(r)
  BY <1>2 DEF Stays
<1> QED  BY <1>2, <1>3, <1>4, Elsewhere

-----------------------------------------------------------------------------
(* Projects.                                                                *)

LEMMA ListsProjects ==
  ASSUME Sound, NEW r \in Runs, ListProjects(r)
  PROVE  Sound'
<1>1. AccountTypeOK
  BY DEF Sound, Typed
<1>2. PICK seen \in SUBSET Existing :
        /\ IF seen = Existing \/ runs[r].tool \in ShortFor THEN Free ELSE seen = {} /\ Spend
        /\ runs' = [runs EXCEPT ![r] = [@ EXCEPT !.phase = "project", !.seen = seen,
                                               !.plan = MissingProjects(r, seen)]]
        /\ excused' = (excused \/ seen # Existing \/ runs[r].tool = "force" \/ Overlaps(r))
  BY DEF ListProjects
<1>3. UNCHANGED <<projects, label, stone, config, touched>>
  BY DEF ListProjects
<1> DEFINE z == [runs[r] EXCEPT !.phase = "project", !.seen = seen, !.plan = MissingProjects(r, seen)]
<1>4. runs[r] \in Run /\ seen \subseteq ProjectTitles
  BY <1>1, RunTyped DEF Existing
<1>5. MissingProjects(r, seen) \in Plans
  BY DEF MissingProjects, Plans
<1>6. /\ z \in Run /\ z.phase = "project" /\ z.plan = MissingProjects(r, seen) /\ z.seen = seen
  BY <1>4, <1>5 DEF Run, Phases
<1>7. runs' = [runs EXCEPT ![r] = z]
  BY <1>2
<1> HIDE DEF z
<1>8. runs' \in [Runs -> Run] /\ runs'[r] = z /\ \A q \in Runs \ {r} : runs'[q] = runs[q]
  BY <1>1, <1>6, <1>7, Goes
<1>9. spent' \in 0..Budget
  <2>1. Spend \/ Free
    BY <1>2
  <2> QED  BY <1>1, <2>1, SpendTyped
<1>10. AccountTypeOK'
  <2>1. excused' \in BOOLEAN
    BY <1>2
  <2> QED  BY <1>1, <1>3, <1>8, <1>9, <2>1, TypeStays DEF AccountTypeOK
<1>11. Stays(r)
  BY <1>3, <1>8 DEF Stays
<1>12. Typed'
  BY <1>4, <1>6, <1>8, <1>10, <1>11, TypedStays DEF Sound
<1>13. AppliesPlan'
  BY <1>3, <1>6, <1>8, <1>11, AppliesStays DEF Sound, Busy
<1>14. CreatesMissing'
  <2> SUFFICES ASSUME ~excused'
               PROVE  /\ \A t \in ProjectTitles : projects'[t] <= 1
                      /\ \A q \in Runs : Busy(q, "project")' =>
                           /\ \A x \in runs'[q].plan :
                                x[2] = "create" /\ (x[1] \in ProjectTitles => projects'[x[1]] = 0)
                           /\ \A p \in Runs : Busy(p, "project")' => p = q
    BY DEF CreatesMissing
  <2>1. ~excused /\ seen = Existing /\ runs[r].tool # "force" /\ ~Overlaps(r)
    BY <1>2
  <2>2. \A q \in Runs : Busy(q, "project")' => q = r
    BY <1>8, <2>1 DEF Overlaps, Busy
  <2>3. \A x \in runs'[r].plan : x[2] = "create" /\ x[1] \in ProjectTitles \ Existing
    BY <1>6, <1>8, <2>1 DEF MissingProjects
  <2>4. \A x \in runs'[r].plan : x[2] = "create" /\ projects'[x[1]] = 0
    BY <1>1, <1>3, <2>3 DEF Existing, AccountTypeOK
  <2>5. \A t \in ProjectTitles : projects'[t] <= 1
    BY <1>3, <2>1 DEF Sound, CreatesMissing
  <2> QED  BY <2>2, <2>4, <2>5
<1> QED  BY <1>12, <1>13, <1>14 DEF Sound

LEMMA CreatesProject ==
  ASSUME Sound, NEW r \in Runs, NEW x \in runs[r].plan, CreateProject(r, x)
  PROVE  Sound'
<1>1. AccountTypeOK /\ Busy(r, "project")
  BY DEF Sound, Typed, CreateProject
<1>2. PICK good \in BOOLEAN : Item(r, x, good)
  BY DEF CreateProject, Nothing, Effect
<1>3. AddProject(x[1]) \/ UNCHANGED account
  BY DEF CreateProject, Nothing, Effect
<1>4. Spend \/ Free
  BY DEF CreateProject, Nothing, Effect
<1>5. UNCHANGED <<label, stone, config, excused, touched>>
  BY <1>3 DEF CreateProject, others, account, AddProject
<1>6. /\ \A q \in Runs \ {r} : runs'[q] = runs[q]
      /\ runs' \in [Runs -> Run]
      /\ runs'[r].plan = runs[r].plan \ {x}
      /\ runs'[r].phase = runs[r].phase /\ runs'[r].seen = runs[r].seen
  BY <1>1, <1>2, ItemGoes
<1>7. /\ projects' \in [ProjectTitles -> Nat]
      /\ \A t \in ProjectTitles : projects'[t] = projects[t] \/ (t = x[1] /\ projects'[t] = projects[t] + 1)
  <2>1. CASE AddProject(x[1])
    <3>1. projects' = [projects EXCEPT ![x[1]] = projects[x[1]] + 1] /\ projects \in [ProjectTitles -> Nat]
      BY <1>1, <2>1 DEF AddProject, AccountTypeOK
    <3>2. CASE x[1] \in ProjectTitles
      BY <3>1, <3>2
    <3>3. CASE x[1] \notin ProjectTitles
      <4>1. projects' = projects
        BY <3>1, <3>3
      <4> QED  BY <3>1, <4>1
    <3> QED  BY <3>2, <3>3
  <2>2. CASE UNCHANGED account
    BY <1>1, <2>2 DEF account, AccountTypeOK
  <2> QED  BY <1>3, <2>1, <2>2
<1>8. AccountTypeOK'
  <2>1. spent' \in 0..Budget
    BY <1>1, <1>4, SpendTyped
  <2> QED  BY <1>1, <1>5, <1>6, <1>7, <2>1, TypeStays DEF AccountTypeOK
<1>9. Stays(r)
  BY <1>5, <1>6 DEF Stays
<1>10. Typed'
  BY <1>1, <1>6, <1>8, <1>9, TypedStays DEF Sound, Typed, Busy
<1>11. AppliesPlan'
  BY <1>1, <1>5, <1>6, <1>9, AppliesStays DEF Sound, Busy
<1>12. CreatesMissing'
  <2> SUFFICES ASSUME ~excused
               PROVE  /\ \A t \in ProjectTitles : projects'[t] <= 1
                      /\ \A q \in Runs : Busy(q, "project")' =>
                           /\ \A y \in runs'[q].plan :
                                y[2] = "create" /\ (y[1] \in ProjectTitles => projects'[y[1]] = 0)
                           /\ \A p \in Runs : Busy(p, "project")' => p = q
    BY <1>5 DEF CreatesMissing
  <2>1. /\ \A t \in ProjectTitles : projects[t] <= 1
        /\ \A y \in runs[r].plan : y[2] = "create" /\ (y[1] \in ProjectTitles => projects[y[1]] = 0)
        /\ \A q \in Runs : Busy(q, "project") => q = r
    BY <1>1 DEF Sound, CreatesMissing
  <2>2. \A q \in Runs : Busy(q, "project")' => q = r
    BY <1>6, <2>1 DEF Busy
  <2>3. \A t \in ProjectTitles : projects'[t] <= 1
    BY <1>1, <1>7, <2>1 DEF AccountTypeOK
  <2>4. ASSUME NEW y \in runs'[r].plan
        PROVE  y[2] = "create" /\ (y[1] \in ProjectTitles => projects'[y[1]] = 0)
    <3>1. y \in runs[r].plan /\ y # x
      BY <1>6
    <3>2. \A v \in runs[r].plan : v = <<v[1], v[2]>>
      BY <1>1, RunTyped DEF Run, Plans
    <3>3. y[1] # x[1]
      BY <2>1, <3>1, <3>2
    <3> QED  BY <1>7, <2>1, <3>1, <3>3
  <2> QED  BY <2>2, <2>3, <2>4
<1> QED  BY <1>10, <1>11, <1>12 DEF Sound

LEMMA EndsProjects ==
  ASSUME Sound, NEW r \in Runs, EndProjects(r)
  PROVE  Sound'
<1>1. AccountTypeOK /\ runs[r].seen \subseteq ProjectTitles
  BY DEF Sound, Typed, EndProjects
<1> DEFINE z == [runs[r] EXCEPT !.phase = "labels", !.seen = {}, !.good = TRUE]
<1>2. runs[r] \in Run
  BY <1>1, RunTyped
<1>3. z \in Run /\ z.phase = "labels"
  BY <1>2 DEF Run, Phases
<1>4. runs' = [runs EXCEPT ![r] = z] /\ UNCHANGED <<projects, label, stone, excused, touched>>
  BY DEF EndProjects
<1> HIDE DEF z
<1>5. runs' \in [Runs -> Run] /\ runs'[r] = z /\ \A q \in Runs \ {r} : runs'[q] = runs[q]
  BY <1>1, <1>3, <1>4, Goes
<1>6. config' \subseteq ProjectTitles
  BY <1>1 DEF EndProjects, AccountTypeOK
<1>7. spent' \in 0..Budget
  BY <1>1, SpendTyped DEF EndProjects
<1>8. AccountTypeOK'
  BY <1>1, <1>4, <1>5, <1>6, <1>7, TypeStays DEF AccountTypeOK
<1>9. Stays(r)
  BY <1>4, <1>5 DEF Stays
<1> QED  BY <1>3, <1>4, <1>5, <1>8, <1>9, Elsewhere

-----------------------------------------------------------------------------
(* Labels.                                                                  *)

\* A run enters a phase with a plan.
LEMMA EnterGoes ==
  ASSUME AccountTypeOK, NEW r \in Runs, NEW phase \in Phases, NEW plan \in Plans, Enter(r, phase, plan)
  PROVE  /\ \A q \in Runs \ {r} : runs'[q] = runs[q]
         /\ runs' \in [Runs -> Run] /\ runs'[r].phase = phase /\ runs'[r].plan = plan
         /\ runs'[r].tool = runs[r].tool /\ runs'[r].dry = runs[r].dry
         /\ runs'[r].good = runs[r].good /\ runs'[r].seen = runs[r].seen
<1> DEFINE z == [runs[r] EXCEPT !.phase = phase, !.plan = plan]
<1>1. runs[r] \in Run
  BY RunTyped
<1>2. /\ z \in Run /\ z.phase = phase /\ z.plan = plan
      /\ z.tool = runs[r].tool /\ z.dry = runs[r].dry
      /\ z.good = runs[r].good /\ z.seen = runs[r].seen
  BY <1>1 DEF Run
<1>3. runs' = [runs EXCEPT ![r] = z]
  BY DEF Enter
<1> HIDE DEF z
<1>4. runs' \in [Runs -> Run] /\ runs'[r] = z /\ \A q \in Runs \ {r} : runs'[q] = runs[q]
  BY <1>2, <1>3, Goes
<1> QED  BY <1>2, <1>4

\* A plan made from what a listing showed.
LEMMA PlansLabels ==
  ASSUME Sound, NEW r \in Runs, NEW plan \in Plans, Enter(r, "label", plan), Spend \/ Free,
         UNCHANGED <<projects, label, stone, config, excused, touched>>,
         \A x \in plan : x[2] = "delete" => x[1] \notin Configured,
         runs[r].tool \in Reports =>
           \A l \in Configured : label[l] = "right" \/ <<l, "create">> \in plan \/ <<l, "update">> \in plan
  PROVE  Sound'
<1>1. AccountTypeOK
  BY DEF Sound, Typed
<1>2. "label" \in Phases
  BY DEF Phases
<1>3. /\ \A q \in Runs \ {r} : runs'[q] = runs[q]
      /\ runs' \in [Runs -> Run] /\ runs'[r].phase = "label" /\ runs'[r].plan = plan
      /\ runs'[r].tool = runs[r].tool
  BY <1>1, <1>2, EnterGoes
<1>4. AccountTypeOK'
  <2>1. spent' \in 0..Budget
    BY <1>1, SpendTyped
  <2> QED  BY <1>1, <1>3, <2>1, TypeStays DEF AccountTypeOK
<1>5. Stays(r)
  BY <1>3 DEF Stays
<1>6. Typed'
  BY <1>3, <1>4, <1>5, TypedStays DEF Sound, Busy
<1>7. CreatesMissing'
  BY <1>3, <1>5, CreatesStays DEF Sound, Busy
<1>8. Carries(r)'
  BY <1>3 DEF Carries
<1>9. AppliesPlan'
  BY <1>5, <1>8, AppliesStays DEF Sound
<1> QED  BY <1>6, <1>7, <1>9 DEF Sound

LEMMA ListsLabels ==
  ASSUME Sound, NEW r \in Runs, ListLabels(r)
  PROVE  Sound'
<1>1. PICK shown \in SUBSET Labels : Enter(r, "label", LabelPlan(r, shown)) /\ (Spend \/ Free)
  <2>1. FirstPage \subseteq Labels
    BY DEF FirstPage, Present
  <2>2. CASE Enter(r, "label", LabelPlan(r, FirstPage)) /\ Free
    BY <2>1, <2>2
  <2>3. CASE Enter(r, "label", LabelPlan(r, {})) /\ Spend
    BY <2>3
  <2> QED  BY <2>2, <2>3 DEF ListLabels
<1>2. Configured \subseteq Labels
  BY AccountAssumption
<1>3. LabelPlan(r, shown) \in Plans
  BY <1>2 DEF LabelPlan, Plans, Orphans, Outdated
<1>4. \A x \in LabelPlan(r, shown) : x[2] = "delete" => x[1] \notin Configured
  BY DEF LabelPlan, Orphans, Protected
<1>5. ASSUME runs[r].tool \in Reports, NEW l \in Configured, label[l] # "right"
      PROVE  <<l, "create">> \in LabelPlan(r, shown) \/ <<l, "update">> \in LabelPlan(r, shown)
  <2>1. ~Cleans(r)
    BY <1>5 DEF Reports, Cleans
  <2>2. CASE l \in shown
    BY <1>5, <2>1, <2>2 DEF LabelPlan, Outdated, Identical
  <2>3. CASE l \notin shown
    BY <2>1, <2>3 DEF LabelPlan
  <2> QED  BY <2>2, <2>3
<1>6. UNCHANGED <<projects, label, stone, config, excused, touched>>
  BY DEF ListLabels
<1> QED  BY <1>1, <1>3, <1>4, <1>5, <1>6, PlansLabels

LEMMA GetsLabels ==
  ASSUME Sound, NEW r \in Runs, GetLabels(r)
  PROVE  Sound'
<1>1. CASE GivesUp(r)
  BY <1>1, EndsRun DEF GivesUp
<1>2. CASE ~GivesUp(r)
  <2>1. Enter(r, "label", SyncPlan(r)) /\ Free
        /\ UNCHANGED <<projects, label, stone, config, excused, touched>>
    BY <1>2 DEF GetLabels, Enter
  <2>2. Configured \subseteq Labels /\ Shown(r) \subseteq Labels
    BY AccountAssumption DEF Shown, FirstPage, Present
  <2>3. SyncPlan(r) \in Plans
    BY <2>2 DEF SyncPlan, Plans
  <2>4. \A x \in SyncPlan(r) : x[2] = "delete" => x[1] \notin Configured
    BY DEF SyncPlan
  <2>5. ASSUME NEW l \in Configured, label[l] # "right"
        PROVE  <<l, "create">> \in SyncPlan(r) \/ <<l, "update">> \in SyncPlan(r)
    <3>1. CASE l \in Shown(r)
      BY <2>5, <3>1 DEF SyncPlan, Identical
    <3>2. CASE l \notin Shown(r)
      BY <3>2 DEF SyncPlan
    <3> QED  BY <3>1, <3>2
  <2> QED  BY <2>1, <2>3, <2>4, <2>5, PlansLabels
<1> QED  BY <1>1, <1>2

\* An item of the plan for the labels, done or not: a delete of a label that is
\* not configured, or a write of one that is right afterwards if the item is good.
LEMMA LabelItem ==
  ASSUME Sound, NEW r \in Runs, Busy(r, "label"), NEW x \in runs[r].plan, NEW good \in BOOLEAN,
         Item(r, x, good), Spend \/ Free, UNCHANGED <<projects, stone, config, excused, touched>>,
         \/ UNCHANGED label
         \/ x[2] # "delete" /\ label' = [label EXCEPT ![x[1]] = "right"]
         \/ x[2] = "delete" /\ label' = [label EXCEPT ![x[1]] = "none"],
         good /\ ~runs[r].dry /\ runs[r].tool \in Reports /\ x[2] # "delete" =>
           label' = [label EXCEPT ![x[1]] = "right"]
  PROVE  Sound'
<1>1. AccountTypeOK /\ Carries(r) /\ Configured \subseteq Labels
  BY AccountAssumption DEF Sound, Typed, AppliesPlan
<1>2. /\ \A q \in Runs \ {r} : runs'[q] = runs[q]
      /\ runs' \in [Runs -> Run]
      /\ runs'[r].plan = runs[r].plan \ {x} /\ runs'[r].good = (runs[r].good /\ good)
      /\ runs'[r].tool = runs[r].tool /\ runs'[r].dry = runs[r].dry
      /\ runs'[r].phase = runs[r].phase /\ runs'[r].seen = runs[r].seen
  BY <1>1, ItemGoes
<1>3. label \in [Labels -> {"none", "right", "wrong"}]
  BY <1>1 DEF AccountTypeOK
<1>4. label' \in [Labels -> {"none", "right", "wrong"}]
  BY <1>3
<1>5. AccountTypeOK'
  <2>1. spent' \in 0..Budget
    BY <1>1, SpendTyped
  <2> QED  BY <1>1, <1>2, <1>4, <2>1, TypeStays DEF AccountTypeOK
<1>6. Stays(r)
  BY <1>2 DEF Stays
<1>7. Typed'
  BY <1>2, <1>5, <1>6, TypedStays DEF Sound, Busy
<1>8. CreatesMissing'
  BY <1>2, <1>6, CreatesStays DEF Sound, Busy
<1>9. \A l \in Configured : label[l] = "right" => label'[l] = "right"
  BY <1>1, <1>3 DEF Carries
<1>10. Carries(r)'
  <2>1. \A y \in runs'[r].plan : y[2] = "delete" => y[1] \notin Configured
    BY <1>1, <1>2 DEF Carries
  <2>2. ASSUME runs'[r].tool \in Reports, ~runs'[r].dry, runs'[r].good, NEW l \in Configured
        PROVE  \/ label'[l] = "right" \/ l \in touched'[r]
               \/ <<l, "create">> \in runs'[r].plan \/ <<l, "update">> \in runs'[r].plan
    <3>1. runs[r].tool \in Reports /\ ~runs[r].dry /\ runs[r].good /\ good
      BY <1>2, <2>2
    <3>2. \/ label[l] = "right" \/ l \in touched[r]
          \/ <<l, "create">> \in runs[r].plan \/ <<l, "update">> \in runs[r].plan
      BY <1>1, <3>1 DEF Carries
    <3>3. CASE x = <<l, "create">> \/ x = <<l, "update">>
      <4>1. x[1] = l /\ x[2] # "delete"
        BY <3>3
      <4>2. label' = [label EXCEPT ![l] = "right"]
        BY <3>1, <4>1
      <4> QED  BY <1>1, <1>3, <4>2
    <3>4. CASE ~(x = <<l, "create">> \/ x = <<l, "update">>)
      BY <1>2, <1>9, <3>2, <3>4
    <3> QED  BY <3>3, <3>4
  <2> QED  BY <2>1, <2>2 DEF Carries
<1>11. AppliesPlan'
  BY <1>6, <1>9, <1>10, AppliesStays DEF Sound
<1> QED  BY <1>7, <1>8, <1>11 DEF Sound

LEMMA LabelStep ==
  ASSUME Sound, NEW r \in Runs, NEW x \in runs[r].plan,
         CreateLabel(r, x) \/ UpdateLabel(r, x) \/ DeleteLabel(r, x) \/ SyncLabel(r, x)
  PROVE  Sound'
<1>1. Busy(r, "label") /\ UNCHANGED <<config, excused, touched>>
  BY DEF CreateLabel, UpdateLabel, DeleteLabel, SyncLabel, others
<1> DEFINE v == IF x[2] = "delete" THEN "none" ELSE "right"
<1>2. Nothing(r, x) \/ Refused(r, x) \/ Effect(r, x, SetLabel(x[1], v))
  BY DEF CreateLabel, UpdateLabel, EditLabel, DeleteLabel, SyncLabel
<1>3. Nothing(r, x) => runs[r].dry \/ Refused(r, x) \/ Effect(r, x, SetLabel(x[1], v))
  BY DEF CreateLabel, UpdateLabel, EditLabel, DeleteLabel, SyncLabel
<1>4. (x[2] = "delete" => v = "none") /\ (x[2] # "delete" => v = "right")
  OBVIOUS
<1> HIDE DEF v
<1>5. CASE Nothing(r, x) /\ runs[r].dry
  BY <1>1, <1>5, LabelItem DEF Nothing, account
<1>6. CASE Refused(r, x)
  BY <1>1, <1>6, LabelItem DEF Refused, account
<1>7. CASE Effect(r, x, SetLabel(x[1], v))
  \* An answer that says the change was made tells the truth.
  <2>1. PICK good \in BOOLEAN :
           /\ Item(r, x, good) /\ (Spend \/ Free) /\ UNCHANGED <<projects, stone>>
           /\ label' = [label EXCEPT ![x[1]] = v] \/ (~good /\ UNCHANGED label)
    BY <1>7 DEF Effect, SetLabel, account
  <2> QED  BY <1>1, <1>4, <2>1, LabelItem
<1> QED  BY <1>2, <1>3, <1>5, <1>6, <1>7

LEMMA KeepsLabel ==
  ASSUME Sound, NEW r \in Runs, NEW x \in runs[r].plan, KeepLabel(r, x)
  PROVE  Sound'
<1>1. AccountTypeOK /\ Carries(r) /\ runs[r].plan \in Plans
  BY RunTyped DEF Sound, Typed, AppliesPlan, KeepLabel, Run
<1>2. PICK rest \in {runs[r].plan \ {x}, {}} : Enter(r, "label", rest)
  BY DEF KeepLabel
<1>3. rest \in Plans /\ rest \subseteq runs[r].plan
  BY <1>1 DEF Plans
<1>4. \A y \in rest : y[2] = "delete" => y[1] \notin Configured
  BY <1>1, <1>3 DEF Carries
<1>5. runs[r].tool \notin Reports
  BY DEF KeepLabel, Reports
<1>6. UNCHANGED <<projects, label, stone, config, excused, touched>> /\ Free
  BY DEF KeepLabel
<1> QED  BY <1>2, <1>3, <1>4, <1>5, <1>6, PlansLabels

LEMMA EndsLabels ==
  ASSUME Sound, NEW r \in Runs, EndLabels(r)
  PROVE  Sound'
<1>1. CASE Cleans(r)
  BY <1>1, EndsRun DEF EndLabels
<1>2. CASE ~Cleans(r)
  <2> DEFINE z == [runs[r] EXCEPT !.phase = "stones", !.good = TRUE]
  <2>1. AccountTypeOK
    BY DEF Sound, Typed
  <2>2. runs[r] \in Run
    BY <2>1, RunTyped
  <2>3. z \in Run /\ z.phase = "stones"
    BY <2>2 DEF Run, Phases
  <2>4. /\ runs' = [runs EXCEPT ![r] = z]
        /\ touched' = [touched EXCEPT ![r] = {}]
        /\ UNCHANGED <<projects, label, stone, config, excused>> /\ Free
    BY <1>2 DEF EndLabels
  <2> HIDE DEF z
  <2>5. runs' \in [Runs -> Run] /\ runs'[r] = z /\ \A q \in Runs \ {r} : runs'[q] = runs[q]
    BY <2>1, <2>3, <2>4, Goes
  <2>6. /\ touched' \in [Runs -> SUBSET Labels]
        /\ \A q \in Runs \ {r} : touched'[q] = touched[q]
    BY <2>1, <2>4 DEF AccountTypeOK
  <2>7. spent' \in 0..Budget
    BY <2>1, <2>4, SpendTyped
  <2>8. AccountTypeOK'
    BY <2>1, <2>4, <2>5, <2>6, <2>7, TypeStays DEF AccountTypeOK
  <2>9. Stays(r)
    BY <2>5, <2>6 DEF Stays
  <2> QED  BY <2>3, <2>4, <2>5, <2>8, <2>9, Elsewhere
<1> QED  BY <1>1, <1>2

-----------------------------------------------------------------------------
(* Milestones.                                                              *)

\* A step at the milestones changes nothing the invariant is about.
LEMMA AtStones ==
  ASSUME Sound, NEW r \in Runs, NEW z \in Run, runs' = [runs EXCEPT ![r] = z],
         z.phase \in {"stones", "stone", "patch"},
         stone' \in [Stones -> {"none", "right", "wrong", "closed"}], Spend \/ Free,
         UNCHANGED <<projects, label, config, excused, touched>>
  PROVE  Sound'
<1>1. AccountTypeOK
  BY DEF Sound, Typed
<1>2. runs' \in [Runs -> Run] /\ runs'[r] = z /\ \A q \in Runs \ {r} : runs'[q] = runs[q]
  BY <1>1, Goes
<1>3. AccountTypeOK'
  <2>1. spent' \in 0..Budget
    BY <1>1, SpendTyped
  <2> QED  BY <1>1, <1>2, <2>1, TypeStays DEF AccountTypeOK
<1>4. Stays(r)
  BY <1>2 DEF Stays
<1> QED  BY <1>2, <1>3, <1>4, Elsewhere

\* So does an item of the plan for them.
LEMMA StoneItem ==
  ASSUME Sound, NEW r \in Runs, Busy(r, "stone"), NEW x, NEW good \in BOOLEAN, Item(r, x, good),
         stone' \in [Stones -> {"none", "right", "wrong", "closed"}], Spend \/ Free,
         UNCHANGED <<projects, label, config, excused, touched>>
  PROVE  Sound'
<1>1. AccountTypeOK /\ runs \in [Runs -> Run]
  BY RunTyped DEF Sound, Typed
<1>2. /\ \A q \in Runs \ {r} : runs'[q] = runs[q]
      /\ runs' \in [Runs -> Run] /\ runs'[r].phase = runs[r].phase
  BY <1>1, ItemGoes
<1>3. AccountTypeOK'
  <2>1. spent' \in 0..Budget
    BY <1>1, SpendTyped
  <2> QED  BY <1>1, <1>2, <2>1, TypeStays DEF AccountTypeOK
<1>4. Stays(r)
  BY <1>2 DEF Stays
<1> QED  BY <1>2, <1>3, <1>4, Elsewhere DEF Busy

LEMMA ListsStones ==
  ASSUME Sound, NEW r \in Runs, ListStones(r)
  PROVE  Sound'
<1>1. AccountTypeOK
  BY DEF Sound, Typed
<1>2. PICK shown \in SUBSET Stones : Enter(r, "stone", StonePlan(r, shown)) /\ (Spend \/ Free)
  <2>1. OpenStones \subseteq Stones
    BY DEF OpenStones
  <2>2. CASE Enter(r, "stone", StonePlan(r, OpenStones)) /\ Free
    BY <2>1, <2>2
  <2>3. CASE Enter(r, "stone", StonePlan(r, {})) /\ Spend
    BY <2>3
  <2> QED  BY <2>2, <2>3 DEF ListStones
<1> DEFINE z == [runs[r] EXCEPT !.phase = "stone", !.plan = StonePlan(r, shown)]
<1>3. StonePlan(r, shown) \in Plans
  BY DEF StonePlan, Plans
<1>4. runs[r] \in Run
  BY <1>1, RunTyped
<1>5. z \in Run /\ z.phase = "stone"
  BY <1>3, <1>4 DEF Run, Phases
<1>6. runs' = [runs EXCEPT ![r] = z]
  BY <1>2 DEF Enter
<1> HIDE DEF z
<1>7. UNCHANGED <<projects, label, stone, config, excused, touched>>
  BY DEF ListStones
<1> QED  BY <1>1, <1>2, <1>5, <1>6, <1>7, AtStones DEF AccountTypeOK

LEMMA CreatesStone ==
  ASSUME Sound, NEW r \in Runs, NEW x \in runs[r].plan, CreateStone(r, x)
  PROVE  Sound'
<1>1. AccountTypeOK /\ Busy(r, "stone") /\ UNCHANGED <<config, excused, touched>>
  BY DEF Sound, Typed, CreateStone, others
<1>2. PICK good \in BOOLEAN : Item(r, x, good) /\ (Spend \/ Free) /\ (SetStone(x[1], "right") \/ UNCHANGED account)
  BY DEF CreateStone, Nothing, Refused, Effect
<1>3. UNCHANGED <<projects, label>> /\ (stone' = [stone EXCEPT ![x[1]] = "right"] \/ stone' = stone)
  BY <1>2 DEF SetStone, account
<1>4. stone' \in [Stones -> {"none", "right", "wrong", "closed"}]
  BY <1>1, <1>3 DEF AccountTypeOK
<1> QED  BY <1>1, <1>2, <1>3, <1>4, StoneItem

LEMMA FindsStone ==
  ASSUME Sound, NEW r \in Runs, NEW x \in runs[r].plan, FindStone(r, x)
  PROVE  Sound'
<1>1. AccountTypeOK /\ Busy(r, "stone") /\ UNCHANGED <<projects, label, stone, config, excused, touched>>
  BY DEF Sound, Typed, FindStone, Refused, others, account
<1>2. CASE Item(r, x, FALSE) /\ (Spend \/ Free)
  BY <1>1, <1>2, StoneItem DEF AccountTypeOK
<1>3. CASE /\ x[1] \in OpenStones /\ UNCHANGED account /\ Free
           /\ runs' = [runs EXCEPT ![r] = [@ EXCEPT !.phase = "patch", !.seen = {x[1]}]]
  <2> DEFINE z == [runs[r] EXCEPT !.phase = "patch", !.seen = {x[1]}]
  <2>1. runs[r] \in Run /\ x[1] \in Stones
    BY <1>1, <1>3, RunTyped DEF OpenStones
  <2>2. z \in Run /\ z.phase = "patch"
    BY <2>1 DEF Run, Phases
  <2>3. runs' = [runs EXCEPT ![r] = z]
    BY <1>3
  <2> HIDE DEF z
  <2> QED  BY <1>1, <1>3, <2>2, <2>3, AtStones DEF AccountTypeOK
<1> QED  BY <1>2, <1>3 DEF FindStone, Refused

LEMMA PatchesStone ==
  ASSUME Sound, NEW r \in Runs, NEW x \in runs[r].plan, PatchStone(r, x)
  PROVE  Sound'
<1>1. AccountTypeOK /\ UNCHANGED <<config, excused, touched>>
  BY DEF Sound, Typed, PatchStone, others
<1>2. PICK good \in BOOLEAN :
        /\ runs' = [runs EXCEPT ![r].phase = "stone", ![r].seen = {},
                              ![r].plan = @ \ {x}, ![r].good = @ /\ good]
        /\ \/ stone[x[1]] # "none" /\ SetStone(x[1], "right") /\ (IF good THEN Free ELSE Spend)
           \/ stone[x[1]] = "none" /\ ~good /\ UNCHANGED account /\ Free
           \/ ~good /\ UNCHANGED account /\ Spend
  BY DEF PatchStone
<1>3. (Spend \/ Free) /\ (SetStone(x[1], "right") \/ UNCHANGED account)
  BY <1>2
<1>4. UNCHANGED <<projects, label>> /\ (stone' = [stone EXCEPT ![x[1]] = "right"] \/ stone' = stone)
  BY <1>3 DEF SetStone, account
<1>5. stone' \in [Stones -> {"none", "right", "wrong", "closed"}]
  BY <1>1, <1>4 DEF AccountTypeOK
<1> DEFINE z == [runs[r] EXCEPT !.phase = "stone", !.seen = {},
                               !.plan = runs[r].plan \ {x}, !.good = runs[r].good /\ good]
<1>6. runs[r] \in Run /\ runs \in [Runs -> Run]
  BY <1>1, RunTyped
<1>7. z \in Run /\ z.phase = "stone"
  BY <1>6 DEF Run, Phases, Plans
<1>8. runs' = [runs EXCEPT ![r] = z]
  BY <1>2, <1>6 DEF Run
<1> HIDE DEF z
<1> QED  BY <1>1, <1>3, <1>4, <1>5, <1>7, <1>8, AtStones

-----------------------------------------------------------------------------
(* Every step, and people's.                                                *)

LEMMA RunSteps ==
  ASSUME Sound, NEW r \in Runs, RunGoes(r)
  PROVE  Sound'
<1>1. CASE DryListFails(r) \/ EndStones(r) \/ EndSync(r)
  BY <1>1, EndsRun DEF DryListFails, EndStones, EndSync
<1>2. CASE ListProjects(r) \/ EndProjects(r)
  BY <1>2, ListsProjects, EndsProjects
<1>3. CASE ListLabels(r) \/ EndLabels(r) \/ GetLabels(r)
  BY <1>3, ListsLabels, EndsLabels, GetsLabels
<1>4. CASE ListStones(r)
  BY <1>4, ListsStones
<1>5. ASSUME NEW x \in runs[r].plan, CreateProject(r, x)
      PROVE  Sound'
  BY <1>5, CreatesProject
<1>6. ASSUME NEW x \in runs[r].plan,
             CreateLabel(r, x) \/ UpdateLabel(r, x) \/ DeleteLabel(r, x) \/ SyncLabel(r, x)
      PROVE  Sound'
  BY <1>6, LabelStep
<1>7. ASSUME NEW x \in runs[r].plan, KeepLabel(r, x)
      PROVE  Sound'
  BY <1>7, KeepsLabel
<1>8. ASSUME NEW x \in runs[r].plan, CreateStone(r, x) \/ FindStone(r, x) \/ PatchStone(r, x)
      PROVE  Sound'
  BY <1>8, CreatesStone, FindsStone, PatchesStone
<1> QED  BY <1>1, <1>2, <1>3, <1>4, <1>5, <1>6, <1>7, <1>8 DEF RunGoes, ManagerStep, SyncStep

LEMMA People ==
  ASSUME Sound, PeopleChange
  PROVE  Sound'
<1>1. AccountTypeOK /\ UNCHANGED <<runs, config, excused, projects>>
  BY DEF Sound, Typed, PeopleChange, SetLabel, SetStone
<1>2. spent' \in 0..Budget
  BY <1>1, SpendTyped DEF PeopleChange
<1>3. ASSUME NEW l \in Labels, NEW v \in {"none", "wrong"}, SetLabel(l, v),
             touched' = [r \in Runs |-> IF Busy(r, "label") THEN touched[r] \cup {l} ELSE {}]
      PROVE  AccountTypeOK' /\ AppliesPlan'
  <2>1. label' = [label EXCEPT ![l] = v] /\ UNCHANGED stone
    BY <1>3 DEF SetLabel
  <2>2. touched' \in [Runs -> SUBSET Labels] /\ label' \in [Labels -> {"none", "right", "wrong"}]
    BY <1>1, <1>3, <2>1 DEF AccountTypeOK
  <2>3. AccountTypeOK'
    BY <1>1, <1>2, <2>1, <2>2 DEF AccountTypeOK
  <2>4. ASSUME NEW r \in Runs, Busy(r, "label")
        PROVE  Carries(r)'
    <3>1. touched'[r] = touched[r] \cup {l}
      BY <1>3, <2>4
    <3>2. Carries(r)
      BY <2>4 DEF Sound, AppliesPlan
    <3>3. \A k \in Configured : label'[k] = label[k] \/ k = l
      BY <1>1, <2>1 DEF AccountTypeOK
    <3> QED  BY <1>1, <3>1, <3>2, <3>3 DEF Carries
  <2> QED  BY <1>1, <2>3, <2>4 DEF AppliesPlan, Busy
<1>4. ASSUME NEW m \in Stones, NEW v \in {"none", "wrong", "closed"}, SetStone(m, v), UNCHANGED touched
      PROVE  AccountTypeOK' /\ AppliesPlan'
  <2>1. stone' = [stone EXCEPT ![m] = v] /\ UNCHANGED label
    BY <1>4 DEF SetStone
  <2>2. AccountTypeOK'
    BY <1>1, <1>2, <1>4, <2>1 DEF AccountTypeOK
  <2>3. AppliesPlan'
    BY <1>1, <1>4, <2>1 DEF Sound, AppliesPlan, Carries, Busy
  <2> QED  BY <2>2, <2>3
<1>5. AccountTypeOK' /\ AppliesPlan'
  BY <1>3, <1>4 DEF PeopleChange
<1>6. Typed'
  BY <1>1, <1>5 DEF Sound, Typed, Busy
<1>7. CreatesMissing'
  BY <1>1 DEF Sound, CreatesMissing, Busy
<1> QED  BY <1>5, <1>6, <1>7 DEF Sound

\* The invariant holds of every behaviour.
LEMMA SoundInvariant == SyncSpec => []Sound
<1>1. ASSUME AccountInit PROVE Sound
  <2>1. AtRest \in Run /\ \A r \in Runs : runs[r] = AtRest
    BY <1>1, IdleRun DEF AccountInit
  <2>2. AccountTypeOK
    <3>1. runs \in [Runs -> Run]
      BY <1>1, <2>1 DEF AccountInit
    <3>2. spent \in 0..Budget
      BY <1>1, AccountAssumption, BudgetAssumption DEF AccountInit
    <3>3. projects \in [ProjectTitles -> Nat] /\ label \in [Labels -> {"none", "right", "wrong"}]
      BY <1>1 DEF AccountInit
    <3> QED  BY <1>1, <3>1, <3>2, <3>3 DEF AccountInit, AccountTypeOK, Run, Phases, Plans
  <2>3. \A r \in Runs : runs[r].phase = "idle"
    BY <2>1, IdleRun
  <2>4. \A t \in ProjectTitles : projects[t] <= 1
    BY <1>1 DEF AccountInit
  <2> QED  BY <2>2, <2>3, <2>4 DEF Sound, Typed, CreatesMissing, AppliesPlan, Busy
<1>2. ASSUME Sound, [SyncNext]_accountVars
      PROVE  Sound'
  <2>1. CASE UNCHANGED accountVars
    BY <1>2, <2>1 DEF accountVars, Sound, Typed, AccountTypeOK, CreatesMissing, AppliesPlan, Carries, Busy
  <2>2. ASSUME NEW r \in Runs, StartManager(r) \/ StartSync(r)
        PROVE  Sound'
    BY <1>2, <2>2, RunStarts
  <2>3. ASSUME NEW r \in Runs, RunGoes(r)
        PROVE  Sound'
    BY <1>2, <2>3, RunSteps
  <2>4. ASSUME NEW r \in Runs, RunDies(r)
        PROVE  Sound'
    BY <1>2, <2>4, EndsRun DEF RunDies
  <2>5. CASE PeopleChange
    BY <1>2, <2>5, People
  <2> QED  BY <1>2, <2>1, <2>2, <2>3, <2>4, <2>5 DEF SyncNext
<1> QED  BY <1>1, <1>2, PTL DEF SyncSpec

-----------------------------------------------------------------------------

\* The state of the account, of the runs and of what people changed has its
\* type, whatever the runs and the people do.
THEOREM TypeCorrect == SyncSpec => []AccountTypeOK
<1>1. Sound => AccountTypeOK
  BY DEF Sound, Typed
<1> QED  BY <1>1, SoundInvariant, PTL

\* No title gets a second project (create_all_projects of both managers) unless
\* a listing failed or fell short, v2 ran with --force, or two runs overlapped.
THEOREM OneProject == SyncSpec => []OneProjectPerTitle
<1>1. ASSUME Sound PROVE OneProjectPerTitle
  <2> SUFFICES ASSUME NEW t \in ProjectTitles, ~excused
               PROVE  ~(projects[t] > 1)
    BY DEF OneProjectPerTitle
  <2>1. projects[t] \in Nat /\ projects[t] <= 1
    BY <1>1 DEF Sound, Typed, AccountTypeOK, CreatesMissing
  <2> QED  BY <2>1
<1> QED  BY <1>1, SoundInvariant, PTL

\* A sync of labels that reports success (sync_labels) leaves every configured
\* label right that no person changed since it listed them.
THEOREM ReportsAreTrue == SyncSpec => []ReportedMeansApplied
<1>1. ASSUME Sound PROVE ReportedMeansApplied
  <2> SUFFICES ASSUME NEW r \in Runs, ReportsSuccess(r), NEW l \in Configured
               PROVE  label[l] = "right" \/ l \in touched[r]
    BY DEF ReportedMeansApplied
  <2>1. Carries(r) /\ runs[r].plan = {}
    BY <1>1 DEF Sound, AppliesPlan, ReportsSuccess, Succeeded
  <2> QED  BY <2>1 DEF Carries, ReportsSuccess, Succeeded
<1> QED  BY <1>1, SoundInvariant, PTL


-----------------------------------------------------------------------------
(* The least number of a set, which the CHOOSE of the passes is about.      *)

LEMMA LeastExists ==
  ASSUME NEW S, S \subseteq Nat, S # {}
  PROVE  \E m \in S : \A k \in S : m <= k
<1> DEFINE Below == {k \in Nat : \A s \in S : k < s}
           c == Cardinality(Below)
<1>1. PICK s \in S : TRUE
  OBVIOUS
<1>2. IsFiniteSet(0..s) /\ Below \subseteq 0..s
  BY <1>1, FS_Interval
<1>3. IsFiniteSet(Below) /\ c \in Nat
  BY <1>2, FS_Subset, FS_CardinalityType
<1>4. \A k \in Below : 0..k \subseteq Below
  OBVIOUS
<1> HIDE DEF Below
<1>5. c \notin Below
  <2> SUFFICES ASSUME c \in Below PROVE FALSE
    OBVIOUS
  <2>1. 0..c \subseteq Below
    BY <1>4
  <2>2. Cardinality(0..c) <= c
    BY <2>1, <1>3, FS_Subset
  <2>3. Cardinality(0..c) = c + 1
    BY <1>3, FS_Interval
  <2> HIDE DEF c
  <2>4. QED BY <2>2, <2>3, <1>3
<1>6. Below \subseteq 0..(c - 1)
  <2> SUFFICES ASSUME NEW k \in Below PROVE k \in 0..(c - 1)
    OBVIOUS
  <2>1. k \in Nat /\ 0..k \subseteq Below
    BY <1>4 DEF Below
  <2> HIDE DEF c
  <2>2. QED BY <2>1, <1>5, <1>3
<1>7. Below = 0..(c - 1)
  <2>1. IsFiniteSet(0..(c - 1)) /\ Cardinality(0..(c - 1)) = c
    <3> HIDE DEF c
    <3>1. QED BY <1>3, FS_Interval
  <2>2. QED BY <2>1, <1>6, FS_Subset
<1> HIDE DEF c
<1>8. \A k \in S : c <= k
  BY <1>3, <1>7 DEF Below
<1>9. \E k \in S : k <= c
  BY <1>3, <1>5 DEF Below
<1>10. QED BY <1>3, <1>8, <1>9

-----------------------------------------------------------------------------
(* What every request keeps of the issues.                                  *)

IssuesSound == issues \in Seq(Issue) /\ Len(issues) <= MaxIssues

\* No issue disappears, changes its guid, gets its marker back or comes to life
\* again, and a title that changed says so.
KeptOf(n) ==
  /\ issues'[n].guid = issues[n].guid
  /\ issues[n].body = "text" => issues'[n].body = "text"
  /\ issues[n].state = "deleted" => issues'[n].state = "deleted"
  /\ issues[n].renamed => issues'[n].renamed
  /\ issues'[n].title = issues[n].title \/ issues'[n].renamed
Later == Numbers \subseteq Numbers' /\ \A n \in Numbers : KeptOf(n)

\* Nobody closes an issue in the name of close-duplicates.
ClosesNone ==
  \A n \in Numbers' : issues'[n].by = "closer" => n \in Numbers /\ issues[n].by = "closer"

LEMMA NumbersAre ==
  ASSUME IssuesSound
  PROVE  Len(issues) \in Nat /\ Numbers = 1..Len(issues) /\ Numbers \subseteq 1..MaxIssues
BY TrackerAssumption DEF IssuesSound, Numbers

\* A request that gives one issue a new record.
LEMMA Rewrites ==
  ASSUME IssuesSound, NEW n \in Numbers, NEW z \in Issue, issues' = [issues EXCEPT ![n] = z]
  PROVE  /\ IssuesSound' /\ Numbers' = Numbers
         /\ issues'[n] = z /\ \A m \in Numbers \ {n} : issues'[m] = issues[m]
BY DEF IssuesSound, Numbers

LEMMA RewritesLater ==
  ASSUME IssuesSound, NEW n \in Numbers, NEW z \in Issue, issues' = [issues EXCEPT ![n] = z],
         z.guid = issues[n].guid,
         issues[n].body = "text" => z.body = "text",
         issues[n].state = "deleted" => z.state = "deleted",
         issues[n].renamed => z.renamed,
         z.title = issues[n].title \/ z.renamed
  PROVE  IssuesSound' /\ Later /\ (z.by # "closer" \/ issues[n].by = "closer" => ClosesNone)
<1>1. /\ IssuesSound' /\ Numbers' = Numbers
      /\ issues'[n] = z /\ \A m \in Numbers \ {n} : issues'[m] = issues[m]
  BY Rewrites
<1>2. \A m \in Numbers : issues[m] \in Issue
  BY DEF IssuesSound, Numbers
<1>3. Later
  <2> SUFFICES ASSUME NEW m \in Numbers PROVE KeptOf(m)
    BY <1>1 DEF Later
  <2>1. CASE m = n
    BY <2>1, <1>1 DEF KeptOf
  <2>2. CASE m # n
    BY <2>2, <1>1 DEF KeptOf
  <2>3. QED BY <2>1, <2>2
<1>4. z.by # "closer" \/ issues[n].by = "closer" => ClosesNone
  BY <1>1 DEF ClosesNone
<1>5. QED BY <1>1, <1>3, <1>4

LEMMA StaysSame ==
  ASSUME IssuesSound, UNCHANGED issues
  PROVE  IssuesSound' /\ Later /\ ClosesNone
BY DEF IssuesSound, Later, KeptOf, ClosesNone, Numbers

LEMMA Creates ==
  ASSUME IssuesSound, NEW t \in Titles, NEW g \in Guids \cup {None},
         NEW b \in {"marked", "text", "null"}, Create(t, g, b)
  PROVE  /\ IssuesSound' /\ Later /\ ClosesNone
         /\ Len(issues) + 1 \in Numbers' /\ issues'[Len(issues) + 1].guid = g
<1> DEFINE z == NewIssue(t, g, b)
<1>1. z \in Issue /\ z.guid = g /\ z.by = "nobody"
  BY DEF Issue, NewIssue
<1>2. issues \in Seq(Issue) /\ Len(issues) < MaxIssues /\ issues' = Append(issues, z)
  BY DEF Create, IssuesSound
<1> HIDE DEF z
<1>3. /\ issues' \in Seq(Issue) /\ Len(issues') = Len(issues) + 1 /\ Len(issues) \in Nat
      /\ \A n \in 1..Len(issues) : issues'[n] = issues[n]
      /\ issues'[Len(issues) + 1] = z
  BY <1>1, <1>2
<1>4. Numbers = 1..Len(issues) /\ Numbers' = 1..(Len(issues) + 1)
  BY <1>2, <1>3 DEF Numbers
<1>5. IssuesSound'
  BY <1>2, <1>3, TrackerAssumption DEF IssuesSound
<1>6. Later
  BY <1>3, <1>4 DEF Later, KeptOf
<1>7. ClosesNone
  BY <1>1, <1>3, <1>4 DEF ClosesNone
<1>8. QED BY <1>1, <1>3, <1>4, <1>5, <1>6, <1>7

LEMMA ClosesOne ==
  ASSUME IssuesSound, NEW n \in Numbers, NEW who \in {"closer", "other"}, CloseAs(n, who),
         issues[n].state # "deleted"
  PROVE  IssuesSound' /\ Later /\ (who = "other" => ClosesNone)
         /\ \A m \in Numbers' : issues'[m].by = "closer" => m = n \/ issues[m].by = "closer"
<1> DEFINE z == [issues[n] EXCEPT !.state = "closed",
                                  !.by = IF Has(n, "open") THEN who ELSE issues[n].by]
<1>1. issues[n] \in Issue
  BY DEF IssuesSound, Numbers
<1>2. /\ z \in Issue /\ z.guid = issues[n].guid /\ z.body = issues[n].body
      /\ z.renamed = issues[n].renamed /\ z.title = issues[n].title
      /\ (z.by = who \/ z.by = issues[n].by)
  BY <1>1 DEF Issue
<1>3. issues' = [issues EXCEPT ![n] = z]
  BY <1>1 DEF CloseAs, Issue, IssuesSound, Numbers
<1> HIDE DEF z
<1>4. IssuesSound' /\ Later /\ (z.by # "closer" \/ issues[n].by = "closer" => ClosesNone)
  BY <1>2, <1>3, RewritesLater
<1>5. /\ Numbers' = Numbers /\ \A m \in Numbers \ {n} : issues'[m] = issues[m]
  BY <1>2, <1>3, Rewrites
<1>6. QED BY <1>2, <1>4, <1>5

LEMMA Patches ==
  ASSUME IssuesSound, NEW n \in Numbers, NEW t \in Titles \cup {None}, NEW b \in BOOLEAN,
         Patch(n, t, b)
  PROVE  IssuesSound' /\ Later /\ ClosesNone
<1> DEFINE z == [issues[n] EXCEPT !.title = IF t = None THEN issues[n].title ELSE t,
                   !.renamed = issues[n].renamed \/ (t # None /\ t # issues[n].title),
                   !.body = IF b THEN "text" ELSE issues[n].body]
<1>1. issues[n] \in Issue
  BY DEF IssuesSound, Numbers
<1>2. /\ z \in Issue /\ z.guid = issues[n].guid
      /\ (issues[n].body = "text" => z.body = "text") /\ z.state = issues[n].state
      /\ (issues[n].renamed => z.renamed) /\ (z.title = issues[n].title \/ z.renamed)
      /\ z.by = issues[n].by
  BY <1>1 DEF Issue
<1>3. issues' = [issues EXCEPT ![n] = z]
  BY <1>1 DEF Patch, Issue, IssuesSound, Numbers
<1> HIDE DEF z
<1>4. QED BY <1>2, <1>3, RewritesLater

LEMMA Deletes ==
  ASSUME IssuesSound, NEW n \in Numbers, Delete(n)
  PROVE  IssuesSound' /\ Later /\ ClosesNone
<1> DEFINE z == [issues[n] EXCEPT !.state = "deleted", !.by = "other"]
<1>1. issues[n] \in Issue
  BY DEF IssuesSound, Numbers
<1>2. /\ z \in Issue /\ z.guid = issues[n].guid /\ z.body = issues[n].body
      /\ z.renamed = issues[n].renamed /\ z.title = issues[n].title
      /\ z.by = "other" /\ z.state = "deleted"
  BY <1>1 DEF Issue
<1>3. issues' = [issues EXCEPT ![n] = z]
  BY <1>1 DEF Delete, Issue, IssuesSound, Numbers
<1> HIDE DEF z
<1>4. QED BY <1>2, <1>3, RewritesLater

LEMMA Notes ==
  ASSUME IssuesSound, NEW n \in Numbers, Note(n)
  PROVE  IssuesSound' /\ Later /\ ClosesNone
<1> DEFINE z == [issues[n] EXCEPT !.noted = TRUE]
<1>1. issues[n] \in Issue
  BY DEF IssuesSound, Numbers
<1>2. /\ z \in Issue /\ z.guid = issues[n].guid /\ z.body = issues[n].body
      /\ z.renamed = issues[n].renamed /\ z.title = issues[n].title
      /\ z.by = issues[n].by /\ z.state = issues[n].state
  BY <1>1 DEF Issue
<1>3. issues' = [issues EXCEPT ![n] = z]
  BY <1>1 DEF Note, Issue, IssuesSound, Numbers
<1> HIDE DEF z
<1>4. QED BY <1>2, <1>3, RewritesLater

\* What people do.
LEMMA PeopleKeep ==
  ASSUME IssuesSound, PersonStep
  PROVE  IssuesSound' /\ Later /\ ClosesNone
<1>1. ASSUME NEW t \in Titles, NEW b \in Bodies, Opens(t, b)
      PROVE  IssuesSound' /\ Later /\ ClosesNone
  <2>1. b \in {"marked", "text", "null"} /\ None \in Guids \cup {None} /\ Create(t, None, b)
    BY <1>1, TrackerAssumption DEF Opens
  <2>2. QED BY <2>1, Creates
<1>2. ASSUME NEW n \in Numbers, Closes(n)
      PROVE  IssuesSound' /\ Later /\ ClosesNone
  <2>1. CloseAs(n, "other") /\ issues[n].state # "deleted"
    BY <1>2 DEF Closes, Has
  <2>2. QED BY <2>1, ClosesOne
<1>3. ASSUME NEW n \in Numbers, Reopens(n)
      PROVE  IssuesSound' /\ Later /\ ClosesNone
  <2> DEFINE z == [issues[n] EXCEPT !.state = "open", !.by = "nobody"]
  <2>1. issues[n] \in Issue /\ issues[n].state = "closed"
    BY <1>3 DEF IssuesSound, Numbers, Reopens, Has
  <2>2. /\ z \in Issue /\ z.guid = issues[n].guid /\ z.body = issues[n].body
        /\ z.renamed = issues[n].renamed /\ z.title = issues[n].title /\ z.by = "nobody"
    BY <2>1 DEF Issue
  <2>3. issues' = [issues EXCEPT ![n] = z]
    BY <1>3, <2>1 DEF Reopens, Issue, IssuesSound, Numbers
  <2> HIDE DEF z
  <2>4. QED BY <2>1, <2>2, <2>3, RewritesLater
<1>4. QED BY <1>1, <1>2, <1>3 DEF PersonStep

-----------------------------------------------------------------------------
(* The run of the updates and its directory.                                *)

Dirs == pending \cup archived \cup malformed
DirectorySound == Dirs \subseteq AllFiles

Everything == UpdatesOf(AllFiles)
UpdateRun == [phase : {"idle", "next", "recheck", "post", "end"}, loaded : SUBSET AllFiles,
              todo : SUBSET Everything, now : Everything \cup {None}, won : BOOLEAN,
              map : SUBSET (Guids \X Nat), failed : SUBSET Everything, moved : SUBSET AllFiles]

\* What a run has in hand is a creation still to be done, and what it has
\* loaded is in the directory or was moved.
RunSound ==
  /\ run \in UpdateRun
  /\ run.phase = "end" => run.todo = {}
  /\ UpdatesOf(run.loaded) \subseteq run.todo \cup tried
  /\ run.todo \subseteq UpdatesOf(run.loaded) /\ run.failed \subseteq UpdatesOf(run.loaded) \ run.todo
  /\ IF run.phase \in {"recheck", "post"}
     THEN run.now \in run.todo /\ At(run.now).kind = "create" ELSE run.now = None
  /\ run.moved \subseteq run.loaded \ pending
  /\ run.loaded \subseteq Dirs

UpdatesSound == DirectorySound /\ RunSound /\ tried \cup lost \subseteq Everything

LEMMA UpdateIs ==
  ASSUME NEW u \in Everything
  PROVE  /\ u[1] \in AllFiles /\ u \in UpdatesOf({u[1]}) /\ At(u) \in Update
         /\ At(u).kind = "create" => At(u).title \in Titles /\ At(u).guid \in Guids
<1>1. PICK f \in AllFiles : \E i \in DOMAIN ContentOf(f) : u = <<f, i>>
  BY DEF Everything, UpdatesOf
<1>2. PICK i \in DOMAIN ContentOf(f) : u = <<f, i>>
  BY <1>1
<1>3. u[1] = f /\ u[2] = i /\ At(u) = ContentOf(f)[i]
  BY <1>2 DEF At
<1>4. CASE f \in DeleteFiles
  <2>1. f[1] \in Nat /\ ContentOf(f) = DeletionOf(f[1])
    BY <1>4, TrackerAssumption DEF DeleteFiles, ContentOf
  <2>2. i = 1
    BY <1>2, <2>1 DEF DeletionOf
  <2>3. At(u) = [kind |-> "delete", guid |-> None, title |-> None, text |-> FALSE,
                 number |-> f[1], parent |-> None]
    BY <1>3, <2>1, <2>2 DEF DeletionOf
  <2>4. At(u) \in Update /\ At(u).kind # "create"
    BY <2>1, <2>3 DEF Update
  <2>5. QED BY <1>2, <1>3, <2>4 DEF UpdatesOf
<1>5. CASE f \notin DeleteFiles
  <2>1. f \in Files /\ ContentOf(f) = Content[f] /\ Content[f] \in Seq(Update)
    BY <1>5, UpdatesAssumption DEF AllFiles, ContentOf
  <2>2. At(u) \in Update
    BY <1>2, <1>3, <2>1
  <2>3. At(u).kind = "create" => At(u).title # None /\ At(u).guid # None
    BY <1>2, <1>3, <2>1, UpdatesAssumption
  <2>4. QED BY <1>2, <1>3, <2>2, <2>3 DEF UpdatesOf, Update
<1>6. QED BY <1>4, <1>5

LEMMA UpdatesOfMore ==
  ASSUME NEW F, NEW G, F \subseteq G
  PROVE  UpdatesOf(F) \subseteq UpdatesOf(G)
BY DEF UpdatesOf

LEMMA UpdatesOfLoaded ==
  ASSUME UpdatesSound, NEW u \in run.todo
  PROVE  u \in Everything /\ u[1] \in run.loaded
<1>1. u \in UpdatesOf(run.loaded) /\ u \in Everything
  BY DEF UpdatesSound, RunSound, UpdateRun
<1>2. QED BY <1>1 DEF UpdatesOf

\* The update in hand is over.
Over(u) ==
  /\ run' \in UpdateRun /\ run'.loaded = run.loaded
  /\ run'.todo = run.todo \ {u} /\ run'.now = None /\ run'.phase \in {"next", "end"}
  /\ run'.failed \subseteq run.failed \cup {u} /\ (run'.phase = "end" => run'.todo = {})
  /\ tried' = tried \cup {u}

LEMMA FailsOver ==
  ASSUME UpdatesSound, NEW u \in run.todo, Fails(u)
  PROVE  Over(u) /\ run'.moved = run.moved
BY UpdatesOfLoaded DEF UpdatesSound, RunSound, UpdateRun, Fails, After, Tried, Over

LEMMA SucceedsOver ==
  ASSUME UpdatesSound, NEW u \in run.todo, Succeeds(u)
  PROVE  Over(u) /\ run'.moved = run.moved
BY UpdatesOfLoaded DEF UpdatesSound, RunSound, UpdateRun, Succeeds, After, Tried, Over

LEMMA SkipOver ==
  ASSUME UpdatesSound, NEW u \in run.todo, Skip(u)
  PROVE  Over(u) /\ run'.moved = run.moved \cup {u[1]} /\ pending' = pending \ {u[1]}
         /\ Dirs' = Dirs
<1>1. u[1] \in AllFiles /\ u \in Everything
  BY UpdatesOfLoaded, UpdateIs
<1>2. run' = [After(run, u) EXCEPT !.failed = @ \cup {u}, !.moved = @ \cup {u[1]}] /\ Tried(u)
      /\ MoveToProcessed(u[1])
  BY DEF Skip
<1>3. Over(u) /\ run'.moved = run.moved \cup {u[1]}
  BY <1>1, <1>2 DEF UpdatesSound, RunSound, UpdateRun, After, Tried, Over
<1>4. QED BY <1>2, <1>3 DEF MoveToProcessed, Dirs

\* What a finished update leaves sound.
LEMMA OverSound ==
  ASSUME UpdatesSound, NEW u \in run.todo, Over(u), Dirs' = Dirs, pending' \subseteq pending,
         run'.moved \subseteq run.moved \cup ({u[1]} \ pending'), UNCHANGED lost
  PROVE  UpdatesSound' /\ run'.phase \in {"next", "end"}
<1>1. u \in Everything /\ u[1] \in run.loaded
  BY UpdatesOfLoaded
<1>2. RunSound'
  BY <1>1 DEF UpdatesSound, RunSound, Over
<1>3. QED BY <1>1, <1>2 DEF UpdatesSound, DirectorySound, Over

\* Requests end in one of three ways.
LEMMA RequestOver ==
  ASSUME UpdatesSound, NEW u \in run.todo, NEW effect, Request(u, effect)
  PROVE  Over(u) /\ run'.moved = run.moved /\ (effect \/ UNCHANGED issues)
BY FailsOver, SucceedsOver DEF Request

LEMMA GoneOver ==
  ASSUME UpdatesSound, NEW u \in run.todo, NEW n, Gone(u, n)
  PROVE  Over(u) /\ run'.moved = run.moved /\ UNCHANGED issues
BY FailsOver DEF Gone

-----------------------------------------------------------------------------
(* A creation is carried out once.                                          *)

Made(g) == \E n \in Numbers : issues[n].guid = g
Excused(n, g) == <<n, g>> \in blind \/ (n = 0 /\ Hidden(g))

\* A creation that was done left an issue with its guid; and what is about to be
\* posted was not done before, as far as its check could tell.
TwinsSound ==
  /\ posted \in [Keys -> Nat] /\ blind \subseteq Keys
  /\ NoTwins
  /\ \A g \in Guids : posted[<<0, g>>] > 0 => Made(g)
  /\ run.phase = "post" =>
       \A g \in Guids : At(run.now).guid = g => posted[<<0, g>>] = 0 \/ Excused(0, g)

LEMMA ExcuseStays ==
  ASSUME Later, blind \subseteq blind', NEW n, NEW g
  PROVE  (Made(g) => Made(g)') /\ (Excused(n, g) => Excused(n, g)')
<1>1. ASSUME NEW m \in Numbers, issues[m].guid = g, issues[m].body = "text" \/ ~Lives(m)
      PROVE  Hidden(g)'
  <2>1. m \in Numbers' /\ KeptOf(m)
    BY DEF Later
  <2>2. issues'[m].guid = g /\ (issues'[m].body = "text" \/ ~Lives(m)')
    BY <1>1, <2>1 DEF KeptOf, Lives
  <2>3. QED BY <2>1, <2>2 DEF Hidden
<1>2. Hidden(g) => Hidden(g)'
  BY <1>1 DEF Hidden
<1>3. Made(g) => Made(g)'
  BY DEF Made, Later, KeptOf
<1>4. QED BY <1>2, <1>3 DEF Excused

LEMMA TwinsStay ==
  ASSUME TwinsSound, Later, UNCHANGED posted, blind \subseteq blind', blind' \subseteq Keys,
         run'.phase = "post" => run.phase = "post" /\ run'.now = run.now
  PROVE  TwinsSound'
<1>1. \A n \in 0..MaxIssues, g \in Guids : posted'[<<n, g>>] > 1 => Excused(n, g)'
  BY ExcuseStays DEF TwinsSound, NoTwins, Excused
<1>2. \A g \in Guids : posted'[<<0, g>>] > 0 => Made(g)'
  BY ExcuseStays DEF TwinsSound
<1>3. ASSUME run'.phase = "post", NEW g \in Guids, At(run'.now).guid = g
      PROVE  posted'[<<0, g>>] = 0 \/ Excused(0, g)'
  <2>1. posted[<<0, g>>] = 0 \/ Excused(0, g)
    BY <1>3 DEF TwinsSound, At
  <2>2. QED BY <2>1, ExcuseStays
<1>4. /\ posted' \in [Keys -> Nat] /\ blind' \subseteq Keys
  BY DEF TwinsSound
<1>5. QED BY <1>1, <1>2, <1>3, <1>4 DEF TwinsSound, NoTwins, Excused, At

\* What is counted once more was not there, or is excused.
LEMMA TwinsCount ==
  ASSUME TwinsSound, Later, NEW n \in 0..MaxIssues, NEW g \in Guids, Count(n, g),
         blind \subseteq blind', blind' \subseteq Keys,
         posted[<<n, g>>] = 0 \/ Excused(n, g)', n = 0 => Made(g)', run'.phase # "post"
  PROVE  TwinsSound'
<1>1. /\ posted' \in [Keys -> Nat] /\ <<n, g>> \in Keys /\ posted'[<<n, g>>] = posted[<<n, g>>] + 1
      /\ \A k \in Keys \ {<<n, g>>} : posted'[k] = posted[k]
  BY DEF Count, TwinsSound, Keys
<1>2. ASSUME NEW m \in 0..MaxIssues, NEW h \in Guids, posted'[<<m, h>>] > 1
      PROVE  Excused(m, h)'
  <2>1. <<m, h>> \in Keys
    BY DEF Keys
  <2>2. CASE <<m, h>> = <<n, g>>
    <3>1. posted[<<n, g>>] # 0
      BY <1>1, <1>2, <2>2
    <3>2. m = n /\ h = g
      BY <2>2
    <3>3. QED BY <3>1, <3>2
  <2>3. CASE <<m, h>> # <<n, g>>
    <3>1. Excused(m, h)
      BY <1>1, <1>2, <2>1, <2>3 DEF TwinsSound, NoTwins, Excused
    <3>2. QED BY <3>1, ExcuseStays
  <2>4. QED BY <2>2, <2>3
<1>3. ASSUME NEW h \in Guids, posted'[<<0, h>>] > 0
      PROVE  Made(h)'
  <2>1. CASE h = g /\ n = 0
    BY <2>1
  <2>2. CASE ~(h = g /\ n = 0)
    <3>1. <<0, h>> \in Keys /\ <<0, h>> # <<n, g>>
      BY <2>2, TrackerAssumption DEF Keys
    <3>2. Made(h)
      BY <1>1, <1>3, <3>1 DEF TwinsSound
    <3>3. QED BY <3>2, ExcuseStays
  <2>3. QED BY <2>1, <2>2
<1>4. QED BY <1>1, <1>2, <1>3 DEF TwinsSound, NoTwins, Excused

-----------------------------------------------------------------------------
(* Each step of a run.                                                      *)

RunInv == IssuesSound /\ UpdatesSound /\ TwinsSound
RunKeeps ==
  /\ IssuesSound' /\ Later /\ ClosesNone
  /\ UpdatesSound' /\ Dirs' = Dirs
  /\ TwinsSound'

\* An update that is over, whatever it asked of an issue, if nothing counts.
LEMMA OverKeeps ==
  ASSUME RunInv, NEW u \in run.todo, Over(u), run'.moved = run.moved,
         IssuesSound', Later, ClosesNone, UNCHANGED <<directory, posted, blind, lost>>
  PROVE  RunKeeps
<1>1. Dirs' = Dirs /\ pending' \subseteq pending
  BY DEF directory, Dirs
<1>2. UpdatesSound' /\ run'.phase # "post"
  BY <1>1, OverSound DEF RunInv
<1>3. TwinsSound'
  BY <1>2, TwinsStay DEF RunInv, TwinsSound
<1>4. QED BY <1>1, <1>2, <1>3 DEF RunKeeps

LEMMA SkipKeeps ==
  ASSUME RunInv, NEW u \in run.todo, Skip(u), UNCHANGED <<issues, posted, blind, lost>>
  PROVE  RunKeeps
<1>1. Over(u) /\ run'.moved = run.moved \cup {u[1]} /\ pending' = pending \ {u[1]} /\ Dirs' = Dirs
  BY SkipOver DEF RunInv
<1>2. UpdatesSound' /\ run'.phase # "post"
  BY <1>1, OverSound DEF RunInv
<1>3. IssuesSound' /\ Later /\ ClosesNone
  BY StaysSame DEF RunInv
<1>4. TwinsSound'
  BY <1>2, <1>3, TwinsStay DEF RunInv, TwinsSound
<1>5. QED BY <1>1, <1>2, <1>3, <1>4 DEF RunKeeps

LEMMA InPlaceKeeps ==
  ASSUME RunInv, NEW u \in run.todo, FailsInPlace(u), UNCHANGED <<issues, posted, blind, lost>>
  PROVE  RunKeeps
<1>1. u \in Everything
  BY UpdatesOfLoaded DEF RunInv
<1>2. IssuesSound' /\ Later /\ ClosesNone
  BY StaysSame DEF RunInv
<1>3. QED BY <1>1, <1>2, FailsOver, OverKeeps DEF RunInv, FailsInPlace

LEMMA CheckCreateKeeps ==
  ASSUME RunInv, NEW u \in run.todo, CheckCreate(u)
  PROVE  RunKeeps
<1>1. CASE Skip(u)
  BY <1>1, SkipKeeps DEF CheckCreate
<1>2. CASE run' = [run EXCEPT !.phase = "recheck", !.now = u] /\ UNCHANGED <<directory, tried>>
  <2>1. u \in Everything
    BY UpdatesOfLoaded DEF RunInv
  <2>2. At(u).kind = "create" /\ UNCHANGED <<issues, posted, blind, lost>>
    BY DEF CheckCreate
  <2>3. run' \in UpdateRun /\ run'.phase = "recheck" /\ run'.now = u /\ run'.todo = run.todo
        /\ run'.loaded = run.loaded /\ run'.failed = run.failed /\ run'.moved = run.moved
    BY <1>2, <2>1 DEF RunInv, UpdatesSound, RunSound, UpdateRun
  <2>4. UpdatesSound' /\ Dirs' = Dirs
    BY <1>2, <2>2, <2>3 DEF RunInv, UpdatesSound, RunSound, DirectorySound, Dirs, directory, At
  <2>5. IssuesSound' /\ Later /\ ClosesNone
    BY <2>2, StaysSame DEF RunInv
  <2>6. TwinsSound'
    BY <2>2, <2>3, <2>5, TwinsStay DEF RunInv, TwinsSound
  <2>7. QED BY <2>4, <2>5, <2>6 DEF RunKeeps
<1>3. CASE FailsInPlace(u)
  BY <1>3, InPlaceKeeps DEF CheckCreate
<1>4. QED BY <1>1, <1>2, <1>3 DEF CheckCreate

\* What the second check did not find in the whole list was hidden or not made.
LEMMA CheckedIsExcused ==
  ASSUME IssuesSound, NEW g \in Guids, Made(g), Whole(Matching(AllStates)),
         ~GuidSeen(g, Matching(AllStates))
  PROVE  Hidden(g)
<1>1. PICK n \in Numbers : issues[n].guid = g
  BY DEF Made
<1>2. issues[n] \in Issue
  BY DEF IssuesSound, Numbers
<1>3. CASE Lives(n)
  <2>1. n \in Matching(AllStates)
    BY <1>2, <1>3 DEF Lives, Matching, AllStates, Issue
  <2>2. issues[n].body # "marked"
    BY <1>1, <2>1 DEF GuidSeen, Whole
  <2>3. issues[n].body # "null"
    BY <2>1 DEF Whole
  <2>4. QED BY <1>1, <1>2, <2>2, <2>3 DEF Hidden, Issue
<1>4. CASE ~Lives(n)
  BY <1>1, <1>4 DEF Hidden
<1>5. QED BY <1>3, <1>4

LEMMA RecheckKeeps ==
  ASSUME RunInv, NEW u \in run.todo, Recheck(u)
  PROVE  RunKeeps
<1>1. /\ u = run.now /\ run.phase = "recheck"
      /\ UNCHANGED <<issues, directory, posted, lost>>
  BY DEF Recheck
<1>2. u \in Everything /\ At(u).kind = "create" /\ At(u).guid \in Guids
  BY <1>1, UpdatesOfLoaded, UpdateIs DEF RunInv, UpdatesSound, RunSound
<1>3. IssuesSound' /\ Later /\ ClosesNone
  BY <1>1, StaysSame DEF RunInv
<1>4. CASE Fails(u) /\ UNCHANGED blind
  BY <1>1, <1>3, <1>4, FailsOver, OverKeeps DEF RunInv
<1>5. ASSUME NEW list \in Newest(AllStates), ~GuidSeen(At(u).guid, list),
             run' = [run EXCEPT !.phase = "post"], UNCHANGED tried,
             blind' = IF Whole(list) THEN blind ELSE blind \cup {<<0, At(u).guid>>}
      PROVE  RunKeeps
  <2>1. run' \in UpdateRun /\ run'.phase = "post" /\ run'.now = u /\ run'.todo = run.todo
        /\ run'.loaded = run.loaded /\ run'.failed = run.failed /\ run'.moved = run.moved
    BY <1>1, <1>5 DEF RunInv, UpdatesSound, RunSound, UpdateRun
  <2>2. UpdatesSound' /\ Dirs' = Dirs
    BY <1>1, <1>2, <1>5, <2>1 DEF RunInv, UpdatesSound, RunSound, DirectorySound, Dirs, directory, At
  <2>3. <<0, At(u).guid>> \in Keys /\ blind \subseteq blind' /\ blind' \subseteq Keys
    BY <1>2, <1>5, TrackerAssumption DEF Keys, RunInv, TwinsSound
  <2>4. ASSUME NEW g \in Guids, At(u).guid = g
        PROVE  posted[<<0, g>>] = 0 \/ Excused(0, g)'
    <3>1. CASE Whole(list)
      <4>1. list = Matching(AllStates)
        BY <3>1 DEF Whole
      <4>2. Made(g) => Hidden(g)
        BY <1>5, <2>4, <3>1, <4>1, CheckedIsExcused DEF RunInv
      <4>3. Made(g) => Excused(0, g)
        BY <4>2 DEF Excused
      <4>4. Made(g) => Excused(0, g)'
        BY <1>3, <2>3, <4>3, ExcuseStays
      <4>5. posted[<<0, g>>] \in Nat
        BY <2>3, <2>4 DEF RunInv, TwinsSound
      <4>6. QED BY <4>4, <4>5 DEF RunInv, TwinsSound
    <3>2. CASE ~Whole(list)
      BY <1>5, <2>4, <3>2 DEF Excused
    <3>3. QED BY <3>1, <3>2
  <2>5. ASSUME NEW n \in 0..MaxIssues, NEW g \in Guids
        PROVE  /\ posted'[<<n, g>>] > 1 => Excused(n, g)'
               /\ posted'[<<0, g>>] > 0 => Made(g)'
    BY <1>1, <1>3, <2>3, ExcuseStays DEF RunInv, TwinsSound, NoTwins, Excused
  <2>6. TwinsSound'
    <3>1. /\ posted' \in [Keys -> Nat] /\ blind' \subseteq Keys
      BY <1>1, <2>3 DEF RunInv, TwinsSound
    <3>2. \A g \in Guids : At(run'.now).guid = g => posted'[<<0, g>>] = 0 \/ Excused(0, g)'
      BY <1>1, <2>1, <2>4
    <3>3. \A g \in Guids : posted'[<<0, g>>] > 0 => Made(g)'
      BY <2>5, TrackerAssumption
    <3>4. QED BY <2>5, <3>1, <3>2, <3>3 DEF TwinsSound, NoTwins, Excused, At
  <2>7. QED BY <1>3, <2>2, <2>6 DEF RunKeeps
<1>6. QED BY <1>1, <1>4, <1>5 DEF Recheck

LEMMA PostCreateKeeps ==
  ASSUME RunInv, NEW u \in run.todo, PostCreate(u)
  PROVE  RunKeeps
<1>1. run.phase = "post" /\ u = run.now /\ UNCHANGED <<directory, blind, lost>>
  BY DEF PostCreate
<1>2. /\ u \in Everything /\ At(u).kind = "create"
      /\ At(u).guid \in Guids /\ At(u).title \in Titles
  BY <1>1, UpdatesOfLoaded, UpdateIs DEF RunInv, UpdatesSound, RunSound
<1>3. CASE UNCHANGED <<issues, posted>> /\ Fails(u)
  BY <1>1, <1>3, FailsOver, StaysSame, OverKeeps DEF RunInv
<1>4. CASE /\ Create(At(u).title, At(u).guid, "marked") /\ Count(0, At(u).guid)
           /\ Over(u) /\ run'.moved = run.moved
  <2> DEFINE g == At(u).guid
             t == At(u).title
  <2>1. Create(t, g, "marked") /\ t \in Titles /\ g \in Guids
    BY <1>2, <1>4
  <2> HIDE DEF t
  <2>2. /\ IssuesSound' /\ Later /\ ClosesNone
        /\ Len(issues) + 1 \in Numbers' /\ issues'[Len(issues) + 1].guid = g
    BY <2>1, Creates DEF RunInv
  <2>3. Made(g)'
    BY <2>2 DEF Made, At
  <2>4. Dirs' = Dirs /\ pending' \subseteq pending
    BY <1>1 DEF directory, Dirs
  <2>5. UpdatesSound' /\ run'.phase # "post"
    BY <1>1, <1>4, <2>4, OverSound DEF RunInv
  <2>6. TwinsSound'
    <3>1. SUFFICES ASSUME NEW h \in Guids, h = g PROVE TwinsSound'
      BY <2>1
    <3>2. posted[<<0, h>>] = 0 \/ Excused(0, h)
      BY <1>1, <3>1 DEF RunInv, TwinsSound
    <3>3. Count(0, h) /\ Made(h)' /\ 0 \in 0..MaxIssues
      BY <1>4, <2>2, <3>1, TrackerAssumption DEF Made
    <3>4. posted[<<0, h>>] = 0 \/ Excused(0, h)'
      BY <1>1, <2>2, <3>2, ExcuseStays
    <3>5. blind \subseteq blind' /\ blind' \subseteq Keys
      BY <1>1 DEF RunInv, TwinsSound
    <3>6. QED BY <2>2, <2>5, <3>3, <3>4, <3>5, TwinsCount DEF RunInv
  <2>7. QED BY <2>2, <2>4, <2>5, <2>6 DEF RunKeeps
<1>5. Fails(u) => Over(u) /\ run'.moved = run.moved
  BY FailsOver DEF RunInv
<1>6. ASSUME Tried(u), Len(issues) < MaxIssues,
             run' = [After(run, u) EXCEPT !.won = TRUE,
                                          !.map = @ \cup {<<At(u).guid, Len(issues) + 1>>}]
      PROVE  Over(u) /\ run'.moved = run.moved
  <2>1. Len(issues) + 1 \in Nat
    BY DEF RunInv, IssuesSound
  <2> DEFINE z == After(run, u)
             p == <<At(u).guid, Len(issues) + 1>>
  <2>2. /\ z \in UpdateRun /\ z.loaded = run.loaded /\ z.todo = run.todo \ {u} /\ z.now = None
        /\ z.phase \in {"next", "end"} /\ z.failed = run.failed /\ z.moved = run.moved
        /\ z.phase = "end" => z.todo = {}
    BY DEF RunInv, UpdatesSound, RunSound, UpdateRun, After
  <2>3. p \in Guids \X Nat
    BY <1>2, <2>1
  <2>4. run' = [z EXCEPT !.won = TRUE, !.map = z.map \cup {p}]
    BY <1>6, <2>2 DEF UpdateRun
  <2> HIDE DEF z, p
  <2>5. /\ run' \in UpdateRun /\ run'.loaded = z.loaded /\ run'.todo = z.todo
        /\ run'.now = z.now /\ run'.phase = z.phase /\ run'.failed = z.failed /\ run'.moved = z.moved
    BY <2>2, <2>3, <2>4 DEF UpdateRun
  <2>6. tried' = tried \cup {u}
    BY <1>6 DEF Tried
  <2>7. QED BY <2>2, <2>5, <2>6 DEF Over
<1>7. QED BY <1>3, <1>4, <1>5, <1>6 DEF PostCreate, Create


LEMMA DoUpdateKeeps ==
  ASSUME RunInv, NEW u \in run.todo, DoUpdate(u)
  PROVE  RunKeeps
<1>1. u \in Everything /\ At(u) \in Update /\ UNCHANGED <<directory, posted, blind, lost>>
  BY UpdatesOfLoaded, UpdateIs DEF RunInv, DoUpdate
<1>2. CASE Fails(u) /\ UNCHANGED issues
  BY <1>1, <1>2, FailsOver, StaysSame, OverKeeps DEF RunInv
<1>3. ASSUME NEW n \in TargetOf(u), Lives(n), Request(u, Patch(n, At(u).title, At(u).text))
      PROVE  RunKeeps
  <2>1. /\ Over(u) /\ run'.moved = run.moved
        /\ Patch(n, At(u).title, At(u).text) \/ UNCHANGED issues
    BY <1>3, FailsOver, SucceedsOver DEF RunInv, Request
  <2>2. n \in Numbers /\ At(u).title \in Titles \cup {None} /\ At(u).text \in BOOLEAN
    BY <1>1, <1>3 DEF Lives, Update
  <2>3. IssuesSound' /\ Later /\ ClosesNone
    BY <2>1, <2>2, Patches, StaysSame DEF RunInv
  <2>4. QED BY <1>1, <2>1, <2>3, OverKeeps
<1>4. QED BY <1>2, <1>3 DEF DoUpdate, Gone

LEMMA ClosesByOthers ==
  ASSUME RunInv, NEW u \in run.todo, NEW n, Lives(n),
         Request(u, CloseAs(n, "other")) \/ Request(u, Delete(n)) \/ Gone(u, n),
         UNCHANGED <<directory, posted, blind, lost>>
  PROVE  RunKeeps
<1>1. /\ Over(u) /\ run'.moved = run.moved
      /\ CloseAs(n, "other") \/ Delete(n) \/ UNCHANGED issues
  BY FailsOver, SucceedsOver DEF RunInv, Request, Gone
<1>2. n \in Numbers /\ issues[n].state # "deleted"
  BY DEF Lives
<1>3. IssuesSound' /\ Later /\ ClosesNone
  BY <1>1, <1>2, ClosesOne, Deletes, StaysSame DEF RunInv
<1>4. QED BY <1>1, <1>3, OverKeeps

LEMMA DoCloseKeeps ==
  ASSUME RunInv, NEW u \in run.todo, DoClose(u) \/ DoDelete(u)
  PROVE  RunKeeps
<1>1. UNCHANGED <<directory, posted, blind, lost>>
  BY DEF DoClose, DoDelete
<1>2. CASE Gone(u, At(u).number)
  BY <1>1, <1>2, FailsOver, StaysSame, OverKeeps DEF RunInv, Gone
<1>3. CASE Lives(At(u).number)
  <2>1. Request(u, CloseAs(At(u).number, "other")) \/ Request(u, Delete(At(u).number))
        \/ Gone(u, At(u).number)
    BY DEF DoClose, DoDelete
  <2>2. ASSUME NEW n, n = At(u).number PROVE RunKeeps
    BY <1>1, <1>3, <2>1, <2>2, ClosesByOthers
  <2>3. QED BY <2>2
<1>4. QED BY <1>2, <1>3 DEF DoClose, DoDelete

LEMMA DoCommentKeeps ==
  ASSUME RunInv, NEW u \in run.todo, DoComment(u)
  PROVE  RunKeeps
<1> DEFINE g == At(u).guid
           n == At(u).number
<1>1. u \in Everything /\ g \in Guids \cup {None} /\ n \in Nat /\ UNCHANGED <<issues, lost>>
  BY UpdatesOfLoaded, UpdateIs DEF RunInv, DoComment, Update
<1>2. IssuesSound' /\ Later /\ ClosesNone
  BY <1>1, StaysSame DEF RunInv
<1>3. Lives(n) => n \in 1..MaxIssues
  BY NumbersAre DEF RunInv, Lives
<1>4. CASE Skip(u) /\ UNCHANGED <<posted, blind>>
  BY <1>1, <1>4, SkipKeeps
<1>5. CASE FailsInPlace(u) /\ UNCHANGED <<posted, blind>>
  BY <1>1, <1>5, InPlaceKeeps
<1>6. ASSUME Fails(u), UNCHANGED directory, Lives(n), g # None, Count(n, g),
             (blind' = blind /\ ~Said(n, g)) \/ blind' = blind \cup {<<n, g>>}
      PROVE  RunKeeps
  <2>1. Over(u) /\ run'.moved = run.moved
    BY <1>6, FailsOver DEF RunInv
  <2>2. Dirs' = Dirs /\ pending' \subseteq pending
    BY <1>6 DEF directory, Dirs
  <2>3. UpdatesSound' /\ run'.phase # "post"
    BY <1>1, <2>1, <2>2, OverSound DEF RunInv
  <2>4. g \in Guids /\ n \in 0..MaxIssues /\ n # 0 /\ <<n, g>> \in Keys
    BY <1>1, <1>3, <1>6, TrackerAssumption DEF Keys
  <2>5. posted[<<n, g>>] = 0 \/ <<n, g>> \in blind'
    BY <1>6, <2>4 DEF Said, RunInv, TwinsSound
  <2>6. blind \subseteq blind' /\ blind' \subseteq Keys
    BY <1>6, <2>4 DEF RunInv, TwinsSound
  <2>7. ASSUME NEW m \in 0..MaxIssues, NEW h \in Guids, m = n, h = g PROVE TwinsSound'
    <3>1. posted[<<m, h>>] = 0 \/ Excused(m, h)'
      BY <2>5, <2>7 DEF Excused
    <3>2. Count(m, h) /\ m # 0
      BY <1>6, <2>4, <2>7
    <3>3. QED BY <1>2, <2>3, <2>6, <3>1, <3>2, TwinsCount DEF RunInv
  <2>8. QED BY <1>2, <2>2, <2>3, <2>4, <2>7 DEF RunKeeps
<1>7. CASE /\ Lives(n) /\ FailsInPlace(u) /\ ~Said(n, g) /\ UNCHANGED blind
           /\ IF g = None THEN UNCHANGED posted ELSE Count(n, g)
  BY <1>5, <1>6, <1>7 DEF FailsInPlace
<1>8. CASE /\ Lives(n) /\ FailsInPlace(u) /\ Said(n, g) /\ Count(n, g)
           /\ blind' = blind \cup {<<n, g>>}
  BY <1>6, <1>8 DEF Said, FailsInPlace
<1>9. QED BY <1>4, <1>5, <1>7, <1>8 DEF DoComment

LEMMA DoTypoKeeps ==
  ASSUME RunInv, NEW u \in run.todo, DoTypo(u)
  PROVE  RunKeeps
<1>0. CASE FailsInPlace(u)
  BY <1>0, InPlaceKeeps DEF DoTypo
<1> SUFFICES ASSUME ~FailsInPlace(u) PROVE RunKeeps
  BY <1>0
<1>1. /\ Fails(u) /\ pending' = pending \ {u[1]} /\ malformed' = malformed \cup (pending \cap {u[1]})
      /\ UNCHANGED <<issues, archived, posted, blind, lost>>
  BY DEF DoTypo
<1>2. Over(u) /\ run'.moved = run.moved /\ Dirs' = Dirs
  BY <1>1, FailsOver DEF RunInv, Dirs
<1>3. UpdatesSound' /\ run'.phase # "post"
  BY <1>1, <1>2, OverSound DEF RunInv
<1>4. IssuesSound' /\ Later /\ ClosesNone
  BY <1>1, StaysSame DEF RunInv
<1>5. TwinsSound'
  BY <1>1, <1>3, <1>4, TwinsStay DEF RunInv, TwinsSound
<1>6. QED BY <1>2, <1>3, <1>4, <1>5 DEF RunKeeps

LEMMA IdleSound == Idle \in UpdateRun /\ Idle.phase # "post"
BY DEF Idle, UpdateRun

\* A run that ends leaves its files where they are, or moves them once more.
LEMMA EndsKeeps ==
  ASSUME RunInv, run' = Idle, Dirs' = Dirs, UNCHANGED <<issues, posted, blind, tried>>,
         lost' \subseteq lost \cup run.todo \cup run.failed
  PROVE  RunKeeps
<1>1. IssuesSound' /\ Later /\ ClosesNone
  BY StaysSame DEF RunInv
<1>2. TwinsSound'
  BY <1>1, IdleSound, TwinsStay DEF RunInv, TwinsSound
<1>3. RunSound'
  BY IdleSound DEF RunSound, Idle, UpdatesOf
<1>4. UpdatesSound'
  BY <1>3 DEF RunInv, UpdatesSound, DirectorySound, RunSound, UpdateRun
<1>5. QED BY <1>1, <1>2, <1>4 DEF RunKeeps

LEMMA RunStepKeeps ==
  ASSUME RunInv, RunStep \/ Crash
  PROVE  RunKeeps
<1>1. CASE Load
  <2> DEFINE z == [Idle EXCEPT !.phase = "next", !.loaded = pending, !.todo = UpdatesOf(pending)]
  <2>1. pending \subseteq AllFiles /\ UpdatesOf(pending) \subseteq Everything
    BY UpdatesOfMore DEF RunInv, UpdatesSound, DirectorySound, Dirs, Everything
  <2>2. z \in UpdateRun /\ z.phase = "next" /\ z.loaded = pending /\ z.todo = UpdatesOf(pending)
        /\ z.failed = {} /\ z.moved = {} /\ z.now = None
    BY <2>1 DEF Idle, UpdateRun
  <2>3. run' = z /\ UNCHANGED <<issues, pending, archived, malformed, posted, blind, tried, lost>>
    BY <1>1 DEF Load, tracker, directory
  <2> HIDE DEF z
  <2>4. IssuesSound' /\ Later /\ ClosesNone
    BY <2>3, StaysSame DEF RunInv
  <2>5. TwinsSound'
    BY <2>2, <2>3, <2>4, TwinsStay DEF RunInv, TwinsSound
  <2>6. RunSound' /\ Dirs' = Dirs
    BY <2>2, <2>3 DEF RunSound, Dirs
  <2>7. UpdatesSound'
    BY <2>3, <2>6 DEF RunInv, UpdatesSound, DirectorySound
  <2>8. QED BY <2>4, <2>5, <2>6, <2>7 DEF RunKeeps
<1>2. ASSUME NEW u \in run.todo, UpdateStep(u) PROVE RunKeeps
  BY <1>2, CheckCreateKeeps, RecheckKeeps, PostCreateKeeps, DoUpdateKeeps, DoCloseKeeps,
     DoCommentKeeps, DoTypoKeeps DEF UpdateStep
<1>3. CASE Archive
  <2>1. Archived \subseteq pending
    BY DEF Archived, MarkedLegacy
  <2>2. Dirs' = Dirs /\ UNCHANGED issues
    BY <1>3, <2>1 DEF Archive, Dirs, tracker
  <2>3. QED BY <1>3, <2>2, EndsKeeps DEF Archive
<1>4. CASE Crash
  <2>1. Dirs' = Dirs
    BY <1>4 DEF Crash, Dirs, directory
  <2>2. QED BY <1>4, <2>1, EndsKeeps DEF Crash
<1>5. QED BY <1>1, <1>2, <1>3, <1>4 DEF RunStep

-----------------------------------------------------------------------------
(* The other steps, as the run sees them.                                   *)

LEMMA ArriveKeeps ==
  ASSUME RunInv, NEW f \in Files, Arrive(f)
  PROVE  IssuesSound' /\ Later /\ ClosesNone /\ UpdatesSound' /\ TwinsSound' /\ Dirs' = Dirs \cup {f}
<1>1. /\ f \notin Dirs /\ pending' = pending \cup {f}
      /\ UNCHANGED <<issues, archived, malformed, run, posted, blind, tried, lost>>
  BY DEF Arrive, Dirs, tracker
<1>2. IssuesSound' /\ Later /\ ClosesNone
  BY <1>1, StaysSame DEF RunInv
<1>3. TwinsSound'
  BY <1>1, <1>2, TwinsStay DEF RunInv, TwinsSound
<1>4. Dirs' = Dirs \cup {f} /\ DirectorySound'
  BY <1>1 DEF RunInv, UpdatesSound, DirectorySound, Dirs, AllFiles
<1>5. RunSound'
  BY <1>1, <1>4 DEF RunInv, UpdatesSound, RunSound, At
<1>6. QED BY <1>1, <1>2, <1>3, <1>4, <1>5 DEF RunInv, UpdatesSound

LEMMA ChronoKeeps ==
  ASSUME RunInv, ChronoStep
  PROVE  RunKeeps
<1>1. UNCHANGED <<issues, run, posted, blind, tried>>
  BY DEF ChronoStep, StartChrono, EndChrono, Treat
<1>2. pending' \subseteq pending /\ Dirs' = Dirs /\ lost' \subseteq lost \cup UpdatesOf(pending)
  <2>1. CASE StartChrono \/ EndChrono
    BY <2>1 DEF StartChrono, EndChrono, directory, Dirs
  <2>2. ASSUME NEW u, Treat(u)
        PROVE  pending' \subseteq pending /\ Dirs' = Dirs /\ lost' \subseteq lost \cup UpdatesOf(pending)
    <3> DEFINE moved == pending \cap {u[1]}
    <3>1. UpdatesOf(moved) \subseteq UpdatesOf(pending)
      BY UpdatesOfMore
    <3>2. CASE UNCHANGED <<directory, lost>>
      BY <3>2 DEF directory, Dirs
    <3>3. CASE /\ pending' = pending \ moved /\ lost' = lost \cup UpdatesOf(moved)
               /\ IF Placeholder(u) THEN archived' = archived \cup moved /\ UNCHANGED malformed
                  ELSE malformed' = malformed \cup moved /\ UNCHANGED archived
      BY <3>1, <3>3 DEF Dirs
    <3>4. QED BY <2>2, <3>2, <3>3 DEF Treat
  <2>3. QED BY <2>1, <2>2 DEF ChronoStep
<1>3. IssuesSound' /\ Later /\ ClosesNone
  BY <1>1, StaysSame DEF RunInv
<1>4. TwinsSound'
  BY <1>1, <1>3, TwinsStay DEF RunInv, TwinsSound
<1>5. RunSound'
  BY <1>1, <1>2 DEF RunInv, UpdatesSound, RunSound, At
<1>6. UpdatesOf(pending) \subseteq Everything
  BY UpdatesOfMore DEF RunInv, UpdatesSound, DirectorySound, Dirs, Everything
<1>7. UpdatesSound'
  BY <1>1, <1>2, <1>5, <1>6 DEF RunInv, UpdatesSound, DirectorySound
<1>8. QED BY <1>2, <1>3, <1>4, <1>7 DEF RunKeeps

\* Requests of others leave the directory and the run alone.
LEMMA OthersKeep ==
  ASSUME RunInv, IssuesSound', Later, UNCHANGED <<directory, run, posted, blind, tried, lost>>
  PROVE  UpdatesSound' /\ TwinsSound' /\ Dirs' = Dirs
<1>1. TwinsSound'
  BY TwinsStay DEF RunInv, TwinsSound
<1>2. UpdatesSound' /\ Dirs' = Dirs
  BY DEF RunInv, UpdatesSound, DirectorySound, RunSound, Dirs, directory, At
<1>3. QED BY <1>1, <1>2

\* The files a pass adds are new.
LEMMA AddedKeeps ==
  ASSUME RunInv, NEW F, F \subseteq AllFiles \ Dirs, pending' = pending \cup F,
         UNCHANGED <<issues, archived, malformed, run, posted, blind, tried, lost>>
  PROVE  IssuesSound' /\ Later /\ ClosesNone /\ UpdatesSound' /\ TwinsSound' /\ Dirs' = Dirs \cup F
<1>1. IssuesSound' /\ Later /\ ClosesNone
  BY StaysSame DEF RunInv
<1>2. TwinsSound'
  BY <1>1, TwinsStay DEF RunInv, TwinsSound
<1>3. Dirs' = Dirs \cup F
  BY DEF Dirs
<1>4. RunSound'
  BY <1>3 DEF RunInv, UpdatesSound, RunSound, At
<1>5. UpdatesSound'
  BY <1>3, <1>4 DEF RunInv, UpdatesSound, DirectorySound
<1>6. QED BY <1>1, <1>2, <1>3, <1>5

-----------------------------------------------------------------------------
(* close-duplicates leaves the oldest of a title.                           *)

\* What a pass is about to close had an older issue of its title.
OlderThere(p) ==
  /\ p[1] \in Numbers /\ p[2] \in Numbers /\ p[2] < p[1]
  /\ \/ issues[p[2]].title = issues[p[1]].title
     \/ issues[p[1]].renamed \/ issues[p[2]].renamed
ClosersSound ==
  /\ closer \in [Closings -> [phase : {"start", "close", "note", "end"},
                              plan : SUBSET (Nat \X Nat), dup : 0..MaxIssues]]
  /\ \A c \in Closings : \A p \in closer[c].plan : OlderThere(p)
  /\ LowestStays

LEMMA ListedAreNumbers ==
  ASSUME IssuesSound, NEW S, NEW list \in Newest(S)
  PROVE  list \subseteq Numbers /\ list \subseteq Nat
BY NumbersAre DEF Newest, Matching

LEMMA CanonicalIsOldest ==
  ASSUME NEW list \in SUBSET Nat, NEW n \in list
  PROVE  /\ Canonical(list, n) \in list /\ Canonical(list, n) <= n
         /\ issues[Canonical(list, n)].title = issues[n].title
<1> DEFINE same == {m \in list : issues[m].title = issues[n].title}
<1>1. PICK m \in same : \A k \in same : m <= k
  <2>1. same \subseteq Nat /\ same # {}
    OBVIOUS
  <2> HIDE DEF same
  <2>2. QED BY <2>1, LeastExists
<1>2. /\ m \in list /\ issues[m].title = issues[n].title
      /\ \A k \in list : issues[k].title = issues[n].title => m <= k
  BY <1>1
<1>3. /\ Canonical(list, n) \in list /\ issues[Canonical(list, n)].title = issues[n].title
      /\ \A k \in list : issues[k].title = issues[n].title => Canonical(list, n) <= k
  BY <1>2 DEF Canonical
<1>4. QED BY <1>3

LEMMA OlderStays ==
  ASSUME IssuesSound, IssuesSound', Later, NEW p, OlderThere(p)
  PROVE  OlderThere(p)'
BY DEF OlderThere, Later, KeptOf

\* An issue that speaks for one of its title that was closed.
Answers(m, n) ==
  issues[m].renamed \/ (issues[m].title = issues[n].title /\ issues[m].by # "closer")

LEMMA LowestMeans ==
  LowestStays <=> \A n \in Numbers : issues[n].by = "closer" /\ ~issues[n].renamed =>
                    \E m \in 1..(n - 1) : Answers(m, n)
BY DEF LowestStays, Answers

LEMMA LowestMeansNext ==
  (\A n \in Numbers' : issues'[n].by = "closer" /\ ~issues'[n].renamed =>
                    \E m \in 1..(n - 1) : Answers(m, n)') => LowestStays'
BY DEF LowestStays, Answers

\* A request that closes nothing for close-duplicates.
LEMMA LowestKept ==
  ASSUME IssuesSound, Later, ClosesNone, LowestStays
  PROVE  LowestStays'
<1> SUFFICES ASSUME NEW n \in Numbers', issues'[n].by = "closer", ~issues'[n].renamed
             PROVE  \E m \in 1..(n - 1) : Answers(m, n)'
  BY LowestMeansNext
<1>1. n \in Numbers /\ issues[n].by = "closer"
  BY DEF ClosesNone
<1>2. KeptOf(n) /\ ~issues[n].renamed /\ issues'[n].title = issues[n].title
  BY <1>1 DEF Later, KeptOf
<1>3. PICK m \in 1..(n - 1) : Answers(m, n)
  BY <1>1, <1>2, LowestMeans
<1>4. m \in Numbers /\ KeptOf(m)
  BY <1>1, <1>3, NumbersAre DEF Later
<1>5. m \in Numbers' /\ (issues'[m].by = "closer" => issues[m].by = "closer")
  BY <1>4 DEF Later, ClosesNone
<1>6. QED BY <1>2, <1>3, <1>4, <1>5 DEF KeptOf, Answers

\* A planned closing.
LEMMA LowestClosed ==
  ASSUME IssuesSound, Later, Numbers' = Numbers, LowestStays, NEW p, OlderThere(p),
         \A k \in Numbers' : issues'[k].by = "closer" => k = p[1] \/ issues[k].by = "closer"
  PROVE  LowestStays'
<1> DEFINE Below(n) == \E m \in 1..(n - 1) : Answers(m, n)'
<1>1. \A k \in Numbers : KeptOf(k) /\ k \in Nat /\ 1..k \subseteq Numbers
  BY NumbersAre DEF Later
<1>2. ASSUME NEW n \in Numbers, NEW m \in 1..(n - 1), m # p[1], ~issues'[n].renamed,
             Answers(m, n)
      PROVE  Below(n)
  <2>1. m \in Numbers /\ KeptOf(m) /\ KeptOf(n)
    BY <1>1, <1>2
  <2>2. m \in Numbers' /\ (issues'[m].by = "closer" => issues[m].by = "closer")
    BY <1>2, <2>1
  <2>3. QED BY <1>2, <2>1, <2>2 DEF KeptOf, Answers
<1>3. p[1] \in Numbers /\ p[2] \in Numbers /\ p[2] < p[1] /\ p[2] \in 1..(p[1] - 1)
  BY NumbersAre DEF OlderThere
<1>4. ASSUME ~issues'[p[1]].renamed PROVE Below(p[1])
  <2>1. KeptOf(p[1]) /\ KeptOf(p[2])
    BY <1>1, <1>3
  <2>2. CASE issues'[p[2]].renamed
    BY <1>3, <2>2 DEF Answers
  <2>3. CASE ~issues'[p[2]].renamed /\ issues'[p[2]].by # "closer"
    <3>1. issues'[p[2]].title = issues'[p[1]].title
      BY <1>4, <2>1, <2>3 DEF KeptOf, OlderThere
    <3>2. QED BY <1>3, <2>3, <3>1 DEF Answers
  <2>4. CASE ~issues'[p[2]].renamed /\ issues'[p[2]].by = "closer"
    <3>1. issues[p[2]].by = "closer" /\ ~issues[p[2]].renamed
      BY <1>3, <2>1, <2>4 DEF KeptOf
    <3>2. PICK m \in 1..(p[2] - 1) : Answers(m, p[2])
      BY <1>3, <3>1, LowestMeans
    <3>3. issues[p[2]].title = issues[p[1]].title
      BY <1>4, <2>1, <3>1 DEF KeptOf, OlderThere
    <3>4. m \in 1..(p[1] - 1) /\ m # p[1]
      BY <1>1, <1>3, <3>2
    <3>5. Answers(m, p[1])
      BY <3>2, <3>3 DEF Answers
    <3>6. QED BY <1>2, <1>3, <1>4, <3>4, <3>5
  <2>5. QED BY <2>2, <2>3, <2>4
<1>5. ASSUME NEW n \in Numbers, issues'[n].by = "closer", ~issues'[n].renamed, n # p[1]
      PROVE  Below(n)
  <2>1. KeptOf(n) /\ issues[n].by = "closer" /\ ~issues[n].renamed
    BY <1>1, <1>5 DEF KeptOf
  <2>2. PICK m \in 1..(n - 1) : Answers(m, n)
    BY <2>1, LowestMeans
  <2>3. CASE m # p[1]
    BY <1>2, <1>5, <2>2, <2>3
  <2>4. CASE m = p[1] /\ issues'[m].renamed
    BY <2>2, <2>4 DEF Answers
  <2>5. CASE m = p[1] /\ ~issues'[m].renamed
    <3>1. PICK k \in 1..(p[1] - 1) : Answers(k, p[1])'
      BY <1>4, <2>5
    <3>2. KeptOf(m) /\ k \in 1..(n - 1)
      BY <1>1, <1>3, <2>2, <2>5, <3>1
    <3>3. issues[m].title = issues[n].title
      BY <2>2, <2>5, <3>2 DEF KeptOf, Answers
    <3>4. issues'[p[1]].title = issues'[n].title
      BY <1>5, <2>1, <2>5, <3>2, <3>3 DEF KeptOf
    <3>5. QED BY <3>1, <3>2, <3>4 DEF Answers
  <2>6. QED BY <2>3, <2>4, <2>5
<1>6. QED BY <1>4, <1>5, LowestMeansNext

LEMMA ClosersStay ==
  ASSUME IssuesSound, IssuesSound', Later, ClosesNone, ClosersSound, UNCHANGED closer
  PROVE  ClosersSound'
<1>1. LowestStays'
  BY LowestKept DEF ClosersSound
<1>2. \A c \in Closings : \A p \in closer[c].plan : OlderThere(p)'
  BY OlderStays DEF ClosersSound
<1>3. QED BY <1>1, <1>2 DEF ClosersSound, OlderThere

LEMMA ZeroWithin == 0 \in 0..MaxIssues
BY TrackerAssumption

Closer == [phase : {"start", "close", "note", "end"}, plan : SUBSET (Nat \X Nat), dup : 0..MaxIssues]

\* A step of a pass that plans nothing it had not planned.
LEMMA PassGoes ==
  ASSUME IssuesSound, IssuesSound', Later, ClosersSound, LowestStays',
         NEW c \in Closings, NEW z \in Closer, closer' = [closer EXCEPT ![c] = z],
         \A p \in z.plan : OlderThere(p)
  PROVE  ClosersSound'
<1>1. closer \in [Closings -> Closer]
  BY DEF ClosersSound, Closer
<1>2. closer' \in [Closings -> Closer] /\ closer'[c] = z
      /\ \A d \in Closings \ {c} : closer'[d] = closer[d]
  BY <1>1
<1>3. \A d \in Closings : \A p \in closer'[d].plan : OlderThere(p)
  BY <1>2 DEF ClosersSound
<1>4. \A d \in Closings : \A p \in closer'[d].plan : OlderThere(p)'
  BY <1>3, OlderStays
<1>5. QED BY <1>2, <1>4 DEF ClosersSound, OlderThere, Closer

LEMMA CloserKeeps ==
  ASSUME IssuesSound, ClosersSound, NEW c \in Closings, CloserStep(c)
  PROVE  IssuesSound' /\ Later /\ ClosersSound'
<1>1. closer \in [Closings -> Closer] /\ closer[c] \in Closer
  BY DEF ClosersSound, Closer
<1>2. CASE ListOpen(c)
  <2>1. IssuesSound' /\ Later /\ ClosesNone
    BY <1>2, StaysSame DEF ListOpen
  <2>2. PICK list \in Newest({"open"}) :
          closer' = [closer EXCEPT ![c].plan = Plan(list),
                                   ![c].phase = IF Plan(list) = {} THEN "end" ELSE "close"]
    BY <1>2 DEF ListOpen
  <2>3. list \subseteq Numbers /\ list \subseteq Nat
    BY ListedAreNumbers
  <2>4. \A p \in Plan(list) : p \in Nat \X Nat /\ OlderThere(p)
    <3> SUFFICES ASSUME NEW p \in Plan(list) PROVE p \in Nat \X Nat /\ OlderThere(p)
      OBVIOUS
    <3>1. p[1] \in list /\ p[2] \in list /\ p[2] = Canonical(list, p[1]) /\ p[1] # p[2]
          /\ p \in list \X list
      BY DEF Plan
    <3>2. p[2] <= p[1] /\ issues[p[2]].title = issues[p[1]].title
      BY <2>3, <3>1, CanonicalIsOldest
    <3>3. p[1] \in Nat /\ p[2] \in Nat /\ p[1] \in Numbers /\ p[2] \in Numbers
      BY <2>3, <3>1
    <3>4. p \in Nat \X Nat /\ p[2] < p[1]
      BY <3>1, <3>2, <3>3
    <3>5. QED BY <3>2, <3>3, <3>4 DEF OlderThere
  <2> DEFINE z == [closer[c] EXCEPT !.plan = Plan(list),
                                    !.phase = IF Plan(list) = {} THEN "end" ELSE "close"]
  <2>5. z \in Closer /\ z.plan = Plan(list)
    BY <1>1, <2>4 DEF Closer
  <2>6. closer' = [closer EXCEPT ![c] = z]
    BY <1>1, <2>2 DEF Closer
  <2> HIDE DEF z
  <2>7. QED BY <2>1, <2>4, <2>5, <2>6, LowestKept, PassGoes DEF ClosersSound
<1>3. ASSUME NEW p \in closer[c].plan, CloseDuplicate(c, p)
      PROVE  IssuesSound' /\ Later /\ ClosersSound'
  <2>1. OlderThere(p) /\ p[1] \in Numbers /\ p[1] \in 0..MaxIssues
    BY NumbersAre DEF ClosersSound, OlderThere
  <2>2. /\ IssuesSound' /\ Later /\ Numbers' = Numbers
        /\ \A k \in Numbers' : issues'[k].by = "closer" => k = p[1] \/ issues[k].by = "closer"
    <3>1. CASE UNCHANGED issues
      BY <3>1, StaysSame DEF Numbers
    <3>2. CASE Lives(p[1]) /\ CloseAs(p[1], "closer")
      <4>1. issues[p[1]].state # "deleted"
        BY <3>2 DEF Lives
      <4>2. Numbers' = Numbers
        BY <3>2 DEF CloseAs, Numbers
      <4>3. ASSUME NEW n \in Numbers, n = p[1]
            PROVE  /\ IssuesSound' /\ Later
                   /\ \A k \in Numbers' : issues'[k].by = "closer" => k = n \/ issues[k].by = "closer"
        BY <3>2, <4>1, <4>3, ClosesOne
      <4>4. QED BY <2>1, <4>2, <4>3
    <3>3. QED BY <1>3, <3>1, <3>2 DEF CloseDuplicate
  <2>3. LowestStays'
    BY <2>1, <2>2, LowestClosed DEF ClosersSound
  <2>4. ASSUME NEW phase \in {"note", "close"}, Dropped(c, p, phase)
        PROVE  ClosersSound'
    <3> DEFINE z == [closer[c] EXCEPT !.plan = closer[c].plan \ {p},
               !.phase = IF phase = "close" /\ closer[c].plan = {p} THEN "end" ELSE phase,
               !.dup = IF phase = "note" THEN p[1] ELSE 0]
    <3>1. /\ closer[c].plan \ {p} \in SUBSET (Nat \X Nat)
          /\ (IF phase = "note" THEN p[1] ELSE 0) \in 0..MaxIssues
          /\ (IF phase = "close" /\ closer[c].plan = {p} THEN "end" ELSE phase)
                \in {"start", "close", "note", "end"}
      BY <1>1, <2>1, ZeroWithin DEF Closer
    <3>1a. z \in Closer /\ z.plan \subseteq closer[c].plan
      BY <1>1, <3>1 DEF Closer
    <3>2. closer' = [closer EXCEPT ![c] = z]
      BY <1>1, <2>4 DEF Dropped, Closer
    <3> HIDE DEF z
    <3>3. \A q \in z.plan : OlderThere(q)
      BY <3>1a DEF ClosersSound
    <3>4. QED BY <2>2, <2>3, <3>1a, <3>2, <3>3, PassGoes
  <2>5. QED BY <1>3, <2>2, <2>4 DEF CloseDuplicate
<1>4. CASE NoteDuplicate(c)
  <2>1. IssuesSound' /\ Later /\ ClosesNone
    <3>1. CASE UNCHANGED issues
      BY <3>1, StaysSame
    <3>2. ASSUME NEW n, n = closer[c].dup, Lives(n), Note(n)
          PROVE  IssuesSound' /\ Later /\ ClosesNone
      BY <3>2, Notes DEF Lives
    <3>3. QED BY <1>4, <3>1, <3>2 DEF NoteDuplicate
  <2> DEFINE z == [closer[c] EXCEPT !.dup = 0,
                     !.phase = IF closer[c].plan = {} THEN "end" ELSE "close"]
  <2>2. z \in Closer /\ z.plan = closer[c].plan
    BY <1>1, ZeroWithin DEF Closer
  <2>3. closer' = [closer EXCEPT ![c] = z]
    BY <1>1, <1>4 DEF NoteDuplicate, Closer
  <2> HIDE DEF z
  <2>4. \A q \in z.plan : OlderThere(q)
    BY <2>2 DEF ClosersSound
  <2>5. QED BY <2>1, <2>2, <2>3, <2>4, LowestKept, PassGoes DEF ClosersSound
<1>5. CASE CloserCrash(c)
  <2> DEFINE z == [phase |-> "end", plan |-> {}, dup |-> 0]
  <2>1. z \in Closer /\ z.plan = {}
    BY ZeroWithin DEF Closer
  <2>2. closer' = [closer EXCEPT ![c] = z] /\ UNCHANGED issues
    BY <1>5 DEF CloserCrash
  <2> HIDE DEF z
  <2>3. IssuesSound' /\ Later /\ ClosesNone
    BY <2>2, StaysSame
  <2>4. QED BY <2>1, <2>2, <2>3, LowestKept, PassGoes DEF ClosersSound
<1>6. QED BY <1>2, <1>3, <1>4, <1>5 DEF CloserStep

-----------------------------------------------------------------------------
(* The cleanup keeps what it names.                                         *)

Scanner == [phase : {"start", "open", "end"}, closed : SUBSET (Nat \X Titles)]

\* A listing names each issue once, by the title it had; and the delete files
\* of a pass are there only when it is over.
Listed(n, t) == n \in Numbers /\ (t = Norm[issues[n].title] \/ issues[n].renamed)
ScannersSound ==
  /\ scanner \in [Scans -> Scanner]
  /\ \A s \in Scans :
       /\ \A e \in scanner[s].closed : Listed(e[1], e[2])
       /\ \A d, e \in scanner[s].closed : d[1] = e[1] => d = e
  /\ \A f \in Dirs \cap DeleteFiles : scanner[f[3]].phase = "end" /\ f[2] \in Numbers
  /\ KeptIsKept

LEMMA ListedStays ==
  ASSUME Later, NEW n, NEW t, Listed(n, t)
  PROVE  Listed(n, t)'
BY DEF Later, KeptOf, Listed

LEMMA ScannersStay ==
  ASSUME Later, ScannersSound, UNCHANGED scanner, Dirs' \cap DeleteFiles \subseteq Dirs
  PROVE  ScannersSound'
<1>1. \A s \in Scans : \A e \in scanner[s].closed : Listed(e[1], e[2])'
  BY ListedStays DEF ScannersSound
<1>2. \A f \in Dirs' \cap DeleteFiles : scanner[f[3]].phase = "end" /\ f[2] \in Numbers'
  BY DEF ScannersSound, Later
<1>3. KeptIsKept'
  <2> SUFFICES ASSUME NEW f \in Dirs' \cap DeleteFiles, NEW h \in Dirs' \cap DeleteFiles,
                      f[3] = h[3], f[2] = h[1]
               PROVE  issues'[f[2]].renamed
    BY DEF KeptIsKept, Dirs
  <2>1. issues[f[2]].renamed /\ f[2] \in Numbers
    BY DEF ScannersSound, KeptIsKept, Dirs
  <2>2. QED BY <2>1 DEF Later, KeptOf
<1>4. QED BY <1>1, <1>2, <1>3 DEF ScannersSound, Listed

\* The issue to keep is one of its group.
LEMMA OldestIn ==
  ASSUME NEW S, S \subseteq Nat, S # {}
  PROVE  Oldest(S) \in S
BY LeastExists DEF Oldest

LEMMA KeptIn ==
  ASSUME NEW closed, NEW open, \A e \in closed \cup open : e[1] \in Nat, NEW d \in closed
  PROVE  \E e \in closed \cup open : e[1] = Kept(d[2], closed, open) /\ e[2] = d[2]
<1>1. Group(d[2], closed) \subseteq Nat /\ Group(d[2], open) \subseteq Nat
      /\ Group(d[2], closed) # {}
  BY DEF Group
<1>2. Kept(d[2], closed, open) \in Group(d[2], closed) \cup Group(d[2], open)
  BY <1>1, OldestIn DEF Kept
<1>3. QED BY <1>2 DEF Group

LEMMA ScannerKeeps ==
  ASSUME RunInv, ScannersSound, NEW s \in Scans, ScannerStep(s),
         UNCHANGED <<archived, malformed, run, posted, blind, tried, lost>>
  PROVE  /\ IssuesSound' /\ Later /\ ClosesNone /\ UpdatesSound' /\ TwinsSound'
         /\ ScannersSound'
<1>1. scanner \in [Scans -> Scanner] /\ scanner[s] \in Scanner
  BY DEF ScannersSound
<1>2. CASE ListClosed(s)
  <2>1. UNCHANGED <<issues, pending>> /\ Dirs' = Dirs
    BY <1>2 DEF ListClosed, Dirs
  <2>2. IssuesSound' /\ Later /\ ClosesNone
    BY <2>1, StaysSame DEF RunInv
  <2>3. UpdatesSound' /\ TwinsSound'
    BY <2>1, <2>2, OthersKeep DEF directory
  <2>4. PICK list \in Newest({"closed"}) :
          scanner' = [scanner EXCEPT ![s].phase = "open",
                           ![s].closed = {<<n, Norm[issues[n].title]>> : n \in list}]
    BY <1>2 DEF ListClosed
  <2> DEFINE C == {<<n, Norm[issues[n].title]>> : n \in list}
             z == [scanner[s] EXCEPT !.phase = "open", !.closed = C]
  <2>5. list \subseteq Numbers /\ list \subseteq Nat
    BY ListedAreNumbers DEF RunInv
  <2>6. \A n \in list : issues[n] \in Issue /\ Norm[issues[n].title] \in Titles
    <3>1. \A n \in list : issues[n] \in Issue
      BY <2>5 DEF RunInv, IssuesSound, Numbers
    <3>2. \A n \in list : issues[n].title \in Titles
      BY <3>1 DEF Issue
    <3>3. QED BY <3>1, <3>2, TrackerAssumption
  <2>7. /\ C \subseteq Nat \X Titles
        /\ \A e \in C : Listed(e[1], e[2]) /\ \A d \in C : d[1] = e[1] => d = e
    BY <2>5, <2>6 DEF Listed
  <2> HIDE DEF C
  <2>8. z \in Scanner /\ z.closed = C
    BY <1>1, <2>7 DEF Scanner
  <2>9. scanner' = [scanner EXCEPT ![s] = z]
    BY <1>1, <2>4 DEF Scanner, C
  <2> HIDE DEF z
  <2>10. scanner' \in [Scans -> Scanner] /\ scanner'[s] = z
         /\ \A r \in Scans \ {s} : scanner'[r] = scanner[r]
    BY <1>1, <2>8, <2>9
  <2>11. scanner[s].phase = "start"
    BY <1>2 DEF ListClosed, StartsScan
  <2>12. \A f \in Dirs \cap DeleteFiles : f[3] \in Scans \ {s} /\ f[2] \in Numbers
           /\ scanner'[f[3]].phase = "end"
    BY <2>10, <2>11 DEF ScannersSound, DeleteFiles
  <2>13. \A r \in Scans : \A e \in scanner'[r].closed :
           Listed(e[1], e[2]) /\ \A d \in scanner'[r].closed : d[1] = e[1] => d = e
    BY <2>7, <2>8, <2>10 DEF ScannersSound
  <2>14. ScannersSound'
    BY <2>1, <2>10, <2>12, <2>13 DEF ScannersSound, Listed, Numbers, KeptIsKept
  <2>15. QED BY <2>2, <2>3, <2>14
<1>3. CASE Scan(s)
  <2> DEFINE closed == scanner[s].closed
             Open(list) == {<<n, Norm[issues[n].title]>> : n \in list}
  <2>1. PICK list \in Newest({"open"}) :
          \E F \in SUBSET Deletions(s, Open(list)) : pending' = pending \cup F
    BY <1>3 DEF Scan
  <2>2. PICK F \in SUBSET Deletions(s, Open(list)) : pending' = pending \cup F
    BY <2>1
  <2> DEFINE open == Open(list)
  <2>3. list \subseteq Numbers /\ list \subseteq Nat
    BY ListedAreNumbers DEF RunInv
  <2>4. \A e \in closed \cup open : e[1] \in Numbers /\ e[1] \in Nat /\ Listed(e[1], e[2])
    BY <1>1, <2>3, NumbersAre DEF ScannersSound, Listed, RunInv
  <2>5. \A d, e \in closed : d[1] = e[1] => d = e
    BY DEF ScannersSound
  <2>5a. \A e \in open : e[2] = Norm[issues[e[1]].title]
    OBVIOUS
  <2> HIDE DEF open, Open, closed
  <2>6. \A f \in F :
          /\ f \in DeleteFiles /\ f[3] = s /\ f[1] # f[2]
          /\ \E e \in closed : e[1] = f[1] /\ f[2] = Kept(e[2], closed, open)
    BY <2>2 DEF Deletions, open, closed
  <2>7. \A f \in F : \E d \in closed, e \in closed \cup open :
          d[1] = f[1] /\ f[2] = Kept(d[2], closed, open) /\ e[1] = f[2] /\ e[2] = d[2]
    <3> SUFFICES ASSUME NEW f \in F
                 PROVE  \E d \in closed, e \in closed \cup open :
                   d[1] = f[1] /\ f[2] = Kept(d[2], closed, open) /\ e[1] = f[2] /\ e[2] = d[2]
      OBVIOUS
    <3>1. PICK d \in closed : d[1] = f[1] /\ f[2] = Kept(d[2], closed, open)
      BY <2>6
    <3>2. PICK e \in closed \cup open : e[1] = Kept(d[2], closed, open) /\ e[2] = d[2]
      BY <2>4, KeptIn
    <3>3. QED BY <3>1, <3>2
  <2>8. scanner[s].phase = "open"
    BY <1>3 DEF Scan
  <2>9. \A f \in Dirs \cap DeleteFiles : f[3] # s
    BY <2>8 DEF ScannersSound
  <2>10. F \subseteq AllFiles \ Dirs
    BY <2>6, <2>9 DEF AllFiles
  <2>11. UNCHANGED issues
    BY <1>3 DEF Scan
  <2>12. /\ IssuesSound' /\ Later /\ ClosesNone /\ UpdatesSound' /\ TwinsSound'
         /\ Dirs' = Dirs \cup F
    BY <2>2, <2>10, <2>11, AddedKeeps
  <2> DEFINE z == [phase |-> "end", closed |-> {}]
  <2>13. z \in Scanner /\ scanner' = [scanner EXCEPT ![s] = z] /\ z.phase = "end" /\ z.closed = {}
    BY <1>3 DEF Scan, Scanner
  <2> HIDE DEF z
  <2>14. scanner' \in [Scans -> Scanner] /\ scanner'[s] = z
         /\ \A r \in Scans \ {s} : scanner'[r] = scanner[r]
    BY <1>1, <2>13
  <2>15. \A f \in F : f[2] \in Numbers
    BY <2>4, <2>7
  <2>16. \A f, h \in F : f[2] = h[1] => issues[f[2]].renamed
    <3> SUFFICES ASSUME NEW f \in F, NEW h \in F, f[2] = h[1] PROVE issues[f[2]].renamed
      OBVIOUS
    <3>1. PICK d \in closed, e \in closed \cup open :
            d[1] = f[1] /\ f[2] = Kept(d[2], closed, open) /\ e[1] = f[2] /\ e[2] = d[2]
      BY <2>7
    <3>2. PICK b \in closed : b[1] = h[1] /\ h[2] = Kept(b[2], closed, open) /\ h[1] # h[2]
      BY <2>6
    <3>3. b[2] # e[2]
      BY <3>1, <3>2
    <3>4. e \in open
      BY <2>5, <3>1, <3>2, <3>3
    <3>5. e[2] = Norm[issues[h[1]].title] /\ Listed(h[1], b[2])
      BY <2>4, <2>5a, <3>1, <3>2, <3>4
    <3>6. QED BY <3>3, <3>5 DEF Listed
  <2>17. KeptIsKept'
    <3> SUFFICES ASSUME NEW f \in Dirs' \cap DeleteFiles, NEW h \in Dirs' \cap DeleteFiles,
                        f[3] = h[3], f[2] = h[1]
                 PROVE  issues[f[2]].renamed
      BY <2>11 DEF KeptIsKept, Dirs
    <3>1. CASE f \in F
      BY <2>6, <2>9, <2>12, <2>16, <3>1
    <3>2. CASE f \in Dirs
      BY <2>6, <2>9, <2>12, <3>2 DEF ScannersSound, KeptIsKept, Dirs
    <3>3. QED BY <2>12, <3>1, <3>2
  <2>18. \A f \in Dirs' \cap DeleteFiles : scanner'[f[3]].phase = "end" /\ f[2] \in Numbers
    <3> SUFFICES ASSUME NEW f \in Dirs' \cap DeleteFiles
                 PROVE  scanner'[f[3]].phase = "end" /\ f[2] \in Numbers
      OBVIOUS
    <3>1. CASE f \in F
      BY <2>6, <2>13, <2>14, <2>15, <3>1
    <3>2. CASE f \in Dirs
      <4>1. f[3] \in Scans /\ f[3] # s
        BY <2>9, <3>2 DEF DeleteFiles
      <4>2. QED BY <2>14, <3>2, <4>1 DEF ScannersSound
    <3>3. QED BY <2>12, <3>1, <3>2
  <2>19. \A r \in Scans : \A e \in scanner'[r].closed :
           Listed(e[1], e[2]) /\ \A d \in scanner'[r].closed : d[1] = e[1] => d = e
    BY <2>13, <2>14 DEF ScannersSound
  <2>20. ScannersSound'
    BY <2>11, <2>14, <2>17, <2>18, <2>19 DEF ScannersSound, Listed, Numbers
  <2>21. QED BY <2>12, <2>20
<1>4. QED BY <1>2, <1>3 DEF ScannerStep

-----------------------------------------------------------------------------
(* The enhanced manager's plan.                                             *)

\* One unfolding of the lineages.
Grown(s, line, done) == [g \in Named(s) |->
  LET p == At(LastOf(s, g)).parent
      before == IF p \in Named(s) THEN line[done \cup {g}][p] ELSE <<>>
  IN IF g \in done THEN <<>> ELSE Append(before, LastOf(s, g))]

\* What holds of 0 and goes up by one holds of every number.
LEMMA Upwards ==
  ASSUME NEW S, S \subseteq Nat, 0 \in S, \A n \in S : n + 1 \in S
  PROVE  S = Nat
<1> SUFFICES ASSUME Nat \ S # {} PROVE FALSE
  OBVIOUS
<1>1. PICK m \in Nat \ S : \A k \in Nat \ S : m <= k
  BY LeastExists
<1>2. m # 0 /\ m - 1 \in Nat
  BY <1>1
<1>3. m - 1 \in S
  BY <1>1, <1>2
<1>4. (m - 1) + 1 = m
  BY <1>1
<1>5. QED BY <1>1, <1>3, <1>4

\* The search for parents ends: each turn has one guid less to place.
LEMMA LineageIs ==
  ASSUME NEW s, IsFiniteSet(Named(s))
  PROVE  Lineage(s) = [done \in SUBSET Named(s) |-> Grown(s, Lineage(s), done)]
<1> DEFINE G == Named(s)
           Left(n) == {done \in SUBSET G : Cardinality(G \ done) <= n}
           Upto(n) == \E f : f = [done \in Left(n) |-> Grown(s, f, done)]
           S == {n \in Nat : Upto(n)}
<1>1. \A done \in SUBSET G : IsFiniteSet(G \ done) /\ Cardinality(G \ done) \in Nat
  BY FS_Subset, FS_CardinalityType
<1>2. Upto(0)
  <2> DEFINE f == [done \in Left(0) |-> [g \in G |-> <<>>]]
  <2>1. ASSUME NEW done \in Left(0) PROVE Grown(s, f, done) = [g \in G |-> <<>>]
    <3>1. Cardinality(G \ done) = 0
      BY <1>1
    <3>2. G \ done = {}
      BY <1>1, <3>1, FS_EmptySet
    <3>3. QED BY <3>2 DEF Grown
  <2>2. f = [done \in Left(0) |-> Grown(s, f, done)]
    BY <2>1
  <2>3. QED BY <2>2
<1>3. ASSUME NEW n \in Nat, Upto(n) PROVE Upto(n + 1)
  <2>1. PICK f : f = [done \in Left(n) |-> Grown(s, f, done)]
    BY <1>3
  <2> DEFINE h == [done \in Left(n + 1) |-> Grown(s, f, done)]
  <2>2. \A done \in Left(n) : f[done] = Grown(s, f, done)
    BY <2>1
  <2>3. \A done \in Left(n) : done \in Left(n + 1) /\ h[done] = f[done]
    BY <1>1, <2>2
  <2>4. ASSUME NEW done \in Left(n + 1) PROVE Grown(s, h, done) = Grown(s, f, done)
    <3>1. ASSUME NEW g \in G, g \notin done PROVE h[done \cup {g}] = f[done \cup {g}]
      <4>1. G \ (done \cup {g}) = (G \ done) \ {g}
        OBVIOUS
      <4>2. Cardinality((G \ done) \ {g}) = Cardinality(G \ done) - 1
        BY <1>1, <3>1, FS_RemoveElement
      <4>3. done \cup {g} \in Left(n)
        BY <1>1, <4>1, <4>2
      <4>4. QED BY <2>3, <4>3
    <3> DEFINE p(g) == At(LastOf(s, g)).parent
               before(e, g) == IF p(g) \in G THEN e[done \cup {g}][p(g)] ELSE <<>>
               line(e, g) == IF g \in done THEN <<>> ELSE Append(before(e, g), LastOf(s, g))
    <3>2. ASSUME NEW g \in G PROVE line(h, g) = line(f, g)
      <4>1. g \notin done => before(h, g) = before(f, g)
        <5> HIDE DEF h, G, p, Left
        <5>1. QED BY <3>1, <3>2
      <4> HIDE DEF before, h
      <4>2. QED BY <4>1
    <3>3. Grown(s, h, done) = [g \in G |-> line(h, g)] /\ Grown(s, f, done) = [g \in G |-> line(f, g)]
      BY DEF Grown
    <3> HIDE DEF line
    <3>4. QED BY <3>2, <3>3
  <2> HIDE DEF h
  <2>5. h = [done \in Left(n + 1) |-> Grown(s, h, done)]
    BY <2>4 DEF h
  <2>6. QED BY <2>5
<1> HIDE DEF Upto
<1>4. S = Nat
  <2>1. S \subseteq Nat /\ 0 \in S /\ \A n \in S : n + 1 \in S
    BY <1>2, <1>3
  <2> HIDE DEF S
  <2>2. QED BY <2>1, Upwards
<1>5. Upto(Cardinality(G))
  BY <1>1, <1>4
<1>6. Left(Cardinality(G)) = SUBSET G
  <2>1. \A done \in SUBSET G : Cardinality(G \ done) <= Cardinality(G)
    BY FS_Subset
  <2>2. QED BY <2>1
<1>7. \E f : f = [done \in SUBSET Named(s) |-> Grown(s, f, done)]
  BY <1>5, <1>6 DEF Upto
<1> HIDE DEF G, Left, S
<1>8. QED BY <1>7 DEF Lineage, Grown



\* One step of the resolution.
Resolved(s, r, n) == IF n = 0 THEN <<>> ELSE Visit(s, r[n - 1], s[n])

\* What is resolved of the first n updates of s.
LEMMA ResolveIs ==
  ASSUME NEW s, Len(s) \in Nat
  PROVE  \E r : r = [n \in 0..Len(s) |-> Resolved(s, r, n)] /\ Resolve(s) = r[Len(s)]
<1> DEFINE Upto(n) == \E r : r = [m \in 0..n |-> Resolved(s, r, m)]
           S == {n \in Nat : Upto(n)}
<1>1. Upto(0)
  <2>1. [m \in 0..0 |-> <<>>] = [m \in 0..0 |-> Resolved(s, [k \in 0..0 |-> <<>>], m)]
    BY DEF Resolved
  <2>2. QED BY <2>1
<1>2. ASSUME NEW n \in Nat, Upto(n) PROVE Upto(n + 1)
  <2>1. PICK r : r = [m \in 0..n |-> Resolved(s, r, m)]
    BY <1>2
  <2> DEFINE h == [m \in 0..(n + 1) |-> Resolved(s, r, m)]
  <2>2. \A m \in 0..n : h[m] = r[m]
    BY <2>1
  <2>3. ASSUME NEW m \in 0..(n + 1) PROVE Resolved(s, h, m) = Resolved(s, r, m)
    <3>1. m # 0 => h[m - 1] = r[m - 1]
      BY <2>2
    <3> HIDE DEF h
    <3>2. QED BY <3>1 DEF Resolved
  <2> HIDE DEF h
  <2>4. h = [m \in 0..(n + 1) |-> Resolved(s, h, m)]
    BY <2>3 DEF h
  <2>5. QED BY <2>4
<1> HIDE DEF Upto
<1>3. S = Nat
  <2>1. S \subseteq Nat /\ 0 \in S /\ \A n \in S : n + 1 \in S
    BY <1>1, <1>2
  <2> HIDE DEF S
  <2>2. QED BY <2>1, Upwards
<1>4. \E r : r = [m \in 0..Len(s) |-> Resolved(s, r, m)]
  BY <1>3 DEF Upto
<1> DEFINE q == CHOOSE r : r = [n \in 0..Len(s) |-> Resolved(s, r, n)]
<1>5. q = [n \in 0..Len(s) |-> Resolved(s, q, n)]
  BY <1>4
<1>6. Resolve(s) = q[Len(s)]
  BY DEF Resolve, Resolved
<1> HIDE DEF q
<1>7. QED BY <1>5, <1>6

LEMMA FilesFinite == IsFiniteSet(AllFiles)
<1> DEFINE M == 1..MaxIssues
           f == [x \in (M \X M) \X Scans |-> <<x[1][1], x[1][2], x[2]>>]
<1>1. IsFiniteSet(M)
  BY TrackerAssumption, FS_Interval
<1>2. IsFiniteSet((M \X M) \X Scans)
  <2> HIDE DEF M
  <2>1. IsFiniteSet(M \X M)
    BY <1>1, FS_Product
  <2>2. QED BY <2>1, UpdatesAssumption, FS_Product
<1>3. f \in Surjection((M \X M) \X Scans, DeleteFiles)
  <2> HIDE DEF M
  <2>1. DeleteFiles = M \X M \X Scans
    BY DEF DeleteFiles, M
  <2>2. f \in [(M \X M) \X Scans -> DeleteFiles]
    BY <2>1
  <2>3. ASSUME NEW d \in DeleteFiles PROVE \E x \in (M \X M) \X Scans : f[x] = d
    <3>1. d[1] \in M /\ d[2] \in M /\ d[3] \in Scans /\ d = <<d[1], d[2], d[3]>>
      BY <2>1, <2>3
    <3>2. f[<<<<d[1], d[2]>>, d[3]>>] = d /\ <<<<d[1], d[2]>>, d[3]>> \in (M \X M) \X Scans
      BY <3>1
    <3>3. QED BY <3>2
  <2> HIDE DEF f
  <2>4. QED BY <2>2, <2>3 DEF Surjection
<1> HIDE DEF f, M
<1>4. IsFiniteSet(DeleteFiles)
  BY <1>2, <1>3, FS_Surjection
<1>5. QED BY <1>4, UpdatesAssumption, FS_Union DEF AllFiles

LEMMA UpdatesFinite ==
  ASSUME NEW F, F \subseteq AllFiles
  PROVE  IsFiniteSet(UpdatesOf(F))
<1> DEFINE In(f) == {<<f, i>> : i \in DOMAIN ContentOf(f)}
<1>1. IsFiniteSet(F)
  BY FilesFinite, FS_Subset
<1>2. ASSUME NEW f \in F PROVE IsFiniteSet(In(f))
  <2>1. ContentOf(f) \in Seq(Update)
    <3>1. CASE f \in DeleteFiles
      <4>1. DeletionOf(f[1]) = <<DeletionOf(f[1])[1]>> /\ f[1] \in Nat
        BY <3>1 DEF DeletionOf, DeleteFiles
      <4>2. DeletionOf(f[1])[1] \in Update
        BY <4>1 DEF DeletionOf, Update
      <4> DEFINE x == DeletionOf(f[1])[1]
      <4> HIDE DEF x
      <4>3. <<x>> \in Seq(Update)
        BY <4>2 DEF x
      <4>4. QED BY <3>1, <4>1, <4>3 DEF ContentOf, x
    <3>2. CASE f \notin DeleteFiles
      BY <3>2, UpdatesAssumption DEF ContentOf, AllFiles
    <3>3. QED BY <3>1, <3>2
  <2>2. IsFiniteSet(DOMAIN ContentOf(f))
    <3>1. DOMAIN ContentOf(f) = 1..Len(ContentOf(f)) /\ Len(ContentOf(f)) \in Int
      BY <2>1
    <3>2. QED BY <3>1, FS_Interval
  <2> DEFINE e == [i \in DOMAIN ContentOf(f) |-> <<f, i>>]
  <2>3. e \in Surjection(DOMAIN ContentOf(f), In(f))
    BY DEF Surjection
  <2> HIDE DEF e, In
  <2>4. QED BY <2>2, <2>3, FS_Surjection
<1> DEFINE parts == {In(f) : f \in F}
           e == [f \in F |-> In(f)]
<1>3. IsFiniteSet(parts)
  <2> HIDE DEF In
  <2>1. e \in Surjection(F, parts)
    BY DEF Surjection
  <2> HIDE DEF e, parts
  <2>2. QED BY <1>1, <2>1, FS_Surjection
<1>4. IsFiniteSet(UNION parts)
  <2> HIDE DEF In
  <2>1. \A T \in parts : IsFiniteSet(T)
    BY <1>2
  <2> HIDE DEF parts
  <2>2. QED BY <1>3, <2>1, FS_UNION
<1>5. QED BY <1>4 DEF UpdatesOf

\* The order of a batch names each of its updates.
LEMMA OrderOf ==
  ASSUME NEW U, IsFiniteSet(U), NEW s \in SetToSeqs(U)
  PROVE  s \in Seq(U) /\ Len(s) \in Nat /\ DOMAIN s = 1..Len(s) /\ \A u \in U : \E i \in 1..Len(s) : s[i] = u
<1>1. Cardinality(U) \in Nat
  BY FS_CardinalityType
<1>2. s \in Injection(1..Cardinality(U), U)
  BY DEF SetToSeqs, Injection, IsInjective
<1>3. Cardinality(1..Cardinality(U)) = Cardinality(U)
  BY <1>1, FS_Interval
<1>4. s \in Surjection(1..Cardinality(U), U)
  BY <1>2, <1>3, FS_Injection
<1>5. s \in [1..Cardinality(U) -> U]
  BY <1>2 DEF Injection
<1>6. s \in Seq(U) /\ Len(s) = Cardinality(U)
  BY <1>1, <1>5
<1>7. QED BY <1>1, <1>4, <1>5, <1>6 DEF Surjection
\* Of the updates with a guid the last is taken.
LEMMA LastIs ==
  ASSUME NEW U, NEW s \in Seq(U), NEW g \in Named(s)
  PROVE  LastOf(s, g) \in U /\ At(LastOf(s, g)).guid = g
<1> DEFINE back == {Len(s) - i : i \in WithGuid(s, g)}
<1>1. Len(s) \in Nat /\ DOMAIN s = 1..Len(s)
  OBVIOUS
<1>2. WithGuid(s, g) \subseteq 1..Len(s) /\ WithGuid(s, g) # {}
  BY <1>1 DEF WithGuid, Named
<1>3. back \subseteq Nat /\ back # {}
  BY <1>1, <1>2
<1>4. PICK m \in back : \A k \in back : m <= k
  <2> HIDE DEF back
  <2>1. QED BY <1>3, LeastExists
<1>5. PICK i \in WithGuid(s, g) : m = Len(s) - i
  BY <1>4
<1>6. \A j \in WithGuid(s, g) : j <= i
  <2> SUFFICES ASSUME NEW j \in WithGuid(s, g) PROVE j <= i
    OBVIOUS
  <2>1. m <= Len(s) - j /\ j \in Int /\ i \in Int
    BY <1>2, <1>4
  <2>2. QED BY <1>1, <1>5, <2>1
<1> DEFINE last == CHOOSE n \in WithGuid(s, g) : \A j \in WithGuid(s, g) : j <= n
<1>7. last \in WithGuid(s, g)
  BY <1>6
<1> HIDE DEF last
<1>8. s[last] \in U /\ At(s[last]).guid = g
  BY <1>2, <1>7 DEF WithGuid
<1>9. QED BY <1>8 DEF LastOf, last

\* c creates the issue that u asks for, alone and without a parent.
Leads(c, u, U) ==
  At(c).guid = At(u).parent /\ At(u).parent # None /\ At(c).parent = None /\ Alone(At(u).parent, U)

\* In a line each update comes after the one that leads it, if that was not
\* placed before.
Follow(line, placed, U) ==
  \A i \in 1..Len(line), c \in U : Leads(c, line[i], U) =>
    At(c).guid \in placed \/ \E j \in 1..(i - 1) : line[j] = c

\* The updates whose parents are being looked for do not lead anything.
LEMMA LineFollows ==
  ASSUME NEW U, NEW s \in Seq(U), IsFiniteSet(Named(s)), \A u \in U : \E i \in 1..Len(s) : s[i] = u,
         NEW done \in SUBSET Named(s), NEW g \in Named(s)
  PROVE  LET line == Lineage(s)[done][g] IN
         /\ line \in Seq(U)
         /\ \A i \in 1..Len(line) : At(line[i]).guid # None
         /\ Follow(line, done, U)
<1> DEFINE G == Named(s)
           L == Lineage(s)
           Up(h) == At(LastOf(s, h)).parent
           Open(T) == \A t \in T : Up(t) \in G
           Good(line, placed) ==
             /\ line \in Seq(U)
             /\ \A i \in 1..Len(line) : At(line[i]).guid # None
             /\ Follow(line, placed, U)
           Goods(n) == \A d, T \in SUBSET G, h \in G :
             Cardinality(G \ d) <= n /\ Open(T) => Good(L[d][h], d \ T)
           S == {n \in Nat : Goods(n)}
<1>1. \A d \in SUBSET G : IsFiniteSet(G \ d) /\ Cardinality(G \ d) \in Nat
  BY FS_Subset, FS_CardinalityType
<1>2. \A d \in SUBSET G, h \in G :
        L[d][h] = IF h \in d THEN <<>>
                  ELSE Append(IF Up(h) \in G THEN L[d \cup {h}][Up(h)] ELSE <<>>, LastOf(s, h))
  <2> SUFFICES ASSUME NEW d \in SUBSET G, NEW h \in G
               PROVE  L[d][h] = IF h \in d THEN <<>>
                        ELSE Append(IF Up(h) \in G THEN L[d \cup {h}][Up(h)] ELSE <<>>, LastOf(s, h))
    OBVIOUS
  <2> HIDE DEF L
  <2>1. L = [e \in SUBSET G |-> Grown(s, L, e)]
    BY LineageIs DEF L
  <2>2. L[d] = Grown(s, L, d)
    BY <2>1
  <2>3. Grown(s, L, d)[h] = IF h \in d THEN <<>>
          ELSE Append(IF Up(h) \in G THEN L[d \cup {h}][Up(h)] ELSE <<>>, LastOf(s, h))
    BY DEF Grown
  <2>4. QED BY <2>2, <2>3
<1>3. \A h \in G : LastOf(s, h) \in U /\ At(LastOf(s, h)).guid = h /\ h # None
  BY LastIs DEF Named
<1>4. \A u \in U : At(u).guid # None => At(u).guid \in G
  BY DEF Named
<1>5. ASSUME NEW placed PROVE Good(<<>>, placed)
  BY DEF Follow
<1>6. Goods(0)
  <2> SUFFICES ASSUME NEW d \in SUBSET G, NEW T \in SUBSET G, NEW h \in G, Cardinality(G \ d) <= 0
               PROVE  Good(L[d][h], d \ T)
    OBVIOUS
  <2>1. G \ d = {}
    <3>1. IsFiniteSet(G \ d) /\ Cardinality(G \ d) \in Nat
      BY <1>1
    <3>2. Cardinality(G \ d) = 0
      BY <3>1
    <3> HIDE DEF G
    <3>3. QED BY <3>1, <3>2, FS_EmptySet
  <2>2. L[d][h] = <<>>
    BY <1>2, <2>1
  <2> HIDE DEF Good, L
  <2>3. QED BY <1>5, <2>2
<1>7. ASSUME NEW n \in Nat, Goods(n) PROVE Goods(n + 1)
  <2> SUFFICES ASSUME NEW d \in SUBSET G, NEW T \in SUBSET G, NEW h \in G,
                      Cardinality(G \ d) <= n + 1, Open(T), h \notin d
               PROVE  Good(L[d][h], d \ T)
    <3>1. ASSUME NEW d \in SUBSET G, NEW T \in SUBSET G, NEW h \in G, h \in d
          PROVE Good(L[d][h], d \ T)
      <4>1. L[d][h] = <<>>
        BY <1>2, <3>1
      <4> HIDE DEF Good, L
      <4>2. QED BY <1>5, <4>1
    <3> HIDE DEF Good, L, Open
    <3>2. QED BY <3>1
  <2> DEFINE u == LastOf(s, h)
             b == IF Up(h) \in G THEN L[d \cup {h}][Up(h)] ELSE <<>>
  <2>1. L[d][h] = Append(b, u) /\ u \in U /\ At(u).guid = h /\ h # None
    BY <1>2, <1>3
  <2>2. Cardinality(G \ (d \cup {h})) <= n
    <3>1. G \ (d \cup {h}) = (G \ d) \ {h}
      OBVIOUS
    <3>2. IsFiniteSet(G \ d) /\ Cardinality(G \ d) \in Nat /\ h \in G \ d
      BY <1>1
    <3> HIDE DEF G
    <3>3. Cardinality((G \ d) \ {h}) = Cardinality(G \ d) - 1
      BY <3>2, FS_RemoveElement
    <3>4. Cardinality(G \ d) - 1 <= n
      BY <3>2
    <3>5. QED BY <3>1, <3>3, <3>4
  <2>3. Good(b, d \ T)
    <3>1. CASE Up(h) \in G
      <4>1. Open(T \cup {h}) /\ d \cup {h} \in SUBSET G /\ T \cup {h} \in SUBSET G
        BY <3>1
      <4>2. Good(L[d \cup {h}][Up(h)], (d \cup {h}) \ (T \cup {h}))
        <5> HIDE DEF Good, L, G, Open
        <5>1. QED BY <1>7, <2>2, <3>1, <4>1
      <4>3. (d \cup {h}) \ (T \cup {h}) = d \ (T \cup {h})
        OBVIOUS
      <4>4. QED BY <3>1, <4>2, <4>3 DEF Follow
    <3>2. CASE Up(h) \notin G
      BY <1>5, <3>2
    <3>3. QED BY <3>1, <3>2
  <2>4. ASSUME NEW c \in U, Leads(c, u, U)
        PROVE  At(c).guid \in d \ T \/ \E j \in 1..Len(b) : b[j] = c
    <3>1. /\ At(c).guid = Up(h) /\ Up(h) # None /\ At(c).parent = None
          /\ \A v \in U : At(v).guid = Up(h) => v = c
      BY <2>4 DEF Leads, Alone
    <3>2. Up(h) \in G
      BY <1>4, <3>1
    <3>3. LastOf(s, Up(h)) = c /\ Up(Up(h)) = None /\ None \notin G
      BY <1>3, <3>1, <3>2
    <3>4. Up(h) # h /\ Up(h) \notin T
      BY <3>2, <3>3
    <3>5. CASE Up(h) \in d
      BY <3>1, <3>4, <3>5
    <3>6. CASE Up(h) \notin d
      <4>1. L[d \cup {h}][Up(h)] = Append(<<>>, c)
        <5>1. d \cup {h} \in SUBSET G /\ Up(h) \in G /\ Up(h) \notin d \cup {h} /\ Up(Up(h)) \notin G
          BY <3>2, <3>3, <3>4, <3>6
        <5> HIDE DEF G, L, Up
        <5>2. QED BY <1>2, <3>3, <5>1
      <4>2. b = <<c>>
        BY <3>2, <4>1
      <4> HIDE DEF b
      <4>3. QED BY <4>2
    <3>7. QED BY <3>5, <3>6
  <2> HIDE DEF b, u, G, L, Open, Up
  <2>5. /\ Append(b, u) \in Seq(U) /\ Len(Append(b, u)) = Len(b) + 1 /\ Len(b) \in Nat
        /\ Append(b, u)[Len(b) + 1] = u /\ \A i \in 1..Len(b) : Append(b, u)[i] = b[i]
    BY <2>1, <2>3
  <2>6. Follow(Append(b, u), d \ T, U)
    <3> DEFINE l == Append(b, u)
    <3> HIDE DEF l
    <3> SUFFICES ASSUME NEW i \in 1..Len(l), NEW c \in U, Leads(c, l[i], U)
                 PROVE  At(c).guid \in d \ T \/ \E j \in 1..(i - 1) : l[j] = c
      BY DEF Follow, l
    <3>1. CASE i <= Len(b)
      <4>1. i \in 1..Len(b) /\ l[i] = b[i]
        BY <2>5, <3>1 DEF l
      <4>2. At(c).guid \in d \ T \/ \E j \in 1..(i - 1) : b[j] = c
        BY <2>3, <4>1 DEF Follow
      <4>3. \A j \in 1..(i - 1) : l[j] = b[j]
        BY <2>5, <4>1 DEF l
      <4>4. QED BY <4>2, <4>3
    <3>2. CASE i = Len(b) + 1
      <4>1. l[i] = u
        BY <2>5, <3>2 DEF l
      <4>2. QED BY <2>4, <2>5, <3>2, <4>1 DEF l
    <3>3. Len(l) = Len(b) + 1 /\ Len(b) \in Nat
      BY <2>5 DEF l
    <3>4. QED BY <3>1, <3>2, <3>3
  <2>7. \A i \in 1..Len(Append(b, u)) : At(Append(b, u)[i]).guid # None
    BY <2>1, <2>3, <2>5
  <2>8. QED BY <2>1, <2>5, <2>6, <2>7
<1> HIDE DEF Goods
<1>8. S = Nat
  <2>1. S \subseteq Nat /\ 0 \in S /\ \A n \in S : n + 1 \in S
    BY <1>6, <1>7
  <2> HIDE DEF S
  <2>2. QED BY <2>1, Upwards
<1>9. Goods(Cardinality(G))
  BY <1>1, <1>8, FS_CardinalityType
<1>10. Good(L[done][g], done \ {})
  <2>1. Cardinality(G \ done) <= Cardinality(G) /\ {} \in SUBSET G /\ Open({})
    BY FS_Subset
  <2> HIDE DEF Good, L, G, Open
  <2>2. done \in SUBSET G /\ g \in G
    BY DEF G
  <2>3. QED BY <1>9, <2>1, <2>2 DEF Goods
<1>11. done \ {} = done
  OBVIOUS
<1>12. QED BY <1>10, <1>11


\* The plan of a batch: its own updates, each after the one that leads it,
\* unless it has no guid to be ordered by.
LEMMA ResolveFollows ==
  ASSUME NEW U, IsFiniteSet(U), NEW s \in SetToSeqs(U)
  PROVE  LET plan == Resolve(s) IN
         /\ plan \in Seq(U)
         /\ \A i \in 1..Len(plan), c \in U : Leads(c, plan[i], U) =>
              At(plan[i]).guid = None \/ \E j \in 1..(i - 1) : plan[j] = c
<1> DEFINE Led(plan) == \A i \in 1..Len(plan), c \in U : Leads(c, plan[i], U) =>
                          At(plan[i]).guid = None \/ \E j \in 1..(i - 1) : plan[j] = c
<1>1. s \in Seq(U) /\ Len(s) \in Nat /\ DOMAIN s = 1..Len(s) /\ \A u \in U : \E i \in 1..Len(s) : s[i] = u
  BY OrderOf
<1>2. IsFiniteSet(Named(s))
  <2> DEFINE g == [i \in 1..Len(s) |-> At(s[i]).guid]
             T == {At(s[i]).guid : i \in 1..Len(s)}
  <2>1. g \in Surjection(1..Len(s), T)
    BY DEF Surjection
  <2> HIDE DEF g
  <2>2. IsFiniteSet(T)
    BY <1>1, <2>1, FS_Interval, FS_Surjection
  <2>3. Named(s) = T \ {None}
    BY <1>1 DEF Named
  <2> HIDE DEF T
  <2>4. QED BY <2>2, <2>3, FS_RemoveElement
<1>3. PICK r : r = [n \in 0..Len(s) |-> Resolved(s, r, n)] /\ Resolve(s) = r[Len(s)]
  BY <1>1, ResolveIs
<1>4. \A n \in 0..Len(s) : r[n] = Resolved(s, r, n)
  BY <1>3
<1> DEFINE Good(n) == n \in 0..Len(s) => r[n] \in Seq(U) /\ Led(r[n])
           S == {n \in Nat : Good(n)}
<1>5. Good(0)
  <2>1. 0 \in 0..Len(s) => r[0] = <<>>
    BY <1>4 DEF Resolved
  <2>2. <<>> \in Seq(U) /\ Led(<<>>)
    OBVIOUS
  <2> HIDE DEF Led
  <2>3. QED BY <2>1, <2>2
<1>6. ASSUME NEW n \in Nat, Good(n) PROVE Good(n + 1)
  <2> SUFFICES ASSUME n + 1 \in 0..Len(s) PROVE r[n + 1] \in Seq(U) /\ Led(r[n + 1])
    OBVIOUS
  <2> DEFINE q == r[n]
             u == s[n + 1]
  <2>1. q \in Seq(U) /\ Led(q) /\ Len(q) \in Nat
    BY <1>6
  <2>2. u \in U /\ n + 1 \in DOMAIN s
    BY <1>1
  <2>3. r[n + 1] = Visit(s, q, u)
    <3>1. n + 1 # 0 /\ (n + 1) - 1 = n
      OBVIOUS
    <3>2. QED BY <1>4, <3>1 DEF Resolved
  <2> HIDE DEF q, u
  <2>4. CASE At(u).guid = None
    <3> DEFINE l == Append(q, u)
    <3>1. /\ l \in Seq(U) /\ Len(l) = Len(q) + 1 /\ l[Len(q) + 1] = u
          /\ \A i \in 1..Len(q) : l[i] = q[i]
      BY <2>1, <2>2
    <3> HIDE DEF l
    <3>2. ASSUME NEW i \in 1..Len(l), NEW c \in U, Leads(c, l[i], U)
          PROVE  At(l[i]).guid = None \/ \E j \in 1..(i - 1) : l[j] = c
      <4>1. CASE i = Len(q) + 1
        BY <2>4, <3>1, <4>1
      <4>2. CASE i \in 1..Len(q)
        <5>1. l[i] = q[i] /\ \A j \in 1..(i - 1) : l[j] = q[j]
          BY <2>1, <3>1, <4>2
        <5>2. QED BY <2>1, <3>2, <4>2, <5>1
      <4>3. QED BY <2>1, <3>1, <4>1, <4>2
    <3>3. r[n + 1] = l
      BY <2>3, <2>4 DEF Visit, l
    <3>4. QED BY <3>1, <3>2, <3>3
  <2>5. CASE At(u).guid # None
    <3> DEFINE b == Lineage(s)[Placed(q)][At(u).guid]
               l == q \o b
    <3>1. At(u).guid \in Named(s)
      BY <2>2, <2>5 DEF Named, u
    <3>2. Placed(q) \in SUBSET Named(s)
      <4> SUFFICES ASSUME NEW i \in DOMAIN q PROVE \E k \in DOMAIN s : At(s[k]).guid = At(q[i]).guid
        BY DEF Placed, Named
      <4>1. q[i] \in U
        BY <2>1
      <4>2. QED BY <1>1, <4>1
    <3>3. b \in Seq(U) /\ Follow(b, Placed(q), U)
      BY <1>1, <1>2, <3>1, <3>2, LineFollows
    <3>4. r[n + 1] = l
      BY <2>3, <2>5 DEF Visit
    <3> HIDE DEF b
    <3>5. /\ l \in Seq(U) /\ Len(l) = Len(q) + Len(b) /\ Len(b) \in Nat
          /\ \A i \in 1..Len(q) : l[i] = q[i]
          /\ \A i \in 1..Len(b) : l[Len(q) + i] = b[i]
      BY <2>1, <3>3
    <3> HIDE DEF l
    <3>6. ASSUME NEW i \in 1..Len(l), NEW c \in U, Leads(c, l[i], U)
          PROVE  At(l[i]).guid = None \/ \E j \in 1..(i - 1) : l[j] = c
      <4>1. CASE i \in 1..Len(q)
        <5>1. l[i] = q[i] /\ \A j \in 1..(i - 1) : l[j] = q[j]
          BY <2>1, <3>5, <4>1
        <5>2. QED BY <2>1, <3>6, <4>1, <5>1
      <4>2. CASE i \notin 1..Len(q)
        <5> DEFINE k == i - Len(q)
        <5>1. k \in 1..Len(b) /\ l[i] = b[k] /\ i > Len(q)
          <6>1. k \in 1..Len(b) /\ Len(q) + k = i /\ i > Len(q)
            BY <2>1, <3>5, <4>2
          <6> HIDE DEF k
          <6>2. QED BY <3>5, <6>1
        <5>2. At(c).guid \in Placed(q) \/ \E j \in 1..(k - 1) : b[j] = c
          BY <3>3, <3>6, <5>1 DEF Follow
        <5>3. CASE At(c).guid \in Placed(q)
          <6>1. PICK j \in DOMAIN q : At(q[j]).guid = At(c).guid
            BY <5>3 DEF Placed
          <6>2. j \in 1..Len(q) /\ q[j] \in U
            BY <2>1
          <6>3. q[j] = c
            BY <3>6, <6>1, <6>2 DEF Leads, Alone
          <6>4. l[j] = c /\ j \in 1..(i - 1)
            BY <2>1, <3>5, <5>1, <6>2, <6>3
          <6>5. QED BY <6>4
        <5>4. ASSUME NEW j \in 1..(k - 1), b[j] = c PROVE \E m \in 1..(i - 1) : l[m] = c
          <6>1. j \in 1..Len(b) /\ Len(q) + j \in 1..(i - 1)
            BY <2>1, <3>5, <5>1
          <6>2. l[Len(q) + j] = c
            BY <3>5, <5>4, <6>1
          <6>3. QED BY <6>1, <6>2
        <5>5. QED BY <5>2, <5>3, <5>4
      <4>3. QED BY <4>1, <4>2
    <3>7. QED BY <3>4, <3>5, <3>6
  <2>6. QED BY <2>4, <2>5
<1> HIDE DEF Good
<1>7. S = Nat
  <2>1. S \subseteq Nat /\ 0 \in S /\ \A n \in S : n + 1 \in S
    BY <1>5, <1>6
  <2> HIDE DEF S
  <2>2. QED BY <2>1, Upwards
<1>8. Good(Len(s))
  BY <1>1, <1>7
<1>9. Resolve(s) \in Seq(U) /\ Led(Resolve(s))
  BY <1>1, <1>3, <1>8 DEF Good
<1>10. QED BY <1>9

\* What the enhanced manager is about.
ChronoSound ==
  /\ chrono \in [phase : {"idle", "go", "refused"}, plan : Seq(chrono.batch),
                 batch : SUBSET UpdatesOf(AllFiles)]
  /\ OnlyMalformedRefused

LEMMA ChronoStays ==
  ASSUME ChronoSound, pending \subseteq AllFiles, ChronoStep
  PROVE  ChronoSound'
<1>1. NoChrono \in [phase : {"idle", "go", "refused"}, plan : Seq({}), batch : {{}}]
  BY DEF NoChrono
<1>2. ASSUME chrono' = NoChrono PROVE ChronoSound'
  BY <1>1, <1>2 DEF ChronoSound, OnlyMalformedRefused, NoChrono
<1>3. CASE StartChrono
  <2>1. PICK order \in SetToSeqs(Batch) :
          chrono' = [phase |-> IF \E i \in DOMAIN Resolve(order) : Misplaced(Resolve(order), i)
                               THEN "refused" ELSE "go",
                     plan |-> Resolve(order), batch |-> Batch]
    BY <1>3 DEF StartChrono
  <2>2. Batch \subseteq UpdatesOf(AllFiles) /\ IsFiniteSet(Batch)
    <3>1. pending \ {Legacy} \subseteq AllFiles
      OBVIOUS
    <3>2. Batch \subseteq UpdatesOf(AllFiles)
      BY <3>1 DEF Batch, UpdatesOf
    <3>3. QED BY <3>1, <3>2, UpdatesFinite DEF Batch
  <2> DEFINE U == Batch
             plan == Resolve(order)
  <2>3. /\ plan \in Seq(U)
        /\ \A i \in 1..Len(plan), c \in U : Leads(c, plan[i], U) =>
              At(plan[i]).guid = None \/ \E j \in 1..(i - 1) : plan[j] = c
    BY <2>2, ResolveFollows
  <2> HIDE DEF U, plan
  <2>4. ASSUME NEW i \in DOMAIN plan, Misplaced(plan, i) PROVE AtFault(plan[i], U)
    <3> SUFFICES ASSUME At(plan[i]).number # 0 \/ At(plan[i]).parent # None, At(plan[i]).guid # None,
                        Alone(At(plan[i]).parent, U),
                        NEW c \in U, At(c).kind = "create", At(c).guid = At(plan[i]).parent,
                        At(c).parent = None
                 PROVE  FALSE
      BY DEF AtFault
    <3>1. At(plan[i]).parent # None /\ i \in 1..Len(plan)
      BY <2>3, <2>4 DEF Misplaced
    <3>2. Leads(c, plan[i], U)
      BY <3>1 DEF Leads
    <3>3. PICK j \in 1..(i - 1) : plan[j] = c
      BY <2>3, <3>1, <3>2
    <3>4. QED BY <2>4, <3>1, <3>3 DEF Misplaced
  <2>5. chrono'.plan = plan /\ chrono'.batch = U /\ chrono'.phase \in {"refused", "go"}
    BY <2>1 DEF U, plan
  <2>6. OnlyMalformedRefused'
    BY <2>4, <2>5 DEF OnlyMalformedRefused
  <2>7. QED BY <2>1, <2>2, <2>3, <2>6 DEF ChronoSound, U, plan
<1>4. CASE EndChrono
  BY <1>2, <1>4 DEF EndChrono
<1>5. ASSUME NEW u \in chrono.batch, chrono.plan # <<>>, Treat(u) PROVE ChronoSound'
  <2>1. CASE chrono' = [chrono EXCEPT !.plan = Tail(@)]
    <3>1. chrono.phase = "go" /\ Tail(chrono.plan) \in Seq(chrono.batch)
      BY <1>5 DEF Treat, ChronoSound
    <3>2. chrono' = [phase |-> "go", plan |-> Tail(chrono.plan), batch |-> chrono.batch]
      BY <2>1, <3>1 DEF ChronoSound
    <3>3. QED BY <3>1, <3>2 DEF ChronoSound, OnlyMalformedRefused
  <2>2. QED BY <1>2, <1>5, <2>1 DEF Treat, Treated
<1>6. QED BY <1>3, <1>4, <1>5 DEF ChronoStep

LEMMA ChronoKept ==
  ASSUME ChronoSound, UNCHANGED chrono
  PROVE  ChronoSound'
BY DEF ChronoSound, OnlyMalformedRefused

-----------------------------------------------------------------------------
(* The theorems about the issues.                                           *)

IssueInv == spent \in 0..Budget /\ RunInv /\ ClosersSound /\ ScannersSound

LEMMA IssuesBegin == Init => IssueInv
<1> SUFFICES ASSUME Init PROVE IssueInv
  OBVIOUS
<1>1. /\ issues \in Starts /\ spent = 0 /\ pending = {} /\ archived = {} /\ malformed = {}
      /\ run = Idle /\ posted = [k \in Keys |-> 0] /\ blind = {} /\ tried = {} /\ lost = {}
  BY DEF Init, UpdatesInit, TrackerInit
<1>2. IssuesSound
  BY <1>1, TrackerAssumption DEF IssuesSound
<1>3. Dirs = {}
  BY <1>1 DEF Dirs
<1>4. UpdatesSound
  BY <1>1, <1>3, IdleSound DEF UpdatesSound, DirectorySound, RunSound, Idle, UpdatesOf
<1>5. TwinsSound
  <2>1. \A n \in 0..MaxIssues, g \in Guids : <<n, g>> \in Keys /\ posted[<<n, g>>] = 0
    BY <1>1 DEF Keys
  <2>2. QED BY <1>1, <2>1, IdleSound, ZeroWithin DEF TwinsSound, NoTwins
<1>6. LowestStays
  BY <1>1, PassesAssumption DEF LowestStays, Numbers
<1>7. ClosersSound
  BY <1>6, ZeroWithin DEF Init, ClosersSound
<1>8. ScannersSound
  BY <1>1, <1>3 DEF Init, ScannersSound, Scanner, KeptIsKept
<1>9. QED BY <1>1, <1>2, <1>4, <1>5, <1>7, <1>8, BudgetAssumption DEF IssueInv, RunInv

\* No step exceeds the budget.
LEMMA IssuesBudget ==
  ASSUME spent \in 0..Budget, [Next]_vars
  PROVE  spent' \in 0..Budget
<1>1. SUFFICES Spend \/ Free \/ spent' = spent
  BY BudgetAssumption DEF Spend, Free
<1>2. ASSUME NEW u, UpdateStep(u) PROVE Spend \/ Free \/ spent' = spent
  <2>1. CASE CheckCreate(u) \/ Recheck(u)
    BY <2>1 DEF CheckCreate, Recheck, Listing, Fault, NoFault
  <2>2. CASE PostCreate(u) \/ DoComment(u) \/ DoTypo(u)
    BY <2>2 DEF PostCreate, DoComment, DoTypo, Fault, NoFault, tracker
  <2>3. CASE DoUpdate(u) \/ DoClose(u) \/ DoDelete(u)
    BY <2>3 DEF DoUpdate, DoClose, DoDelete, Request, Gone, Fault, NoFault
  <2>4. QED BY <1>2, <2>1, <2>2, <2>3 DEF UpdateStep
<1>3. CASE RunStep \/ Crash
  BY <1>2, <1>3 DEF RunStep, Load, Archive, Crash, Fault, NoFault, tracker
<1>4. ASSUME NEW f, Arrive(f) PROVE spent' = spent
  BY <1>4 DEF Arrive, tracker
<1>5. CASE ChronoStep
  BY <1>5 DEF ChronoStep, StartChrono, EndChrono, Treat, Fault, NoFault
<1>6. CASE PersonStep
  BY <1>6 DEF PersonStep, Opens, Closes, Reopens
<1>7. ASSUME NEW c, CloserStep(c) PROVE Spend \/ Free \/ spent' = spent
  BY <1>7 DEF CloserStep, ListOpen, CloseDuplicate, NoteDuplicate, CloserCrash, Fault, NoFault
<1>8. ASSUME NEW s, ScannerStep(s) PROVE Spend \/ Free \/ spent' = spent
  BY <1>8 DEF ScannerStep, ListClosed, StartsScan, Scan, Fault, NoFault
<1>9. CASE UNCHANGED vars
  BY <1>9 DEF vars, uvars, tracker
<1>10. QED BY <1>3, <1>4, <1>5, <1>6, <1>7, <1>8, <1>9 DEF Next

LEMMA IssuesGo == IssueInv /\ [Next]_vars => IssueInv'
<1> SUFFICES ASSUME IssueInv, [Next]_vars PROVE IssueInv'
  OBVIOUS
<1> USE DEF IssueInv
<1>1. spent' \in 0..Budget
  BY IssuesBudget
<1>2. CASE (RunStep \/ Crash \/ ChronoStep) /\ UNCHANGED <<closer, scanner>>
  <2>1. RunKeeps
    BY <1>2, RunStepKeeps, ChronoKeeps
  <2>2. QED BY <1>1, <1>2, <2>1, ClosersStay, ScannersStay DEF RunKeeps, RunInv
<1>3. ASSUME NEW f \in Files, Arrive(f), UNCHANGED <<closer, scanner>> PROVE IssueInv'
  <2>1. /\ IssuesSound' /\ Later /\ ClosesNone /\ UpdatesSound' /\ TwinsSound'
        /\ Dirs' = Dirs \cup {f} /\ f \notin DeleteFiles
    BY <1>3, ArriveKeeps, UpdatesAssumption
  <2>2. QED BY <1>1, <1>3, <2>1, ClosersStay, ScannersStay DEF RunInv
<1>4. CASE /\ PersonStep
           /\ UNCHANGED <<directory, run, posted, blind, tried, lost, chrono, closer, scanner>>
  <2>1. IssuesSound' /\ Later /\ ClosesNone
    BY <1>4, PeopleKeep DEF RunInv
  <2>2. UpdatesSound' /\ TwinsSound' /\ Dirs' = Dirs
    BY <1>4, <2>1, OthersKeep
  <2>3. QED BY <1>1, <1>4, <2>1, <2>2, ClosersStay, ScannersStay DEF RunInv
<1>5. ASSUME NEW c \in Closings, CloserStep(c),
             UNCHANGED <<directory, run, posted, blind, tried, lost, chrono, scanner>>
      PROVE  IssueInv'
  <2>1. IssuesSound' /\ Later /\ ClosersSound'
    BY <1>5, CloserKeeps DEF RunInv
  <2>2. UpdatesSound' /\ TwinsSound' /\ Dirs' = Dirs
    BY <1>5, <2>1, OthersKeep
  <2>3. QED BY <1>1, <1>5, <2>1, <2>2, ScannersStay DEF RunInv
<1>6. ASSUME NEW s \in Scans, ScannerStep(s),
             UNCHANGED <<archived, malformed, run, posted, blind, tried, lost, chrono, closer>>
      PROVE  IssueInv'
  <2>1. /\ IssuesSound' /\ Later /\ ClosesNone /\ UpdatesSound' /\ TwinsSound'
        /\ ScannersSound'
    BY <1>6, ScannerKeeps
  <2>2. QED BY <1>1, <1>6, <2>1, ClosersStay DEF RunInv
<1>7. CASE UNCHANGED vars
  <2>1. UNCHANGED <<issues, directory, run, posted, blind, tried, lost, closer, scanner>>
    BY <1>7 DEF vars, uvars, tracker, directory
  <2>2. IssuesSound' /\ Later /\ ClosesNone
    BY <2>1, StaysSame DEF RunInv
  <2>3. UpdatesSound' /\ TwinsSound' /\ Dirs' = Dirs
    BY <2>1, <2>2, OthersKeep
  <2>4. QED BY <1>1, <2>1, <2>2, <2>3, ClosersStay, ScannersStay DEF RunInv
<1>8. QED BY <1>2, <1>3, <1>4, <1>5, <1>6, <1>7 DEF Next

THEOREM IssuesHold == Spec => []IssueInv
<1>1. IssueInv /\ [Next]_vars => IssueInv'
  BY IssuesGo
<1>2. QED BY <1>1, IssuesBegin, PTL DEF Spec

\* The enhanced manager takes up what is in the directory; nobody else touches
\* what it plans.
LEMMA ChronoHolds == Spec => []ChronoSound
<1>1. Init => ChronoSound
  <2>1. <<>> \in Seq({})
    OBVIOUS
  <2>2. QED BY <2>1 DEF Init, ChronoSound, NoChrono, OnlyMalformedRefused
<1>2. ASSUME IssueInv, ChronoSound, [Next]_vars PROVE ChronoSound'
  <2>1. pending \subseteq AllFiles
    BY <1>2 DEF IssueInv, RunInv, UpdatesSound, DirectorySound, Dirs
  <2>2. CASE ChronoStep
    BY <1>2, <2>1, <2>2, ChronoStays
  <2>3. CASE UNCHANGED chrono
    BY <1>2, <2>3, ChronoKept
  <2>4. QED BY <1>2, <2>2, <2>3 DEF Next, vars
<1>3. QED BY <1>1, <1>2, IssuesHold, PTL DEF Spec

\* The run, the directory, the enhanced manager and the passes keep their types.
THEOREM IssuesTyped == Spec => []TypeOK
<1>1. ASSUME IssueInv, ChronoSound PROVE TypeOK
  <2> USE <1>1 DEF IssueInv
  <2>1. TrackerTypeOK
    BY DEF TrackerTypeOK, RunInv, IssuesSound
  <2>2. \A u \in tried \cup lost : u[1] \in AllFiles /\ u[2] \in DOMAIN ContentOf(u[1])
    BY DEF RunInv, UpdatesSound, Everything, UpdatesOf
  <2>3. UpdatesTypeOK
    BY <2>1, <2>2 DEF UpdatesTypeOK, RunInv, UpdatesSound, DirectorySound, Dirs, RunSound,
       UpdateRun, TwinsSound
  <2>4. \A c \in Closings : closer[c].plan \subseteq Numbers \X Numbers
    BY DEF ClosersSound, OlderThere
  <2>5. \A s \in Scans : scanner[s].closed \subseteq Numbers \X Titles
    BY DEF ScannersSound, Scanner, Listed
  <2>6. PassesTypeOK
    BY <2>4, <2>5 DEF PassesTypeOK, ClosersSound, ScannersSound, Scanner
  <2>7. ChronoTypeOK
    <3>1. \A i \in DOMAIN chrono.plan : chrono.plan[i] \in chrono.batch
      BY DEF ChronoSound
    <3>2. QED BY <3>1 DEF ChronoTypeOK, ChronoSound
  <2>8. QED BY <2>3, <2>6, <2>7 DEF TypeOK
<1>2. QED BY <1>1, IssuesHold, ChronoHolds, PTL

\* Whatever the order of the dates, an update that the enhanced manager refuses
\* is itself at fault (OnlyMalformedRefused).
THEOREM RefusesMalformed == Spec => []OnlyMalformedRefused
<1>1. ChronoSound => OnlyMalformedRefused
  BY DEF ChronoSound
<1>2. QED BY <1>1, ChronoHolds, PTL

\* Over all runs, crashes, lost answers and what people and the other programs
\* do in between, a creation or comment is carried out twice only when its
\* check could not see the first (NoTwins).
THEOREM CreatedOnce == Spec => []NoTwins
<1>1. IssueInv => NoTwins
  BY DEF IssueInv, RunInv, TwinsSound
<1>2. QED BY <1>1, IssuesHold, PTL

\* However many passes of close-duplicates overlap, an issue they closed has an
\* older one of its title that they left (LowestStays).
THEOREM OldestStaysOpen == Spec => []LowestStays
<1>1. IssueInv => LowestStays
  BY DEF IssueInv, ClosersSound
<1>2. QED BY <1>1, IssuesHold, PTL

\* No pass of the cleanup writes a delete file for the issue that another of its
\* files names as the one to keep, renamed ones apart (KeptIsKept).
THEOREM NamedIsKept == Spec => []KeptIsKept
<1>1. IssueInv => KeptIsKept
  BY DEF IssueInv, ScannersSound
<1>2. QED BY <1>1, IssuesHold, PTL

\* A run archives a file when it has tried all its updates, or has skipped one
\* that was done (ArchivedAfterTry).
THEOREM ArchivesTried == Spec => ArchivedAfterTry
<1> DEFINE Fair(f) == UpdatesOf({f}) \subseteq tried' \/ f \in run'.moved \/ run' = run
<1>1. ASSUME IssueInv, [Next]_vars, NEW f \in (archived' \ archived) \ {Legacy}
      PROVE  Fair(f)
  <2> USE <1>1
  <2>1. ASSUME NEW u \in run.todo, UpdateStep(u) PROVE Fair(f)
    <3>1. CASE Skip(u)
      <4>1. f = u[1] /\ run'.moved = run.moved \cup {u[1]}
        BY <2>1, <3>1, SkipOver DEF IssueInv, RunInv, Skip, MoveToProcessed
      <4>2. QED BY <4>1
    <3>2. CASE UNCHANGED directory \/ DoTypo(u)
      BY <3>2 DEF directory, DoTypo, FailsInPlace
    <3>3. QED BY <2>1, <3>1, <3>2 DEF UpdateStep, CheckCreate, Recheck, PostCreate, DoUpdate,
             DoClose, DoDelete, DoComment, FailsInPlace
  <2>2. CASE Archive
    <3>1. f \in run.loaded /\ run.phase = "end" /\ tried' = tried
      BY <2>2 DEF Archive, Archived, MarkedLegacy
    <3>2. UpdatesOf({f}) \subseteq UpdatesOf(run.loaded)
      BY <3>1, UpdatesOfMore
    <3>3. QED BY <3>1, <3>2 DEF IssueInv, RunInv, UpdatesSound, RunSound
  <2>3. CASE Load \/ Crash
    BY <2>3 DEF Load, Crash, directory
  <2>4. ASSUME NEW g, Arrive(g) PROVE Fair(f)
    BY <2>4 DEF Arrive
  <2>5. CASE ChronoStep
    BY <2>5 DEF ChronoStep, StartChrono, EndChrono, Treat
  <2>6. CASE UNCHANGED directory \/ UNCHANGED <<archived, malformed, run, posted, blind, tried, lost, chrono, closer>>
    BY <2>6 DEF directory
  <2>7. CASE UNCHANGED vars
    BY <2>7 DEF vars, uvars
  <2>8. QED BY <2>1, <2>2, <2>3, <2>4, <2>5, <2>6, <2>7 DEF Next, RunStep, directory
<1>2. IssueInv /\ [Next]_vars =>
        [\A f \in (archived' \ archived) \ {Legacy} :
           UpdatesOf({f}) \subseteq tried' \/ f \in run'.moved \/ run' = run]_vars
  BY <1>1
<1>3. QED BY <1>2, IssuesHold, PTL DEF Spec, ArchivedAfterTry

=============================================================================
