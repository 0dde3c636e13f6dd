------------------------------ MODULE FileSync ------------------------------
(***************************************************************************)
(* The programs that copy files of ghcommon: repo-sync.py ("tracked") and   *)
(* sync-repo-setup.py ("setup") into the operator's clone, the receiver of  *)
(* the sync workflow ("receiver") and intelligent_sync_to_repos.py ("bot")  *)
(* into clones of their own, which they push.                               *)
(* A name ending in Mut is a faulty variant of the definition after it; no  *)
(* specification uses it.                                                   *)
(***************************************************************************)
EXTENDS RepositoryFiles

VARIABLES
  job,      \* the run of each program
  tree      \* of the two clones: the commit and the files

Programs == {"tracked", "setup", "receiver", "bot"}
Cloners == {"receiver", "bot"}

Idle == [phase |-> "idle", force |-> FALSE, todo |-> {}, failed |-> {}, touched |-> {}]

SyncTypeOK ==
  /\ job \in [Programs -> [phase : {"idle", "copy", "folder", "end", "push"},
                          force : BOOLEAN, todo : SUBSET (Copied \cup Retired),
                          failed : SUBSET Copied, touched : SUBSET Files]]
  /\ tree \in [Cloners -> Clone] /\ \A c \in Cloners : TypeOfTree(tree[c].files)

SyncInit ==
  /\ job = [p \in Programs |-> Idle]
  /\ tree = [c \in Cloners |-> clone]

JAt(p, phase) == job[p].phase = phase
FilesOf(p) == IF p \in Cloners THEN tree[p].files ELSE clone.files
SetFiles(p, files) ==
  IF p \in Cloners THEN tree' = [tree EXCEPT ![p].files = files] /\ UNCHANGED clone
  ELSE clone' = [clone EXCEPT !.files = files] /\ UNCHANGED tree
\* Both programs of the operator work on one clone.
Other(p) == IF p = "tracked" THEN "setup" ELSE "tracked"
Step(p, j, changed) ==
  job' = IF p \in Cloners THEN [job EXCEPT ![p] = j]
         ELSE [job EXCEPT ![p] = j,
                 ![Other(p)].touched = IF JAt(Other(p), "idle") THEN {} ELSE @ \cup changed]

\* The bot also removes retired files.
TodoOf(p) == Copied \cup (IF p = "bot" THEN Retired ELSE {})

\* The workflow of the receiver is started by hand only, with or without the
\* input force_sync; here it may be started at any time, the others are counted.
Forces(p) == IF p = "receiver" THEN BOOLEAN ELSE {FALSE}
StartJob(p) ==
  /\ JAt(p, "idle")
  /\ IF p = "receiver" THEN Free ELSE Spend
  /\ \E force \in Forces(p) :
       job' = [job EXCEPT ![p] = [Idle EXCEPT !.phase = "copy", !.force = force, !.todo = TodoOf(p)]]
  /\ IF p \in Cloners THEN tree' = [tree EXCEPT ![p] = [base |-> main, files |-> Content(main)]]
     ELSE UNCHANGED tree
  /\ UNCHANGED <<main, clone>>

\* Whether a program replaces what it finds: the setup leaves what is newer,
\* the tracked sync only what is the same, though it compares the versions.
ReplacesMut(p, v) == v # "source" /\ v # "newer" /\ v # "plain"
SetupReplaces(v) == v \notin {"source", "newer"}
TrackedReplaces(v) == v # "source"
Replaces(p, v) ==
  CASE p = "setup" -> SetupReplaces(v) [] p = "tracked" -> TrackedReplaces(v) [] OTHER -> TRUE

\* The setup and the receiver take the directory as a whole, the others take its
\* files one by one. A copy that fails is only reported; to the bot it is the end
\* of the run.
Singles(p) == job[p].todo \ (IF p \in {"setup", "receiver"} THEN Folder ELSE {})
CopyFile(p, f) ==
  /\ JAt(p, "copy") /\ f \in Singles(p)
  /\ LET j == [job[p] EXCEPT !.todo = @ \ {f}]
         v == IF f \in Retired THEN "absent" ELSE "source"
         files == FilesOf(p)
     IN \/ /\ f \in Retired \/ Replaces(p, files[f])
           /\ SetFiles(p, [files EXCEPT ![f] = v]) /\ Step(p, j, {f}) /\ Free
        \/ /\ f \notin Retired /\ ~Replaces(p, files[f])
           /\ SetFiles(p, files) /\ Step(p, j, {}) /\ Free
        \/ /\ SetFiles(p, files) /\ Spend
           /\ Step(p, IF p = "bot" THEN Idle ELSE [j EXCEPT !.failed = @ \cup ({f} \cap Copied)], {})
  /\ UNCHANGED main

\* The directory: removed with all in it, then copied. The setup leaves one
\* that is identical.
RemoveFolder(p) ==
  /\ JAt(p, "copy") /\ Singles(p) = {} /\ job[p].todo # {}
  /\ LET files == FilesOf(p)
         same == \A f \in Folder : files[f] = "source"
         identical == same /\ \A f \in Own : files[f] = "absent"
         j == [job[p] EXCEPT !.todo = {}]
     IN \/ /\ p = "setup" /\ identical
           /\ SetFiles(p, files) /\ Step(p, [j EXCEPT !.phase = "copy"], {}) /\ Free
        \/ /\ ~(p = "setup" /\ identical)
           /\ SetFiles(p, [f \in Files |-> IF f \in Folder \cup Own THEN "absent" ELSE files[f]])
           /\ Step(p, [j EXCEPT !.phase = "folder"], Folder \cup Own) /\ Free
        \/ /\ SetFiles(p, files) /\ Spend
           /\ Step(p, [j EXCEPT !.failed = @ \cup Folder], {})
  /\ UNCHANGED main

CopyFolder(p) ==
  /\ JAt(p, "folder")
  /\ LET files == FilesOf(p) IN
     \E done \in {Folder, {}} :
       /\ SetFiles(p, [f \in Files |-> IF f \in done THEN "source" ELSE files[f]])
       /\ IF done = Folder THEN Free ELSE Spend
       /\ Step(p, [job[p] EXCEPT !.phase = "copy", !.failed = @ \cup (Folder \ done)], Folder)
  /\ UNCHANGED main

\* A commit needs a change of the tree, new files included. The receiver comes
\* to it only when git diff shows one, which sees the files of the commit alone,
\* or when it is forced.
Uncommitted(p) == tree[p].files # Content(tree[p].base)
DiffShows(p) == \E f \in Files : tree[p].base[f].val \notin {"absent", tree[p].files[f]}
CommitsMut(p) == IF p = "bot" THEN Uncommitted(p) ELSE DiffShows(p)
Commits(p) == Uncommitted(p) /\ (p = "bot" \/ job[p].force \/ DiffShows(p))

\* The programs of the operator report.
FinishCopy(p) ==
  /\ JAt(p, "copy") /\ job[p].todo = {} /\ Free
  /\ job' = [job EXCEPT ![p] =
       IF p \notin Cloners THEN [@ EXCEPT !.phase = "end"]
       ELSE IF Commits(p) THEN [@ EXCEPT !.phase = "push"] ELSE Idle]
  /\ UNCHANGED <<main, clone, tree>>

Report(p) ==
  /\ JAt(p, "end") /\ Free
  /\ job' = [job EXCEPT ![p] = Idle]
  /\ UNCHANGED <<main, clone, tree>>

\* The push of the receiver is refused when the branch has moved; that of the
\* bot is forced. A branch that is not the default one is not in a shallow
\* clone: its push fails, and the run reports that there was nothing to do.
PushTreeMut(p) ==
  /\ JAt(p, "push") /\ main' = Pushed(tree[p].files) /\ Free
  /\ job' = [job EXCEPT ![p] = Idle]
  /\ UNCHANGED <<clone, tree>>
PushTree(p) ==
  /\ JAt(p, "push")
  /\ \/ (p = "bot" \/ tree[p].base = main) /\ main' = Pushed(tree[p].files) /\ Free
     \/ p = "receiver" /\ tree[p].base # main /\ UNCHANGED main /\ Free
     \/ UNCHANGED main /\ Spend
  /\ job' = [job EXCEPT ![p] = Idle]
  /\ UNCHANGED <<clone, tree>>

\* The program is stopped, between the removal of a directory and its copy too.
StopJob(p) ==
  /\ ~JAt(p, "idle") /\ Spend
  /\ job' = [job EXCEPT ![p] = Idle]
  /\ UNCHANGED <<main, clone, tree>>

JobGoesOn(p) ==
  \/ \E f \in job[p].todo : CopyFile(p, f)
  \/ RemoveFolder(p) \/ CopyFolder(p) \/ FinishCopy(p) \/ Report(p) \/ PushTree(p)
SyncStep(p) == StartJob(p) \/ JobGoesOn(p) \/ StopJob(p)

=============================================================================
