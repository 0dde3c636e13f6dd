---------------------------- MODULE IssueUpdates ----------------------------
(***************************************************************************)
(* issue_manager.py update-issues: a run loads the update files of a        *)
(* directory, carries out the creations and then the other updates, and     *)
(* archives every file it loaded when at least one update succeeded.        *)
(*                                                                         *)
(* Abstractions: a file is its sequence of updates; names decide the order  *)
(* between files, which is any, the legacy file first. An update has one    *)
(* guid. A file that cannot be parsed is never loaded and is left out. The  *)
(* run goes with the default prevention (guid and title), and is not dry.   *)
(* A name ending in Mut is a faulty variant of the definition after it; no  *)
(* specification uses it.                                                   *)
(***************************************************************************)
EXTENDS IssueTracker

CONSTANTS
  Files,     \* names of the update files people write
  Content,   \* the updates in each
  Legacy,    \* the one that is issue_updates.json
  Scans      \* passes of duplicate_cleanup.py, which write delete files

Update == [kind : {"create", "update", "comment", "close", "delete", "typo"},
           guid : Guids \cup {None},
           title : Titles \cup {None},
           text : BOOLEAN,                  \* it has a body
           number : Nat,                    \* 0 when it names no issue
           parent : Guids \cup {None}]

\* A delete file names the issue, its canonical issue and the pass.
DeleteFiles == (1..MaxIssues) \X (1..MaxIssues) \X Scans

ASSUME UpdatesAssumption ==
  /\ Content \in [Files -> Seq(Update)]
  /\ \A f \in Files : \A i \in DOMAIN Content[f] :
       Content[f][i].kind = "create" =>
         Content[f][i].title # None /\ Content[f][i].guid # None
  /\ IsFiniteSet(Files) /\ IsFiniteSet(Scans)
  /\ Files \cap DeleteFiles = {}
  /\ Legacy \notin DeleteFiles
  /\ None \notin Files \cup DeleteFiles

VARIABLES
  pending,    \* files in the directory
  archived,   \* files moved to processed/, or marked .processed
  malformed,  \* files moved to malformed/ or failed/
  run,        \* the process
  posted,     \* how often the creation with a guid (0) was done, or the comment
              \* with it was said on an issue
  blind,      \* of those, the ones not looked for in all that was there
  tried,      \* updates some run tried
  lost        \* updates that failed or were skipped and are not tried again

directory == <<pending, archived, malformed>>
uvars == <<tracker, pending, archived, malformed, run, posted, blind, tried, lost>>

AllFiles == Files \cup DeleteFiles
DeletionOf(n) == <<[kind |-> "delete", guid |-> None, title |-> None, text |-> FALSE,
                    number |-> n, parent |-> None]>>
ContentOf(f) == IF f \in DeleteFiles THEN DeletionOf(f[1]) ELSE Content[f]
UpdatesOf(F) == UNION {{<<f, i>> : i \in DOMAIN ContentOf(f)} : f \in F}
At(u) == ContentOf(u[1])[u[2]]

Keys == (0..MaxIssues) \X Guids

Idle == [phase |-> "idle", loaded |-> {}, todo |-> {}, now |-> None, won |-> FALSE,
         map |-> {}, failed |-> {}, moved |-> {}]

UpdatesTypeOK ==
  /\ TrackerTypeOK
  /\ pending \subseteq AllFiles /\ archived \subseteq AllFiles
  /\ malformed \subseteq AllFiles
  /\ run.phase \in {"idle", "next", "recheck", "post", "end"}
  /\ run.loaded \subseteq AllFiles
  /\ run.todo \subseteq UpdatesOf(run.loaded)
  /\ run.failed \subseteq UpdatesOf(run.loaded) \ run.todo
  /\ IF run.phase \in {"recheck", "post"} THEN run.now \in run.todo ELSE run.now = None
  /\ run.moved \subseteq run.loaded \ pending
  /\ posted \in [Keys -> Nat]
  /\ blind \subseteq Keys
  /\ \A u \in tried \cup lost : u[1] \in AllFiles /\ u[2] \in DOMAIN ContentOf(u[1])

UpdatesInit ==
  /\ TrackerInit
  /\ pending = {} /\ archived = {} /\ malformed = {}
  /\ run = Idle
  /\ posted = [k \in Keys |-> 0]
  /\ blind = {} /\ tried = {} /\ lost = {}

\* Somebody puts a file into the directory.
Arrive(f) ==
  /\ f \in Files \ (pending \cup archived \cup malformed)
  /\ pending' = pending \cup {f}
  /\ UNCHANGED <<tracker, archived, malformed, run, posted, blind, tried, lost>>

-----------------------------------------------------------------------------
(* A run.                                                                   *)

LoadMut ==
  /\ run.phase = "idle" /\ UpdatesOf(pending) # {}
  /\ run' = [Idle EXCEPT !.phase = "next", !.loaded = pending, !.todo = UpdatesOf(pending)]
  /\ pending' = {} /\ archived' = archived \cup pending
  /\ UNCHANGED <<tracker, malformed, posted, blind, tried, lost>>
Load ==
  /\ run.phase = "idle" /\ UpdatesOf(pending) # {}
  /\ run' = [Idle EXCEPT !.phase = "next", !.loaded = pending, !.todo = UpdatesOf(pending)]
  /\ UNCHANGED <<tracker, directory, posted, blind, tried, lost>>

\* Creations come first, then the legacy file; within a file the order is kept.
Creations == {u \in run.todo : At(u).kind = "create"}
Candidates == IF Creations # {} THEN Creations ELSE run.todo
Next1(u) ==
  /\ u \in Candidates
  /\ \A v \in Candidates : IF v[1] = u[1] THEN u[2] <= v[2] ELSE v[1] # Legacy

\* The update in hand is over: it succeeded, or it did not.
Tried(u) == tried' = tried \cup {u}
After(r, u) == [r EXCEPT !.todo = @ \ {u}, !.now = None,
                         !.phase = IF r.todo = {u} THEN "end" ELSE "next"]
Succeeds(u) == run' = [After(run, u) EXCEPT !.won = TRUE] /\ Tried(u)
Fails(u) == run' = [After(run, u) EXCEPT !.failed = @ \cup {u}] /\ Tried(u)
FailsInPlace(u) == Fails(u) /\ UNCHANGED directory

\* The check for the marker reads the listed issues from the newest on; an
\* issue without a body raises, and the guid then counts as unused.
GuidSeenMut(g, list) ==
  \E n \in list : /\ issues[n].guid = g /\ issues[n].body = "marked"
                  /\ issues[n].state = "open"
                  /\ \A k \in list : k > n => issues[k].body # "null"
GuidSeen(g, list) ==
  \E n \in list : /\ issues[n].guid = g /\ issues[n].body = "marked"
                  /\ \A k \in list : k > n => issues[k].body # "null"

AllStates == {"open", "closed"}
Whole(list) == list = Matching(AllStates) /\ \A n \in list : issues[n].body # "null"

\* The search may lag behind the issues; without it they are listed.
Searched(twins) == SUBSET twins
TitleTwins(t) == {n \in Numbers : Lives(n) /\ issues[n].title = t}

\* A file whose update was done before moves at once, with all its updates; a
\* move that fails is only reported, and the file stays.
MoveToProcessed(f) ==
  /\ pending' = pending \ {f}
  /\ archived' = archived \cup (pending \cap {f})
  /\ UNCHANGED malformed
Skip(u) ==
  /\ MoveToProcessed(u[1])
  /\ run' = [After(run, u) EXCEPT !.failed = @ \cup {u}, !.moved = @ \cup {u[1]}]
  /\ Tried(u)

\* A creation: the first check of its guid.
CheckCreate(u) ==
  /\ run.phase = "next" /\ Next1(u) /\ At(u).kind = "create"
  /\ \E list \in Newest(AllStates) :
       \/ Listing(AllStates, list) /\ GuidSeen(At(u).guid, list) /\ Skip(u)
       \/ Fault /\ GuidSeen(At(u).guid, list) /\ FailsInPlace(u)
       \/ /\ Listing(AllStates, list) /\ ~GuidSeen(At(u).guid, list)
          /\ run' = [run EXCEPT !.phase = "recheck", !.now = u]
          /\ UNCHANGED <<directory, tried>>
  /\ UNCHANGED <<issues, posted, blind, lost>>

\* The second check of the guid, and the check of the title.
Recheck(u) ==
  /\ run.phase = "recheck" /\ u = run.now
  /\ \E list \in Newest(AllStates), found \in Searched(TitleTwins(At(u).title)) :
       /\ Listing(AllStates, list)
       /\ \/ (GuidSeen(At(u).guid, list) \/ found # {}) /\ Fails(u) /\ UNCHANGED blind
          \/ /\ ~GuidSeen(At(u).guid, list) /\ found = {}
             /\ run' = [run EXCEPT !.phase = "post"] /\ UNCHANGED tried
             /\ blind' = IF Whole(list) THEN blind ELSE blind \cup {<<0, At(u).guid>>}
  /\ UNCHANGED <<issues, directory, posted, lost>>

Count(n, g) == posted' = [posted EXCEPT ![<<n, g>>] = @ + 1]

\* The issue is created, and the run may never hear of it; or it is not.
PostCreate(u) ==
  /\ run.phase = "post" /\ u = run.now
  /\ \/ /\ Create(At(u).title, At(u).guid, "marked")
        /\ Count(0, At(u).guid)
        /\ \/ /\ NoFault /\ Tried(u)
              /\ run' = [After(run, u) EXCEPT !.won = TRUE,
                                              !.map = @ \cup {<<At(u).guid, Len(issues) + 1>>}]
           \/ Fault /\ Fails(u)
     \/ Fault /\ Fails(u) /\ UNCHANGED <<issues, posted>>
  /\ UNCHANGED <<directory, blind, lost>>

\* A request about one issue: done and answered, done without an answer, or
\* not done. A request about an issue that is gone fails.
Request(u, effect) ==
  \/ effect /\ NoFault /\ Succeeds(u)
  \/ effect /\ Fault /\ Fails(u)
  \/ Fault /\ Fails(u) /\ UNCHANGED issues
Gone(u, n) == ~Lives(n) /\ NoFault /\ Fails(u) /\ UNCHANGED issues

\* The issue an update is about: the one it names, or the one this run made
\* for its parent guid.
TargetOf(u) ==
  IF At(u).number # 0 THEN {At(u).number}
  ELSE {p[2] : p \in {q \in run.map : q[1] = At(u).parent}}

DoUpdate(u) ==
  /\ run.phase = "next" /\ Next1(u) /\ At(u).kind = "update"
  /\ IF TargetOf(u) = {}
     THEN NoFault /\ Fails(u) /\ UNCHANGED issues
     ELSE \E n \in TargetOf(u) :
            \/ Lives(n) /\ Request(u, Patch(n, At(u).title, At(u).text))
            \/ Gone(u, n)
  /\ UNCHANGED <<directory, posted, blind, lost>>

DoClose(u) ==
  /\ run.phase = "next" /\ Next1(u) /\ At(u).kind = "close"
  /\ \/ Lives(At(u).number) /\ Request(u, CloseAs(At(u).number, "other"))
     \/ Gone(u, At(u).number)
  /\ UNCHANGED <<directory, posted, blind, lost>>

\* Without the permission to delete, the issue is closed instead.
DoDelete(u) ==
  /\ run.phase = "next" /\ Next1(u) /\ At(u).kind = "delete"
  /\ \/ Lives(At(u).number) /\ Request(u, Delete(At(u).number))
     \/ Lives(At(u).number) /\ Request(u, CloseAs(At(u).number, "other"))
     \/ Gone(u, At(u).number)
  /\ UNCHANGED <<directory, posted, blind, lost>>

\* The comments of the issue hold the guid of the update.
Said(n, g) == g # None /\ posted[<<n, g>>] > 0

\* A comment is looked for by its guid first; the lookup may fail, or the
\* comment be beyond the page it reads. The parent is not asked for the issue,
\* and one without a body is refused. Once it is posted, reading the URL out of the answer, a Boolean, raises: the
\* update counts as failed.
DoComment(u) ==
  /\ run.phase = "next" /\ Next1(u) /\ At(u).kind = "comment"
  /\ LET g == At(u).guid
         n == At(u).number
         posts == Lives(n) /\ At(u).text /\ FailsInPlace(u)
     IN \/ Lives(n) /\ Said(n, g) /\ Skip(u) /\ NoFault /\ UNCHANGED <<posted, blind>>
        \/ /\ posts /\ ~Said(n, g) /\ NoFault /\ UNCHANGED blind
           /\ IF g = None THEN UNCHANGED posted ELSE Count(n, g)
        \/ posts /\ Said(n, g) /\ Fault /\ Count(n, g) /\ blind' = blind \cup {<<n, g>>}
        \/ /\ FailsInPlace(u) /\ UNCHANGED <<posted, blind>>
           /\ IF Lives(n) /\ (At(u).text \/ Said(n, g)) THEN Fault ELSE NoFault
  /\ UNCHANGED <<issues, lost>>

\* An action nobody knows moves its file to malformed/.
DoTypo(u) ==
  /\ run.phase = "next" /\ Next1(u) /\ At(u).kind = "typo"
  /\ \/ /\ pending' = pending \ {u[1]}
        /\ malformed' = malformed \cup (pending \cap {u[1]})
        /\ Fails(u) /\ NoFault /\ UNCHANGED archived
     \/ Fault /\ FailsInPlace(u)
  /\ UNCHANGED <<issues, posted, blind, lost>>

\* With one success every loaded file is archived, the failed ones included;
\* the legacy file is marked when it is there now, loaded or not. A move or the
\* mark may fail; the first move that does ends them.
ArchivedMut == IF run.won THEN pending ELSE {}
MarkedLegacy == pending \cap {Legacy}
Archived == IF run.won THEN (pending \cap run.loaded) \cup MarkedLegacy ELSE {}
Archive ==
  /\ run.phase = "end"
  /\ \E done \in SUBSET Archived :
       /\ pending' = pending \ done
       /\ archived' = archived \cup done
       /\ lost' = lost \cup {u \in run.failed : u[1] \in done \cup run.moved}
       /\ IF done = Archived THEN NoFault ELSE Fault
  /\ run' = Idle
  /\ UNCHANGED <<issues, malformed, posted, blind, tried>>

\* The run dies; what it had skipped over in a moved file is not tried again.
Crash ==
  /\ run.phase # "idle" /\ Fault
  /\ lost' = lost \cup {u \in run.todo \cup run.failed : u[1] \in run.moved \cup malformed}
  /\ run' = Idle
  /\ UNCHANGED <<issues, directory, posted, blind, tried>>

UpdateStep(u) ==
  \/ CheckCreate(u) \/ Recheck(u) \/ PostCreate(u)
  \/ DoUpdate(u) \/ DoClose(u) \/ DoDelete(u) \/ DoComment(u) \/ DoTypo(u)
RunStep == Load \/ (\E u \in run.todo : UpdateStep(u)) \/ Archive

=============================================================================
