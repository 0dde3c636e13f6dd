-------------------------- MODULE AutomationUpdate --------------------------
(***************************************************************************)
(* update-repository-automation.py: moves a repository to the unified       *)
(* automation through the contents interface of GitHub, one request after   *)
(* another: the old workflows are removed, the new one and its              *)
(* configuration are created, or the configuration there is completed.      *)
(* A name ending in Mut is a faulty variant of the definition after it; no  *)
(* specification uses it.                                                   *)
(***************************************************************************)
EXTENDS RepositoryFiles

VARIABLE updater

NoUpdate == [phase |-> "idle", cleanup |-> FALSE, force |-> FALSE, dry |-> FALSE, has |-> FALSE,
             file |-> Flow, read |-> [f \in Automation |-> 0], todo |-> {}, good |-> TRUE,
             touched |-> {}]

UpdaterTypeOK ==
  updater \in [phase : {"idle", "list", "detect", "clean", "validate", "patch",
                       "get", "del", "put", "end"},
               cleanup : BOOLEAN, force : BOOLEAN, dry : BOOLEAN, has : BOOLEAN, good : BOOLEAN,
               file : {Flow, Config}, read : [Automation -> Nat], todo : SUBSET Automation,
               touched : SUBSET Files]

UAt(phase) == updater.phase = phase
Keeps == UNCHANGED <<main, clone>>
Listed == {f \in Automation \ {Config} : updater.read[f] # 0}

StartUpdate ==
  /\ UAt("idle") /\ Spend /\ Keeps
  /\ \E cleanup, force, dry \in BOOLEAN :
       updater' = [NoUpdate EXCEPT !.phase = "list", !.cleanup = cleanup, !.force = force,
                                   !.dry = dry]

\* Any request may raise, which ends the run as a failure.
RequestRaises ==
  /\ ~UAt("idle") /\ ~UAt("end") /\ Spend /\ Keeps
  /\ updater' = [updater EXCEPT !.phase = "end", !.good = FALSE]

\* The numbers read here are those the removals name.
ListWorkflows ==
  /\ UAt("list") /\ Free /\ Keeps
  /\ updater' = [updater EXCEPT !.phase = "detect",
       !.read = [f \in Automation |->
                   IF f # Config /\ main[f].val # "absent" THEN main[f].sha ELSE 0]]

\* Whether the repository has the new workflow, as it is now, and a
\* configuration. What cannot be read counts as missing.
Detect ==
  /\ UAt("detect") /\ Keeps
  /\ \E has \in BOOLEAN :
       LET keeps == has /\ ~updater.force IN
       /\ \/ Free /\ has = (Flow \in Listed /\ main[Flow].val = "reusable" /\ main[Config].val # "absent")
          \/ Spend /\ ~has
       /\ updater' = [updater EXCEPT !.has = has,
            !.phase = IF updater.cleanup THEN "clean" ELSE IF keeps THEN "validate" ELSE "get",
            !.todo = IF updater.cleanup THEN Listed ELSE {}]

\* Every listed workflow whose name holds a pattern goes, the new one too.
RemoveOld(f) ==
  /\ UAt("clean") /\ f \in updater.todo /\ UNCHANGED clone
  /\ \E good \in BOOLEAN :
       /\ IF updater.dry THEN UNCHANGED main /\ Free /\ good
          ELSE \/ main[f].sha = updater.read[f] /\ Write(f, "absent") /\ IF good THEN Free ELSE Spend
               \/ main[f].sha # updater.read[f] /\ UNCHANGED main /\ ~good /\ Free
               \/ UNCHANGED main /\ ~good /\ Spend
       /\ updater' = [updater EXCEPT !.todo = @ \ {f}, !.good = @ /\ good]

CleanupDone ==
  /\ UAt("clean") /\ updater.todo = {} /\ Free /\ Keeps
  /\ updater' = [updater EXCEPT
       !.phase = IF updater.has /\ ~updater.force THEN "validate"
                 ELSE IF updater.good THEN "get" ELSE "end"]

\* The configuration that is there: complete, to be completed, or not JSON.
Validate ==
  /\ UAt("validate") /\ Free /\ Keeps
  /\ updater' =
       CASE main[Config].val = "absent" -> [updater EXCEPT !.phase = "get", !.file = Config]
         [] main[Config].val = "full"   -> [updater EXCEPT !.phase = "end"]
         [] main[Config].val = "broken" -> [updater EXCEPT !.phase = "end", !.good = FALSE]
         [] main[Config].val = "bare"   -> [updater EXCEPT !.phase = "patch",
                                                           !.read[Config] = main[Config].sha]

UpdateConfiguration ==
  /\ UAt("patch") /\ UNCHANGED clone
  /\ \E good \in BOOLEAN :
       /\ IF updater.dry THEN UNCHANGED main /\ Free /\ good
          ELSE \/ main[Config].sha = updater.read[Config] /\ Write(Config, "full")
                  /\ IF good THEN Free ELSE Spend
               \/ main[Config].sha # updater.read[Config] /\ UNCHANGED main /\ ~good /\ Free
               \/ UNCHANGED main /\ ~good /\ Spend
       /\ updater' = [updater EXCEPT !.phase = "end", !.good = @ /\ good]

\* A file is created in three requests: look for one of that name, remove it,
\* put the new one. A removal that fails does not stop the creation.
GetExisting ==
  /\ UAt("get") /\ Free /\ Keeps
  /\ updater' =
       IF updater.dry THEN [updater EXCEPT !.phase = "end"]
       ELSE IF main[updater.file].val = "absent" THEN [updater EXCEPT !.phase = "put"]
       ELSE [updater EXCEPT !.phase = "del", !.read[updater.file] = main[updater.file].sha]

DeleteExisting ==
  /\ UAt("del") /\ UNCHANGED clone
  /\ \/ main[updater.file].sha = updater.read[updater.file] /\ Write(updater.file, "absent") /\ Free
     \/ main[updater.file].sha # updater.read[updater.file] /\ UNCHANGED main /\ Free
     \/ UNCHANGED main /\ Spend
  /\ updater' = [updater EXCEPT !.phase = "put"]

\* The configuration follows the workflow whether or not that was created.
NextFile(good) ==
  IF updater.file = Flow THEN [updater EXCEPT !.phase = "get", !.file = Config, !.good = @ /\ good]
  ELSE [updater EXCEPT !.phase = "end", !.good = @ /\ good]
PutNewMut ==
  /\ UAt("put") /\ UNCHANGED clone
  /\ \/ Write(updater.file, IF updater.file = Flow THEN "reusable" ELSE "full") /\ Free
     \/ UNCHANGED main /\ Spend
  /\ updater' = NextFile(TRUE)
PutNew ==
  /\ UAt("put") /\ UNCHANGED clone
  /\ \E good \in BOOLEAN :
       /\ \/ /\ main[updater.file].val = "absent"
             /\ Write(updater.file, IF updater.file = Flow THEN "reusable" ELSE "full")
             /\ IF good THEN Free ELSE Spend
          \/ main[updater.file].val # "absent" /\ UNCHANGED main /\ ~good /\ Free
          \/ UNCHANGED main /\ ~good /\ Spend
       /\ updater' = NextFile(good)

EndUpdate == UAt("end") /\ updater' = NoUpdate /\ Free /\ Keeps

UpdaterStep ==
  \/ StartUpdate \/ RequestRaises \/ ListWorkflows \/ Detect \/ CleanupDone \/ Validate
  \/ UpdateConfiguration \/ GetExisting \/ DeleteExisting \/ PutNew \/ EndUpdate
  \/ \E f \in updater.todo : RemoveOld(f)

=============================================================================
