--------------------------- MODULE RepositoryFiles ---------------------------
(***************************************************************************)
(* The files of a repository that programs of ghcommon keep up, on the      *)
(* default branch and in a clone the operator works in, and the people who  *)
(* edit them. GitHub and git are external.                                  *)
(*                                                                         *)
(* Abstractions: a file is described by how it compares with the copy in    *)
(* ghcommon, or by what a program looks for in it; a file on the branch has *)
(* a number that changes with every write, for its sha. What goes wrong,    *)
(* what people do and the runs beyond the repeated one share one budget.    *)
(***************************************************************************)
EXTENDS FiniteSets, Faults

CONSTANTS
  Shared,   \* files that are copied one by one
  Folder,   \* files of a directory that is copied as a whole
  Own,      \* files of the repository in that directory
  Retired,  \* files that are to be removed
  OldFlows  \* workflows of an older automation

Flow == "unified-automation.yml"
Config == "unified-automation-config.json"
Automation == {Flow, Config} \cup OldFlows
Copied == Shared \cup Folder
Files == Copied \cup Own \cup Retired \cup Automation

\* Of a copied file: the version it carries is older or newer than that of
\* ghcommon, or the content is another with no version.
Compared == {"older", "newer", "plain", "source"}
\* Of the workflow: it calls the reusable one. Of the configuration: it has the
\* duplicate settings.
Values(f) ==
  CASE f \in Copied -> {"absent"} \cup Compared
    [] f = Flow     -> {"absent", "other", "reusable"}
    [] f = Config   -> {"absent", "broken", "bare", "full"}
    [] OTHER        -> {"absent", "present"}
Edited(f) == Values(f) \ {"source"}

ASSUME FilesAssumption ==
  /\ IsFiniteSet(Files)
  /\ Copied \cap (Own \cup Retired \cup Automation) = {}
  /\ Own \cap (Retired \cup Automation) = {} /\ Retired \cap Automation = {}
  /\ Flow \notin OldFlows /\ Config \notin OldFlows

VARIABLES
  main,    \* the default branch: each file with its number
  clone    \* the operator's: the commit it is at and its files

Version == [val : UNION {Values(f) : f \in Files}, sha : Nat]
Clone == [base : [Files -> Version], files : [Files -> UNION {Values(f) : f \in Files}]]
TypeOfTree(files) == \A f \in Files : files[f] \in Values(f)
Content(commit) == [f \in Files |-> commit[f].val]

Write(f, v) == main' = [main EXCEPT ![f] = [val |-> v, sha |-> @.sha + 1]]

\* The branch after a push of a tree: what differs gets a new number.
Pushed(files) ==
  [f \in Files |-> IF files[f] = main[f].val THEN main[f]
                   ELSE [val |-> files[f], sha |-> main[f].sha + 1]]

\* A repository that has never been kept up, or one that was long ago.
FilesInit ==
  /\ \E kept \in BOOLEAN :
       main = [f \in Files |->
         [sha |-> 1,
          val |-> CASE f \in Copied -> IF kept THEN "older" ELSE "absent"
                    [] f = Flow     -> IF kept THEN "reusable" ELSE "other"
                    [] f = Config   -> IF kept THEN "bare" ELSE "absent"
                    [] OTHER        -> "present"]]
  /\ clone = [base |-> main, files |-> Content(main)]
  /\ spent = 0

-----------------------------------------------------------------------------
(* People.                                                                  *)

EditOnline(f) ==
  /\ Spend
  /\ \E v \in Edited(f) \ {main[f].val} : Write(f, v)
  /\ UNCHANGED clone

EditClone(f) ==
  /\ Spend
  /\ \E v \in Edited(f) \ {clone.files[f]} : clone' = [clone EXCEPT !.files[f] = v]
  /\ UNCHANGED main

PushClone ==
  /\ Spend /\ clone.base = main /\ clone.files # Content(main)
  /\ main' = Pushed(clone.files)
  /\ clone' = [clone EXCEPT !.base = main']

PullClone ==
  /\ Spend /\ clone.base # main
  /\ clone' = [base |-> main, files |-> Content(main)]
  /\ UNCHANGED main

=============================================================================
