---------------------------- MODULE IssueTracker ----------------------------
(***************************************************************************)
(* The issues of the GitHub repository as the scripts reach them through    *)
(* GitHubAPI of issue_manager.py. GitHub itself is external: what it does   *)
(* with a request is modelled from how the scripts use it.                  *)
(*                                                                         *)
(* Abstractions: an issue keeps its title, whether its body still holds the *)
(* guid marker it was created with, its state and whether a "Duplicate of"  *)
(* comment or label is on it. What goes wrong, and what people do, comes out  *)
(* of one bounded budget.                                                   *)
(* A name ending in Mut is a faulty variant of the definition after it; no  *)
(* specification uses it.                                                   *)
(***************************************************************************)
EXTENDS Sequences, FiniteSets, Faults

CONSTANTS
  Titles, Guids,
  Norm,        \* a title in lower case without punctuation
  Starts,      \* the sequences of issues the repository may begin with
  Bodies,      \* of the issues people open
  MaxIssues,   \* bound on their number
  None

Issue == [title : Titles,
          guid : Guids \cup {None},              \* of the update that made it
          body : {"marked", "text", "null"},     \* marked: with that guid
          state : {"open", "closed", "deleted"},
          by : {"nobody", "closer", "other"},    \* who closed or deleted it
          renamed : BOOLEAN,
          noted : BOOLEAN]                       \* says it is a duplicate

ASSUME TrackerAssumption ==
  /\ None \notin Guids \cup Titles /\ Norm \in [Titles -> Titles]
  /\ \A s \in Starts : s \in Seq(Issue) /\ Len(s) <= MaxIssues
  /\ Bodies \subseteq {"text", "null"}
  /\ MaxIssues \in Nat

VARIABLE issues   \* the sequence of all issues by number, the deleted ones too

tracker == <<issues, spent>>

Numbers == DOMAIN issues
Lives(n) == n \in Numbers /\ issues[n].state # "deleted"
Has(n, s) == n \in Numbers /\ issues[n].state = s
Fault == Spend
NoFault == Free

TrackerTypeOK ==
  /\ issues \in Seq(Issue)
  /\ spent \in 0..Budget

TrackerInit ==
  /\ issues \in Starts
  /\ spent = 0

NewIssue(t, g, b) ==
  [title |-> t, guid |-> g, body |-> b, state |-> "open", by |-> "nobody",
   renamed |-> FALSE, noted |-> FALSE]

-----------------------------------------------------------------------------
(* Requests.                                                                *)

\* create_issue: the next number, open.
Create(t, g, b) ==
  /\ Len(issues) < MaxIssues
  /\ issues' = Append(issues, NewIssue(t, g, b))

\* update_issue with state=closed, for close_issue. The answer is 200 for an
\* issue that is closed already, an error for one that is gone.
CloseAs(n, who) ==
  issues' = [issues EXCEPT ![n].state = "closed",
                           ![n].by = IF Has(n, "open") THEN who ELSE @]

\* update_issue with the title and body of an update.
Patch(n, t, replacesBody) ==
  issues' = [issues EXCEPT
    ![n].title = IF t = None THEN @ ELSE t,
    ![n].renamed = @ \/ (t # None /\ t # issues[n].title),
    ![n].body = IF replacesBody THEN "text" ELSE @]

\* The deleteIssue mutation.
Delete(n) == issues' = [issues EXCEPT ![n].state = "deleted", ![n].by = "other"]

\* add_comment with "Duplicate of".
Note(n) == issues' = [issues EXCEPT ![n].noted = TRUE]

\* get_all_issues lists by page, the newest first, and keeps what it has when
\* a page fails or comes short because pull requests were taken out of it.
Matching(s) == {n \in Numbers : issues[n].state \in s}
Newest(s) == {{n \in Matching(s) : n > k} : k \in 0..Len(issues)}
Listing(s, answer) == IF answer = Matching(s) THEN NoFault ELSE Fault

-----------------------------------------------------------------------------
(* People.                                                                  *)

Opens(t, b) == Spend /\ Create(t, None, b)
Closes(n) ==
  Spend /\ Has(n, "open") /\ CloseAs(n, "other")
Reopens(n) ==
  /\ Spend /\ Has(n, "closed")
  /\ issues' = [issues EXCEPT ![n].state = "open", ![n].by = "nobody"]

PersonStep ==
  \/ \E t \in Titles, b \in Bodies : Opens(t, b)
  \/ \E n \in Numbers : Closes(n) \/ Reopens(n)

=============================================================================
