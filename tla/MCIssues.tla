------------------------------ MODULE MCIssues ------------------------------
(* An instance of DuplicateIssues for TLC. *)
EXTENDS DuplicateIssues

CONSTANTS f1, f2, g1, g2, g3, t1, t2

\* Two open issues of one title.
MCStarts == {<<NewIssue(t1, None, "text"), NewIssue(t1, None, "text")>>}

MCNorm == [t \in Titles |-> t]

Blank == [kind |-> "create", guid |-> None, title |-> None, text |-> FALSE,
          number |-> 0, parent |-> None]

\* A creation after an update and a closing of the new issue, the closing
\* without a guid; a comment, a closing and an action nobody knows.
MCContent ==
  [f \in Files |->
    IF f = f1 THEN <<[Blank EXCEPT !.kind = "update", !.guid = g3, !.parent = g1, !.text = TRUE],
                     [Blank EXCEPT !.kind = "close", !.parent = g1],
                     [Blank EXCEPT !.guid = g1, !.title = t2]>>
    ELSE <<[Blank EXCEPT !.kind = "comment", !.guid = g2, !.number = 1, !.text = TRUE],
           [Blank EXCEPT !.kind = "close", !.number = 1],
           [Blank EXCEPT !.kind = "typo"]>>]

=============================================================================
