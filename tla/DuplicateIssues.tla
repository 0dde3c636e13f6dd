--------------------------- MODULE DuplicateIssues ---------------------------
(***************************************************************************)
(* The two programs that look for issues of the same title, beside the      *)
(* updates: issue_manager.py close-duplicates closes the open ones but the  *)
(* oldest, duplicate_cleanup.py writes delete files for closed ones that    *)
(* nothing marks as duplicates, and the next run of the updates deletes     *)
(* them. People open, close and reopen issues all along.                    *)
(*                                                                         *)
(* Abstractions: an issue has a duplicate label when it has the comment.    *)
(* The candidates of a pass are looked up and their files written in the    *)
(* step of its second listing. Numbers stand for creation dates.            *)
(* A name ending in Mut is a faulty variant of the definition after it; no  *)
(* specification uses it.                                                   *)
(***************************************************************************)
EXTENDS EnhancedUpdates

CONSTANT Closings   \* passes of close-duplicates, by the order they start in

\* At the start no issue was closed by close-duplicates.
ASSUME PassesAssumption ==
  /\ Closings \subseteq Nat /\ Scans \subseteq Nat
  /\ \A s \in Starts : \A n \in DOMAIN s : s[n].by # "closer"

VARIABLES
  closer,   \* each pass of close-duplicates
  scanner   \* each pass of duplicate_cleanup.py

vars == <<uvars, chrono, closer, scanner>>

PassesTypeOK ==
  /\ closer \in [Closings -> [phase : {"start", "close", "note", "end"},
                              plan : SUBSET (Numbers \X Numbers), dup : 0..MaxIssues]]
  /\ scanner \in [Scans -> [phase : {"start", "open", "end"},
                            closed : SUBSET (Numbers \X Titles)]]
TypeOK == UpdatesTypeOK /\ ChronoTypeOK /\ PassesTypeOK

Init ==
  /\ UpdatesInit /\ chrono = NoChrono
  /\ closer = [c \in Closings |-> [phase |-> "start", plan |-> {}, dup |-> 0]]
  /\ scanner = [s \in Scans |-> [phase |-> "start", closed |-> {}]]

-----------------------------------------------------------------------------
(* close-duplicates.                                                        *)

\* The oldest listed issue of the title stays.
CanonicalMut(list, n) ==
  CHOOSE m \in list : /\ issues[m].title = issues[n].title
                      /\ \A k \in list : issues[k].title = issues[n].title => m >= k
Canonical(list, n) ==
  CHOOSE m \in list : /\ issues[m].title = issues[n].title
                      /\ \A k \in list : issues[k].title = issues[n].title => m <= k
Plan(list) == {p \in list \X list : p[2] = Canonical(list, p[1]) /\ p[1] # p[2]}

ListOpen(c) ==
  /\ closer[c].phase = "start" /\ Spend
  /\ \A d \in Closings : d < c => closer[d].phase # "start"
  /\ \E list \in Newest({"open"}) :
       closer' = [closer EXCEPT ![c].plan = Plan(list),
                                ![c].phase = IF Plan(list) = {} THEN "end" ELSE "close"]
  /\ UNCHANGED issues

Planned(c, p) == closer[c].phase = "close" /\ p \in closer[c].plan
Dropped(c, p, phase) ==
  closer' = [closer EXCEPT ![c].plan = @ \ {p},
    ![c].phase = IF phase = "close" /\ closer[c].plan = {p} THEN "end" ELSE phase,
    ![c].dup = IF phase = "note" THEN p[1] ELSE 0]

\* Without an answer the issue gets no comment, closed or not.
CloseDuplicate(c, p) ==
  /\ Planned(c, p)
  /\ \/ Lives(p[1]) /\ CloseAs(p[1], "closer") /\ NoFault /\ Dropped(c, p, "note")
     \/ Lives(p[1]) /\ CloseAs(p[1], "closer") /\ Fault /\ Dropped(c, p, "close")
     \/ Lives(p[1]) /\ UNCHANGED issues /\ Fault /\ Dropped(c, p, "close")
     \/ ~Lives(p[1]) /\ UNCHANGED <<issues, spent>> /\ Dropped(c, p, "close")

\* The result of the comment is ignored.
NoteDuplicate(c) ==
  /\ closer[c].phase = "note"
  /\ \/ Lives(closer[c].dup) /\ Note(closer[c].dup) /\ NoFault
     \/ Lives(closer[c].dup) /\ UNCHANGED issues /\ Fault
     \/ ~Lives(closer[c].dup) /\ UNCHANGED <<issues, spent>>
  /\ closer' = [closer EXCEPT ![c].dup = 0,
                  ![c].phase = IF closer[c].plan = {} THEN "end" ELSE "close"]

CloserCrash(c) ==
  /\ closer[c].phase \in {"close", "note"} /\ Fault
  /\ closer' = [closer EXCEPT ![c] = [phase |-> "end", plan |-> {}, dup |-> 0]]
  /\ UNCHANGED issues

CloserStep(c) ==
  \/ ListOpen(c) \/ (\E p \in closer[c].plan : CloseDuplicate(c, p))
  \/ NoteDuplicate(c) \/ CloserCrash(c)

-----------------------------------------------------------------------------
(* duplicate_cleanup.py: the closed issues are listed first.                *)

StartsScan(s) ==
  /\ scanner[s].phase = "start" /\ Spend
  /\ \A d \in Scans : d < s => scanner[d].phase # "start"
ListClosed(s) ==
  /\ StartsScan(s)
  /\ \E list \in Newest({"closed"}) :
       scanner' = [scanner EXCEPT ![s].phase = "open",
                        ![s].closed = {<<n, Norm[issues[n].title]>> : n \in list}]
  /\ UNCHANGED <<issues, pending>>

\* The issue a group keeps: its oldest open one, else its oldest.
Oldest(S) == CHOOSE n \in S : \A m \in S : n <= m
Group(t, entries) == {e[1] : e \in {x \in entries : x[2] = t}}
Kept(t, closed, open) ==
  IF Group(t, open) # {} THEN Oldest(Group(t, open)) ELSE Oldest(Group(t, closed))

\* What is listed as closed, is not the one kept and is not marked.
DeletionsMut(s, open) ==
  {f \in DeleteFiles :
     /\ f[3] = s /\ f[1] \in Numbers
     /\ \E e \in scanner[s].closed :
          e[1] = f[1] /\ f[2] = Kept(e[2], scanner[s].closed, open)}
Deletions(s, open) ==
  {f \in DeleteFiles :
     /\ f[3] = s /\ f[1] \in Numbers /\ f[1] # f[2]
     /\ \E e \in scanner[s].closed :
          e[1] = f[1] /\ f[2] = Kept(e[2], scanner[s].closed, open)}
Unmarked(F) == {f \in F : ~issues[f[1]].noted}

\* A comment that cannot be read is no comment; a file that cannot be
\* written is left out.
Scan(s) ==
  /\ scanner[s].phase = "open"
  /\ \E list \in Newest({"open"}) :
       LET all == Deletions(s, {<<n, Norm[issues[n].title]>> : n \in list})
       IN /\ \E F \in SUBSET all :
               /\ pending' = pending \cup F
               /\ IF list = Matching({"open"}) /\ F = Unmarked(all) THEN NoFault ELSE Fault
  /\ scanner' = [scanner EXCEPT ![s] = [phase |-> "end", closed |-> {}]]
  /\ UNCHANGED issues

ScannerStep(s) == ListClosed(s) \/ Scan(s)

-----------------------------------------------------------------------------

Next ==
  \/ (RunStep \/ Crash \/ \E f \in Files : Arrive(f)) /\ UNCHANGED <<chrono, closer, scanner>>
  \/ ChronoStep /\ UNCHANGED <<closer, scanner>>
  \/ /\ PersonStep
     /\ UNCHANGED <<directory, run, posted, blind, tried, lost, chrono, closer, scanner>>
  \/ /\ \E c \in Closings : CloserStep(c)
     /\ UNCHANGED <<directory, run, posted, blind, tried, lost, chrono, scanner>>
  \/ /\ \E s \in Scans : ScannerStep(s)
     /\ UNCHANGED <<archived, malformed, run, posted, blind, tried, lost, chrono, closer>>

Spec == Init /\ [][Next]_vars
\* A run of the updates that has started goes on; nobody has to start one.
FairSpec ==
  Spec /\ WF_vars(run.phase # "idle" /\ UNCHANGED <<chrono, closer, scanner>> /\ RunStep)

-----------------------------------------------------------------------------
(* Properties.                                                              *)

\* A creation is carried out at most once for its guid, and a comment for its
\* guid and its issue, over all runs, crashes and lost answers, unless it was
\* itself not looked for, or in a list that was cut, failed or has an issue
\* without a body, or the issue lost its marker to an update or was deleted
\* (_check_guid_uniqueness, _comment_guid_exists).
Hidden(g) ==
  \E n \in Numbers : issues[n].guid = g /\ (issues[n].body = "text" \/ ~Lives(n))
NoTwins ==
  \A n \in 0..MaxIssues, g \in Guids :
    posted[<<n, g>>] > 1 => <<n, g>> \in blind \/ (n = 0 /\ Hidden(g))

\* A file is archived only when each of its updates was tried, or by the run
\* that found one of its updates already done; one that arrives during a run
\* waits for the next (_archive_processed_files). The legacy file is another
\* matter: it is marked without a look at what was loaded; and the enhanced
\* manager carries nothing out.
ArchivedAfterTry ==
  [][\A f \in (archived' \ archived) \ {Legacy} :
       UpdatesOf({f}) \subseteq tried' \/ f \in run'.moved \/ run' = run]_vars

\* An update file may leave the number of the issue to close open and name the
\* guid of the creation instead, in create-issue-update.sh close null: once the
\* run made that issue, the closing closes it (_close_issue).
PendingCloses ==
  [][\A u \in run.todo \ run'.todo, p \in run.map :
       /\ At(u).kind = "close" /\ At(u).number = 0 /\ At(u).parent = p[1]
       /\ run'.phase \in {"next", "end"} /\ Lives(p[2]) /\ UNCHANGED spent
       => issues'[p[2]].state = "closed"]_vars

\* If the updates are run again and again while there are files, every creation
\* in the directory gets its issue, finds its title taken, or is given up by an
\* archive after it failed, or with a file that the enhanced manager moves
\* (process_updates).
RunAgain == []<>(run.phase # "idle" \/ UpdatesOf(pending) = {})
Delivered ==
  RunAgain => \A f \in Files : \A i \in DOMAIN Content[f] :
    Content[f][i].kind = "create" =>
      (f \in pending ~> \/ posted[<<0, Content[f][i].guid>>] > 0
                        \/ \E n \in Numbers : issues[n].title = Content[f][i].title
                        \/ <<f, i>> \in lost)

\* The enhanced manager finds fault only with an update that is itself at
\* fault, whatever the dates: one that refers to nothing, has no guid to be
\* ordered by, or whose parent is not created once and outright in the batch
\* (_resolve_dependencies before _validate_update_sequence).
Alone(g, U) == \A v, w \in {u \in U : At(u).guid = g} : v = w
AtFault(u, U) ==
  \/ At(u).number = 0 /\ At(u).parent = None
  \/ At(u).guid = None \/ ~Alone(At(u).parent, U)
  \/ ~\E c \in U : At(c).kind = "create" /\ At(c).guid = At(u).parent /\ At(c).parent = None
OnlyMalformedRefused ==
  chrono.phase = "refused" =>
    \A i \in DOMAIN chrono.plan :
      Misplaced(chrono.plan, i) => AtFault(chrono.plan[i], chrono.batch)

\* close-duplicates leaves one: below an issue it closed there is an older one
\* of the same title that it did not close, whatever the passes list and in
\* whatever order they close; renamed issues apart (_close_duplicate_group).
LowestStays ==
  \A n \in Numbers : issues[n].by = "closer" /\ ~issues[n].renamed =>
    \E m \in 1..(n - 1) :
      \/ issues[m].renamed
      \/ issues[m].title = issues[n].title /\ issues[m].by # "closer"

\* No pass deletes the issue it names as the one to keep, even when issues
\* are reopened and closed between its two listings, unless that issue was also
\* renamed (scan_and_cleanup).
KeptIsKept ==
  \A f, h \in (pending \cup archived \cup malformed) \cap DeleteFiles : f[3] = h[3] => f[2] # h[1] \/ issues[f[2]].renamed

=============================================================================
