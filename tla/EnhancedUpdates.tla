-------------------------- MODULE EnhancedUpdates --------------------------
(***************************************************************************)
(* enhanced_issue_manager.py process-chronological on the same directory:   *)
(* the updates of its files are put in the order of their dates, parents    *)
(* first, validated together, and handed one by one to a placeholder that   *)
(* makes no request; their files are moved all the same.                    *)
(*                                                                         *)
(* Abstractions: the updates of people have dates, any, and delete files     *)
(* have none, nor a guid of anyone else. A dry run changes nothing and is    *)
(* left out; migrate-format only adds dates.                                *)
(* A name ending in Mut is a faulty variant of the definition after it; no  *)
(* specification uses it.                                                   *)
(***************************************************************************)
EXTENDS IssueUpdates, SequencesExt

VARIABLE chrono

NoChrono == [phase |-> "idle", plan |-> <<>>, batch |-> {}]

ChronoTypeOK ==
  /\ chrono.phase \in {"idle", "go", "refused"}
  /\ \A i \in DOMAIN chrono.plan : chrono.plan[i] \in chrono.batch
  /\ chrono.batch \subseteq UpdatesOf(AllFiles)

\* The legacy file is not in the directory.
Batch == UpdatesOf(pending \ {Legacy})
\* Of updates with the same guid the last one stands for all.
WithGuid(s, g) == {i \in DOMAIN s : At(s[i]).guid = g}
LastOf(s, g) == s[CHOOSE i \in WithGuid(s, g) : \A j \in WithGuid(s, g) : j <= i]

Named(s) == {At(s[i]).guid : i \in DOMAIN s} \ {None}

\* What is placed for a guid: the parent before it, as far as that is among the
\* updates and not placed yet, and the parent's before that.
LineageMut(s) == [done \in SUBSET Named(s) |-> [g \in Named(s) |->
                    IF g \in done THEN <<>> ELSE <<LastOf(s, g)>>]]
Lineage(s) ==
  LET line[done \in SUBSET Named(s)] == [g \in Named(s) |->
        LET p == At(LastOf(s, g)).parent
            before == IF p \in Named(s) THEN line[done \cup {g}][p] ELSE <<>>
        IN IF g \in done THEN <<>> ELSE Append(before, LastOf(s, g))]
  IN line

Placed(resolved) == {At(resolved[i]).guid : i \in DOMAIN resolved} \ {None}
Visit(s, resolved, u) ==
  IF At(u).guid = None THEN Append(resolved, u)
  ELSE resolved \o Lineage(s)[Placed(resolved)][At(u).guid]
Resolve(s) ==
  LET resolved[n \in 0..Len(s)] == IF n = 0 THEN <<>> ELSE Visit(s, resolved[n - 1], s[n])
  IN resolved[Len(s)]

\* An update names an issue or a parent, and a parent is created before it.
Follows == {"update", "comment", "close"}
Misplaced(s, i) ==
  /\ At(s[i]).kind \in Follows
  /\ IF At(s[i]).parent = None THEN At(s[i]).number = 0
     ELSE ~\E j \in 1..(i - 1) : At(s[j]).kind = "create" /\ At(s[j]).guid = At(s[i]).parent

\* Dated and undated updates cannot be compared: the sort raises.
Sortable(F) == F \cap DeleteFiles \in {{}, F}
StartChrono ==
  /\ chrono.phase = "idle" /\ Batch # {} /\ Sortable(pending \ {Legacy}) /\ Spend
  /\ \E order \in SetToSeqs(Batch) :
       LET plan == Resolve(order)
       IN chrono' = [phase |-> IF \E i \in DOMAIN plan : Misplaced(plan, i) THEN "refused" ELSE "go",
                     plan |-> plan, batch |-> Batch]
  /\ UNCHANGED <<issues, directory, run, posted, blind, tried, lost>>

\* What the placeholder takes for done; a deletion is not.
Placeholder(u) == At(u).kind \in Follows \cup {"create"}

\* The file moves with the first of its updates, to processed/ or to failed/;
\* for the others, and when the move fails, nothing happens.
Treated ==
  chrono' = IF Len(chrono.plan) = 1 THEN NoChrono ELSE [chrono EXCEPT !.plan = Tail(@)]
Treat(u) ==
  /\ chrono.phase = "go" /\ u = Head(chrono.plan) /\ Treated
  /\ LET moved == pending \cap {u[1]} IN
     \/ /\ NoFault /\ pending' = pending \ moved
        /\ IF Placeholder(u) THEN archived' = archived \cup moved /\ UNCHANGED malformed
           ELSE malformed' = malformed \cup moved /\ UNCHANGED archived
        /\ lost' = lost \cup UpdatesOf(moved)
     \/ moved # {} /\ Fault /\ UNCHANGED <<directory, lost>>
  /\ UNCHANGED <<issues, run, posted, blind, tried>>

\* The refusal is reported; or the process dies.
EndChrono ==
  /\ \/ chrono.phase = "refused" /\ NoFault
     \/ chrono.phase = "go" /\ Fault
  /\ chrono' = NoChrono
  /\ UNCHANGED <<issues, directory, run, posted, blind, tried, lost>>

ChronoStep ==
  StartChrono \/ EndChrono \/ (\E u \in chrono.batch : chrono.plan # <<>> /\ Treat(u))

=============================================================================
